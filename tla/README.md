# Verification of the Allwinner device HALs

The repository is an Android device tree: hardware abstraction layers (HALs)
written in C and C++, prebuilt files and configuration. This directory holds
TLA+ modules translated from the C and C++ code, the TLC configurations that
check them, and TLAPS proofs about them. `PROJECT.json` maps every definition to
the lines it models.

## 1. Inventory

Paths are relative to `src/hardware/`. "Hard" is what the component's properties are for.

| Component | State | Operations and interaction | Hard |
|---|---|---|---|
| OSAL queue, `camera/OSAL_Queue.c` | ring of heap nodes, two pointers, count, mutex | create, terminate, queue, dequeue, set-element; used by the capture device and the HAL control | full/empty boundary, failed allocation, duplicate test |
| Capture device, `camera/V4L2CameraDevice2.cpp` | buffers in the driver, mappings, reference counts, two queues, thread states, picture mode | connect, start, stop, deliver; capture, preview, picture, smart and continuous threads; called by the HAL control, calls the callback notifier and the preview window | three mutexes, six threads, frames kept over restarts, single unguarded waits |
| HAL control, `camera/CameraHardware2.cpp` | parameters, preview/recording/picture flags, command queue, focus and face detection states | the camera service's calls; command, focus, face and picture-timing threads | calls made without the lock, lost wakeups of the command thread, late results of a detector, closing under the focus thread |
| Callback notifier, `camera/CallbackNotifier.cpp`, `BufferListManager.cpp` | enabled messages, recording flag, picture list, file descriptors | frame and picture callbacks, save-picture thread | pairing of pictures with files, end of the save thread, reference count raised without the lock |
| Preview window, `camera/PreviewWindow.cpp` | window, cached geometry | set window, start, stop, per-frame display | a cache that outlives the window |
| Factory and configuration, `camera/HALCameraFactory.cpp`, `CCameraConfig.cpp`, `CameraList.cpp` | list of cameras, open devices | list, open, close | two cameras on one node |
| Scaling and decoding, `camera/scaler.c`, `Libve_Decoder2.c` | pixels | conversion | none that a model shows |
| Audio HAL, `audio/audio_hw.c` | mode, route, streams with PCM handles, echo reference, list of cards, capture ring | write, read, standby, parameters, mode; codec and modem calls | three mutexes, tests before the mutex, cards that come and go, a ring read outside its lock |
| Codec library and plans, `audio/libcodec_audio` | mixer controls, gains, volume tables | routes for normal, call, FM, factory test | routes that do not undo each other |
| Radio audio, `audio/libril_audio` | modem path and volume | call volume and path | a line that stays open |
| Sensor HAL, `libhardware/libsensors` | detected drivers, use counts, delays, event ring | activate, set delay, poll | one driver for several sensors, ring wrap |
| Bluetooth vendor library, `realtek/bluetooth/rtl8723bs/libbt-vendor` | configuration state, UART speeds, firmware position, alarms, power | start-up callbacks, version questions, download | late answers, packet arithmetic, two ends that change speed |
| Secure storage, `libhardware/libsec_storage` | private table, map block and object blocks in two copies, cached map | write item, read item | power loss, failed block writes, two stores that must agree |
| Karaoke microphone, `libkaraokemedia` | mixer switches, started flag | init, start, stop, release, volume | switches that only a stop turns off |
| USB Bluetooth service, `../usbbt` | whether Bluetooth is to be re-enabled | insert, remove and disable messages from a local socket | an adapter that is still switching off when it is asked to switch on |
| Key master, remote control, UART service, wlan driver command library, tools, layouts | little or none | see `PROJECT.json` | |

Docs and tests: the repository has one document
(`libsec_storage/readme.txt`) and no tests; what the code promises is in its
headers and comments.

What makes each modelled component correct:

* queue: it is a bounded first-in first-out queue; its redundant views agree;
  tear-down frees everything;
* capture device: every buffer is in the driver or has a holder who will give it
  back, never both, and neither only when the driver refuses it; nobody looks at
  memory that is unmapped; stopping terminates;
* HAL control: the preview comes back after a picture, window and device stay
  in step, a closed camera is released, the driver has the reported controls;
* pictures: each one goes to the file the application opened for it;
* audio: in a call the modem has the codec for itself; the route is that of the
  mode; nothing is written to a handle or an echo reference that is gone; what
  is captured from the playback is what was played;
* sensors: a sensor in use is on and its events stay in order;
* Bluetooth: the controller gets the whole firmware once, at one speed, and the
  stack gets an answer;
* secure storage: an acknowledged write is what a read returns, whatever one
  power loss and one block failure leave of the two stores.

## 2. Modules

| Module | Models | Used by |
|---|---|---|
| `BoundedFifo` | abstract: a FIFO of limited capacity that may be created and terminated | `OSALQueue` refines it |
| `OSALQueue` | `OSAL_Queue.c` | `MCOSALQueue`, `OSALQueueProofs` |
| `MCOSALQueue` | instance with two elements of each kind | runs |
| `OSALQueueProofs` | inductive invariant, refinement, theorems | |
| `V4L2CameraDevice` | `V4L2CameraDevice2.cpp` with the calls `CameraHardware2.cpp` and `CallbackNotifier.cpp` make on frames | runs directly |
| `V4L2CameraDeviceProofs` | inductive invariants, theorems | |
| `SecureStorage` | `api.c`, `fetch_env.c`, `secure_storage.c` (eMMC) | `MCSecureStorage` |
| `MCSecureStorage` | two threads, two items, two values | runs |
| `SecureStorageProofs` | inductive invariants of the mutex and of what reads return, theorems | |
| `CameraHardware` | `CameraHardware2.cpp`: calls, command thread, pictures, recording | runs directly |
| `CameraHardwareProofs` | inductive invariant, theorems | |
| `CameraFocus` | `CameraHardware2.cpp`: focus thread against connect and clean-up | `MCHalParts` |
| `CameraParameters` | `CameraHardware2.cpp`: `setParameters` and the commands it queues | `MCHalParts` |
| `FaceDetection` | `CameraHardware2.cpp`: face, smile and blink detection, smart pictures | `MCHalParts` |
| `CallbackNotifier` | `CallbackNotifier.cpp`, `BufferListManager.cpp` | `MCHalParts` |
| `PreviewWindow` | `PreviewWindow.cpp` | `MCHalParts` |
| `HALCameraFactory` | `HALCameraFactory.cpp`, the counts of `CCameraConfig.cpp` | `MCHalParts` |
| `Sensors` | `libsensors` | `MCHalParts` |
| `CodecRoutes` | `libcodec_audio`, `libril_audio` and their calls in `audio_hw.c` | `MCHalParts` |
| `PcmManager` | `audio_hw.c`: the ring from playback to capture | `MCHalParts` |
| `AudioDevices` | `audio_hw.c`: the list of sound cards | `MCHalParts` |
| `KaraokeMic` | `micphone.c`, `com_karaoke_micphone.cpp` | `MCHalParts` |
| `AudioHal` | `audio_hw.c`: streams, mode, mutexes | `MCBtAudio` |
| `BtVendor` | `libbt-vendor` | `MCBtAudio` |
| `MCHalParts`, `MCBtAudio` | instances: a behaviour chooses one part and takes only its steps | runs |
| `AudioHalProofs`, `BtVendorProofs` | inductive invariants, theorems | |
| `CameraPartsProofs`, `AudioPartsProofs` | an inductive invariant and a theorem or two for each part of `MCHalParts` | |

### OSALQueue

One action per function, each under the queue's mutex. `first`, `last`,
`numElem` and `data` are the fields of the C structure; `alloc` is the set of
nodes on the heap. `OSAL_QueueCreate` allocates `maxElem - 1` nodes, hence the
capacity. The refinement mapping to `BoundedFifo` reads the elements off the
ring from `first`. `OSAL_GetElemNum` and `OSAL_SetElemNum` have no caller.

### V4L2CameraDevice

`drv` is the external driver's queue of buffers (QBUF adds, DQBUF takes any one);
`mem`, `slot` and `refCnt` are `mMapMem`, the filled entries of `mV4l2buf` and
their counts. `capPc` is the capture thread's program point, `pc[t]` a consumer's,
`ctl` that of the HAL call in progress. A region under `mCaptureMutex` is one
action; `mObjectLock` is a variable because two threads keep it over a callback. A
condition wait may wake spuriously (`Spurious`) and a signal with no waiter is
lost (`Signal`). The two queues are sequences with the capacities `OSALQueue`
establishes. `EncodeRead`/`EncodeWrite` split the reference increment that
`CallbackNotifier::onNextFrameHW` makes without the mutex. `VIDIOC_QBUF` may fail
for every buffer it is asked to take: `releasePreviewFrame` then has dropped the
last reference and does not try again, so the history `lost` keeps the buffer
until the session ends. Frame contents, V4L2 controls and format negotiation are
left out, and so is the thread exit on a frame larger than the buffer.

### SecureStorage

`priv`, `mapC` and `objC` are what a read finds; `privMedia`, `mapMedia` and
`objMedia` what is on the medium. `fsync` makes them equal. `Crash` replaces
each block written since by its old, its new or a torn content, and clears the
memory. A torn object fails its CRC. A torn map block fails its CRC or, when it
never had a magic number, may pass as a block without one; the private
partition has no checksum, so a torn entry is returned as it is. `sd_read_map`
keeps the read of the uninitialized `have_map_copy0` as a choice of outcomes.
`PrivateFails` stands for every error return of the private partition's open, seek,
read and write; the call then fails, and a failing write is taken to have changed nothing.
Threads are those of one process: `sec_mutex` is not shared between processes.
Assumed of the callers: no item name is a prefix of another one, and no two
threads write one item at the same time.
`allowed`, `may`, `raced`, `bothCut` and `skipped` are history variables that only
properties read.

`ReadsCommitted` says what a read returns, within limits that are the code's:

* one power loss and one failing operation: a second one can take the store that
  the first one left intact;
* a write that skipped the secure storage (`skipped`, see `secure_support`) leaves
  the old value there, which is read first;
* two writers that overwrote each other's private partition (`raced`) have lost an
  entry there; it is missed once a failure makes the partition the only source;
* one power loss can damage both stores of a committed item when it hits one
  thread that rewrites the item's private entry and another one that syncs the
  map (`bothCut`): the private partition is written without `sec_mutex`, and both
  map copies are written before the only `fsync`. The read then returns the torn
  private entry. This takes four calls (a write, two writers at once, a read), one
  more than `secure_storage` makes; the proof covers any number.

### CameraHardware

The service's calls are made by one thread; the command thread is the other.
A step ends at each call on the device or the window, since the other thread may
act in between, so `stack` and `pc` hold where a call goes on. `mObjectLock` is a
variable because `startRecording` and `closeCamera` do not take it. The device is
what these calls read of it (`devState`, `capture`, `picState`); the frame that
ends a picture is `CaptureFrame`, its message `notifyPictureMsg`. With
`WaitsForPicture` an application starts the preview, records or closes only when
no picture is under way. Without it the code does not promise what its comment
says ("Make sure preview is not running", `CameraHardware2.cpp:1804`): a preview
started while a NORMAL picture is awaited loses its first frame to the picture
and pauses. `closeCamera` takes no lock and may still find the command thread at the
end of a picture, also when the application has its picture already: the history
`overlap` marks such a close, after which the command thread may connect the device
of a camera that was reported idle, and the properties say nothing more of the
session.

`CameraFocus`, `CameraParameters` and `FaceDetection` are the threads of the same
class that share nothing with the above but the device. `CameraParameters` keeps
one control for each way of handling a control; the commands' data live in one
slot each, as in `mQueueElement`. The single waits of `cleanupCamera` and
`cleanupCBNotifier` may end without a signal; `fWoke` and `nWoke` mark that this has
happened. A detector may call back after it was stopped and its result is stored;
`sLate` keeps such results, `sOwn` those of the run itself, `sEver` the runs that a
late callback can come from.

### CallbackNotifier

A picture and the file opened for it carry one number, so that `RightFile` can
compare them. Assumed: the application answers a request in time. A late
`setFd` is used for the next picture (`CallbackNotifier.cpp:1196`), which the
model leaves out because the code cannot tell them apart. `nMissed` marks a
clean-up whose signal fell between the save thread's test of its status and its
wait: both then wait for the other, unless a wake-up without a signal saves them.

### HALCameraFactory

The configuration file names up to three cameras, one more than the factory has
room for. `TooMany` is that case: no camera is reported, but the checks of the ids
still count those of the file.

### AudioHal

`aPc` holds the program points of the playback, the record and the control
thread, `aLock` the owners of the hw, output and input mutex. The steps end at a
mutex, at an unprotected read, and within `do_output_standby`, which `out_standby`
and a failed write call without the hw mutex. `aPcm` are the stream's handles,
`aDrv` the cards open in the driver. A NULL handle kills the media server
(`Restart`): that happens when a call starts between `out_write`'s test of the
mode and its mutex, which `HandlesComplete` therefore excludes. A start that fails on its
second card, or whose resampler cannot be made, leaves what it opened (`aHalf`) until
a restart, and a behaviour is not followed further. `do_init_audio_card` shows a
card that comes before it clears the flag left from the time before it went; the
card is in `aComing` in between. `get_echo_reference` reads `active_output`, then
waits for the stream's mutex; a reference given to a stream that has gone to standby
meanwhile is "late" and, once released, "astray", since nobody takes it back.
Accesses that may or may not kill the server (`BadAccess`: a second read of
`active_output`, a write to a released reference) allow a restart and do not force
one. The loop of `out_write` starts at index 16, one past `dev_manager`; the bytes
there are the first of the next object, text that never equals the tested flags, so
the index plays no part. AudioFlinger is assumed to use each stream from one thread
and to close a stream only in standby.

### CodecRoutes, PcmManager, AudioDevices

A codec is a record of the controls that are on, and a route a function of it;
the three plans are three sets of such functions. `kStale` marks a
`set_voice_volume` that used the devices of an earlier route. `PcmManager` counts
samples and keeps their numbers in the ring; each `out_write` hands it the
constant `RESAMPLER_BUFFER_SIZE` as its size, whatever was written
(`CapturesOutput`). One input is open at a time. `qFault` marks a write to a ring
that a close has freed. `AudioDevices` keeps the table of cards with its
persistent properties over restarts.

### Sensors

A driver object holds what its class keeps; conversion and delay of each class
are operators (times in units of 500 ns). The events of a device are numbered, so that
the ring's contents can be compared with what was read. A driver module may
fail to load (`Loadable`); the dummy accelerometer may only when there is another
one. Assumed: the drivers send no event types the classes do not know, and the sensor
service activates a sensor that is not active and deactivates one that is.

### BtVendor

The callbacks form one chain: each answer sends the next command. `bReq` is the
command on the way, `bCtl` what the controller received: bytes in order,
commands, speed. The alarm of a version question may ring before or after the
answer. The controller may leave version questions open or answer `READ_LMP` with an
error, and the stack may refuse buffers and packets; it does not clean up while a
configuration runs. A configuration file may hold a speed code or none: the
controller takes the code, the host goes from the code to a line speed, from there
to a `USERIAL` symbol and to a termios one, each with its fallback to 115200. When no
buffer can be had for the next command, the alarm of the last one stays armed
(`NoBuffer`). A signal handler and a callback are each one step.

### KaraokeMic

A native method is one step, since the application calls from one thread: a
release while another thread is in the half second that a start sleeps would free
the device under it. `mAgain` marks an init without a release, after which the
flags no longer describe the switches.

## 3. Runs

| Run | Instance | Shows |
|---|---|---|
| `osal_queue` | capacity 3, four elements | refinement of `BoundedFifo`, agreement of the redundant views, no leak |
| `osal_queue_dup` (violation) | same | `OSAL_QueueSetElem` admits a duplicate that waits between the ends |
| `device_pictures` | 2 buffers, preview and picture threads, NORMAL and FAST, one restart | no reference to a buffer in the driver, no frame lost but by a failing QBUF, no capture outside a session |
| `device_session` | 2 buffers, preview, smart and continuous threads, one session | a frame in use is never in the driver |
| `device_record` | 2 buffers, HW encoder, face detection, NORMAL pictures, one restart, fair | exact buffer count; frames stay mapped while used; `stopDevice` returns |
| `device_restart` (violation) | 2 buffers, preview only, one restart | a queue entry that survives `stopDevice` releases a frame of the next session |
| `secure_storage` | 2 threads, 2 items, 2 values, 3 calls, 1 crash, 1 failing block operation | reads return committed values; the mutex is held exactly inside |
| `secure_support` (violation) | 1 thread, 1 failing operation | a write is acknowledged without the secure copy |
| `secure_order` (violation) | 1 thread, 1 crash | reads do not look at the private partition first, as documented |
| `camera_control` | USB camera, 5 calls, 1 device failure, fair | the command thread never sleeps on a picture, window and device in step, a closed camera released, the preview comes back |
| `hal_parts` | one part per behaviour, see below | the properties of the eleven parts |
| `bt_audio` | Bluetooth: two sessions, patches of 1 and 2016 bytes, without configuration and with one that holds no speed, one of 1500000 or one of 3500000, all versions; audio: two cards, three modes, two devices; fair | whole firmware, one speed, an answer to the stack, quiet after it; in a call nothing is open, the route follows, handles and echo reference alive, mode changes end |

Bounds. Capacity 3 is the smallest ring with an element between the two ends.
Two buffers are the smallest number for which one is queued for preview while
another is captured, and make both queues full at one element; a restart
(`MaxStarts = 2`) is enough for state to survive a session, which is how every
restart problem begins. Three calls let a read follow two writes of an item, one
of them cut off; two items and `MaxItem = 2` let garbage in the map fill it; a
table of `PrivMax = 3` holds both items and one entry left by a crash.
Five calls let a picture be asked for in a preview and in a recording, with a
stop or a close around it. In `hal_parts` two or three calls of a kind let a
second request meet what the first one left; the rings are small enough to wrap
(`ZReader = 3` events, `QTotal = 5` samples with transfers of 2 and 3), three
cards with one free name let the table get full, and `MaxOpens = 5` opens and
closes both cameras in both orders. 252 bytes of firmware fill a packet: 1 and
2016 bytes, each with and without 63 bytes of configuration, give a single short
packet, full packets only, and full ones with a rest, and need all numbers of
padding packets that the two version questions lead to. Two Bluetooth sessions
let the second one meet what the first left, such as `need_download_fw`, which is
never set again. The modes normal, communication and call are those that differ for
the streams: FM is a call without `in_call`, which the proofs cover with every other
set of modes without the factory test.
Each bound is a constant named in the module; `MaxOps`, `MaxCrashes`,
`MaxFaults`, `MaxStarts` and `MaxEncoder` occur only in guards.

Deadlock is checked in the queue, device and camera control runs. The others
allow a stop: no caller has to call again once the bound is used up.

Symmetry. Threads and values of `secure_storage` are interchangeable; that run
checks invariants only.

Fairness, in `device_record`. Each thread's own steps are weakly fair: no step
blocks for ever except the modelled waits, `select` has a timeout of two
seconds, and callbacks return. Requests of the camera service and spurious
wakeups are not fair. `mObjectLock` is only weakly fair to the stopping thread,
which is all `StopTerminates` needs.

In `camera_control` the threads' steps inside a call are weakly fair, the capture
thread delivers frames while it runs, and the steps that need a mutex
(`CommandStep`, `notifyPictureMsg`) are strongly fair: the service gives
`mObjectLock` and `mCommandMutex` back after every call, and a thread that keeps
asking gets them. Calls and failures are not fair. In `bt_audio` the link
comes up, the alarm rings, and the controller answers the commands that no alarm
guards; version questions may stay open. A thread inside the audio HAL goes on;
no call is promised.

## 4. Findings

* `osal_queue_dup`: the loop of `OSAL_QueueSetElem` never advances its node.
* `device_restart`: entries of `mQueueBufferPreview` outlive the session.
* `secure_support`: a failed read of the map counts as "no secure storage" and the
  write succeeds; later reads return the older secure value.
* `secure_order`: `private_data_read` asks the secure storage first, its comment
  and the readme say the opposite.

Met while modelling, without a document that says otherwise, and therefore a
guard, a history variable or an assumption of the model instead of a run:

* camera: a QBUF that fails on a held buffer loses it until the device restarts
  (`V4L2CameraDevice2.cpp:2050`); a clean-up whose wait ends without a signal
  disconnects the device under the polling focus thread (`CameraHardware2.cpp:3165`)
  or frees the picture list under the save thread (`CallbackNotifier.cpp:470`); the
  signal before that wait can be lost, and two threads then wait for each other
  (`467`); a detector's callback after STOP is taken for the next request
  (`CameraHardware2.cpp:1996`); a camera closed at the end of a picture connects its
  device again (`2999`), or waits in `stopDevice` for a thread that was started again;
  a preview started before a NORMAL picture is delivered pauses
  (`CameraHardware2.cpp:1825`); a full command queue drops a control
  (`CameraParameters`); a refused window geometry is not tried again
  (`PreviewWindow.cpp:184`); a late file descriptor goes to the next picture;
  opening a camera that another one keeps busy only waits 500 ms
  (`HALCameraFactory.cpp:330`); with three cameras in the configuration
  none is reported, but the checks of the ids admit them (`241`).
* audio: a stream in standby can be given an echo reference that is released
  without its knowledge and written by its next `out_write` (`1845`, `1797`), and
  `do_output_standby` writes to its reference after it has cleared `active_output`
  (`1965`); a card that comes back is seen with the flag it had before
  (`676`-`685`); the captured size of a write is a constant (`2204`); `out_write`
  and `in_read` test the mode before the mutex (`audio_hw.c:2130`, `2936`) and
  meet a NULL handle when a call starts in between; `out_standby` calls
  `do_output_standby` without the hw mutex its comment asks for (`1930`); a
  failing second card leaves the first open (`1687`); in a call every change of
  the route resets the volume, because `voice_volume` is never set (`2038`); plan
  one has no record operation, and `in_set_parameters` in a call ends in a NULL
  call (`plan_one.c:484`); closing an input frees the capture ring under a write
  (`3474`), and an empty read repeats the byte before the buffer (`556`); an
  unknown output name activates cards 0 and 1 (`1140`).
* sensors: the wake pipe is not polled; a stale `POLLIN` can block the loop
  (`sensors.cpp:291`); an error of `readEvents` adds to the room left (`302`);
  a failed enable is not repeated (`MagnetoSensor.cpp:166`); an event of an unknown
  type stays at the head of the magnetometer's ring (`258`).
* Bluetooth: `need_download_fw` is never set again (`hardware.c:930`, `978`); an
  alarm after the clean-up calls through NULL (`931`); an 8723a without a
  configuration reads an event that is not there (`1480`); 3500000 and
  unknown codes fall back to 115200 on the host only (`380`), and the download never
  ends; a configuration without a speed sends one command that the padding does not
  count (`1415`-`1456`); a `READ_LMP` answered by an error is never reported (`1022`);
  without a buffer the alarm stays armed (`1114`).
* karaoke: a second init leaves switches on that release does not turn off.

## 5. Proofs

Each theorem has the form `Spec => []Property` and holds for every value of the
constants that the named assumption of its module admits; every bound of the
runs is one of these constants. Hardly a property is inductive on its own; the
invariants below say what has to be added. `PROJECT.json` lists the theorems.

### OSALQueueProofs

`QueueConsistent` and `QueueNoLeak`, for every queue size `maxElem >= 2` and every
set of elements. The invariant says that the `numElem` nodes from `first` on hold
elements, all others are null and `last` is `numElem` steps after `first`. It is
needed because the code tells full from empty by one node's data pointer, and
that test is equivalent to the count only through all nodes (`FullEmpty`). The
lemmas on `Hop` replace induction along the ring by arithmetic modulo its size.

`QueueIsFifo`: the ring implements `BoundedFifo`. The initial states map to an
initial state, and each function maps to its abstract step or a stutter; the
mapping reads `numElem` elements off the ring from `first`, so the proof shows
that a write at `last` appends to what is read and one past `first` is its tail.

### V4L2CameraDeviceProofs

For every number of buffers (at least two), queue capacity, set of consumer
threads and picture modes, from `DeviceAssumption` alone.

`DeviceType`, `CaptureSafe`, `FramesMapped`, `AvailExact`, `DriverUnreferenced`.
`IInv` adds `IndexInv` (an index kept over an unlock denotes a buffer),
`SessionInv` (counts, filled slots and the driver's buffers belong to the running
session) and `LockInv` (who holds `mObjectLock`). `AvailExact` needs them because
the count changes at QBUF and DQBUF, and a stale release could queue a buffer the
driver has: only `refCnt > 0 => slot` and the zeroing of both under the lock rule
that out. A QBUF that fails changes neither side. There is one step lemma per
part, with one case per action.

`FrameKept` (`NoFrameLost`) and `HeldSafe` (`HeldFramesOutOfDriver` until the
second start), both for a device without the HW encoder. With it `NoFrameLost` is
false: `onNextFrameHW` writes a count back that it read before another thread's
release, and the buffer is never released to the end. `HeldFramesOutOfDriver` survives
that, since the count is only ever too high, but the argument through an exact
count does not. The references of `NoFrameLost` are not what is inductive, because
`mIsPicCopy` keeps the picture threads from releasing what they point to.
`Owed(i)` counts the releases that are sure to come: of the capture thread, of
each entry of the queues and of each of the four threads.

* `OwedInv`: a buffer outside the driver that no failing QBUF has lost has a count
  between 1 and `Owed`, and until a NORMAL picture is copied only the capture
  thread has a frame. The count may be less than what is owed, because entries of
  an earlier session release frames of this one; it is never more, so the buffer
  comes back. A lost one has no count, and no release reaches it.
* `FirstInv`: in the first session the count is exactly what is owed, unless a
  copied picture ended the capturing; then there are only copies.

Every step is of one of eight kinds (`Kind`: quiet, begin or end of a session, a
frame captured, the capture thread's release, an entry taken, dropped, marked or
released), and the invariants are shown once per kind. The lemmas on
`Occurrences` say what `Append` and `Tail` do to the number of entries;
`HoldersCount` turns the set of holders into a sum over the threads. From a
second session on `HeldFramesOutOfDriver` is false (`device_restart`).

### SecureStorageProofs

`StorageMutex` (`OneInside`), for any number of threads, items, crashes and failing
operations. `MutexInv` adds where each `sunxi_secure_storage_exit` returns to: the
error paths share one exit, and that it leads out of the storage is decided
before it is entered. `StorageTypes` (`TypeOK`) needs in addition which points and
arguments a call of each kind can have (`CallInv`).

`StorageReads` (`ReadsCommitted`), for any number of threads, items, values and calls.
It assumes a device with the secure storage (`Supported`; without it a read has
only the private partition) and room for every item (`ItemsFit`: fewer items than
the `PrivMax` = 30 entries that are looked at; beyond that `modify_env_parameter`
drops the value). `StoreInv` has a part that holds whatever fails:

* `CacheInv`: the cached map is dropped with the mutex unless its write failed and
  it is dirty, the copies written so far are the cached map, and a block that
  differs from the medium is being written, or an operation has failed;
* `TableInv`: the private table has one entry per item (`Tables`), and no damaged
  one before the first power loss;

and a part that holds while the failures are those of the property (`Live`):

* `MapInv`: in every map that is on disk or may come out of a power loss
  (`DiskMaps`) a name has one block, and the cached map keeps it there;
* `OwnInv`: the block of a name holds nothing but values that may be read for it,
  except while its writer is inside, or on the way out after a failure;
* `SavedInv`: from the sync of its object on a write has its value in the block
  that the cached map names, from its return on every copy of the map names it,
  and as long as nothing failed but one power loss a committed item can be read
  from the secure storage if its private entry is torn;
* `PrivInv`: private entries are allowed or torn, and are a write's own value from
  its `env_write` on; for an item without a committed value the first holds also
  when writers overwrote each other;
* `ReadInv`: what a read has found, and why one that turned to the private
  partition may.

The step lemmas say once what a step can do to the maps on disk (`DiskStep`), the
cached map (`CachedStep`), the blocks (`BlockStep`) and the private table
(`ModifyTable`), and each part follows. The crash lemmas (`CrashMap`, `CrashObj`,
`CrashEntries`) do the same for a power loss. That a power loss cannot take both
stores of a committed item without `bothCut` is `SecureSurvives`: the writer of the
torn private entry is the only writer of the item, so its block is synced, and
with nobody syncing the map copy 1 is intact.

`StorageBoth`: with no failing operation and no overwriting in the private
partition `SavedInBoth` holds: before a power loss only a failing block operation,
as in `secure_support`, or two writers at once can break it.

### CameraHardwareProofs

`PictureAwake` for every application; `PreviewAgrees` and `IdleSafe` for one that
waits for its pictures (`WaitsForPicture`), without which `PreviewConsistent` is
false (see `CameraHardware` above). Both threads call the same procedures, so `ControlInv`
first bounds the control state: how deep each thread is in calls and where its
innermost and outermost call return (`ShapeInv`). `PictureInv` then says who holds
`mObjectLock`, that at most one picture is asked for, in the device, with the
picture thread or reported back, and what a thread inside the preview code has
established so far (`MovesInv`). The calls that take no lock are safe because the
command thread sleeps with an empty queue while they run. `closeCamera` is the
exception, since a command thread may be past its last test of the picture; the
two properties except such a close (`overlap`), and the invariant shows that it is
the only way.

### AudioHalProofs

For every set of cards, modes and output devices. `EchoSafe` and `HandlesSafe` hold
always, `CallSafe` and `RouteSafe` without the factory test mode (`NoFactory`):
`select_mode` does nothing when the mode changes between a call and a factory
test, since both set `in_call` (`audio_hw.c:1382`). `AudioInv` ties each mutex to
the program points of its holder and says in which order handles,
`active_output`, the echo reference and `standby` are given up: a reference is "stale"
only after the stream has been told, in the few steps of its standby. The late
reference of `EchoSafe` and the coming card of `HandlesSafe` are exceptions of the
properties because the code has no step that would end them in time.

### BtVendorProofs

`WholeImage`, `WholeEights`, `OneSpeed` and `NothingAfterReport`, for every patch of up
to 110 packets and configuration of up to one packet (`BtAssumption`: packets are
numbered below 128, the mark of the last one, and up to seven padding packets follow
the image). `BtInv` relates
the packet on the way to what the controller has: `Image` is the arithmetic of
`iEndIndex`, `iLastPacketLen` and `iTotalIndex`, and `Arrived(k)` says that the
packets before `k` have come. The padding to a multiple of eight counts the
commands sent before the download, so the invariant follows them too; the command
that a configuration without a speed sends is the one it leaves out (`Uncounted`).
`OneSpeed` computes both conversions for every code of `baudrates[]` and for unknown
ones; they differ for `FallbackCodes`.

### CameraPartsProofs and AudioPartsProofs

The parts of `MCHalParts` share no variable (`OwnSteps`), so each invariant is
shown for the steps of its part.

| Theorem | Inductive invariant and why it is needed |
|---|---|
| `FocusSafe` | `FocusInv`: the exit flag is set only outside a round, and the clean-up sleeps only when the thread is leaving or its wait ended without a signal; it waits only for a thread that still has its signal to send |
| `SmartSafe` | `SmartInv`: a detector is enabled only for the picture that waits for it, a ready result is its own or came from a stopped detector |
| `SaveGone` | `SaveInv`: the exited flag is cleared only for a new thread; a waiting clean-up has a thread past its test of the status, unless the signal was missed |
| `WindowSafe` | `WindowInv`: the cached geometry is the window's, or the next frame sets it, or the window refused |
| `FactorySafe` | `FactoryInv`: open cameras are the listed ones, two listed ones differ |
| `ControlsSafe` | `ControlsInv`: a control passed by `setParameters` is set, queued, in execution, or its queue was full |
| `FilesSafe` | `FilesInv`: the file asked for belongs to the picture held (single); ring, index and list agree (burst); `NotifierAssumption` |
| `MicSafe` | `MicInv`: the microphone is started only with a device open |
| `CaptureSafe` | `CardsInv`: the table's types, needed to evaluate the scans over it |
| `LineSafe`, `CallSides` | `RoutesInv`: what `in_call` says of mode and line, and what the last route in a call left on |
| `PcmSafe` | `PcmInv`: offsets, free space and data agree modulo the ring, and the ring holds the samples after the last one read; `PcmAssumption` |
| `SensorSafe` | `UseInv`: the use counts cover the active sensors, a driver in use is on or failed |
| `ReaderSafe` | `ReaderInv`: the ring's events are the last ones read; `ReaderAssumption` |

`FactorySafe` is about the two camera slots of the HAL and `SensorSafe` about the
sensor classes of the library, which are fixed in the code.

### Only model-checked

`StopTerminates`, `PreviewComesBack`, `ConfigReported` and
`ModeChangeEnds` are liveness properties under fairness, which the proof system
does not cover.

## 6. Not modelled

Races that the properties or the assumptions leave out, each named above or in a
hazard's note: a picture that is not waited for (`WaitsForPicture`), late file
descriptors, two writers of one item, entries overwritten in the private partition
(`raced`), a second open input on the capture ring, a signal handler in the middle of
a callback, patches of 128 packets and more, volumes set for an earlier route
(`kStale`). The loop that frees the nodes of a failed `OSAL_QueueCreate` is one step.

NAND storage (one copy, no check), the erase functions (no caller), write
protection, read errors of object blocks, several processes; pixel processing,
JPEG and EXIF; resampling and audio effects; file and command string formatting;
camera parameters that are only passed through; the calibration file of the
magnetometer. Not compiled or never called, and therefore left out:
`CameraHardware.cpp`, `V4L2CameraDevice.cpp` and `Libve_Decoder.c`, which
`Android.mk` leaves out, `PressSensor`, the voice record threads of the codec
library, `hw_epilog_process`, and the calibration of the Bluetooth firmware.
`mixer.c` and `pcm.c` are copies of tinyalsa. The USB Bluetooth service depends on
the states of Android's adapter service, which is not in the repository.
`PROJECT.json` gives the reason for each component, and each hazard that no
property covers has a note.

## 7. Plan

1. `V4L2CameraDevice` as an implementation of the device that `CameraHardware`
   assumes.
2. The USB Bluetooth service over a model of the adapter's states.

Runs are bounded so that each ends in about three minutes with two workers.
