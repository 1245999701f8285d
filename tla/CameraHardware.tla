--------------------------- MODULE CameraHardware ---------------------------
(***************************************************************************)
(* The control side of the camera HAL (hardware/camera/CameraHardware2.cpp):*)
(* the calls of the camera service run on one thread, the command thread   *)
(* takes pictures, and both start and stop the capture device and the      *)
(* preview window.  The device is abstracted to what these calls read: see *)
(* V4L2CameraDevice for what happens inside.                               *)
(*                                                                         *)
(* A step ends at every call on the device or the window, because the      *)
(* other thread may act in between.  mObjectLock is held over the locked   *)
(* calls; startRecording and closeCamera do not take it.                   *)
(***************************************************************************)
EXTENDS Integers, Sequences

CONSTANTS FastPicture,     \* mHalCameraInfo.fast_picture_mode
          IsUvc,           \* mHalCameraInfo.is_uvc
          ImageCaptureIntent, \* mIsImageCaptureIntent
          QueueMax,        \* capacity of mQueueCommand
          WaitsForPicture, \* the application starts the preview, records or
                           \* takes a picture only when no other picture is
                           \* under way; it closes the camera at any time
          MaxCalls,        \* bound: calls of the camera service
          MaxFaults        \* bound: failures of the device

ASSUME HardwareAssumption ==
  /\ FastPicture \in BOOLEAN /\ IsUvc \in BOOLEAN
  /\ ImageCaptureIntent \in BOOLEAN /\ WaitsForPicture \in BOOLEAN
  /\ QueueMax \in Nat \ {0} /\ MaxCalls \in Nat /\ MaxFaults \in Nat

Threads == {"api", "cmd"}

\* Frame sizes, as far as the code compares them.
Sizes == {"preview", "full"}
PictureModes == {"normal", "continuous", "smart"}
PictureStates == {"NULL", "NORMAL", "FAST", "RECORD", "CONTINUOUS", "SMART"}

\* The commands that setParameters queues without mCommandMutex, and the others.
Unlocked == {"STOP_CONTINUOUSSNAP"}
Commands == {"TAKE_PICTURE", "PICTURE_MSG", "STOP_FACE_DETECTE"} \cup Unlocked

VARIABLES
  lock,      \* holder of mObjectLock
  devState,  \* mCameraDeviceState of the device
  capture,   \* the capture thread is not paused
  picState,  \* mTakePictureState
  taken,     \* a frame is on its way to the picture thread
  preview,   \* mPreviewEnabled of the preview window
  idle,      \* mIsCameraIdle
  recording, \* mVideoRecEnabled of the callback notifier
  hint,      \* KEY_RECORDING_HINT
  mode,      \* KEY_PICTURE_MODE
  picSize,   \* KEY_PICTURE_SIZE
  vidSize,   \* mVideoCaptureWidth, mVideoCaptureHeight
  capSize,   \* mCaptureWidth, mCaptureHeight
  queue,     \* mQueueCommand
  pc,        \* program point of each thread
  stack,     \* its return addresses
  on,        \* preview_on of doTakePicture
  wanted,    \* history: what the application last asked of the preview
  overlap,   \* history: the camera was closed with a picture under way
  calls, faults

devVars == <<devState, capture, picState, taken>>
winVars == <<preview, idle, recording>>
parVars == <<hint, mode, picSize, vidSize>>
bounds == <<calls, faults>>
vars == <<lock, devVars, winVars, parVars, capSize, queue, pc, stack, on, wanted, overlap, bounds>>

isConnected == devState # "DISCONNECTED"
isStarted == devState = "STARTED"

Init ==
  /\ lock = "none" /\ devState = "DISCONNECTED" /\ capture = FALSE
  /\ picState = "NULL" /\ taken = FALSE
  /\ preview = FALSE /\ idle = TRUE /\ recording = FALSE
  /\ hint = FALSE /\ mode = "normal" /\ picSize = "full" /\ vidSize = "full"
  /\ capSize = "preview" /\ queue = <<>>
  /\ pc = [t \in Threads |-> IF t = "api" THEN "idle" ELSE "top"]
  /\ stack = [t \in Threads |-> <<>>] /\ on = FALSE
  /\ wanted = FALSE /\ overlap = FALSE /\ calls = 0 /\ faults = 0

-----------------------------------------------------------------------------
(* Program points, calls and returns of a thread. *)

Goto(t, l) == pc' = [pc EXCEPT ![t] = l] /\ UNCHANGED stack

Call(t, proc, after) ==
  /\ pc' = [pc EXCEPT ![t] = proc]
  /\ stack' = [stack EXCEPT ![t] = <<after>> \o @]

Return(t) ==
  /\ pc' = [pc EXCEPT ![t] = Head(stack[t])]
  /\ stack' = [stack EXCEPT ![t] = Tail(@)]

\* OSAL_Queue: a full queue drops the command.
Queued(c) == IF Len(queue) < QueueMax THEN Append(queue, c) ELSE queue

\* pthread_cond_signal(&mCommandCond): only a thread already inside
\* pthread_cond_wait is woken.
Woken(p) == IF p["cmd"] = "waiting" THEN [p EXCEPT !["cmd"] = "top"] ELSE p

\* The command thread holds mCommandMutex from its dequeue to its wait.
CommandMutexFree == pc["cmd"] # "nocommand"

\* A failure of the device: an ioctl or open() that returns an error.
Fault == faults < MaxFaults /\ faults' = faults + 1
NoFault == UNCHANGED faults

-----------------------------------------------------------------------------
(* doStartPreview, doStopPreview and the two calls that stop the device. *)

\* stopDeliveringFrames and stopDevice, which waits until capturing pauses; a
\* command thread that a close overlaps may start it again after that, or before,
\* and then nothing ends the wait.
StopDelivering(t) ==
  /\ pc[t] = "stop"
  /\ capture' = FALSE /\ Goto(t, "stopDevice")
  /\ UNCHANGED <<lock, devState, picState, taken, winVars, parVars, capSize, queue, on, wanted, bounds, overlap>>

StopDevice(t) ==
  /\ pc[t] = "stopDevice" /\ (~capture \/ overlap)
  /\ devState' = IF isStarted THEN "CONNECTED" ELSE devState
  /\ Return(t)
  /\ UNCHANGED <<lock, capture, picState, taken, winVars, parVars, capSize, queue, on, wanted, bounds, overlap>>

StartPreviewCheck(t) ==
  /\ pc[t] = "doStartPreview"
  /\ IF isStarted /\ preview THEN Return(t)
     ELSE IF isStarted THEN Call(t, "stop", "window") ELSE Goto(t, "window")
  /\ UNCHANGED <<lock, devVars, winVars, parVars, capSize, queue, on, wanted, bounds, overlap>>

StartPreviewWindow(t) ==
  /\ pc[t] = "window" /\ preview' = TRUE /\ Goto(t, "connect")
  /\ UNCHANGED <<lock, devVars, idle, recording, parVars, capSize, queue, on, wanted, bounds, overlap>>

\* connectDevice, when some other call disconnected the device meanwhile.
StartPreviewConnect(t) ==
  /\ pc[t] = "connect"
  /\ \/ /\ NoFault
        /\ devState' = IF isConnected THEN devState ELSE "CONNECTED"
        /\ Goto(t, "start")
     \/ ~isConnected /\ Fault /\ Goto(t, "windowOff") /\ UNCHANGED devState
  /\ UNCHANGED <<lock, capture, picState, taken, winVars, parVars, capSize, queue, on, wanted, calls, overlap>>

\* The capture size of a preview: only a USB camera previews in the video or
\* the full size.
PreviewSize ==
  IF ~IsUvc THEN "preview"
  ELSE IF hint THEN vidSize ELSE IF FastPicture THEN "full" ELSE "preview"

\* V4L2CameraDevice::startDevice.
Start(t, done, failed) ==
  \/ /\ isConnected /\ ~isStarted /\ NoFault
     /\ devState' = "STARTED" /\ Goto(t, done)
  \/ /\ (IF isConnected /\ ~isStarted THEN Fault ELSE NoFault)
     /\ UNCHANGED devState /\ Goto(t, failed)

StartPreviewIgnoresError(t) ==
  /\ pc[t] = "start" /\ capSize' = PreviewSize
  /\ Start(t, "deliver", "deliver")
  /\ UNCHANGED <<lock, capture, picState, taken, winVars, parVars, queue, on, wanted, calls, overlap>>

StartPreviewDevice(t) ==
  /\ pc[t] = "start" /\ capSize' = PreviewSize
  /\ Start(t, "deliver", "windowOff")
  /\ UNCHANGED <<lock, capture, picState, taken, winVars, parVars, queue, on, wanted, calls, overlap>>

StartDelivering(t) ==
  /\ pc[t] = "deliver" /\ capture' = TRUE /\ Return(t)
  /\ UNCHANGED <<lock, devState, picState, taken, winVars, parVars, capSize, queue, on, wanted, bounds, overlap>>

StopWindow(t) ==
  /\ pc[t] = "windowOff" /\ preview' = FALSE /\ Return(t)
  /\ UNCHANGED <<lock, devVars, idle, recording, parVars, capSize, queue, on, wanted, bounds, overlap>>

StopPreviewCheck(t) ==
  /\ pc[t] = "doStopPreview"
  /\ IF ~preview THEN Return(t)
     ELSE IF isStarted THEN Call(t, "stop", "windowOff") ELSE Goto(t, "windowOff")
  /\ UNCHANGED <<lock, devVars, winVars, parVars, capSize, queue, on, wanted, bounds, overlap>>

PreviewStep(t) ==
  \/ StopDelivering(t) \/ StopDevice(t) \/ StartPreviewCheck(t) \/ StartPreviewWindow(t)
  \/ StartPreviewConnect(t) \/ StartPreviewDevice(t) \/ StartDelivering(t)
  \/ StopWindow(t) \/ StopPreviewCheck(t)

-----------------------------------------------------------------------------
(* The command thread. *)

commandThread ==
  /\ pc["cmd"] = "top"
  /\ IF queue = <<>> THEN Goto("cmd", "nocommand") /\ UNCHANGED queue
     ELSE Goto("cmd", Head(queue)) /\ queue' = Tail(queue)
  /\ UNCHANGED <<lock, devVars, winVars, parVars, capSize, on, wanted, bounds, overlap>>

CommandWait ==
  /\ pc["cmd"] = "nocommand" /\ Goto("cmd", "waiting")
  /\ UNCHANGED <<lock, devVars, winVars, parVars, capSize, queue, on, wanted, bounds, overlap>>

\* The pictures that the running preview delivers: the state for the device,
\* or NULL when the preview must stop.
PictureOfPreview ==
  CASE hint -> "RECORD"
    [] ~hint /\ mode = "continuous" -> "CONTINUOUS"
    [] ~hint /\ mode = "smart" -> "SMART"
    [] ~hint /\ mode = "normal" ->
         IF ~ImageCaptureIntent /\ (FastPicture \/ capSize = picSize) THEN "FAST" ELSE "NULL"

doTakePicture ==
  /\ pc["cmd"] = "TAKE_PICTURE" /\ lock = "none"
  /\ IF PictureOfPreview # "NULL"
     THEN picState' = PictureOfPreview /\ Goto("cmd", "top") /\ UNCHANGED <<lock, on>>
     ELSE /\ lock' = "cmd" /\ on' = preview /\ UNCHANGED picState
          /\ IF preview THEN Call("cmd", "doStopPreview", "picStop") ELSE Goto("cmd", "picStop")
  /\ UNCHANGED <<devState, capture, taken, winVars, parVars, capSize, queue, wanted, bounds, overlap>>

TakePictureStop ==
  /\ pc["cmd"] = "picStop"
  /\ IF isStarted THEN Call("cmd", "stop", "picState") ELSE Goto("cmd", "picState")
  /\ UNCHANGED <<lock, devVars, winVars, parVars, capSize, queue, on, wanted, bounds, overlap>>

TakePictureState ==
  /\ pc["cmd"] = "picState" /\ picState' = "NORMAL" /\ Goto("cmd", "picStart")
  /\ UNCHANGED <<lock, devState, capture, taken, winVars, parVars, capSize, queue, on, wanted, bounds, overlap>>

\* A failure leaves the picture state NORMAL.
TakePictureStart ==
  /\ pc["cmd"] = "picStart" /\ capSize' = picSize
  /\ Start("cmd", "picDeliver", "picFailed")
  /\ UNCHANGED <<lock, capture, picState, taken, winVars, parVars, queue, on, wanted, calls, overlap>>

TakePictureDeliver ==
  /\ pc["cmd"] = "picDeliver" /\ capture' = TRUE /\ Goto("cmd", "unlock")
  /\ UNCHANGED <<lock, devState, picState, taken, winVars, parVars, capSize, queue, on, wanted, bounds, overlap>>

TakePictureFailed ==
  /\ pc["cmd"] = "picFailed"
  /\ IF on THEN Call("cmd", "doStartPreview", "unlock") ELSE Goto("cmd", "unlock")
  /\ UNCHANGED <<lock, devVars, winVars, parVars, capSize, queue, on, wanted, bounds, overlap>>

\* CMD_QUEUE_PICTURE_MSG: the application is notified, then doTakePictureEnd.
PictureMsg ==
  /\ pc["cmd"] = "PICTURE_MSG"
  /\ Goto("cmd", IF ImageCaptureIntent THEN "top" ELSE "doTakePictureEnd")
  /\ UNCHANGED <<lock, devVars, winVars, parVars, capSize, queue, on, wanted, bounds, overlap>>

StopContinuousSnap ==
  /\ pc["cmd"] = "STOP_CONTINUOUSSNAP" /\ picState' = "NULL"
  /\ Goto("cmd", "doTakePictureEnd")
  /\ UNCHANGED <<lock, devState, capture, taken, winVars, parVars, capSize, queue, on, wanted, bounds, overlap>>

TakePictureEndNoRestart ==
  /\ pc["cmd"] = "doTakePictureEnd" /\ lock = "none" /\ Goto("cmd", "top")
  /\ UNCHANGED <<lock, devVars, winVars, parVars, capSize, queue, on, wanted, bounds, overlap>>

doTakePictureEnd ==
  /\ pc["cmd"] = "doTakePictureEnd" /\ lock = "none"
  /\ IF isConnected /\ ~preview /\ ~FastPicture
     THEN lock' = "cmd" /\ Call("cmd", "doStartPreview", "unlock")
     ELSE Goto("cmd", "top") /\ UNCHANGED lock
  /\ UNCHANGED <<devVars, winVars, parVars, capSize, queue, on, wanted, bounds, overlap>>

\* The face detector is a library of its own; see FaceDetection.
StopFaceDetecte ==
  /\ pc["cmd"] = "STOP_FACE_DETECTE" /\ Goto("cmd", "top")
  /\ UNCHANGED <<lock, devVars, winVars, parVars, capSize, queue, on, wanted, bounds, overlap>>

CommandStep ==
  \/ commandThread \/ CommandWait \/ doTakePicture \/ TakePictureStop \/ TakePictureState
  \/ TakePictureStart \/ TakePictureDeliver \/ TakePictureFailed \/ PictureMsg
  \/ StopContinuousSnap \/ doTakePictureEnd \/ StopFaceDetecte

Unlock(t) ==
  /\ pc[t] = "unlock" /\ lock' = "none"
  /\ Goto(t, IF t = "api" THEN "idle" ELSE "top")
  /\ UNCHANGED <<devVars, winVars, parVars, capSize, queue, on, wanted, bounds, overlap>>

-----------------------------------------------------------------------------
(* The calls of the camera service. *)

ApiCall == pc["api"] = "idle" /\ calls < MaxCalls /\ calls' = calls + 1 /\ UNCHANGED on

\* No picture was asked for that has not been delivered.
PictureDone ==
  /\ pc["cmd"] = "waiting" /\ queue = <<>> /\ ~taken
  /\ picState \in {"NULL", "CONTINUOUS"}

\* initDefaultParameters
DefaultParameters ==
  /\ hint' = FALSE /\ mode' = "normal" /\ picSize' = "full"
  /\ vidSize' = "preview" /\ capSize' = "preview"

\* connectCamera, and Initialize, which the factory calls next.
connectCamera ==
  /\ ApiCall /\ idle
  /\ \/ idle' = FALSE /\ devState' = "CONNECTED" /\ NoFault /\ DefaultParameters
     \/ ~isConnected /\ Fault /\ UNCHANGED <<idle, devState, parVars, capSize>>
  /\ UNCHANGED <<lock, capture, picState, taken, preview, recording, queue, pc, stack, wanted, overlap>>

startPreview ==
  /\ ApiCall /\ ~idle /\ (WaitsForPicture => PictureDone)
  /\ lock = "none" /\ lock' = "api"
  /\ Call("api", "doStartPreview", "unlock") /\ wanted' = TRUE
  /\ UNCHANGED <<devVars, winVars, parVars, capSize, queue, faults, overlap>>

stopPreview ==
  /\ ApiCall /\ ~idle /\ CommandMutexFree
  /\ queue' = Queued("STOP_FACE_DETECTE")
  /\ pc' = Woken([pc EXCEPT !["api"] = "stopPreview"]) /\ UNCHANGED stack
  /\ wanted' = FALSE
  /\ UNCHANGED <<lock, devVars, winVars, parVars, capSize, faults, overlap>>

StopPreviewLocked ==
  /\ pc["api"] = "stopPreview" /\ lock = "none" /\ lock' = "api"
  /\ Call("api", "doStopPreview", "unlock")
  /\ UNCHANGED <<devVars, winVars, parVars, capSize, queue, on, wanted, bounds, overlap>>

takePicture ==
  /\ ApiCall /\ ~idle /\ (WaitsForPicture => PictureDone) /\ CommandMutexFree
  /\ queue' = Queued("TAKE_PICTURE") /\ pc' = Woken(pc) /\ UNCHANGED stack
  /\ UNCHANGED <<lock, devVars, winVars, parVars, capSize, wanted, faults, overlap>>

\* A NORMAL picture that is cancelled leaves the preview off: nothing restarts it.
cancelPicture ==
  /\ ApiCall /\ ~idle /\ picState' = "NULL" /\ wanted' = FALSE
  /\ UNCHANGED <<lock, devState, capture, taken, winVars, parVars, capSize, queue, pc, stack, faults, overlap>>

\* setParameters, in the order of the code: the cancelled burst is queued and
\* the picture mode stored before the checks that may return EINVAL; the sizes
\* and the recording hint follow, then the signal.
setParameters(m, cancel) ==
  /\ ApiCall /\ ~idle
  /\ queue' = IF mode = "continuous" /\ cancel THEN Queued("STOP_CONTINUOUSSNAP") ELSE queue
  /\ mode' = m
  /\ \E next \in {"sizes", "idle"} : Goto("api", next)
  /\ UNCHANGED <<lock, devVars, winVars, hint, picSize, vidSize, capSize, wanted, faults, overlap>>

\* A size that is refused ends the call with EINVAL, without the signal.
SetSizes(ps, vs, h) ==
  /\ pc["api"] = "sizes" /\ picSize' = ps /\ vidSize' = vs /\ hint' = h
  /\ \E next \in {"signal", "idle"} : Goto("api", next)
  /\ UNCHANGED <<lock, devVars, winVars, mode, capSize, queue, on, wanted, bounds, overlap>>

SetSignal ==
  /\ pc["api"] = "signal" /\ pc' = Woken([pc EXCEPT !["api"] = "idle"]) /\ UNCHANGED stack
  /\ UNCHANGED <<lock, devVars, winVars, parVars, capSize, queue, on, wanted, bounds, overlap>>

startRecording ==
  /\ ApiCall /\ ~idle /\ (WaitsForPicture => PictureDone)
  /\ hint' = TRUE
  /\ IF vidSize # capSize THEN Call("api", "doStopPreview", "recStart") ELSE Goto("api", "recOn")
  /\ wanted' = (wanted \/ vidSize # capSize)
  /\ UNCHANGED <<lock, devVars, winVars, mode, picSize, vidSize, capSize, queue, faults, overlap>>

RecordingPreview ==
  /\ pc["api"] = "recStart" /\ Call("api", "doStartPreview", "recOn")
  /\ UNCHANGED <<lock, devVars, winVars, parVars, capSize, queue, on, wanted, bounds, overlap>>

RecordingOn ==
  /\ pc["api"] = "recOn" /\ recording' = TRUE /\ Goto("api", "idle")
  /\ UNCHANGED <<lock, devVars, preview, idle, parVars, capSize, queue, on, wanted, bounds, overlap>>

stopRecording ==
  /\ ApiCall /\ ~idle /\ recording' = FALSE
  /\ UNCHANGED <<lock, devVars, preview, idle, parVars, capSize, queue, pc, stack, wanted, faults, overlap>>

CloseKeepsWindow ==
  /\ ApiCall /\ ~idle /\ overlap' = (overlap \/ ~PictureDone)
  /\ mode' = "normal" /\ vidSize' = "none" /\ wanted' = FALSE /\ Goto("api", "closeStop")
  /\ UNCHANGED <<lock, devVars, winVars, hint, picSize, capSize, queue, faults>>

\* closeCamera, cleanupCamera: no lock, and no look at the command thread.
closeCamera ==
  /\ ApiCall /\ ~idle /\ overlap' = (overlap \/ ~PictureDone)
  /\ mode' = "normal" /\ vidSize' = "none" /\ wanted' = FALSE
  /\ Call("api", "doStopPreview", "closeStop")
  /\ UNCHANGED <<lock, devVars, winVars, hint, picSize, capSize, queue, faults>>

CloseStop ==
  /\ pc["api"] = "closeStop"
  /\ IF isStarted THEN Call("api", "stop", "disconnect") ELSE Goto("api", "disconnect")
  /\ UNCHANGED <<lock, devVars, winVars, parVars, capSize, queue, on, wanted, bounds, overlap>>

\* disconnectDevice refuses a device that another thread started again; then
\* cleanupCBNotifier and mIsCameraIdle.
CloseDisconnect ==
  /\ pc["api"] = "disconnect" /\ Goto("api", "idle")
  /\ IF isStarted THEN UNCHANGED <<devState, idle>>
     ELSE devState' = "DISCONNECTED" /\ idle' = TRUE
  /\ recording' = IF isStarted THEN recording ELSE FALSE
  /\ UNCHANGED <<lock, capture, picState, taken, preview, parVars, capSize, queue, on, wanted, bounds, overlap>>

ApiStep ==
  \/ connectCamera \/ startPreview \/ stopPreview \/ StopPreviewLocked \/ takePicture
  \/ cancelPicture \/ SetSignal \/ startRecording \/ RecordingPreview \/ RecordingOn
  \/ stopRecording \/ closeCamera \/ CloseStop \/ CloseDisconnect
  \/ \E m \in PictureModes, cancel \in BOOLEAN : setParameters(m, cancel)
  \/ \E ps, vs \in Sizes, h \in BOOLEAN : SetSizes(ps, vs, h)

-----------------------------------------------------------------------------
(* The device, as the HAL sees it. *)

\* The capture thread serves the picture state with its next frame; a NORMAL
\* picture pauses it.  A burst saves its frames without a message.
CaptureFrame ==
  /\ isStarted /\ capture /\ ~taken /\ picState # "NULL"
  /\ taken' = (picState # "CONTINUOUS") /\ picState' = "NULL"
  /\ capture' = (picState # "NORMAL")
  /\ UNCHANGED <<lock, devState, winVars, parVars, capSize, queue, pc, stack, on, wanted, bounds, overlap>>

NotifyUnlocked ==
  /\ taken /\ taken' = FALSE /\ queue' = Queued("PICTURE_MSG") /\ pc' = Woken(pc)
  /\ UNCHANGED <<lock, devState, capture, picState, winVars, parVars, capSize, stack, on, wanted, bounds, overlap>>

\* notifyPictureMsg, called by the picture thread.
notifyPictureMsg ==
  /\ taken /\ CommandMutexFree /\ taken' = FALSE
  /\ queue' = Queued("PICTURE_MSG") /\ pc' = Woken(pc)
  /\ UNCHANGED <<lock, devState, capture, picState, winVars, parVars, capSize, stack, on, wanted, bounds, overlap>>

\* The threads wait for work; only the application decides when to call again.
Stopped == pc["api"] = "idle" /\ calls = MaxCalls /\ pc["cmd"] = "waiting" /\ UNCHANGED vars

ThreadStep(t) == PreviewStep(t) \/ Unlock(t)

Next ==
  \/ \E t \in Threads : ThreadStep(t)
  \/ CommandStep \/ ApiStep \/ CaptureFrame \/ notifyPictureMsg \/ Stopped

\* A call of the service runs to its end, the HAL's threads are scheduled and the
\* sensor delivers frames; mObjectLock is granted to a thread that keeps asking.
Fairness ==
  /\ \A t \in Threads : WF_vars(ThreadStep(t))
  /\ SF_vars(CommandStep) /\ WF_vars(CaptureFrame) /\ SF_vars(notifyPictureMsg)
  /\ WF_vars(StopPreviewLocked \/ SetSignal \/ RecordingPreview \/ RecordingOn
             \/ CloseStop \/ CloseDisconnect)
  /\ WF_vars(\E ps, vs \in Sizes, h \in BOOLEAN : SetSizes(ps, vs, h))

Spec == Init /\ [][Next]_vars /\ Fairness

-----------------------------------------------------------------------------
\* Types of the variables.
TypeOK ==
  /\ lock \in Threads \cup {"none"}
  /\ devState \in {"DISCONNECTED", "CONNECTED", "STARTED"}
  /\ picState \in PictureStates /\ capture \in BOOLEAN /\ taken \in BOOLEAN
  /\ preview \in BOOLEAN /\ idle \in BOOLEAN /\ recording \in BOOLEAN
  /\ hint \in BOOLEAN /\ mode \in PictureModes /\ picSize \in Sizes
  /\ vidSize \in Sizes \cup {"none"} /\ capSize \in Sizes \cup {"none"}
  /\ queue \in Seq(Commands) /\ Len(queue) <= QueueMax
  /\ \A t \in Threads : Len(stack[t]) <= 2
  /\ on \in BOOLEAN /\ wanted \in BOOLEAN /\ overlap \in BOOLEAN
  /\ calls \in 0 .. MaxCalls /\ faults \in 0 .. MaxFaults

\* The command thread never sleeps on a picture: what it may leave in the queue
\* when it waits was queued by setParameters alone, which signals without
\* mCommandMutex or returns before it signals.
NoSleepOnPicture ==
  pc["cmd"] = "waiting" => \A i \in 1 .. Len(queue) : queue[i] \in Unlocked

\* Program points of a call that moves the device or the window.
InPreviewCode(t) ==
  pc[t] \in {"doStartPreview", "doStopPreview", "stop", "stopDevice", "window", "connect",
             "start", "deliver", "windowOff", "picStop", "picState", "picStart", "picDeliver",
             "picFailed", "recStart", "closeStop", "disconnect", "unlock"}

\* Between the calls, a window that shows a preview has a device that streams
\* and a capture thread that runs, unless the device has failed: a picture whose
\* device could not start leaves the picture state behind, and the first frame of
\* the restarted preview is taken for that picture and pauses the capture thread.
\* A camera closed with a picture under way is excepted: see IdleReleased.
PreviewConsistent ==
  (\A t \in Threads : ~InPreviewCode(t)) /\ ~overlap =>
    (preview => isStarted /\ (capture \/ faults > 0))

\* A camera that reports itself idle, which lets the factory open another one,
\* has released its device and its window.  One hole is left: closeCamera takes
\* no lock, and a command thread that is still at a picture starts the preview
\* again, and connects the device, after the camera was reported idle.
IdleReleased == idle /\ ~overlap => devState = "DISCONNECTED" /\ ~preview

\* A preview the application asked for comes back after every picture, unless
\* the camera was closed with a picture under way.
PreviewComesBack ==
  wanted ~> (~wanted \/ faults > 0 \/ overlap \/ (preview /\ isStarted /\ capture))
=============================================================================
