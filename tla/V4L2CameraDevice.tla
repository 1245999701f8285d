-------------------------- MODULE V4L2CameraDevice --------------------------
(***************************************************************************)
(* The capture device of the camera HAL                                    *)
(* (hardware/camera/V4L2CameraDevice2.cpp): a capture thread takes frames  *)
(* from the V4L2 driver, counts references to them and hands them to a     *)
(* preview thread and three picture threads through two bounded queues,    *)
(* while the HAL starts, stops and restarts the device.                    *)
(*                                                                         *)
(* Everything between pthread_mutex_lock(&mCaptureMutex) and its unlock is *)
(* one action.  mObjectLock is a variable, because the preview and the     *)
(* continuous-picture threads hold it over a callback.  mConnectMutex and  *)
(* the queues' own mutexes protect single actions.                         *)
(***************************************************************************)
EXTENDS Integers, Sequences, FiniteSets

CONSTANTS NB_BUFFER,     \* buffers requested for a preview session
          PictureQueue,  \* capacity of mQueueBufferPicture
          Consumers,     \* the threads that consume frames in this instance
          Modes,         \* the TAKE_PICTURE_STATEs the HAL asks for
          ContinuousMax, \* mContinuousPictureMax
          VideoHint,     \* mVideoHint: no frame is kept for face detection
          HwEncoder,     \* mUseHwEncoder: recording through the HW encoder
          MaxStarts,     \* bound: calls of startDevice
          MaxEncoder     \* bound: frames of one buffer the encoder may hold

AllConsumers == {"preview", "picture", "smart", "continuous", "face"}
AllModes == {"NORMAL", "FAST", "SMART", "CONTINUOUS"}

ASSUME DeviceAssumption ==
  /\ NB_BUFFER \in Nat /\ NB_BUFFER >= 2
  /\ PictureQueue \in Nat \ {0}
  /\ Consumers \subseteq AllConsumers
  /\ Modes \subseteq AllModes
  /\ ContinuousMax \in Nat
  /\ HwEncoder \in BOOLEAN /\ VideoHint \in BOOLEAN
  /\ MaxStarts \in Nat /\ MaxEncoder \in Nat

Bufs == 0 .. NB_BUFFER - 1

\* mPicBuffer, the copy of a frame that a NORMAL picture is encoded from.  A
\* NORMAL session has one buffer, so its index field is always 0.
PicBuffer == NB_BUFFER
Entries == 0 .. NB_BUFFER

\* OSAL_QueueCreate(&mQueueBufferPreview, NB_BUFFER): see OSALQueue.
PreviewQueue == NB_BUFFER - 1

VARIABLES
  devState,   \* mCameraDeviceState
  drv,        \* external: the buffers queued in the driver
  mBufferCnt,
  mem,        \* the buffers with mMapMem.mem[i] # NULL
  slot,       \* the buffers with mV4l2buf[i] filled (addrPhyY # 0, index = i)
  refCnt,     \* mV4l2buf[i].refCnt
  avail,      \* mCurAvailBufferCnt
  curBuf,     \* mCurrentV4l2buf; -1 is NULL
  capState,   \* mCaptureThreadState
  canDisc,    \* mCanBeDisconnected
  picState,   \* mTakePictureState
  isPicCopy,  \* mIsPicCopy
  contCnt,    \* mContinuousPictureCnt
  contOn,     \* mContinuousPictureStarted
  smartDone,  \* mSmartPictureDone
  prevQ,      \* mQueueBufferPreview
  picQ,       \* mQueueBufferPicture
  objLock,    \* holder of mObjectLock
  capPc,      \* program point of the capture thread
  capIdx,     \* the frame it has dequeued
  pc,         \* program point of each consumer
  buf,        \* its V4L2BUF_t pointer, as a queue entry
  idx,        \* the value it is about to store or to release
  ctl,        \* program point of the HAL's control calls
  enc,        \* frames the HW encoder has not released yet
  starts,
  lost        \* history: buffers that a failing VIDIOC_QBUF of this session left
              \* outside the driver

hwVars  == <<drv, mBufferCnt, mem, lost>>
frmVars == <<slot, refCnt, avail, curBuf>>
picVars == <<picState, isPicCopy, contCnt, contOn, smartDone>>
qVars   == <<prevQ, picQ>>
thrVars == <<pc, buf, idx>>
capVars == <<capPc, capIdx>>
vars == <<devState, hwVars, frmVars, capState, canDisc, picVars, qVars,
          objLock, capVars, thrVars, ctl, enc, starts>>

Init ==
  /\ devState = "constructed" /\ capState = "paused" /\ canDisc = FALSE
  /\ drv = {} /\ mBufferCnt = NB_BUFFER /\ mem = {}
  /\ slot = {} /\ refCnt = [i \in Bufs |-> 0] /\ avail = 0 /\ curBuf = -1
  /\ picState = "NULL" /\ isPicCopy = FALSE
  /\ contCnt = 0 /\ contOn = FALSE /\ smartDone = TRUE
  /\ prevQ = <<>> /\ picQ = <<>> /\ objLock = "none"
  /\ capPc = "top" /\ capIdx = 0
  /\ pc = [t \in Consumers |-> IF t = "face" THEN "idle" ELSE "deq"]
  /\ buf = [t \in Consumers |-> 0] /\ idx = [t \in Consumers |-> 0]
  /\ ctl = "idle" /\ enc = [i \in Bufs |-> 0] /\ starts = 0 /\ lost = {}
-----------------------------------------------------------------------------
(* Condition variables.  A signal moves a waiter on and is lost when there *)
(* is none.  Every wait is an if, not a while: Spurious below wakes it     *)
(* without a signal.                                                       *)

\* pthread_cond_signal on the condition that the threads of T sleep on.
Signal(T) ==
  pc' = [t \in Consumers |-> IF t \in T /\ pc[t] = "wait" THEN "deq" ELSE pc[t]]

\* singalDisconnect: capture is paused, a waiting stopDevice may go on.
singalDisconnect ==
  /\ canDisc' = TRUE
  /\ ctl' = IF ctl = "waitConn" THEN "stopLock" ELSE ctl

\* Mutant: the buffer is queued again while references are left.
ReleaseEarly(i) ==
  IF refCnt[i] > 0
  THEN /\ refCnt' = [refCnt EXCEPT ![i] = @ - 1]
       /\ drv' = drv \cup {i}
       /\ avail' = IF i \in drv THEN avail ELSE avail + 1
       /\ UNCHANGED lost
  ELSE UNCHANGED <<refCnt, drv, avail, lost>>

\* Mutant: the count of available buffers does not look at the ioctl's result.
ReleaseUncounted(i) ==
  \/ /\ refCnt[i] > 1
     /\ refCnt' = [refCnt EXCEPT ![i] = @ - 1]
     /\ UNCHANGED <<drv, avail, lost>>
  \/ /\ refCnt[i] = 1
     /\ refCnt' = [refCnt EXCEPT ![i] = 0]
     /\ avail' = avail + 1
     /\ \/ drv' = drv \cup {i} /\ UNCHANGED lost
        \/ lost' = lost \cup ({i} \ drv) /\ UNCHANGED drv
  \/ /\ refCnt[i] = 0
     /\ UNCHANGED <<refCnt, drv, avail, lost>>

\* The last reference gives the buffer back.  VIDIOC_QBUF may fail, and fails
\* on a buffer the driver already has: the error is logged, the reference is
\* gone all the same and the buffer stays where it is.
releasePreviewFrame(i) ==
  \/ /\ refCnt[i] > 1
     /\ refCnt' = [refCnt EXCEPT ![i] = @ - 1]
     /\ UNCHANGED <<drv, avail, lost>>
  \/ /\ refCnt[i] = 1
     /\ refCnt' = [refCnt EXCEPT ![i] = 0]
     /\ \/ /\ i \notin drv
           /\ drv' = drv \cup {i} /\ avail' = avail + 1 /\ UNCHANGED lost
        \/ /\ lost' = lost \cup ({i} \ drv) /\ UNCHANGED <<drv, avail>>
  \/ /\ refCnt[i] = 0
     /\ UNCHANGED <<refCnt, drv, avail, lost>>
-----------------------------------------------------------------------------
(* The capture thread.                                                     *)

CaptureTop ==
  /\ capPc = "top"
  /\ \/ /\ capState = "paused"
        /\ singalDisconnect
        /\ capPc' = "waitCap"
     \/ /\ capState = "started"
        /\ capPc' = "select"
        /\ UNCHANGED <<canDisc, ctl>>
  /\ UNCHANGED <<devState, hwVars, frmVars, capState, picVars, qVars, objLock,
                 thrVars, enc, starts, capIdx>>

\* select returns: a frame is ready, or the two seconds are over.
v4l2WaitCameraReady ==
  /\ capPc = "select"
  /\ \E r \in {"ready", "timeout"} : capPc' = r
  /\ UNCHANGED <<devState, hwVars, frmVars, capState, canDisc, picVars, qVars,
                 objLock, thrVars, ctl, enc, starts, capIdx>>

\* Back with mCaptureMutex held: paused meanwhile, timeout, or no frame.
CaptureSkip ==
  /\ capPc \in {"ready", "timeout"}
  /\ \/ capState = "paused" /\ singalDisconnect
     \/ /\ capState = "started"
        /\ UNCHANGED <<canDisc, ctl>>
  /\ capPc' = "top"
  /\ UNCHANGED <<devState, hwVars, frmVars, capState, picVars, qVars, objLock,
                 thrVars, enc, starts, capIdx>>

\* The frame goes into mPicBuffer, and capturing pauses by itself.
CaptureNormal(i) ==
  /\ picState = "NORMAL"
  /\ refCnt' = [refCnt EXCEPT ![i] = 1]
  /\ Signal({"picture"})
  /\ \/ /\ Len(picQ) = PictureQueue
        /\ UNCHANGED <<picQ, isPicCopy, capState, picState>>
     \/ /\ Len(picQ) < PictureQueue
        /\ picQ' = Append(picQ, PicBuffer)
        /\ isPicCopy' = TRUE /\ capState' = "paused" /\ picState' = "NULL"
  /\ UNCHANGED <<prevQ, curBuf>>

\* The preview queue is full: nobody is told, the frame is dropped.
CapturePreviewFull(i) ==
  /\ picState # "NORMAL" /\ Len(prevQ) = PreviewQueue
  /\ refCnt' = [refCnt EXCEPT ![i] = 1]
  /\ UNCHANGED <<qVars, pc, isPicCopy, capState, picState>>

\* Preview only: no picture is asked for, it is not time for one yet, or a
\* fast-picture driver marks the frame unusable (buf.reserved).
CapturePreview(i) ==
  /\ picState # "NORMAL" /\ Len(prevQ) < PreviewQueue
  /\ picState # "SMART"
  /\ refCnt' = [refCnt EXCEPT ![i] = 2]
  /\ prevQ' = Append(prevQ, i)
  /\ Signal({"preview"})
  /\ UNCHANGED <<picQ, isPicCopy, capState, picState>>

\* The thread that is signalled for a picture of each mode.
PictureThread ==
  [FAST |-> "picture", SMART |-> "smart", CONTINUOUS |-> "continuous"]

\* Mutant: the picture's reference is counted although its queue is full.
CaptureCountsRejected(i) ==
  /\ picState \in {"FAST", "SMART", "CONTINUOUS"} /\ Len(prevQ) < PreviewQueue
  /\ prevQ' = Append(prevQ, i)
  /\ Signal({"preview", PictureThread[picState]})
  /\ refCnt' = [refCnt EXCEPT ![i] = 3]
  /\ \/ /\ Len(picQ) = PictureQueue
        /\ UNCHANGED <<picQ, isPicCopy, picState>>
     \/ /\ Len(picQ) < PictureQueue
        /\ picQ' = Append(picQ, i)
        /\ isPicCopy' = FALSE
        /\ picState' = IF picState = "FAST" THEN "NULL" ELSE picState
  /\ UNCHANGED capState

\* Preview and picture.
CapturePicture(i) ==
  /\ picState \in {"FAST", "SMART", "CONTINUOUS"} /\ Len(prevQ) < PreviewQueue
  /\ prevQ' = Append(prevQ, i)
  /\ Signal({"preview", PictureThread[picState]})
  /\ \/ /\ Len(picQ) = PictureQueue
        /\ refCnt' = [refCnt EXCEPT ![i] = 2]
        /\ UNCHANGED <<picQ, isPicCopy, picState>>
     \/ /\ Len(picQ) < PictureQueue
        /\ refCnt' = [refCnt EXCEPT ![i] = 3]
        /\ picQ' = Append(picQ, i)
        /\ isPicCopy' = FALSE
        /\ picState' = IF picState = "FAST" THEN "NULL" ELSE picState
  /\ UNCHANGED capState

\* VIDIOC_DQBUF succeeds.
getPreviewFrame(i) == i \in drv /\ drv' = drv \ {i}

\* Cropping, decoding and colour conversion; mV4l2buf[i] describes the frame.
FillSlot(i) == slot' = slot \cup {i}

CaptureFrame(i) ==
  /\ capPc = "ready" /\ capState = "started"
  /\ getPreviewFrame(i) /\ avail' = avail - 1 /\ FillSlot(i)
  /\ capPc' = "decref" /\ capIdx' = i
  /\ \/ CaptureNormal(i)
     \/ /\ curBuf' = IF VideoHint THEN curBuf ELSE i
        /\ CapturePreviewFull(i) \/ CapturePreview(i) \/ CapturePicture(i)
  /\ UNCHANGED <<devState, mBufferCnt, mem, lost, canDisc, contCnt, contOn,
                 smartDone, objLock, buf, idx, ctl, enc, starts>>

\* DEC_REF: the capture thread drops its own reference.
CaptureDecRef ==
  /\ capPc = "decref"
  /\ releasePreviewFrame(capIdx)
  /\ capPc' = "top" /\ capIdx' = 0
  /\ UNCHANGED <<devState, mBufferCnt, mem, slot, curBuf, capState, canDisc,
                 picVars, qVars, objLock, thrVars, ctl, enc, starts>>
-----------------------------------------------------------------------------
(* The consumers.  A thread that finds its queue empty goes to sleep in    *)
(* two steps: a signal sent between them is lost.                          *)

Pics == {"picture", "smart", "continuous"} \cap Consumers
Queued == Consumers \ {"face"}

Goto(t, p) == pc' = [pc EXCEPT ![t] = p]

\* The thread function returns and is called again: its locals are gone.
Return(t) ==
  /\ Goto(t, "deq")
  /\ buf' = [buf EXCEPT ![t] = 0] /\ idx' = [idx EXCEPT ![t] = 0]

Dequeue(t) ==
  /\ pc[t] = "deq"
  /\ \/ /\ t = "preview" /\ prevQ # <<>>
        /\ buf' = [buf EXCEPT ![t] = Head(prevQ)] /\ prevQ' = Tail(prevQ)
        /\ Goto(t, "got") /\ UNCHANGED picQ
     \/ /\ t \in Pics /\ picQ # <<>>
        /\ buf' = [buf EXCEPT ![t] = Head(picQ)] /\ picQ' = Tail(picQ)
        /\ Goto(t, "got") /\ UNCHANGED prevQ
     \/ /\ IF t = "preview" THEN prevQ = <<>> ELSE picQ = <<>>
        /\ Goto(t, "gap") /\ UNCHANGED <<buf, qVars>>
  /\ UNCHANGED <<devState, hwVars, frmVars, capState, canDisc, picVars,
                 objLock, capVars, idx, ctl, enc, starts>>

Sleep(t) ==
  /\ pc[t] = "gap"
  /\ Goto(t, "wait")
  /\ UNCHANGED <<devState, hwVars, frmVars, capState, canDisc, picVars, qVars,
                 objLock, capVars, buf, idx, ctl, enc, starts>>

\* A wait that ends without a signal: a consumer, the capture thread, or
\* stopDevice.
Spurious ==
  /\ \/ /\ \E t \in Queued : pc[t] = "wait" /\ Goto(t, "deq")
        /\ UNCHANGED <<capPc, ctl>>
     \/ /\ capPc = "waitCap" /\ capPc' = "select"
        /\ UNCHANGED <<pc, ctl>>
     \/ /\ ctl = "waitConn" /\ ctl' = "stopLock"
        /\ UNCHANGED <<pc, capPc>>
  /\ UNCHANGED <<devState, hwVars, frmVars, capState, canDisc, picVars, qVars,
                 objLock, buf, idx, enc, starts, capIdx>>

\* The fields of the V4L2BUF_t a thread points to, as they are now: stopDevice
\* zeroes mV4l2buf, index included.
IndexOf(e) == IF e \in slot THEN e ELSE 0
IsFilled(e) == e \in slot \/ (e = PicBuffer /\ devState # "constructed")

\* The preview and the continuous-picture thread take mObjectLock and drop an
\* entry whose buffer was unmapped or zeroed.
LockFrame(t) ==
  /\ t \in {"preview", "continuous"} /\ pc[t] = "got" /\ objLock = "none"
  /\ \/ /\ IndexOf(buf[t]) \in mem /\ IsFilled(buf[t])
        /\ objLock' = t /\ Goto(t, "use") /\ UNCHANGED <<buf, idx>>
     \/ /\ IndexOf(buf[t]) \notin mem \/ ~IsFilled(buf[t])
        /\ Return(t) /\ UNCHANGED objLock
  /\ UNCHANGED <<devState, hwVars, frmVars, capState, canDisc, picVars, qVars,
                 capVars, ctl, enc, starts>>

\* onNextFrameHW: the encoder gets a reference.  pbuf->refCnt++ runs without
\* mCaptureMutex, so it is a read and a write.
EncodeRead ==
  /\ HwEncoder /\ "preview" \in Consumers /\ pc["preview"] = "use"
  /\ enc[IndexOf(buf["preview"])] < MaxEncoder
  /\ idx' = [idx EXCEPT !["preview"] = refCnt[IndexOf(buf["preview"])]]
  /\ Goto("preview", "inc")
  /\ UNCHANGED <<devState, hwVars, frmVars, capState, canDisc, picVars, qVars,
                 objLock, capVars, buf, ctl, enc, starts>>

EncodeWrite ==
  /\ "preview" \in Consumers /\ pc["preview"] = "inc"
  /\ LET i == IndexOf(buf["preview"]) IN
       /\ refCnt' = [refCnt EXCEPT ![i] = idx["preview"] + 1]
       /\ enc' = [enc EXCEPT ![i] = @ + 1]
  /\ Goto("preview", "shown")
  /\ UNCHANGED <<devState, hwVars, slot, avail, curBuf, capState, canDisc,
                 picVars, qVars, objLock, capVars, buf, idx, ctl, starts>>

\* The frame was shown: its reference and mObjectLock are given up.
PreviewDone ==
  /\ "preview" \in Consumers /\ pc["preview"] \in {"use", "shown"}
  /\ releasePreviewFrame(IndexOf(buf["preview"]))
  /\ objLock' = "none" /\ Return("preview")
  /\ UNCHANGED <<devState, mBufferCnt, mem, slot, curBuf, capState, canDisc,
                 picVars, qVars, capVars, ctl, enc, starts>>

\* releaseRecordingFrame: the encoder returns a frame by the index it was
\* handed (CameraHardware2.cpp).
releaseRecordingFrame(i) ==
  /\ enc[i] > 0
  /\ enc' = [enc EXCEPT ![i] = @ - 1]
  /\ releasePreviewFrame(i)
  /\ UNCHANGED <<devState, mBufferCnt, mem, slot, curBuf, capState, canDisc,
                 picVars, qVars, objLock, capVars, thrVars, ctl, starts>>

\* The number is reached or the application stopped the burst: no more
\* pictures.  Otherwise one more picture, unless the encoder fails.
ContinuousDone ==
  /\ "continuous" \in Consumers /\ pc["continuous"] = "use"
  /\ \/ /\ contCnt >= ContinuousMax \/ ~contOn
        /\ picState' = "NULL" /\ contOn' = FALSE /\ UNCHANGED contCnt
     \/ /\ contCnt < ContinuousMax /\ contOn
        /\ contCnt' \in {contCnt, contCnt + 1} /\ UNCHANGED <<picState, contOn>>
  /\ releasePreviewFrame(IndexOf(buf["continuous"]))
  /\ objLock' = "none" /\ Return("continuous")
  /\ UNCHANGED <<devState, mBufferCnt, mem, slot, curBuf, capState, canDisc,
                 isPicCopy, smartDone, qVars, capVars, ctl, enc, starts>>

\* mIsPicCopy and the index are read before mCaptureMutex is taken.
AfterPicture(t) ==
  IF isPicCopy
  THEN Return(t)
  ELSE /\ Goto(t, "rel") /\ UNCHANGED buf
       /\ idx' = [idx EXCEPT ![t] = IndexOf(buf[t])]

PictureTaken ==
  /\ "picture" \in Consumers /\ pc["picture"] = "got"
  /\ AfterPicture("picture")
  /\ UNCHANGED <<devState, hwVars, frmVars, capState, canDisc, picVars, qVars,
                 objLock, capVars, ctl, enc, starts>>

\* Stopped by the application or by a picture taken now; or not yet smiling.
SmartTaken ==
  /\ "smart" \in Consumers /\ pc["smart"] = "got"
  /\ \/ /\ picState' = "NULL" /\ smartDone' = TRUE
     \/ /\ ~smartDone /\ UNCHANGED <<picState, smartDone>>
  /\ AfterPicture("smart")
  /\ UNCHANGED <<devState, hwVars, frmVars, capState, canDisc, isPicCopy,
                 contCnt, contOn, qVars, objLock, capVars, ctl, enc, starts>>

ReleasePicture(t) ==
  /\ t \in {"picture", "smart"} /\ pc[t] = "rel"
  /\ releasePreviewFrame(idx[t])
  /\ Return(t)
  /\ UNCHANGED <<devState, mBufferCnt, mem, slot, curBuf, capState, canDisc,
                 picVars, qVars, objLock, capVars, ctl, enc, starts>>

\* getCurrentFaceFrame: the state is tested, the lock taken, the frame copied
\* without a reference to it.
getCurrentFaceFrame ==
  /\ "face" \in Consumers
  /\ \/ /\ pc["face"] = "idle" /\ capState = "started"
        /\ Goto("face", "got") /\ UNCHANGED <<objLock, buf>>
     \/ /\ pc["face"] = "got" /\ objLock = "none"
        /\ IF curBuf \in slot
           THEN /\ objLock' = "face" /\ Goto("face", "use")
                /\ buf' = [buf EXCEPT !["face"] = curBuf]
           ELSE Goto("face", "idle") /\ UNCHANGED <<objLock, buf>>
     \/ /\ pc["face"] = "use"
        /\ objLock' = "none" /\ Goto("face", "idle")
        /\ buf' = [buf EXCEPT !["face"] = 0]
  /\ UNCHANGED <<devState, hwVars, frmVars, capState, canDisc, picVars, qVars,
                 capVars, idx, ctl, enc, starts>>
-----------------------------------------------------------------------------
(* The HAL's calls.  At most one of them is under way, and CameraHardware  *)
(* keeps an order: it stops delivering before it stops, stops only a       *)
(* started device, and starts delivering right after a start.  startPreview, *)
(* stopPreview and doTakePicture hold its mObjectLock; startRecording and   *)
(* cleanupCamera do not, so that an application that records or closes      *)
(* while a picture is being taken can make two calls overlap.  That is left *)
(* out here and explored in CameraHardware.                                 *)

connectDevice ==
  /\ ctl = "idle" /\ objLock = "none" /\ devState = "constructed"
  /\ devState' = "connected"
  /\ UNCHANGED <<hwVars, frmVars, capState, canDisc, picVars, qVars, objLock,
                 capVars, thrVars, ctl, enc, starts>>

disconnectDevice ==
  /\ ctl = "idle" /\ objLock = "none" /\ devState = "connected"
  /\ devState' = "constructed"
  /\ UNCHANGED <<hwVars, frmVars, capState, canDisc, picVars, qVars, objLock,
                 capVars, thrVars, ctl, enc, starts>>

\* External: the driver grants at most what is asked for.
Granted == 1 .. (IF picState = "NORMAL" THEN 1 ELSE NB_BUFFER)

startDevice ==
  /\ ctl = "idle" /\ objLock = "none" /\ devState = "connected"
  /\ starts < MaxStarts /\ starts' = starts + 1
  /\ canDisc' = FALSE /\ curBuf' = -1
  /\ \E g \in Granted :
       /\ mBufferCnt' = g /\ avail' = g
       /\ mem' = mem \cup 0 .. g - 1 /\ drv' = 0 .. g - 1
  /\ lost' = {} /\ devState' = "started" /\ ctl' = "deliver"
  /\ UNCHANGED <<slot, refCnt, capState, picVars, qVars, objLock, capVars,
                 thrVars, enc>>

\* A failing step returns at once and undoes nothing: the format or the buffers
\* are refused, the k-th buffer is not mapped or queued, or streaming does not
\* start.
startDeviceFails ==
  /\ ctl = "idle" /\ objLock = "none" /\ devState = "connected"
  /\ starts < MaxStarts /\ starts' = starts + 1
  /\ canDisc' = FALSE /\ curBuf' = -1
  /\ \/ UNCHANGED <<mBufferCnt, avail, mem, drv>>
     \/ \E g \in Granted : \E k \in 0 .. g : \E m \in {k - 1, k} :
          /\ mBufferCnt' = g /\ avail' = g
          /\ mem' = mem \cup {i \in 0 .. m : i < g} /\ drv' = 0 .. k - 1
  /\ UNCHANGED <<devState, slot, refCnt, capState, picVars, qVars, objLock,
                 capVars, thrVars, ctl, enc, lost>>

\* Mutant: the state is set without a signal to the capture thread.
DeliverWithoutSignal ==
  /\ ctl = "deliver" /\ ctl' = "idle"
  /\ capState' = "started"
  /\ UNCHANGED <<devState, hwVars, frmVars, canDisc, picVars, qVars, objLock,
                 capVars, thrVars, enc, starts>>

startDeliveringFrames ==
  /\ ctl = "deliver" /\ ctl' = "idle"
  /\ capState' = "started"
  /\ capPc' = IF capPc = "waitCap" THEN "select" ELSE capPc
  /\ UNCHANGED <<devState, hwVars, frmVars, canDisc, picVars, qVars, objLock,
                 thrVars, enc, starts, capIdx>>

\* Mutant: the request to pause is forgotten.
StopDeliveringForgets ==
  /\ ctl = "idle" /\ devState = "started"
  /\ UNCHANGED capState /\ ctl' = "stop"
  /\ UNCHANGED <<devState, hwVars, frmVars, canDisc, picVars, qVars, objLock,
                 capVars, thrVars, enc, starts>>

stopDeliveringFrames ==
  /\ ctl = "idle" /\ devState = "started"
  /\ capState' = "paused" /\ ctl' = "stop"
  /\ UNCHANGED <<devState, hwVars, frmVars, canDisc, picVars, qVars, objLock,
                 capVars, thrVars, enc, starts>>

\* stopDevice, under mConnectMutex.
StopDeviceWait ==
  /\ ctl = "stop"
  /\ ctl' = IF canDisc THEN "stopLock" ELSE "waitConn"
  /\ UNCHANGED <<devState, hwVars, frmVars, capState, canDisc, picVars, qVars,
                 objLock, capVars, thrVars, enc, starts>>

\* Mutant: the buffers are unmapped without mObjectLock.
StopDeviceUnlocked ==
  /\ ctl = "stopLock" /\ devState = "started"
  /\ objLock' = "ctl" /\ ctl' = "zero"
  /\ drv' = {} /\ lost' = {} /\ mem' = mem \ 0 .. mBufferCnt - 1
  /\ UNCHANGED <<devState, mBufferCnt, frmVars, capState, canDisc, picVars,
                 qVars, capVars, thrVars, enc, starts>>

\* stopDevice, with mObjectLock: the stream is stopped, the buffers unmapped,
\* then mV4l2buf is zeroed.  The queues keep their entries.
StopDeviceUnmap ==
  /\ ctl = "stopLock" /\ objLock = "none" /\ devState = "started"
  /\ objLock' = "ctl" /\ ctl' = "zero"
  /\ drv' = {} /\ lost' = {} /\ mem' = mem \ 0 .. mBufferCnt - 1
  /\ UNCHANGED <<devState, mBufferCnt, frmVars, capState, canDisc, picVars,
                 qVars, capVars, thrVars, enc, starts>>

\* Mutant: the reference counts survive the session.
StopDeviceKeepsCounts ==
  /\ ctl = "zero" /\ ctl' = "idle" /\ objLock' = "none"
  /\ slot' = {} /\ curBuf' = -1
  /\ devState' = "connected"
  /\ UNCHANGED <<hwVars, refCnt, avail, capState, canDisc, picVars, qVars,
                 capVars, thrVars, enc, starts>>

StopDeviceZero ==
  /\ ctl = "zero" /\ ctl' = "idle" /\ objLock' = "none"
  /\ slot' = {} /\ refCnt' = [i \in Bufs |-> 0] /\ curBuf' = -1
  /\ devState' = "connected"
  /\ UNCHANGED <<hwVars, avail, capState, canDisc, picVars, qVars, capVars,
                 thrVars, enc, starts>>

\* doTakePicture: NORMAL is asked for with the device stopped.
setTakePictureState(m) ==
  /\ ctl = "idle"
  /\ m = "NORMAL" => devState # "started"
  /\ picState' = m
  /\ ctl' = CASE m = "CONTINUOUS" -> "startCont"
              [] m = "SMART" -> "startSmart"
              [] OTHER -> "idle"
  /\ UNCHANGED <<devState, hwVars, frmVars, capState, canDisc, isPicCopy,
                 contCnt, contOn, smartDone, qVars, objLock, capVars, thrVars,
                 enc, starts>>

\* The burst is armed after its state is set: a frame may come in between.
startContinuousPicture ==
  /\ ctl = "startCont" /\ ctl' = "idle"
  /\ contCnt' = 0 /\ contOn' = TRUE
  /\ UNCHANGED <<devState, hwVars, frmVars, capState, canDisc, picState,
                 isPicCopy, smartDone, qVars, objLock, capVars, thrVars, enc,
                 starts>>

startSmartPicture ==
  /\ ctl = "startSmart" /\ ctl' = "idle"
  /\ smartDone' = FALSE
  /\ UNCHANGED <<devState, hwVars, frmVars, capState, canDisc, picState,
                 isPicCopy, contCnt, contOn, qVars, objLock, capVars, thrVars,
                 enc, starts>>

\* cancelPicture takes no lock of the HAL and comes at any time.
cancelPicture ==
  /\ picState # "NULL" /\ picState' = "NULL"
  /\ UNCHANGED <<devState, hwVars, frmVars, capState, canDisc, isPicCopy,
                 contCnt, contOn, smartDone, qVars, objLock, capVars, thrVars,
                 ctl, enc, starts>>
-----------------------------------------------------------------------------
captureThread ==
  \/ CaptureTop \/ v4l2WaitCameraReady \/ CaptureSkip \/ CaptureDecRef
  \/ \E i \in Bufs : CaptureFrame(i)

ConsumerStep(t) ==
  Dequeue(t) \/ Sleep(t) \/ LockFrame(t) \/ ReleasePicture(t)

ControlStep ==
  \/ startDeliveringFrames \/ StopDeviceWait \/ StopDeviceUnmap
  \/ StopDeviceZero \/ startContinuousPicture \/ startSmartPicture

Request ==
  \/ connectDevice \/ disconnectDevice \/ startDevice \/ startDeviceFails
  \/ stopDeliveringFrames \/ cancelPicture
  \/ \E m \in Modes : setTakePictureState(m)

Next ==
  \/ captureThread \/ ControlStep \/ Request \/ Spurious
  \/ \E t \in Queued : ConsumerStep(t)
  \/ EncodeRead \/ EncodeWrite \/ PreviewDone
  \/ PictureTaken \/ SmartTaken \/ ContinuousDone
  \/ getCurrentFaceFrame
  \/ \E i \in Bufs : releaseRecordingFrame(i)

Spec == Init /\ [][Next]_vars

(* Every thread's own steps are weakly fair: no step but a wait blocks for *)
(* ever, select returns after two seconds, callbacks return.  Requests and *)
(* spurious wakeups are not fair.                                          *)
Fairness ==
  /\ WF_vars(captureThread) /\ WF_vars(ControlStep)
  /\ \A t \in Queued : WF_vars(ConsumerStep(t))
  /\ WF_vars(PreviewDone) /\ WF_vars(EncodeWrite)
  /\ WF_vars(PictureTaken) /\ WF_vars(SmartTaken) /\ WF_vars(ContinuousDone)
  /\ WF_vars(getCurrentFaceFrame)

FairSpec == Spec /\ Fairness
-----------------------------------------------------------------------------
TypeFrames ==
  /\ drv \in SUBSET Bufs /\ mBufferCnt \in 1 .. NB_BUFFER /\ mem \in SUBSET Bufs
  /\ lost \in SUBSET Bufs
  /\ slot \in SUBSET Bufs /\ refCnt \in [Bufs -> Nat] /\ enc \in [Bufs -> Nat]
  /\ avail \in Int /\ curBuf \in Bufs \cup {-1}

TypeFlags ==
  /\ canDisc \in BOOLEAN /\ isPicCopy \in BOOLEAN
  /\ contOn \in BOOLEAN /\ smartDone \in BOOLEAN

TypeControl ==
  /\ devState \in {"constructed", "connected", "started"}
  /\ capState \in {"paused", "started"}
  /\ picState \in AllModes \cup {"NULL"} /\ contCnt \in 0 .. ContinuousMax
  /\ objLock \in {"none", "ctl", "preview", "continuous", "face"}
  /\ capPc \in {"top", "waitCap", "select", "ready", "timeout", "decref"}
  /\ capIdx \in Bufs
  /\ ctl \in {"idle", "deliver", "stop", "waitConn", "stopLock", "zero",
              "startCont", "startSmart"}
  /\ starts \in 0 .. MaxStarts

TypeQueues ==
  /\ prevQ \in Seq(Bufs) /\ Len(prevQ) <= PreviewQueue
  /\ picQ \in Seq(Entries) /\ Len(picQ) <= PictureQueue

TypeThreads ==
  /\ pc \in [Consumers -> {"idle", "deq", "gap", "wait", "got", "use", "inc",
                           "shown", "rel"}]
  /\ buf \in [Consumers -> Entries] /\ idx \in [Consumers -> Nat]

\* Type invariant.
TypeOK == TypeFrames /\ TypeFlags /\ TypeControl /\ TypeQueues /\ TypeThreads

Streaming == devState = "started" /\ ctl # "zero"

\* mCurAvailBufferCnt, which halves the preview's frame rate when it gets low,
\* is the number of buffers the driver has, through restarts, early releases,
\* frames returned late and QBUFs that fail: no QBUF and no DQBUF goes uncounted.
AvailMatchesDriver == Streaming => avail = Cardinality(drv)

\* A buffer the driver has is referenced by nobody, so no consumer's release
\* queues it a second time and no count carries over into its next frame.  The
\* uncounted write of the HW encoder path (CallbackNotifier::onNextFrameHW
\* increments refCnt without mCaptureMutex) is excluded.
CountedOutsideDriver == ~HwEncoder => \A i \in drv : refCnt[i] = 0

\* The references that will be given back: the capture thread's, the queue
\* entries', the consumers' and the encoder's.
Occurrences(q, i) == Cardinality({k \in DOMAIN q : q[k] = i})
Holders(i) ==
  {t \in Consumers \ {"face"} :
     \/ pc[t] \in {"got", "use", "inc", "shown"} /\ buf[t] = i
     \/ pc[t] = "rel" /\ idx[t] = i}
References(i) ==
  (IF capPc = "decref" /\ capIdx = i THEN 1 ELSE 0)
    + Occurrences(prevQ, i) + Occurrences(picQ, i) + Cardinality(Holders(i)) + enc[i]

\* Only a failing VIDIOC_QBUF loses a frame: while the device streams, any other
\* buffer that the driver does not have is counted, and as many holders as its
\* count are still to release it; and what a failing QBUF lost stays without a
\* reference.  A lost buffer is gone until the device restarts: releasePreviewFrame
\* logs the error and tries no second time.
NoFrameLost ==
  Streaming => \A i \in 0 .. mBufferCnt - 1 :
                 \/ i \in drv
                 \/ i \in lost /\ refCnt[i] = 0
                 \/ refCnt[i] >= 1 /\ refCnt[i] <= References(i)

\* A frame that is queued for or used by a consumer is not in the driver's
\* hands: releasePreviewFrame says that it decreases the reference count first
\* and releases the buffer "if the reference count is no more than 0"
\* (V4L2CameraDevice2.cpp:2039).
HeldFramesOutOfDriver ==
  Streaming => \A i \in drv : Occurrences(prevQ, i) + Occurrences(picQ, i)
                                + Cardinality(Holders(i)) = 0

\* The threads that hold mObjectLock over their callback look at a mapped
\* buffer of a started device from the first to the last byte: stopDevice
\* cannot unmap it under them.
MappedWhileUsed ==
  \A t \in {"preview", "continuous", "face"} \cap Consumers :
    pc[t] \in {"use", "inc", "shown"} /\ buf[t] # PicBuffer =>
      Streaming /\ buf[t] \in slot \cap mem

\* The capture thread dequeues and converts frames only on a started device
\* whose buffers are all mapped, although it never takes mObjectLock and
\* mCanBeDisconnected may be stale when stopDevice reads it.
CaptureOnlyStreaming ==
  capState = "started" =>
    /\ devState = "started" /\ ctl \in {"idle", "startCont", "startSmart"}
    /\ 0 .. mBufferCnt - 1 \subseteq mem

\* stopDevice returns: its single wait on mConnectCond is always answered by
\* the capture thread, and mObjectLock is always given back to it.
StopTerminates == ctl \in {"stop", "waitConn", "stopLock"} ~> ctl = "idle"
=============================================================================
