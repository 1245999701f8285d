----------------------- MODULE V4L2CameraDeviceProofs -----------------------
(***************************************************************************)
(* Proofs about the capture device, for every number of buffers, every     *)
(* queue capacity and every set of consumer threads.                       *)
(***************************************************************************)
EXTENDS V4L2CameraDevice, FiniteSetTheorems, TLAPS

\* The index that pictureThread and smartPictureThread keep over the unlock
\* is the index of a buffer.
IndexInv == \A t \in Consumers : t \in {"picture", "smart"} => idx[t] \in Bufs

\* IndexOf, the index field of a frame descriptor, is always a buffer.
LEMMA IndexOfBufs ==
  ASSUME TypeFrames, NEW e
  PROVE  IndexOf(e) \in Bufs
<1>1. slot \in SUBSET Bufs
  BY DEF TypeFrames
<1>2. 0 \in Bufs
  BY DeviceAssumption DEF Bufs
<1>3. QED
  BY <1>1, <1>2 DEF IndexOf

\* What Append and Tail do to a bounded queue.
LEMMA AppendBounded ==
  ASSUME NEW S, NEW q \in Seq(S), NEW e \in S, NEW n \in Nat, Len(q) < n
  PROVE  Append(q, e) \in Seq(S) /\ Len(Append(q, e)) <= n
OBVIOUS

\* Dropping the head of a bounded queue leaves a bounded queue.
LEMMA TailBounded ==
  ASSUME NEW S, NEW q \in Seq(S), q # <<>>, NEW n \in Nat, Len(q) <= n
  PROVE  Head(q) \in S /\ Tail(q) \in Seq(S) /\ Len(Tail(q)) <= n
OBVIOUS

\* releasePreviewFrame keeps the types of what it writes.
LEMMA ReleaseType ==
  ASSUME TypeFrames, NEW i \in Bufs, releasePreviewFrame(i)
  PROVE  /\ refCnt' \in [Bufs -> Nat] /\ drv' \in SUBSET Bufs /\ avail' \in Int
         /\ lost' \in SUBSET Bufs
BY DEF TypeFrames, releasePreviewFrame

\* The types hold initially.
LEMMA InitType == Init => TypeOK /\ IndexInv
<1> SUFFICES ASSUME Init PROVE TypeOK /\ IndexInv
  OBVIOUS
<1> USE DeviceAssumption DEF Init
<1>1. 0 \in Bufs /\ 0 \in Entries
  BY DEF Bufs, Entries
<1>2. TypeFrames
  BY <1>1 DEF TypeFrames
<1>3. TypeFlags
  BY DEF TypeFlags
<1>4. TypeControl
  BY <1>1 DEF TypeControl
<1>5. TypeQueues
  BY DEF TypeQueues, PreviewQueue
<1>6. TypeThreads
  BY <1>1 DEF TypeThreads
<1>7. IndexInv
  BY <1>1 DEF IndexInv
<1>8. QED
  BY <1>2, <1>3, <1>4, <1>5, <1>6, <1>7 DEF TypeOK

\* The flags: none of the actions but the listed ones writes one.
LEMMA FlagsStep == TypeOK /\ [Next]_vars => TypeFlags'
<1> SUFFICES ASSUME TypeFlags, [Next]_vars PROVE TypeFlags'
  BY DEF TypeOK
<1> USE DEF TypeFlags, hwVars, frmVars, picVars, qVars, thrVars, capVars
<1>1. CASE captureThread
  BY <1>1 DEF captureThread, CaptureTop, v4l2WaitCameraReady, CaptureSkip, CaptureDecRef,
     CaptureFrame, singalDisconnect, CaptureNormal, CapturePreviewFull, CapturePreview, CapturePicture
<1>2. CASE ControlStep
  BY <1>2 DEF ControlStep, startDeliveringFrames, StopDeviceWait, StopDeviceUnmap,
     StopDeviceZero, startContinuousPicture, startSmartPicture
<1>3. CASE Request
  BY <1>3 DEF Request, connectDevice, disconnectDevice, startDevice, startDeviceFails,
     stopDeliveringFrames, cancelPicture, setTakePictureState
<1>4. CASE Spurious
  BY <1>4 DEF Spurious
<1>5. CASE \E t \in Queued : ConsumerStep(t)
  BY <1>5 DEF ConsumerStep, Dequeue, Sleep, LockFrame, ReleasePicture
<1>6. CASE EncodeRead \/ EncodeWrite \/ PreviewDone \/ PictureTaken
  BY <1>6 DEF EncodeRead, EncodeWrite, PreviewDone, PictureTaken
<1>7. CASE SmartTaken
  BY <1>7 DEF SmartTaken
<1>8. CASE ContinuousDone
  BY <1>8 DEF ContinuousDone
<1>9. CASE getCurrentFaceFrame
  BY <1>9 DEF getCurrentFaceFrame
<1>10. CASE \E i \in Bufs : releaseRecordingFrame(i)
  BY <1>10 DEF releaseRecordingFrame
<1>11. CASE UNCHANGED vars
  BY <1>11 DEF vars
<1>12. QED
  BY <1>1, <1>2, <1>3, <1>4, <1>5, <1>6, <1>7, <1>8, <1>9, <1>10, <1>11 DEF Next

\* The control state.
LEMMA ControlTypeStep == TypeOK /\ [Next]_vars => TypeControl'
<1> SUFFICES ASSUME TypeOK, [Next]_vars PROVE TypeControl'
  OBVIOUS
<1>a. TypeControl
  BY DEF TypeOK
<1> USE <1>a, DeviceAssumption DEF TypeControl, hwVars, frmVars, picVars, qVars, thrVars, capVars
<1>1. CASE captureThread
  <2>1. 0 \in Bufs
    BY DEF Bufs
  <2>2. QED
    BY <1>1, <2>1 DEF captureThread, CaptureTop, v4l2WaitCameraReady, CaptureSkip, CaptureDecRef,
       CaptureFrame, singalDisconnect, CaptureNormal, CapturePreviewFull, CapturePreview, CapturePicture
<1>2. CASE ControlStep
  BY <1>2 DEF ControlStep, startDeliveringFrames, StopDeviceWait, StopDeviceUnmap,
     StopDeviceZero, startContinuousPicture, startSmartPicture
<1>3. CASE Request
  BY <1>3 DEF Request, connectDevice, disconnectDevice, startDevice, startDeviceFails,
     stopDeliveringFrames, cancelPicture, setTakePictureState, AllModes
<1>4. CASE Spurious
  BY <1>4 DEF Spurious
<1>5. CASE \E t \in Queued : ConsumerStep(t)
  BY <1>5 DEF ConsumerStep, Dequeue, Sleep, LockFrame, ReleasePicture
<1>6. CASE EncodeRead \/ EncodeWrite \/ PreviewDone \/ PictureTaken
  BY <1>6 DEF EncodeRead, EncodeWrite, PreviewDone, PictureTaken
<1>7. CASE SmartTaken
  BY <1>7 DEF SmartTaken
<1>8. CASE ContinuousDone
  BY <1>8 DEF ContinuousDone
<1>9. CASE getCurrentFaceFrame
  BY <1>9 DEF getCurrentFaceFrame
<1>10. CASE \E i \in Bufs : releaseRecordingFrame(i)
  BY <1>10 DEF releaseRecordingFrame
<1>11. CASE UNCHANGED vars
  BY <1>11 DEF vars
<1>12. QED
  BY <1>1, <1>2, <1>3, <1>4, <1>5, <1>6, <1>7, <1>8, <1>9, <1>10, <1>11 DEF Next

\* The queues: a queue is written below its capacity only.
LEMMA QueuesTypeStep == TypeOK /\ [Next]_vars => TypeQueues'
<1> SUFFICES ASSUME TypeOK, [Next]_vars PROVE TypeQueues'
  OBVIOUS
<1>a. TypeQueues
  BY DEF TypeOK
<1> USE <1>a, DeviceAssumption DEF TypeQueues, hwVars, frmVars, picVars, qVars, thrVars, capVars, PreviewQueue
<1>1. CASE CaptureTop \/ v4l2WaitCameraReady \/ CaptureSkip \/ CaptureDecRef
  BY <1>1 DEF CaptureTop, v4l2WaitCameraReady, CaptureSkip, CaptureDecRef
<1>2. ASSUME NEW i \in Bufs, CaptureFrame(i)
      PROVE  TypeQueues'
  <2>1. i \in Entries /\ PicBuffer \in Entries
    BY DEF Bufs, Entries, PicBuffer
  <2>2. CASE CaptureNormal(i)
    <3>1. Len(picQ) < PictureQueue => /\ Append(picQ, PicBuffer) \in Seq(Entries)
                                      /\ Len(Append(picQ, PicBuffer)) <= PictureQueue
      BY <2>1, AppendBounded
    <3>2. QED
      BY <2>2, <3>1 DEF CaptureNormal
  <2>3. CASE CapturePreviewFull(i)
    BY <2>3 DEF CapturePreviewFull
  <2>4. CASE CapturePreview(i)
    BY <2>4 DEF CapturePreview
  <2>5. CASE CapturePicture(i)
    <3>1. Len(picQ) < PictureQueue => /\ Append(picQ, i) \in Seq(Entries)
                                      /\ Len(Append(picQ, i)) <= PictureQueue
      BY <2>1, AppendBounded
    <3>2. prevQ' \in Seq(Bufs) /\ Len(prevQ') <= PreviewQueue
      BY <2>5, AppendBounded DEF CapturePicture
    <3>3. picQ' \in Seq(Entries) /\ Len(picQ') <= PictureQueue
      BY <2>5, <3>1 DEF CapturePicture
    <3>4. QED
      BY <3>2, <3>3
  <2>6. QED
    BY <1>2, <2>2, <2>3, <2>4, <2>5 DEF CaptureFrame
<1>3. CASE ControlStep
  BY <1>3 DEF ControlStep, startDeliveringFrames, StopDeviceWait, StopDeviceUnmap,
     StopDeviceZero, startContinuousPicture, startSmartPicture
<1>4. CASE Request
  BY <1>4 DEF Request, connectDevice, disconnectDevice, startDevice, startDeviceFails,
     stopDeliveringFrames, cancelPicture, setTakePictureState
<1>5. CASE Spurious
  BY <1>5 DEF Spurious
<1>6. ASSUME NEW t \in Queued, ConsumerStep(t)
      PROVE  TypeQueues'
  <2>1. CASE Dequeue(t)
    <3>1. prevQ # <<>> => Tail(prevQ) \in Seq(Bufs) /\ Len(Tail(prevQ)) <= PreviewQueue
      BY TailBounded
    <3>2. picQ # <<>> => Tail(picQ) \in Seq(Entries) /\ Len(Tail(picQ)) <= PictureQueue
      BY TailBounded
    <3>3. QED
      BY <2>1, <3>1, <3>2 DEF Dequeue
  <2>2. QED
    BY <1>6, <2>1 DEF ConsumerStep, Sleep, LockFrame, ReleasePicture
<1>7. CASE EncodeRead \/ EncodeWrite \/ PreviewDone \/ PictureTaken \/ SmartTaken \/ ContinuousDone
  BY <1>7 DEF EncodeRead, EncodeWrite, PreviewDone, PictureTaken, SmartTaken, ContinuousDone
<1>8. CASE getCurrentFaceFrame
  BY <1>8 DEF getCurrentFaceFrame
<1>9. CASE \E i \in Bufs : releaseRecordingFrame(i)
  BY <1>9 DEF releaseRecordingFrame
<1>10. CASE UNCHANGED vars
  BY <1>10 DEF vars
<1>11. QED
  BY <1>1, <1>2, <1>3, <1>4, <1>5, <1>6, <1>7, <1>8, <1>9, <1>10 DEF Next, captureThread

\* The frame descriptors, reference counts and the driver's buffers.
LEMMA FramesTypeStep == TypeOK /\ IndexInv /\ [Next]_vars => TypeFrames'
<1> SUFFICES ASSUME TypeOK, IndexInv, [Next]_vars PROVE TypeFrames'
  OBVIOUS
<1>a. TypeFrames /\ TypeControl /\ TypeThreads
  BY DEF TypeOK
<1> USE <1>a, DeviceAssumption DEF hwVars, frmVars, picVars, qVars, thrVars, capVars
<1>1. CASE CaptureTop \/ v4l2WaitCameraReady \/ CaptureSkip
  BY <1>1 DEF CaptureTop, v4l2WaitCameraReady, CaptureSkip, TypeFrames
<1>2. CASE CaptureDecRef
  <2>1. capIdx \in Bufs
    BY DEF TypeControl
  <2>2. QED
    BY <1>2, <2>1, ReleaseType DEF CaptureDecRef, TypeFrames
<1>3. ASSUME NEW i \in Bufs, CaptureFrame(i)
      PROVE  TypeFrames'
  <2>1. \E n \in {1, 2, 3} : refCnt' = [refCnt EXCEPT ![i] = n]
    BY <1>3 DEF CaptureFrame, CaptureNormal, CapturePreviewFull, CapturePreview, CapturePicture
  <2>2. curBuf' \in {curBuf, i}
    BY <1>3 DEF CaptureFrame, CaptureNormal
  <2>3. refCnt' \in [Bufs -> Nat] /\ curBuf' \in Bufs \cup {-1}
    BY <2>1, <2>2 DEF TypeFrames
  <2>4. QED
    BY <1>3, <2>3 DEF CaptureFrame, getPreviewFrame, FillSlot, TypeFrames
<1>4. CASE ControlStep
  <2>1. CASE StopDeviceUnmap
    BY <2>1 DEF StopDeviceUnmap, TypeFrames
  <2>2. CASE StopDeviceZero
    BY <2>2 DEF StopDeviceZero, TypeFrames
  <2>3. QED
    BY <1>4, <2>1, <2>2 DEF ControlStep, startDeliveringFrames, StopDeviceWait, startContinuousPicture,
       startSmartPicture, TypeFrames
<1>b. \A g \in Granted : g \in 1 .. NB_BUFFER /\ 0 .. g - 1 \subseteq Bufs
  BY DEF Granted, Bufs
<1>5. CASE startDevice
  <2>1. PICK g \in Granted : mBufferCnt' = g /\ avail' = g /\ mem' = mem \cup 0 .. g - 1 /\ drv' = 0 .. g - 1
    BY <1>5 DEF startDevice
  <2>2. drv' \in SUBSET Bufs /\ mem' \in SUBSET Bufs /\ mBufferCnt' \in 1 .. NB_BUFFER /\ avail' \in Int
    BY <2>1, <1>b DEF TypeFrames
  <2>3. QED
    BY <1>5, <2>2 DEF startDevice, TypeFrames
<1>6. CASE startDeviceFails
  <2>1. CASE UNCHANGED <<mBufferCnt, avail, mem, drv>>
    BY <1>6, <2>1 DEF startDeviceFails, TypeFrames
  <2>2. CASE ~UNCHANGED <<mBufferCnt, avail, mem, drv>>
    <3>0. PICK g \in Granted : \E k \in 0 .. g : \E m \in {k - 1, k} :
            /\ mBufferCnt' = g /\ avail' = g
            /\ mem' = mem \cup {i \in 0 .. m : i < g} /\ drv' = 0 .. k - 1
      BY <1>6, <2>2 DEF startDeviceFails
    <3>1. PICK k \in 0 .. g : \E m \in {k - 1, k} :
            /\ mBufferCnt' = g /\ avail' = g
            /\ mem' = mem \cup {i \in 0 .. m : i < g} /\ drv' = 0 .. k - 1
      BY <3>0
    <3>2. g \in 1 .. NB_BUFFER /\ k \in 0 .. g
      BY <1>b
    <3>3. 0 .. k - 1 \subseteq Bufs /\ \A m \in {k - 1, k} : {i \in 0 .. m : i < g} \subseteq Bufs
      BY <3>2 DEF Bufs
    <3>4. QED
      BY <1>6, <3>1, <3>2, <3>3 DEF startDeviceFails, TypeFrames
  <2>3. QED
    BY <2>1, <2>2
<1>7. CASE Request /\ ~startDevice /\ ~startDeviceFails
  BY <1>7 DEF Request, connectDevice, disconnectDevice, stopDeliveringFrames, cancelPicture,
     setTakePictureState, TypeFrames
<1>8. CASE Spurious
  BY <1>8 DEF Spurious, TypeFrames
<1>9. ASSUME NEW t \in Queued, ConsumerStep(t)
      PROVE  TypeFrames'
  <2>1. CASE ReleasePicture(t)
    <3>1. idx[t] \in Bufs
      BY <2>1 DEF ReleasePicture, IndexInv, Queued
    <3>2. QED
      BY <2>1, <3>1, ReleaseType DEF ReleasePicture, TypeFrames
  <2>2. QED
    BY <1>9, <2>1 DEF ConsumerStep, Dequeue, Sleep, LockFrame, TypeFrames
<1>10. CASE EncodeRead \/ PictureTaken \/ SmartTaken
  BY <1>10 DEF EncodeRead, PictureTaken, SmartTaken, TypeFrames
<1>11. CASE EncodeWrite
  BY <1>11, IndexOfBufs DEF EncodeWrite, TypeFrames, TypeThreads
<1>12. CASE PreviewDone
  BY <1>12, IndexOfBufs, ReleaseType DEF PreviewDone, TypeFrames
<1>13. CASE ContinuousDone
  BY <1>13, IndexOfBufs, ReleaseType DEF ContinuousDone, TypeFrames
<1>14. CASE getCurrentFaceFrame
  BY <1>14 DEF getCurrentFaceFrame, TypeFrames
<1>15. ASSUME NEW i \in Bufs, releaseRecordingFrame(i)
       PROVE  TypeFrames'
  BY <1>15, ReleaseType DEF releaseRecordingFrame, TypeFrames
<1>16. CASE UNCHANGED vars
  BY <1>16 DEF vars, TypeFrames
<1>17. QED
  BY <1>1, <1>2, <1>3, <1>4, <1>5, <1>6, <1>7, <1>8, <1>9, <1>10, <1>11, <1>12, <1>13, <1>14, <1>15, <1>16
     DEF Next, captureThread, Request

\* The threads' program points and locals.
LEMMA ThreadsTypeStep ==
  TypeOK /\ IndexInv /\ [Next]_vars => TypeThreads' /\ IndexInv'
<1> SUFFICES ASSUME TypeOK, IndexInv, [Next]_vars PROVE TypeThreads' /\ IndexInv'
  OBVIOUS
<1>a. TypeFrames /\ TypeThreads /\ TypeQueues
  BY DEF TypeOK
<1>b. 0 \in Bufs /\ 0 \in Entries /\ Bufs \subseteq Entries
  BY DeviceAssumption DEF Bufs, Entries
<1>c. Bufs \subseteq Nat
  BY DeviceAssumption DEF Bufs
<1> USE <1>a, <1>b, <1>c DEF hwVars, frmVars, picVars, qVars, thrVars, capVars
<1>1. CASE CaptureTop \/ v4l2WaitCameraReady \/ CaptureSkip \/ CaptureDecRef
  BY <1>1 DEF CaptureTop, v4l2WaitCameraReady, CaptureSkip, CaptureDecRef, TypeThreads, IndexInv
<1>2. ASSUME NEW i \in Bufs, CaptureFrame(i)
      PROVE  TypeThreads' /\ IndexInv'
  BY <1>2 DEF CaptureFrame, CaptureNormal, CapturePreviewFull, CapturePreview, CapturePicture, Signal,
     TypeThreads, IndexInv
<1>3. CASE ControlStep
  BY <1>3 DEF ControlStep, startDeliveringFrames, StopDeviceWait, StopDeviceUnmap,
     StopDeviceZero, startContinuousPicture, startSmartPicture, TypeThreads, IndexInv
<1>4. CASE Request
  BY <1>4 DEF Request, connectDevice, disconnectDevice, startDevice, startDeviceFails,
     stopDeliveringFrames, cancelPicture, setTakePictureState, TypeThreads, IndexInv
<1>5. CASE Spurious
  BY <1>5 DEF Spurious, Goto, Queued, TypeThreads, IndexInv
<1>6. ASSUME NEW t \in Queued, ConsumerStep(t)
      PROVE  TypeThreads' /\ IndexInv'
  <2>a. t \in Consumers
    BY DEF Queued
  <2> USE <2>a
  <2>1. CASE Dequeue(t)
    <3>a. PreviewQueue \in Nat /\ PictureQueue \in Nat
      BY DeviceAssumption DEF PreviewQueue
    <3>1. prevQ # <<>> => Head(prevQ) \in Entries
      BY <3>a, TailBounded DEF TypeQueues
    <3>2. picQ # <<>> => Head(picQ) \in Entries
      BY <3>a, TailBounded DEF TypeQueues
    <3>3. /\ buf' \in [Consumers -> Entries] /\ idx' = idx
          /\ \E p \in {"got", "gap"} : pc' = [pc EXCEPT ![t] = p]
      BY <2>1, <3>1, <3>2 DEF Dequeue, Goto, TypeThreads
    <3>4. QED
      BY <3>3 DEF TypeThreads, IndexInv
  <2>2. CASE Sleep(t)
    BY <2>2 DEF Sleep, Goto, TypeThreads, IndexInv
  <2>3. CASE LockFrame(t)
    BY <2>3 DEF LockFrame, Goto, Return, TypeThreads, IndexInv
  <2>4. CASE ReleasePicture(t)
    BY <2>4 DEF ReleasePicture, Goto, Return, TypeThreads, IndexInv
  <2>5. QED
    BY <1>6, <2>1, <2>2, <2>3, <2>4 DEF ConsumerStep
<1>7. CASE EncodeRead
  BY <1>7, IndexOfBufs DEF EncodeRead, Goto, TypeThreads, TypeFrames, IndexInv
<1>8. CASE EncodeWrite
  BY <1>8 DEF EncodeWrite, Goto, TypeThreads, IndexInv
<1>9. CASE PreviewDone
  BY <1>9 DEF PreviewDone, Goto, Return, TypeThreads, IndexInv
<1>10. CASE PictureTaken
  BY <1>10, IndexOfBufs DEF PictureTaken, AfterPicture, Goto, Return, TypeThreads, IndexInv
<1>11. CASE SmartTaken
  BY <1>11, IndexOfBufs DEF SmartTaken, AfterPicture, Goto, Return, TypeThreads, IndexInv
<1>12. CASE ContinuousDone
  BY <1>12 DEF ContinuousDone, Goto, Return, TypeThreads, IndexInv
<1>13. CASE getCurrentFaceFrame
  BY <1>13 DEF getCurrentFaceFrame, Goto, TypeThreads, TypeFrames, IndexInv
<1>14. CASE \E i \in Bufs : releaseRecordingFrame(i)
  BY <1>14 DEF releaseRecordingFrame, TypeThreads, IndexInv
<1>15. CASE UNCHANGED vars
  BY <1>15 DEF vars, TypeThreads, IndexInv
<1>16. QED
  BY <1>1, <1>2, <1>3, <1>4, <1>5, <1>6, <1>7, <1>8, <1>9, <1>10, <1>11, <1>12, <1>13, <1>14, <1>15
     DEF Next, captureThread

\* Type correctness of the device: the queues stay within their capacity, and
\* every index and pointer a thread keeps over an unlock denotes a buffer.
THEOREM DeviceType == Spec => []TypeOK
<1>1. TypeOK /\ IndexInv /\ [Next]_vars => (TypeOK /\ IndexInv)'
  BY FlagsStep, ControlTypeStep, QueuesTypeStep, FramesTypeStep, ThreadsTypeStep DEF TypeOK
<1>2. QED
  BY InitType, <1>1, PTL DEF Spec
-----------------------------------------------------------------------------
(* The inductive invariant.  The properties below rest on the session: the *)
(* capture thread has work only while the device streams, frames and       *)
(* counts belong to the session that is running, and mObjectLock is held   *)
(* by whoever looks at a frame or unmaps it.                               *)

\* What the device's memory is in a session, and that none outlives it.
SessionInv ==
  /\ slot # {} => devState = "started"
  /\ \A i \in Bufs : refCnt[i] > 0 => i \in slot
  /\ Streaming => drv \subseteq mem /\ slot \subseteq mem
  /\ ctl = "deliver" => devState = "started" /\ 0 .. mBufferCnt - 1 \subseteq mem

\* The threads that hold mObjectLock over a callback.
Lockers == {"preview", "continuous", "face"} \cap Consumers
InUse == {"use", "inc", "shown"}

\* mObjectLock: a thread in its callback has it, stopDevice has it from the
\* unmapping to the zeroing.
LockInv ==
  /\ \A t \in Lockers : pc[t] \in InUse => objLock = t
  /\ ctl = "zero" => objLock = "ctl"
  /\ "preview" \in Consumers => buf["preview"] \in Bufs
  /\ "face" \in Consumers => buf["face"] \in Bufs
  /\ "preview" \in Consumers /\ pc["preview"] = "inc" => HwEncoder

IInv ==
  /\ TypeOK /\ IndexInv /\ SessionInv /\ LockInv
  /\ CaptureOnlyStreaming /\ MappedWhileUsed
  /\ AvailMatchesDriver /\ CountedOutsideDriver

\* The invariant holds initially.
LEMMA InitIInv == Init => IInv
<1> SUFFICES ASSUME Init PROVE IInv
  OBVIOUS
<1>1. TypeOK /\ IndexInv
  BY InitType
<1>2. SessionInv
  BY DEF Init, SessionInv, Streaming
<1>3. LockInv
  <2>1. 0 \in Bufs
    BY DeviceAssumption DEF Bufs
  <2>2. QED
    BY <2>1 DEF Init, LockInv, Lockers, InUse
<1>4. CaptureOnlyStreaming /\ AvailMatchesDriver /\ CountedOutsideDriver
  BY DEF Init, CaptureOnlyStreaming, AvailMatchesDriver, CountedOutsideDriver, Streaming
<1>5. MappedWhileUsed
  BY DEF Init, MappedWhileUsed
<1>6. QED
  BY <1>1, <1>2, <1>3, <1>4, <1>5 DEF IInv

\* Capturing is switched on only behind a completed startDevice and off before
\* stopDevice begins.
LEMMA CaptureStep == IInv /\ [Next]_vars => CaptureOnlyStreaming'
<1> SUFFICES ASSUME IInv, [Next]_vars PROVE CaptureOnlyStreaming'
  OBVIOUS
<1>a. CaptureOnlyStreaming /\ TypeControl /\ TypeFrames
  BY DEF IInv, TypeOK
<1>b. ctl = "deliver" => devState = "started" /\ 0 .. mBufferCnt - 1 \subseteq mem
  BY DEF IInv, SessionInv
<1> USE <1>a DEF CaptureOnlyStreaming, hwVars, frmVars, picVars, qVars, thrVars, capVars
<1>1. CASE captureThread
  BY <1>1 DEF captureThread, CaptureTop, v4l2WaitCameraReady, CaptureSkip, CaptureDecRef, CaptureFrame,
     singalDisconnect, CaptureNormal, CapturePreviewFull, CapturePreview, CapturePicture
<1>2. CASE ControlStep
  BY <1>2, <1>b DEF ControlStep, startDeliveringFrames, StopDeviceWait, StopDeviceUnmap,
     StopDeviceZero, startContinuousPicture, startSmartPicture
<1>3. CASE setTakePictureState("CONTINUOUS") \/ setTakePictureState("SMART") \/ setTakePictureState("NORMAL")
             \/ setTakePictureState("FAST")
  BY <1>3 DEF setTakePictureState
<1>4. CASE connectDevice \/ disconnectDevice \/ startDevice \/ startDeviceFails \/ stopDeliveringFrames
             \/ cancelPicture
  BY <1>4 DEF connectDevice, disconnectDevice, startDevice, startDeviceFails,
     stopDeliveringFrames, cancelPicture
<1>5. CASE Request
  BY <1>3, <1>4, <1>5, DeviceAssumption DEF Request, AllModes
<1>6. CASE Spurious
  BY <1>6 DEF Spurious
<1>7. CASE \E t \in Queued : ConsumerStep(t)
  BY <1>7 DEF ConsumerStep, Dequeue, Sleep, LockFrame, ReleasePicture
<1>8. CASE EncodeRead \/ EncodeWrite \/ PreviewDone \/ PictureTaken \/ SmartTaken \/ ContinuousDone
  BY <1>8 DEF EncodeRead, EncodeWrite, PreviewDone, PictureTaken, SmartTaken, ContinuousDone
<1>9. CASE getCurrentFaceFrame
  BY <1>9 DEF getCurrentFaceFrame
<1>10. CASE \E i \in Bufs : releaseRecordingFrame(i)
  BY <1>10 DEF releaseRecordingFrame
<1>11. CASE UNCHANGED vars
  BY <1>11 DEF vars
<1>12. QED
  BY <1>1, <1>2, <1>5, <1>6, <1>7, <1>8, <1>9, <1>10, <1>11 DEF Next

\* A release touches nothing but the count, the driver and the available
\* buffers; a buffer it gives back was counted, so it belongs to the session.
LEMMA ReleaseEffect ==
  ASSUME TypeFrames, NEW i \in Bufs, releasePreviewFrame(i)
  PROVE  /\ \A j \in Bufs : refCnt'[j] <= refCnt[j]
         /\ drv' = drv \/ (refCnt[i] > 0 /\ drv' = drv \cup {i} /\ refCnt'[i] = 0)
BY DEF TypeFrames, releasePreviewFrame

\* mObjectLock passes from hand to hand.
LEMMA LockStep == IInv /\ [Next]_vars => LockInv'
<1> SUFFICES ASSUME IInv, [Next]_vars PROVE LockInv'
  OBVIOUS
<1>a. LockInv /\ TypeThreads /\ TypeControl /\ TypeFrames /\ TypeQueues
  BY DEF IInv, TypeOK
<1>b. 0 \in Bufs
  BY DeviceAssumption DEF Bufs
<1> USE <1>a, <1>b DEF hwVars, frmVars, picVars, qVars, thrVars, capVars
<1>1. CASE CaptureTop \/ v4l2WaitCameraReady \/ CaptureSkip \/ CaptureDecRef
  BY <1>1 DEF CaptureTop, v4l2WaitCameraReady, CaptureSkip, CaptureDecRef, singalDisconnect, LockInv
<1>2. ASSUME NEW i \in Bufs, CaptureFrame(i)
      PROVE  LockInv'
  <2>1. \A t \in Consumers : pc'[t] = pc[t] \/ pc'[t] = "deq"
    BY <1>2 DEF CaptureFrame, CaptureNormal, CapturePreviewFull, CapturePreview, CapturePicture, Signal
  <2>2. QED
    BY <1>2, <2>1 DEF CaptureFrame, LockInv, Lockers, InUse
<1>3. CASE ControlStep
  BY <1>3 DEF ControlStep, startDeliveringFrames, StopDeviceWait, StopDeviceUnmap,
     StopDeviceZero, startContinuousPicture, startSmartPicture, LockInv, Lockers
<1>4. CASE Request
  BY <1>4 DEF Request, connectDevice, disconnectDevice, startDevice, startDeviceFails,
     stopDeliveringFrames, cancelPicture, setTakePictureState, LockInv
<1>5. CASE Spurious
  BY <1>5 DEF Spurious, Goto, LockInv, Lockers, InUse, Queued, TypeThreads
<1>6. ASSUME NEW t \in Queued, ConsumerStep(t)
      PROVE  LockInv'
  <2>a. t \in Consumers /\ t # "face"
    BY DEF Queued
  <2> USE <2>a
  <2>1. CASE Dequeue(t)
    <3>1. prevQ # <<>> => Head(prevQ) \in Bufs
      <4>1. PreviewQueue \in Nat
        BY DeviceAssumption DEF PreviewQueue
      <4>2. QED
        BY <4>1, TailBounded DEF TypeQueues
    <3>2. \E p \in {"got", "gap"} : pc' = [pc EXCEPT ![t] = p]
      BY <2>1 DEF Dequeue, Goto
    <3>3. "preview" \in Consumers => buf'["preview"] \in Bufs
      BY <2>1, <3>1 DEF Dequeue, Pics, TypeThreads, LockInv
    <3>4. "face" \in Consumers => buf'["face"] = buf["face"]
      BY <2>1 DEF Dequeue, TypeThreads
    <3>5. objLock' = objLock /\ ctl' = ctl
      BY <2>1 DEF Dequeue
    <3>6. QED
      BY <3>2, <3>3, <3>4, <3>5 DEF LockInv, Lockers, InUse, TypeThreads
  <2>2. CASE Sleep(t)
    BY <2>2 DEF Sleep, Goto, TypeThreads, LockInv, Lockers, InUse
  <2>3. CASE LockFrame(t)
    <3>1. \/ objLock' = t /\ pc' = [pc EXCEPT ![t] = "use"] /\ buf' = buf
          \/ objLock' = objLock /\ pc' = [pc EXCEPT ![t] = "deq"] /\ buf' = [buf EXCEPT ![t] = 0]
      BY <2>3 DEF LockFrame, Goto, Return
    <3>2. objLock = "none" /\ ctl' = ctl
      BY <2>3 DEF LockFrame
    <3>3. \A u \in Lockers : pc[u] \notin InUse
      BY <3>2 DEF LockInv, Lockers
    <3>4. QED
      BY <3>1, <3>2, <3>3 DEF LockInv, Lockers, InUse, TypeThreads
  <2>4. CASE ReleasePicture(t)
    BY <2>4 DEF ReleasePicture, Goto, Return, TypeThreads, LockInv, Lockers, InUse
  <2>5. QED
    BY <1>6, <2>1, <2>2, <2>3, <2>4 DEF ConsumerStep
<1>7. CASE EncodeRead \/ EncodeWrite
  BY <1>7 DEF EncodeRead, EncodeWrite, Goto, TypeThreads, LockInv, Lockers, InUse
<1>8. CASE PreviewDone
  BY <1>8 DEF PreviewDone, Goto, Return, TypeThreads, LockInv, Lockers, InUse
<1>9. CASE PictureTaken
  BY <1>9 DEF PictureTaken, AfterPicture, Goto, Return, TypeThreads, LockInv, Lockers, InUse
<1>10. CASE SmartTaken
  BY <1>10 DEF SmartTaken, AfterPicture, Goto, Return, TypeThreads, LockInv, Lockers, InUse
<1>11. CASE ContinuousDone
  BY <1>11 DEF ContinuousDone, Goto, Return, TypeThreads, LockInv, Lockers, InUse
<1>12. CASE getCurrentFaceFrame
  BY <1>12 DEF getCurrentFaceFrame, Goto, TypeThreads, TypeFrames, LockInv, Lockers, InUse
<1>13. CASE \E i \in Bufs : releaseRecordingFrame(i)
  BY <1>13 DEF releaseRecordingFrame, LockInv
<1>14. CASE UNCHANGED vars
  BY <1>14 DEF vars, LockInv
<1>15. QED
  BY <1>1, <1>2, <1>3, <1>4, <1>5, <1>6, <1>7, <1>8, <1>9, <1>10, <1>11, <1>12, <1>13, <1>14
     DEF Next, captureThread

\* A frame that mObjectLock's holder looks at is filled and mapped, so the
\* index the encoder counts is a frame of the session.
LEMMA EncodedFrame ==
  ASSUME IInv, "preview" \in Consumers, pc["preview"] = "inc"
  PROVE  IndexOf(buf["preview"]) = buf["preview"] /\ buf["preview"] \in slot /\ Streaming
<1>1. buf["preview"] \in Bufs /\ buf["preview"] # PicBuffer
  BY DeviceAssumption DEF IInv, LockInv, Bufs, PicBuffer
<1>2. Streaming /\ buf["preview"] \in slot
  BY <1>1 DEF IInv, MappedWhileUsed
<1>3. QED
  BY <1>2 DEF IndexOf

\* The release of any buffer keeps the session's memory consistent.
LEMMA ReleaseSession ==
  ASSUME IInv, NEW i \in Bufs, releasePreviewFrame(i),
         devState' = devState, ctl' = ctl, mem' = mem, slot' = slot, mBufferCnt' = mBufferCnt
  PROVE  SessionInv'
<1>1. TypeFrames /\ SessionInv
  BY DEF IInv, TypeOK
<1>2. \A j \in Bufs : refCnt[j] \in Nat /\ refCnt'[j] \in Nat
  BY <1>1, ReleaseType DEF TypeFrames
<1>3. \A j \in Bufs : refCnt'[j] > 0 => j \in slot'
  BY <1>1, <1>2, ReleaseEffect DEF SessionInv
<1>4. Streaming' => Streaming
  BY DEF Streaming
<1>5. Streaming' => drv' \subseteq mem'
  BY <1>1, <1>4, ReleaseEffect DEF SessionInv
<1>6. QED
  BY <1>1, <1>3, <1>4, <1>5 DEF SessionInv

\* Frames and counts belong to the running session.
LEMMA SessionStep == IInv /\ [Next]_vars => SessionInv'
<1> SUFFICES ASSUME IInv, [Next]_vars PROVE SessionInv'
  OBVIOUS
<1>a. SessionInv /\ TypeFrames /\ TypeControl /\ CaptureOnlyStreaming
  BY DEF IInv, TypeOK
<1> USE <1>a DEF hwVars, frmVars, picVars, qVars, thrVars, capVars
<1>1. CASE CaptureTop \/ v4l2WaitCameraReady \/ CaptureSkip
  BY <1>1 DEF CaptureTop, v4l2WaitCameraReady, CaptureSkip, singalDisconnect, SessionInv, Streaming
<1>2. CASE CaptureDecRef
  <2>1. capIdx \in Bufs
    BY DEF TypeControl
  <2>2. QED
    BY <1>2, <2>1, ReleaseSession DEF CaptureDecRef
<1>3. ASSUME NEW i \in Bufs, CaptureFrame(i)
      PROVE  SessionInv'
  <2>1. devState = "started" /\ ctl # "zero" /\ ctl # "deliver"
    BY <1>3 DEF CaptureFrame, CaptureOnlyStreaming
  <2>2. drv \subseteq mem /\ slot \subseteq mem /\ i \in mem
    BY <1>3, <2>1 DEF CaptureFrame, getPreviewFrame, SessionInv, Streaming
  <2>3. \E n \in {1, 2, 3} : refCnt' = [refCnt EXCEPT ![i] = n]
    BY <1>3 DEF CaptureFrame, CaptureNormal, CapturePreviewFull, CapturePreview, CapturePicture
  <2>4. \A j \in Bufs : refCnt'[j] > 0 => j \in slot \cup {i}
    BY <2>3 DEF SessionInv, TypeFrames
  <2>5. /\ drv' = drv \ {i} /\ slot' = slot \cup {i} /\ mem' = mem
        /\ devState' = devState /\ ctl' = ctl
    BY <1>3 DEF CaptureFrame, getPreviewFrame, FillSlot
  <2>6. QED
    BY <2>1, <2>2, <2>4, <2>5 DEF SessionInv
<1>4. CASE ControlStep
  <2>1. CASE StopDeviceUnmap
    BY <2>1 DEF StopDeviceUnmap, SessionInv, Streaming
  <2>2. CASE StopDeviceZero
    BY <2>2 DEF StopDeviceZero, SessionInv, Streaming
  <2>3. QED
    BY <1>4, <2>1, <2>2 DEF ControlStep, startDeliveringFrames, StopDeviceWait, startContinuousPicture,
       startSmartPicture, SessionInv, Streaming
<1>5. CASE startDevice
  <2>1. slot = {}
    BY <1>5 DEF startDevice, SessionInv
  <2>2. drv' \subseteq mem' /\ 0 .. mBufferCnt' - 1 \subseteq mem' /\ slot' = {} /\ refCnt' = refCnt
    BY <1>5, <2>1 DEF startDevice
  <2>3. devState' = "started"
    BY <1>5 DEF startDevice
  <2>4. QED
    BY <2>1, <2>2, <2>3 DEF SessionInv
<1>6. CASE startDeviceFails
  BY <1>6 DEF startDeviceFails, SessionInv, Streaming
<1>7. CASE connectDevice \/ disconnectDevice \/ stopDeliveringFrames \/ cancelPicture
  BY <1>7 DEF connectDevice, disconnectDevice, stopDeliveringFrames, cancelPicture, SessionInv, Streaming
<1>8. ASSUME NEW m \in Modes, setTakePictureState(m)
      PROVE  SessionInv'
  <2>1. ctl = "idle" /\ ctl' \in {"startCont", "startSmart", "idle"}
    BY <1>8 DEF setTakePictureState
  <2>2. QED
    BY <1>8, <2>1 DEF setTakePictureState, SessionInv, Streaming
<1>9. CASE Spurious
  BY <1>9 DEF Spurious, SessionInv, Streaming
<1>10. ASSUME NEW t \in Queued, ConsumerStep(t)
       PROVE  SessionInv'
  <2>1. CASE ReleasePicture(t)
    <3>1. idx[t] \in Bufs
      BY <2>1 DEF ReleasePicture, IInv, IndexInv, Queued
    <3>2. QED
      BY <2>1, <3>1, ReleaseSession DEF ReleasePicture
  <2>2. QED
    BY <1>10, <2>1 DEF ConsumerStep, Dequeue, Sleep, LockFrame, SessionInv, Streaming
<1>11. CASE EncodeRead \/ PictureTaken \/ SmartTaken
  BY <1>11 DEF EncodeRead, PictureTaken, SmartTaken, SessionInv, Streaming
<1>12. CASE EncodeWrite
  <2>1. IndexOf(buf["preview"]) \in slot
    BY <1>12, EncodedFrame DEF EncodeWrite
  <2>2. \A j \in Bufs : refCnt'[j] > 0 => j \in slot
    BY <1>12, <2>1 DEF EncodeWrite, SessionInv, TypeFrames
  <2>3. QED
    BY <1>12, <2>2 DEF EncodeWrite, SessionInv, Streaming
<1>13. CASE PreviewDone
  BY <1>13, IndexOfBufs, ReleaseSession DEF PreviewDone
<1>14. CASE ContinuousDone
  BY <1>14, IndexOfBufs, ReleaseSession DEF ContinuousDone
<1>15. CASE getCurrentFaceFrame
  BY <1>15 DEF getCurrentFaceFrame, SessionInv, Streaming
<1>16. ASSUME NEW i \in Bufs, releaseRecordingFrame(i)
       PROVE  SessionInv'
  BY <1>16, ReleaseSession DEF releaseRecordingFrame
<1>17. CASE UNCHANGED vars
  BY <1>17 DEF vars, SessionInv, Streaming
<1>18. QED
  BY <1>1, <1>2, <1>3, <1>4, <1>5, <1>6, <1>7, <1>8, <1>9, <1>10, <1>11, <1>12, <1>13, <1>14, <1>15,
     <1>16, <1>17 DEF Next, captureThread, Request

\* The holder of mObjectLock keeps a mapped frame under its eyes.
LEMMA MappedStep == IInv /\ [Next]_vars => MappedWhileUsed'
<1> SUFFICES ASSUME IInv, [Next]_vars PROVE MappedWhileUsed'
  OBVIOUS
<1>a. /\ MappedWhileUsed /\ LockInv /\ SessionInv /\ TypeThreads /\ TypeFrames /\ TypeControl
      /\ CaptureOnlyStreaming
  BY DEF IInv, TypeOK
<1> USE <1>a DEF hwVars, frmVars, picVars, qVars, thrVars, capVars
<1>1. CASE CaptureTop \/ v4l2WaitCameraReady \/ CaptureSkip \/ CaptureDecRef
  BY <1>1 DEF CaptureTop, v4l2WaitCameraReady, CaptureSkip, CaptureDecRef, singalDisconnect,
     MappedWhileUsed, Streaming
<1>2. ASSUME NEW i \in Bufs, CaptureFrame(i)
      PROVE  MappedWhileUsed'
  <2>1. \A t \in Consumers : pc'[t] = pc[t] \/ pc'[t] = "deq"
    BY <1>2 DEF CaptureFrame, CaptureNormal, CapturePreviewFull, CapturePreview, CapturePicture, Signal
  <2>2. QED
    BY <1>2, <2>1 DEF CaptureFrame, FillSlot, MappedWhileUsed, Streaming
<1>3. CASE ControlStep
  <2>1. CASE StopDeviceUnmap
    <3>1. \A t \in Lockers : pc[t] \notin InUse
      BY <2>1 DEF StopDeviceUnmap, LockInv, Lockers
    <3>2. QED
      BY <2>1, <3>1 DEF StopDeviceUnmap, MappedWhileUsed, Lockers, InUse
  <2>2. CASE StopDeviceZero
    <3>1. \A t \in Lockers : pc[t] \notin InUse
      BY <2>2 DEF StopDeviceZero, LockInv, Lockers
    <3>2. QED
      BY <2>2, <3>1 DEF StopDeviceZero, MappedWhileUsed, Lockers, InUse
  <2>3. QED
    BY <1>3, <2>1, <2>2 DEF ControlStep, startDeliveringFrames, StopDeviceWait, startContinuousPicture,
       startSmartPicture, MappedWhileUsed, Streaming
<1>4. CASE connectDevice \/ disconnectDevice \/ startDevice \/ startDeviceFails
  <2>1. \A t \in Lockers : pc[t] \notin InUse
    BY <1>4 DEF connectDevice, disconnectDevice, startDevice, startDeviceFails, LockInv, Lockers
  <2>2. pc' = pc
    BY <1>4 DEF connectDevice, disconnectDevice, startDevice, startDeviceFails
  <2>3. QED
    BY <2>1, <2>2 DEF MappedWhileUsed, Lockers, InUse
<1>5. CASE stopDeliveringFrames \/ cancelPicture
  BY <1>5 DEF stopDeliveringFrames, cancelPicture, MappedWhileUsed, Streaming
<1>6. ASSUME NEW m \in Modes, setTakePictureState(m)
      PROVE  MappedWhileUsed'
  <2>1. ctl = "idle" /\ ctl' \in {"startCont", "startSmart", "idle"}
    BY <1>6 DEF setTakePictureState
  <2>2. QED
    BY <1>6, <2>1 DEF setTakePictureState, MappedWhileUsed, Streaming
<1>7. CASE Spurious
  BY <1>7 DEF Spurious, Goto, Queued, MappedWhileUsed, Streaming, TypeThreads
<1>8. ASSUME NEW t \in Queued, ConsumerStep(t)
      PROVE  MappedWhileUsed'
  <2>a. t \in Consumers /\ t # "face"
    BY DEF Queued
  <2> USE <2>a
  <2>1. CASE Dequeue(t)
    <3>1. \A u \in Consumers : pc'[u] \in InUse => pc'[u] = pc[u] /\ buf'[u] = buf[u]
      BY <2>1 DEF Dequeue, Goto, InUse, TypeThreads
    <3>2. QED
      BY <2>1, <3>1 DEF Dequeue, MappedWhileUsed, InUse, Streaming
  <2>2. CASE Sleep(t)
    BY <2>2 DEF Sleep, Goto, TypeThreads, MappedWhileUsed, Streaming
  <2>3. CASE LockFrame(t)
    <3>0. objLock = "none" /\ UNCHANGED <<devState, ctl, slot, mem>>
      BY <2>3 DEF LockFrame
    <3>1. CASE pc' = [pc EXCEPT ![t] = "deq"]
      <4>1. \A u \in Consumers : pc'[u] \in InUse => pc'[u] = pc[u] /\ buf'[u] = buf[u]
        BY <2>3, <3>1 DEF LockFrame, Return, Goto, InUse, TypeThreads
      <4>2. QED
        BY <3>0, <4>1 DEF MappedWhileUsed, InUse, Streaming
    <3>2. CASE IndexOf(buf[t]) \in mem /\ IsFilled(buf[t]) /\ pc' = [pc EXCEPT ![t] = "use"] /\ buf' = buf
      <4>1. buf[t] # PicBuffer => buf[t] \in slot \cap mem
        BY <3>2 DEF IsFilled, IndexOf
      <4>2. buf[t] # PicBuffer => Streaming
        BY <3>0, <4>1 DEF SessionInv, LockInv, Streaming
      <4>3. \A u \in Consumers \ {t} : pc'[u] = pc[u]
        BY <3>2 DEF TypeThreads
      <4>4. QED
        BY <3>0, <3>2, <4>1, <4>2, <4>3 DEF MappedWhileUsed, Streaming
    <3>3. QED
      BY <2>3, <3>1, <3>2 DEF LockFrame, Return, Goto
  <2>4. CASE ReleasePicture(t)
    BY <2>4 DEF ReleasePicture, Goto, Return, TypeThreads, MappedWhileUsed, Streaming
  <2>5. QED
    BY <1>8, <2>1, <2>2, <2>3, <2>4 DEF ConsumerStep
<1>9. CASE EncodeRead \/ EncodeWrite
  BY <1>9 DEF EncodeRead, EncodeWrite, Goto, TypeThreads, MappedWhileUsed, Streaming
<1>10. CASE PreviewDone
  BY <1>10 DEF PreviewDone, Goto, Return, TypeThreads, MappedWhileUsed, Streaming
<1>11. CASE PictureTaken
  BY <1>11 DEF PictureTaken, AfterPicture, Goto, Return, TypeThreads, MappedWhileUsed, Streaming
<1>12. CASE SmartTaken
  BY <1>12 DEF SmartTaken, AfterPicture, Goto, Return, TypeThreads, MappedWhileUsed, Streaming
<1>13. CASE ContinuousDone
  BY <1>13 DEF ContinuousDone, Goto, Return, TypeThreads, MappedWhileUsed, Streaming
<1>14. CASE getCurrentFaceFrame
  <2>1. objLock = "none" /\ curBuf \in slot => Streaming /\ curBuf \in mem
    BY DEF SessionInv, LockInv, Streaming
  <2>2. QED
    BY <1>14, <2>1 DEF getCurrentFaceFrame, Goto, TypeThreads, MappedWhileUsed, Streaming
<1>15. CASE \E i \in Bufs : releaseRecordingFrame(i)
  BY <1>15 DEF releaseRecordingFrame, MappedWhileUsed, Streaming
<1>16. CASE UNCHANGED vars
  BY <1>16 DEF vars, MappedWhileUsed, Streaming
<1>17. QED
  BY <1>1, <1>2, <1>3, <1>4, <1>5, <1>6, <1>7, <1>8, <1>9, <1>10, <1>11, <1>12, <1>13, <1>14, <1>15,
     <1>16 DEF Next, captureThread, Request

\* The buffers are finitely many, so counting them is counting a finite set.
LEMMA DriverFinite == TypeFrames => IsFiniteSet(drv) /\ Cardinality(drv) \in Nat
<1> SUFFICES ASSUME TypeFrames PROVE IsFiniteSet(drv) /\ Cardinality(drv) \in Nat
  OBVIOUS
<1>1. IsFiniteSet(Bufs)
  BY DeviceAssumption, FS_Interval DEF Bufs
<1>2. IsFiniteSet(drv)
  BY <1>1, FS_Subset DEF TypeFrames
<1>3. QED
  BY <1>2, FS_CardinalityType

\* The release of any buffer keeps the count of the available ones right and
\* leaves no reference to a buffer of the driver behind.
LEMMA ReleaseCounts ==
  ASSUME IInv, NEW i \in Bufs, releasePreviewFrame(i), devState' = devState, ctl' = ctl
  PROVE  AvailMatchesDriver' /\ CountedOutsideDriver'
<1>1. TypeFrames /\ AvailMatchesDriver /\ CountedOutsideDriver
  BY DEF IInv, TypeOK
<1>2. IsFiniteSet(drv) /\ Cardinality(drv) \in Nat
  BY <1>1, DriverFinite
<1>3. Streaming' = Streaming
  BY DEF Streaming
<1>4. Cardinality(drv \cup {i}) = IF i \in drv THEN Cardinality(drv) ELSE Cardinality(drv) + 1
  BY <1>2, FS_AddElement
<1>5. AvailMatchesDriver'
  BY <1>1, <1>2, <1>3, <1>4 DEF AvailMatchesDriver, releasePreviewFrame, TypeFrames
<1>6. CountedOutsideDriver'
  BY <1>1 DEF CountedOutsideDriver, releasePreviewFrame, TypeFrames
<1>7. QED
  BY <1>5, <1>6

\* The counts of available buffers and of references, step by step.
LEMMA CountsStep == IInv /\ [Next]_vars => AvailMatchesDriver' /\ CountedOutsideDriver'
<1> SUFFICES ASSUME IInv, [Next]_vars PROVE AvailMatchesDriver' /\ CountedOutsideDriver'
  OBVIOUS
<1>a. /\ AvailMatchesDriver /\ CountedOutsideDriver /\ TypeFrames /\ TypeControl
      /\ SessionInv /\ LockInv /\ CaptureOnlyStreaming
  BY DEF IInv, TypeOK
<1>b. IsFiniteSet(drv) /\ Cardinality(drv) \in Nat
  BY <1>a, DriverFinite
<1> USE <1>a DEF hwVars, frmVars, picVars, qVars, thrVars, capVars
<1>1. CASE CaptureTop \/ v4l2WaitCameraReady \/ CaptureSkip
  BY <1>1 DEF CaptureTop, v4l2WaitCameraReady, CaptureSkip, singalDisconnect, AvailMatchesDriver,
     CountedOutsideDriver, Streaming
<1>2. CASE CaptureDecRef
  <2>1. capIdx \in Bufs
    BY DEF TypeControl
  <2>2. QED
    BY <1>2, <2>1, ReleaseCounts DEF CaptureDecRef
<1>3. ASSUME NEW i \in Bufs, CaptureFrame(i)
      PROVE  AvailMatchesDriver' /\ CountedOutsideDriver'
  <2>1. i \in drv /\ drv' = drv \ {i} /\ avail' = avail - 1 /\ Streaming /\ Streaming' = Streaming
    BY <1>3 DEF CaptureFrame, getPreviewFrame, CaptureOnlyStreaming, Streaming
  <2>2. Cardinality(drv \ {i}) = Cardinality(drv) - 1
    BY <1>b, <2>1, FS_RemoveElement
  <2>3. AvailMatchesDriver'
    BY <1>b, <2>1, <2>2 DEF AvailMatchesDriver
  <2>4. \E n \in {1, 2, 3} : refCnt' = [refCnt EXCEPT ![i] = n]
    BY <1>3 DEF CaptureFrame, CaptureNormal, CapturePreviewFull, CapturePreview, CapturePicture
  <2>5. CountedOutsideDriver'
    BY <2>1, <2>4 DEF CountedOutsideDriver, TypeFrames
  <2>6. QED
    BY <2>3, <2>5
<1>4. CASE ControlStep
  <2>1. CASE StopDeviceUnmap
    BY <2>1 DEF StopDeviceUnmap, AvailMatchesDriver, CountedOutsideDriver, Streaming
  <2>2. CASE StopDeviceZero
    BY <2>2 DEF StopDeviceZero, AvailMatchesDriver, CountedOutsideDriver, Streaming, TypeFrames
  <2>3. QED
    BY <1>4, <2>1, <2>2 DEF ControlStep, startDeliveringFrames, StopDeviceWait, startContinuousPicture,
       startSmartPicture, AvailMatchesDriver, CountedOutsideDriver, Streaming
<1>5. CASE startDevice \/ startDeviceFails
  <2>1. \A i \in Bufs : refCnt[i] = 0
    BY <1>5 DEF startDevice, startDeviceFails, SessionInv, TypeFrames
  <2>2. drv' \in SUBSET Bufs
    BY <1>5, FramesTypeStep DEF IInv, TypeFrames, Next, Request
  <2>3. CountedOutsideDriver'
    BY <1>5, <2>1, <2>2 DEF startDevice, startDeviceFails, CountedOutsideDriver
  <2>4. CASE startDevice
    <3>1. PICK g \in Granted : avail' = g /\ drv' = 0 .. g - 1
      BY <2>4 DEF startDevice
    <3>2. g \in Nat /\ g > 0
      BY <3>1, DeviceAssumption DEF Granted
    <3>3. Cardinality(0 .. g - 1) = g
      BY <3>2, FS_Interval
    <3>4. QED
      BY <2>3, <3>1, <3>3 DEF AvailMatchesDriver
  <2>5. CASE startDeviceFails
    BY <2>3, <2>5 DEF startDeviceFails, AvailMatchesDriver, Streaming
  <2>6. QED
    BY <1>5, <2>4, <2>5
<1>6. CASE connectDevice \/ disconnectDevice \/ stopDeliveringFrames \/ cancelPicture
  BY <1>6 DEF connectDevice, disconnectDevice, stopDeliveringFrames, cancelPicture, AvailMatchesDriver,
     CountedOutsideDriver, Streaming
<1>7. ASSUME NEW m \in Modes, setTakePictureState(m)
      PROVE  AvailMatchesDriver' /\ CountedOutsideDriver'
  <2>1. ctl = "idle" /\ ctl' \in {"startCont", "startSmart", "idle"}
    BY <1>7 DEF setTakePictureState
  <2>2. QED
    BY <1>7, <2>1 DEF setTakePictureState, AvailMatchesDriver, CountedOutsideDriver, Streaming
<1>8. CASE Spurious
  BY <1>8 DEF Spurious, AvailMatchesDriver, CountedOutsideDriver, Streaming
<1>9. ASSUME NEW t \in Queued, ConsumerStep(t)
      PROVE  AvailMatchesDriver' /\ CountedOutsideDriver'
  <2>1. CASE ReleasePicture(t)
    <3>1. idx[t] \in Bufs
      BY <2>1 DEF ReleasePicture, IInv, IndexInv, Queued
    <3>2. QED
      BY <2>1, <3>1, ReleaseCounts DEF ReleasePicture
  <2>2. QED
    BY <1>9, <2>1 DEF ConsumerStep, Dequeue, Sleep, LockFrame, AvailMatchesDriver, CountedOutsideDriver,
       Streaming
<1>10. CASE EncodeRead \/ PictureTaken \/ SmartTaken
  BY <1>10 DEF EncodeRead, PictureTaken, SmartTaken, AvailMatchesDriver, CountedOutsideDriver, Streaming
<1>11. CASE EncodeWrite
  BY <1>11 DEF EncodeWrite, LockInv, AvailMatchesDriver, CountedOutsideDriver, Streaming
<1>12. CASE PreviewDone
  BY <1>12, IndexOfBufs, ReleaseCounts DEF PreviewDone
<1>13. CASE ContinuousDone
  BY <1>13, IndexOfBufs, ReleaseCounts DEF ContinuousDone
<1>14. CASE getCurrentFaceFrame
  BY <1>14 DEF getCurrentFaceFrame, AvailMatchesDriver, CountedOutsideDriver, Streaming
<1>15. ASSUME NEW i \in Bufs, releaseRecordingFrame(i)
       PROVE  AvailMatchesDriver' /\ CountedOutsideDriver'
  BY <1>15, ReleaseCounts DEF releaseRecordingFrame
<1>16. CASE UNCHANGED vars
  BY <1>16 DEF vars, AvailMatchesDriver, CountedOutsideDriver, Streaming
<1>17. QED
  BY <1>1, <1>2, <1>3, <1>4, <1>5, <1>6, <1>7, <1>8, <1>9, <1>10, <1>11, <1>12, <1>13, <1>14, <1>15,
     <1>16 DEF Next, captureThread, Request

\* The invariant is inductive.
LEMMA IInvStep == IInv /\ [Next]_vars => IInv'
<1> SUFFICES ASSUME IInv, [Next]_vars PROVE IInv'
  OBVIOUS
<1>1. TypeOK' /\ IndexInv'
  BY FlagsStep, ControlTypeStep, QueuesTypeStep, FramesTypeStep, ThreadsTypeStep DEF IInv, TypeOK
<1>2. QED
  BY <1>1, SessionStep, LockStep, CaptureStep, MappedStep, CountsStep DEF IInv

\* In every behaviour the device keeps the whole inductive invariant.
THEOREM DeviceInvariant == Spec => []IInv
BY InitIInv, IInvStep, PTL DEF Spec

\* The capture thread, which never takes mObjectLock, converts frames only in
\* a started device with all its buffers mapped, whatever mCanBeDisconnected
\* said when stopDevice read it.
THEOREM CaptureSafe == Spec => []CaptureOnlyStreaming
<1>1. IInv => CaptureOnlyStreaming
  BY DEF IInv
<1>2. QED
  BY <1>1, DeviceInvariant, PTL

\* A thread in its callback under mObjectLock has its frame mapped until it
\* returns: stopDevice cannot unmap it in between.
THEOREM FramesMapped == Spec => []MappedWhileUsed
<1>1. IInv => MappedWhileUsed
  BY DEF IInv
<1>2. QED
  BY <1>1, DeviceInvariant, PTL

\* mCurAvailBufferCnt is the number of buffers the driver has, with any number
\* of restarts, failed starts, stale releases and racing encoder counts.
THEOREM AvailExact == Spec => []AvailMatchesDriver
<1>1. IInv => AvailMatchesDriver
  BY DEF IInv
<1>2. QED
  BY <1>1, DeviceInvariant, PTL

\* Without the HW encoder, no reference to a buffer in the driver is left.
THEOREM DriverUnreferenced == Spec => []CountedOutsideDriver
<1>1. IInv => CountedOutsideDriver
  BY DEF IInv
<1>2. QED
  BY <1>1, DeviceInvariant, PTL
-----------------------------------------------------------------------------
(* Who still has to give a frame back.                                     *)

One(b) == IF b THEN 1 ELSE 0

\* The threads that take frames from a queue and where they have one.
Takers == {"preview", "picture", "smart", "continuous"}
Pointing == {"got", "use", "inc", "shown"}
Holding(t) == t \in Consumers /\ pc[t] \in Pointing \cup {"rel"}
HoldsIt(t, i) ==
  /\ t \in Consumers
  /\ \/ pc[t] \in Pointing /\ buf[t] = i
     \/ pc[t] = "rel" /\ idx[t] = i

\* mIsPicCopy keeps the picture threads from releasing what they point to.
Owes(t, i) == HoldsIt(t, i) /\ (isPicCopy /\ t \in {"picture", "smart"} => pc[t] = "rel")
Queues(i) == Occurrences(prevQ, i) + IF isPicCopy THEN 0 ELSE Occurrences(picQ, i)
Thread(i) == One(capPc = "decref" /\ capIdx = i)

\* The releases of buffer i that are sure to come.
Due(t, i) == One(Owes(t, i))
Owed(i) ==
  Thread(i) + Queues(i) + Due("preview", i) + Due("picture", i) + Due("smart", i)
    + Due("continuous", i)

\* A buffer outside the driver is released at least as often as it is counted;
\* until a NORMAL picture is copied only the capture thread has a frame.
\* Neither counted nor to be waited for: in the driver, or lost to a failing QBUF.
Home(i) == i \in drv \/ (i \in lost /\ refCnt[i] = 0)

FrameOk(i) == Home(i) \/ refCnt[i] \in 1 .. Owed(i)
AwaitOk(i) == Home(i) \/ (capPc = "decref" /\ capIdx = i /\ refCnt[i] = 1)
OwedInv ==
  Streaming => \A i \in 0 .. mBufferCnt - 1 :
                 FrameOk(i) /\ (picState = "NORMAL" => AwaitOk(i))

\* Without the HW encoder its thread points are never reached.
EncoderInv ==
  /\ \A i \in Bufs : enc[i] = 0
  /\ "preview" \in Consumers => pc["preview"] \notin {"inc", "shown"}

\* A queue has a number of entries for each buffer.
LEMMA OccType ==
  ASSUME NEW S, NEW q \in Seq(S), NEW i
  PROVE  /\ IsFiniteSet({k \in DOMAIN q : q[k] = i})
         /\ Occurrences(q, i) \in Nat
         /\ Occurrences(q, i) = 0 <=> \A k \in DOMAIN q : q[k] # i
<1> DEFINE K == {k \in DOMAIN q : q[k] = i}
<1>1. IsFiniteSet(1 .. Len(q))
  BY FS_Interval
<1>2. K \subseteq 1 .. Len(q)
  OBVIOUS
<1>3. IsFiniteSet(K)
  BY <1>1, <1>2, FS_Subset
<1>4. Cardinality(K) \in Nat /\ (Cardinality(K) = 0 <=> K = {})
  BY <1>3, FS_CardinalityType, FS_EmptySet
<1>5. K = {} <=> \A k \in DOMAIN q : q[k] # i
  OBVIOUS
<1>6. Occurrences(q, i) = Cardinality(K)
  BY DEF Occurrences
<1> HIDE DEF K
<1>7. Occurrences(q, i) \in Nat /\ (Occurrences(q, i) = 0 <=> K = {})
  BY <1>4, <1>6
<1> USE DEF K
<1>8. QED
  BY <1>3, <1>5, <1>7, Zenon

\* Append adds an entry.
LEMMA OccAppend ==
  ASSUME NEW S, NEW q \in Seq(S), NEW e \in S, NEW i
  PROVE  Occurrences(Append(q, e), i) = Occurrences(q, i) + One(e = i)
<1> DEFINE K == {k \in DOMAIN q : q[k] = i}
           A == {k \in DOMAIN Append(q, e) : Append(q, e)[k] = i}
<1>0. Occurrences(q, i) = Cardinality(K) /\ Occurrences(Append(q, e), i) = Cardinality(A)
  BY DEF Occurrences
<1>1. IsFiniteSet(K) /\ Len(q) + 1 \notin K /\ Cardinality(K) \in Nat
  <2>1. IsFiniteSet(K) /\ Cardinality(K) \in Nat
    BY <1>0, OccType
  <2>2. QED
    BY <2>1
<1>2. CASE e = i
  <2>1. A = K \cup {Len(q) + 1}
    BY <1>2
  <2> HIDE DEF K, A
  <2>2. Cardinality(A) = Cardinality(K) + 1
    BY <1>1, <2>1, FS_AddElement
  <2>3. QED
    BY <1>0, <1>2, <2>2 DEF One
<1>3. CASE e # i
  <2>1. A = K
    BY <1>3
  <2> HIDE DEF K, A
  <2>2. QED
    BY <1>0, <1>1, <1>3, <2>1 DEF One
<1>4. QED
  BY <1>2, <1>3

\* Tail takes the first entry away.
LEMMA OccTail ==
  ASSUME NEW S, NEW q \in Seq(S), q # <<>>, NEW i
  PROVE  Occurrences(q, i) = Occurrences(Tail(q), i) + One(Head(q) = i)
<1> DEFINE K == {k \in DOMAIN q : q[k] = i}
           T == {k \in DOMAIN Tail(q) : Tail(q)[k] = i}
           M == K \ {1}
           f == [k \in T |-> k + 1]
<1>0. Occurrences(q, i) = Cardinality(K) /\ Occurrences(Tail(q), i) = Cardinality(T)
  BY DEF Occurrences
<1>1. Tail(q) \in Seq(S) /\ Len(Tail(q)) = Len(q) - 1 /\ Head(q) = q[1] /\ 1 \in DOMAIN q
  OBVIOUS
<1>2. \A k \in 1 .. Len(q) - 1 : Tail(q)[k] = q[k + 1]
  BY <1>1
<1>3. IsFiniteSet(T) /\ IsFiniteSet(K) /\ Cardinality(T) \in Nat
  <2>1. IsFiniteSet(K)
    BY OccType
  <2>2. Tail(q) \in Seq(S)
    BY <1>1
  <2>3. IsFiniteSet(T) /\ Occurrences(Tail(q), i) \in Nat
    BY <2>2, OccType, Zenon
  <2>4. QED
    BY <1>0, <2>1, <2>3
<1>4. f \in Bijection(T, M)
  <2>1. \A k \in T : k \in 1 .. Len(q) - 1 /\ k + 1 \in M
    BY <1>1, <1>2
  <2>2. \A m \in M : m - 1 \in T /\ f[m - 1] = m
    BY <1>1, <1>2
  <2>3. \A a, b \in T : f[a] = f[b] => a = b
    BY <2>1
  <2>4. f \in [T -> M]
    BY <2>1
  <2> HIDE DEF T, M, f
  <2>5. \A m \in M : \E k \in T : f[k] = m
    BY <2>2
  <2>6. QED
    BY <2>3, <2>4, <2>5, Zenon DEF Bijection, Injection, IsInjective, Surjection
<1>5. Cardinality(M) = Cardinality(T) /\ IsFiniteSet(M)
  <2> HIDE DEF T, M, f
  <2>1. ExistsBijection(T, M)
    BY <1>4 DEF ExistsBijection
  <2>2. QED
    BY <1>3, <2>1, FS_Bijection
<1>6. CASE q[1] = i
  <2>1. K = M \cup {1} /\ 1 \notin M
    BY <1>1, <1>6
  <2> HIDE DEF K, M, T
  <2>2. Cardinality(K) = Cardinality(T) + 1
    BY <1>3, <1>5, <2>1, FS_AddElement
  <2>3. QED
    BY <1>0, <1>1, <1>6, <2>2 DEF One
<1>7. CASE q[1] # i
  <2>1. K = M
    BY <1>1, <1>7
  <2> HIDE DEF K, M, T
  <2>2. QED
    BY <1>0, <1>1, <1>3, <1>5, <1>7, <2>1 DEF One
<1>8. QED
  BY <1>6, <1>7

\* What is owed is a number, and at least one while a thread owes.
LEMMA OwedType ==
  ASSUME TypeOK, NEW i
  PROVE  /\ Thread(i) \in 0 .. 1 /\ Queues(i) \in Nat /\ Owed(i) \in Nat
         /\ \A t \in Takers : Due(t, i) \in 0 .. 1 /\ (Owes(t, i) => Due(t, i) = 1 /\ Owed(i) >= 1)
         /\ Occurrences(prevQ, i) \in Nat /\ Occurrences(picQ, i) \in Nat
<1>1. Occurrences(prevQ, i) \in Nat /\ Occurrences(picQ, i) \in Nat
  BY OccType DEF TypeOK, TypeQueues
<1>2. Thread(i) \in 0 .. 1 /\ Queues(i) \in Nat
  BY <1>1 DEF Thread, Queues, One
<1>3. \A t \in Takers : Due(t, i) \in 0 .. 1 /\ (Owes(t, i) => Due(t, i) = 1)
  BY DEF Due, One
<1>4. Owed(i) \in Nat /\ \A t \in Takers : Owes(t, i) => Owed(i) >= 1
  BY <1>2, <1>3 DEF Owed, Takers
<1>5. QED
  BY <1>1, <1>2, <1>3, <1>4

\* A step in which a thread keeps the frame it has, or has none.
Stays(u) ==
  u \in Consumers =>
    \/ ~Holding(u) /\ ~Holding(u)'
    \/ pc[u] \in Pointing /\ pc'[u] \in Pointing /\ buf'[u] = buf[u]
    \/ pc[u] = "rel" /\ pc'[u] = "rel" /\ idx'[u] = idx[u]

\* A thread that keeps its frame owes what it owed.
LEMMA DueSame ==
  ASSUME NEW u \in Takers, NEW i, Stays(u), isPicCopy' = isPicCopy
  PROVE  Due(u, i)' = Due(u, i)
<1>1. CASE u \in Consumers
  <2>1. HoldsIt(u, i)' <=> HoldsIt(u, i)
    BY <1>1 DEF Stays, Holding, HoldsIt, Pointing
  <2>2. Owes(u, i)' <=> Owes(u, i)
    BY <1>1, <2>1 DEF Owes, Stays, Holding, HoldsIt, Pointing
  <2>3. QED
    BY <2>2 DEF Due, One
<1>2. CASE u \notin Consumers
  BY <1>2 DEF Due, One, Owes, HoldsIt
<1>3. QED
  BY <1>1, <1>2

\* Equal terms cancel.
LEMMA Cancel ==
  ASSUME NEW a \in Int, NEW b \in Int, NEW c \in Int, a + c = b + c
  PROVE  a = b
OBVIOUS

\* One thread's part of what is owed.
LEMMA OwedChange ==
  ASSUME TypeOK, TypeOK', NEW i, NEW t \in Takers,
         \A u \in Takers \ {t} : Stays(u), isPicCopy' = isPicCopy
  PROVE  /\ Owed(i)' + (Thread(i) + Queues(i) + Due(t, i)) = Owed(i) + (Thread(i)' + Queues(i)' + Due(t, i)')
         /\ Owed(i) \in Int /\ Thread(i) \in Int /\ Queues(i) \in Int /\ Due(t, i) \in Int
         /\ Owed(i)' \in Int /\ Thread(i)' \in Int /\ Queues(i)' \in Int /\ Due(t, i)' \in Int
<1>1. \A u \in Takers \ {t} : Due(u, i)' = Due(u, i)
  BY DueSame
<1>2. \A u \in Takers : Due(u, i) \in Int /\ Due(u, i)' \in Int
  BY DEF Due, One
<1>3. Thread(i) \in Int /\ Queues(i) \in Int /\ Thread(i)' \in Int /\ Queues(i)' \in Int
  <2>1. Thread(i) \in Int /\ Queues(i) \in Int
    <3>1. Thread(i) \in 0 .. 1 /\ Queues(i) \in Nat
      BY OwedType
    <3>2. QED
      BY <3>1
  <2>2. (Occurrences(prevQ, i) \in Nat /\ Occurrences(picQ, i) \in Nat)'
    BY OccType DEF TypeOK, TypeQueues
  <2>3. Thread(i)' \in Int /\ Queues(i)' \in Int
    BY <2>2 DEF Thread, Queues, One
  <2>4. QED
    BY <2>1, <2>3
<1> HIDE DEF Due, Thread, Queues
<1>4. CASE t = "preview"
  BY <1>1, <1>2, <1>3, <1>4 DEF Owed, Takers
<1>5. CASE t = "picture"
  BY <1>1, <1>2, <1>3, <1>5 DEF Owed, Takers
<1>6. CASE t = "smart"
  BY <1>1, <1>2, <1>3, <1>6 DEF Owed, Takers
<1>7. CASE t = "continuous"
  BY <1>1, <1>2, <1>3, <1>7 DEF Owed, Takers
<1>8. QED
  BY <1>4, <1>5, <1>6, <1>7 DEF Takers

\* A counted buffer outside the driver is filled and mapped.
LEMMA OutsideDriver ==
  ASSUME IInv, OwedInv, Streaming, NEW i \in 0 .. mBufferCnt - 1
  PROVE  /\ i \in Bufs /\ refCnt[i] \in Nat
         /\ ~Home(i) => /\ refCnt[i] >= 1 /\ refCnt[i] <= Owed(i)
                            /\ i \in slot /\ i \in mem /\ IndexOf(i) = i /\ IsFilled(i)
         /\ picState = "NORMAL" => AwaitOk(i)
<1>1. i \in Bufs /\ refCnt[i] \in Nat
  BY DeviceAssumption DEF IInv, TypeOK, TypeFrames, Bufs
<1>2. ASSUME ~Home(i)
      PROVE  refCnt[i] >= 1 /\ refCnt[i] <= Owed(i) /\ i \in slot /\ i \in mem
  <2>1. Owed(i) \in Nat
    BY OwedType DEF IInv
  <2>2. refCnt[i] >= 1 /\ refCnt[i] <= Owed(i)
    BY <1>1, <1>2, <2>1 DEF OwedInv, FrameOk
  <2>3. QED
    BY <1>1, <2>2 DEF IInv, SessionInv
<1>3. QED
  BY <1>1, <1>2 DEF OwedInv, IndexOf, IsFilled

-----------------------------------------------------------------------------
(* The steps, by what they do to the frames.                               *)

\* What no step within a session does.
Calm ==
  /\ UNCHANGED <<mBufferCnt, starts, isPicCopy>>
  /\ Streaming' => Streaming
  /\ Streaming' /\ picState' = "NORMAL" => picState = "NORMAL"
  /\ capState' = "started" => capState = "started" \/ ctl = "deliver"
  /\ ctl' = "deliver" => ctl = "deliver"

\* Every thread keeps its frame or has none.
Quiet ==
  /\ Calm /\ UNCHANGED <<refCnt, drv, lost, prevQ, picQ, capIdx>>
  /\ capPc' = "decref" <=> capPc = "decref"
  /\ \A u \in Takers : Stays(u)

Alone(t) ==
  /\ Calm /\ UNCHANGED <<capPc, capIdx>> /\ t \in Consumers
  /\ \A u \in Takers \ {t} : Stays(u)

\* Thread t releases the frame it has and returns.
Releases(t, j) ==
  /\ Alone(t) /\ UNCHANGED <<prevQ, picQ>> /\ releasePreviewFrame(j)
  /\ pc'[t] = "deq"
  /\ \/ pc[t] \in Pointing /\ j = IndexOf(buf[t]) /\ Owes(t, buf[t])
     \/ pc[t] = "rel" /\ j = idx[t]

\* Thread t returns without a release: the entry is stale or a copy.
Drops(t) ==
  /\ Alone(t) /\ UNCHANGED <<refCnt, drv, lost, prevQ, picQ>>
  /\ pc[t] = "got" /\ pc'[t] = "deq"
  /\ \/ IndexOf(buf[t]) \notin mem \/ ~IsFilled(buf[t])
     \/ isPicCopy /\ t \in {"picture", "smart"}

\* A picture thread reads the index it is going to release.
Marks(t) ==
  /\ Alone(t) /\ UNCHANGED <<refCnt, drv, lost, prevQ, picQ>>
  /\ ~isPicCopy /\ pc[t] = "got" /\ pc'[t] = "rel" /\ idx'[t] = IndexOf(buf[t])

\* Thread t takes the first entry of its queue.
Takes(t) ==
  /\ Alone(t) /\ UNCHANGED <<refCnt, drv, lost>>
  /\ pc[t] = "deq" /\ pc'[t] = "got"
  /\ \/ /\ t = "preview" /\ prevQ # <<>> /\ prevQ' = Tail(prevQ) /\ picQ' = picQ
        /\ buf'[t] = Head(prevQ)
     \/ /\ t # "preview" /\ picQ # <<>> /\ picQ' = Tail(picQ) /\ prevQ' = prevQ
        /\ buf'[t] = Head(picQ)

\* The queues' and the capture thread's part of a step that leaves them alone.
LEMMA PartsSame ==
  ASSUME NEW i, UNCHANGED <<capIdx, prevQ, picQ, isPicCopy>>, capPc' = "decref" <=> capPc = "decref"
  PROVE  Thread(i)' = Thread(i) /\ Queues(i)' = Queues(i)
BY DEF Thread, Queues, One, Occurrences

\* Nothing is owed more or less after a quiet step.
LEMMA QuietOwed ==
  ASSUME TypeOK, TypeOK', Quiet, NEW i
  PROVE  Owed(i)' = Owed(i)
<1>1. /\ "preview" \in Takers /\ \A u \in Takers \ {"preview"} : Stays(u)
      /\ isPicCopy' = isPicCopy /\ Stays("preview")
  BY DEF Quiet, Calm, Takers
<1>2. Due("preview", i)' = Due("preview", i)
  BY <1>1, DueSame
<1>3. Thread(i)' = Thread(i) /\ Queues(i)' = Queues(i)
  BY PartsSame DEF Quiet, Calm
<1>4. QED
  BY <1>1, <1>2, <1>3, OwedChange

\* It is enough to look at the buffers of the session that goes on.
LEMMA OwedGoesOn ==
  ASSUME IInv, OwedInv, Calm,
         \A i \in Bufs : Streaming /\ i < mBufferCnt =>
           FrameOk(i)' /\ (picState = "NORMAL" => AwaitOk(i)')
  PROVE  OwedInv'
<1> SUFFICES ASSUME Streaming', NEW i \in 0 .. mBufferCnt' - 1
             PROVE  FrameOk(i)' /\ (picState' = "NORMAL" => AwaitOk(i)')
  BY DEF OwedInv
<1>1. Streaming /\ mBufferCnt' = mBufferCnt /\ (picState' = "NORMAL" => picState = "NORMAL")
  BY DEF Calm
<1>2. i \in Bufs /\ i < mBufferCnt
  BY <1>1, DeviceAssumption DEF IInv, TypeOK, TypeFrames, Bufs
<1>3. QED
  BY <1>1, <1>2

\* A quiet step.
LEMMA QuietFrames ==
  ASSUME IInv, OwedInv, TypeOK', Quiet
  PROVE  OwedInv'
<1>1. ASSUME NEW i \in Bufs, Streaming, i < mBufferCnt
      PROVE  FrameOk(i)' /\ (picState = "NORMAL" => AwaitOk(i)')
  <2>1. i \in 0 .. mBufferCnt - 1
    BY <1>1, DeviceAssumption DEF Bufs, IInv, TypeOK, TypeFrames
  <2>2. FrameOk(i) /\ (picState = "NORMAL" => AwaitOk(i))
    BY <1>1, <2>1 DEF OwedInv
  <2>3. Owed(i)' = Owed(i)
    BY QuietOwed DEF IInv
  <2>4. refCnt' = refCnt /\ drv' = drv /\ lost' = lost /\ capIdx' = capIdx /\ (capPc' = "decref" <=> capPc = "decref")
    BY DEF Quiet
  <2>5. QED
    BY <2>2, <2>3, <2>4 DEF FrameOk, AwaitOk, Home
<1>2. QED
  BY <1>1, OwedGoesOn DEF Quiet

\* A release takes the buffer of the thread that owes it, or another thread's.
LEMMA ReleasesFrames ==
  ASSUME IInv, OwedInv, TypeOK', NEW t \in Takers, NEW j \in Bufs, Releases(t, j)
  PROVE  OwedInv'
<1>0. Calm /\ isPicCopy' = isPicCopy /\ \A u \in Takers \ {t} : Stays(u)
  BY DEF Releases, Alone, Calm
<1>1. ASSUME NEW i \in Bufs, Streaming, i < mBufferCnt
      PROVE  FrameOk(i)' /\ (picState = "NORMAL" => AwaitOk(i)')
  <2>1. i \in 0 .. mBufferCnt - 1
    BY <1>1, DeviceAssumption DEF Bufs, IInv, TypeOK, TypeFrames
  <2>2. /\ refCnt[i] \in Nat /\ (picState = "NORMAL" => AwaitOk(i))
        /\ ~Home(i) => refCnt[i] >= 1 /\ refCnt[i] <= Owed(i) /\ IndexOf(i) = i
    BY <1>1, <2>1, OutsideDriver
  <2>3. Thread(i)' = Thread(i) /\ Queues(i)' = Queues(i)
    BY <1>0, PartsSame DEF Releases, Alone
  <2>4. /\ Owed(i)' + Due(t, i) = Owed(i) + Due(t, i)'
        /\ Owed(i) \in Int /\ Owed(i)' \in Int /\ Due(t, i) \in Int
    BY <1>0, <2>3, OwedChange DEF IInv
  <2>5. Due(t, i)' = 0
    BY DEF Releases, Due, One, Owes, HoldsIt, Pointing
  <2>6. ~Home(i) /\ Owes(t, i) => i = j
    BY <2>2 DEF Releases, Owes, HoldsIt, Pointing
  <2>7. Due(t, i) = IF Owes(t, i) THEN 1 ELSE 0
    BY DEF Due, One
  <2>8. capPc' = capPc /\ capIdx' = capIdx /\ refCnt \in [Bufs -> Nat]
    BY DEF Releases, Alone, IInv, TypeOK, TypeFrames
  <2>9. CASE Home(i)
    BY <2>8, <2>9 DEF Releases, releasePreviewFrame, FrameOk, AwaitOk, Home
  <2>10. CASE ~Home(i) /\ i = j /\ refCnt[i] = 1
    BY <2>8, <2>10 DEF Releases, releasePreviewFrame, FrameOk, AwaitOk, Home
  <2>11. CASE ~Home(i) /\ i = j /\ refCnt[i] > 1
    <3>1. refCnt'[i] = refCnt[i] - 1
      BY <2>8, <2>11 DEF Releases, releasePreviewFrame
    <3>2. refCnt'[i] \in 1 .. Owed(i)'
      BY <2>2, <2>4, <2>5, <2>7, <2>11, <3>1
    <3>3. QED
      BY <2>2, <2>11, <3>2 DEF FrameOk, AwaitOk
  <2>12. CASE ~Home(i) /\ i # j
    <3>1. refCnt'[i] = refCnt[i]
      BY <2>8, <2>12 DEF Releases, releasePreviewFrame
    <3>2. refCnt'[i] \in 1 .. Owed(i)'
      BY <2>2, <2>4, <2>5, <2>6, <2>7, <2>12, <3>1
    <3>3. QED
      BY <2>2, <2>8, <2>12, <3>1, <3>2 DEF FrameOk, AwaitOk
  <2>13. QED
    BY <2>2, <2>9, <2>10, <2>11, <2>12
<1>2. QED
  BY <1>0, <1>1, OwedGoesOn

\* An entry that is dropped is not one of a buffer outside the driver.
LEMMA DropsFrames ==
  ASSUME IInv, OwedInv, TypeOK', NEW t \in Takers, Drops(t) \/ Marks(t)
  PROVE  OwedInv'
<1>0. /\ Calm /\ isPicCopy' = isPicCopy /\ (\A u \in Takers \ {t} : Stays(u))
      /\ UNCHANGED <<refCnt, drv, lost, prevQ, picQ, capPc, capIdx>>
  BY DEF Drops, Marks, Alone, Calm
<1>1. ASSUME NEW i \in Bufs, Streaming, i < mBufferCnt
      PROVE  FrameOk(i)' /\ (picState = "NORMAL" => AwaitOk(i)')
  <2>1. i \in 0 .. mBufferCnt - 1
    BY <1>1, DeviceAssumption DEF Bufs, IInv, TypeOK, TypeFrames
  <2>2. /\ refCnt[i] \in Nat /\ (picState = "NORMAL" => AwaitOk(i))
        /\ ~Home(i) => /\ refCnt[i] >= 1 /\ refCnt[i] <= Owed(i)
                           /\ IndexOf(i) = i /\ i \in mem /\ IsFilled(i)
    BY <1>1, <2>1, OutsideDriver
  <2>3. Thread(i)' = Thread(i) /\ Queues(i)' = Queues(i)
    BY <1>0, PartsSame
  <2>4. /\ Owed(i)' + Due(t, i) = Owed(i) + Due(t, i)'
        /\ Owed(i) \in Int /\ Owed(i)' \in Int /\ Due(t, i) \in Int /\ Due(t, i)' \in Int
    BY <1>0, <2>3, OwedChange DEF IInv
  <2>5. ~Home(i) => Due(t, i)' >= Due(t, i)
    <3>1. CASE Drops(t)
      BY <2>2, <3>1 DEF Drops, Due, One, Owes, HoldsIt, Pointing
    <3>2. CASE Marks(t)
      <4>1. HoldsIt(t, i) => buf[t] = i
        BY <3>2 DEF Marks, HoldsIt
      <4>2. ~Home(i) /\ HoldsIt(t, i) => HoldsIt(t, i)'
        BY <2>2, <3>2, <4>1 DEF Marks, HoldsIt
      <4>3. ~Home(i) /\ Owes(t, i) => Owes(t, i)'
        BY <1>0, <3>2, <4>2 DEF Marks, Owes
      <4>4. Due(t, i)' >= Due(t, i) \/ Home(i)
        BY <4>3 DEF Due, One
      <4>5. QED
        BY <4>4
    <3>3. QED
      BY <3>1, <3>2
  <2>6. QED
    BY <1>0, <2>2, <2>4, <2>5 DEF FrameOk, AwaitOk, Home
<1>2. QED
  BY <1>0, <1>1, OwedGoesOn

\* An entry that is taken goes over to the thread.
LEMMA TakesOwed ==
  ASSUME IInv, TypeOK', NEW t \in Takers, Takes(t), NEW i
  PROVE  Owed(i)' >= Owed(i) /\ (~isPicCopy => Owed(i)' = Owed(i)) /\ Owed(i) \in Int /\ Owed(i)' \in Int
<1>0. Calm /\ isPicCopy' = isPicCopy /\ \A u \in Takers \ {t} : Stays(u)
  BY DEF Takes, Alone, Calm
<1>1. prevQ \in Seq(Bufs) /\ picQ \in Seq(Entries)
  BY DEF IInv, TypeOK, TypeQueues
<1>2. Thread(i)' = Thread(i)
  BY DEF Takes, Alone, Thread
<1>3. Due(t, i) = 0
  BY DEF Takes, Due, One, Owes, HoldsIt, Pointing
<1>4. /\ Owed(i)' + Queues(i) = Owed(i) + (Queues(i)' + Due(t, i)')
      /\ Owed(i) \in Int /\ Owed(i)' \in Int /\ Queues(i) \in Int /\ Queues(i)' \in Int /\ Due(t, i)' \in Int
  BY <1>0, <1>2, <1>3, OwedChange DEF IInv
<1>5. CASE t = "preview"
  <2>1. /\ prevQ # <<>> /\ prevQ' = Tail(prevQ) /\ picQ' = picQ
        /\ pc'[t] = "got" /\ buf'[t] = Head(prevQ) /\ t \in Consumers
    BY <1>5 DEF Takes, Alone
  <2>2. Occurrences(prevQ, i) = Occurrences(Tail(prevQ), i) + One(Head(prevQ) = i)
    BY <1>1, <2>1, OccTail
  <2>3. Due(t, i)' = One(Head(prevQ) = i)
    BY <1>5, <2>1 DEF Due, One, Owes, HoldsIt, Pointing
  <2>4. /\ Occurrences(Tail(prevQ), i) \in Nat /\ Occurrences(picQ, i) \in Nat
        /\ One(Head(prevQ) = i) \in Nat
    <3>1. Tail(prevQ) \in Seq(Bufs)
      BY <1>1, <2>1
    <3>2. Occurrences(Tail(prevQ), i) \in Nat
      BY <3>1, OccType
    <3>3. Occurrences(picQ, i) \in Nat
      BY <1>1, OccType
    <3>4. QED
      BY <3>2, <3>3 DEF One
  <2>5. Queues(i)' = Occurrences(Tail(prevQ), i) + IF isPicCopy THEN 0 ELSE Occurrences(picQ, i)
    BY <1>0, <2>1 DEF Queues, Occurrences
  <2>6. Queues(i) = Queues(i)' + Due(t, i)'
    BY <2>2, <2>3, <2>4, <2>5 DEF Queues
  <2>7. Owed(i)' = Owed(i)
    BY <1>4, <2>6
  <2>8. QED
    BY <1>4, <2>7
<1>6. CASE t # "preview"
  <2>1. /\ picQ # <<>> /\ picQ' = Tail(picQ) /\ prevQ' = prevQ
        /\ pc'[t] = "got" /\ buf'[t] = Head(picQ) /\ t \in Consumers
    BY <1>6 DEF Takes, Alone
  <2>2. CASE isPicCopy
    <3>1. Queues(i)' = Queues(i) /\ Due(t, i)' >= 0
      BY <1>0, <2>1, <2>2 DEF Queues, Occurrences, Due, One
    <3>2. QED
      BY <1>4, <2>2, <3>1
  <2>3. CASE ~isPicCopy
    <3>1. Occurrences(picQ, i) = Occurrences(Tail(picQ), i) + One(Head(picQ) = i)
      BY <1>1, <2>1, OccTail
    <3>2. Due(t, i)' = One(Head(picQ) = i)
      BY <1>0, <2>1, <2>3 DEF Due, One, Owes, HoldsIt, Pointing
    <3>3. /\ Occurrences(Tail(picQ), i) \in Nat /\ Occurrences(prevQ, i) \in Nat
          /\ One(Head(picQ) = i) \in Nat
      <4>1. Tail(picQ) \in Seq(Entries)
        BY <1>1, <2>1
      <4>2. Occurrences(Tail(picQ), i) \in Nat
        BY <4>1, OccType
      <4>3. Occurrences(prevQ, i) \in Nat
        BY <1>1, OccType
      <4>4. QED
        BY <4>2, <4>3 DEF One
    <3>4. Queues(i)' = Occurrences(prevQ, i) + Occurrences(Tail(picQ), i)
      BY <1>0, <2>1, <2>3 DEF Queues, Occurrences
    <3>5. Queues(i) = Queues(i)' + Due(t, i)'
      BY <2>3, <3>1, <3>2, <3>3, <3>4 DEF Queues
    <3>6. Owed(i)' = Owed(i)
      BY <1>4, <3>5
    <3>7. QED
      BY <1>4, <3>6
  <2>4. QED
    BY <2>2, <2>3
<1>7. QED
  BY <1>5, <1>6

\* Taking an entry moves the debt from the queue to the thread.
LEMMA TakesFrames ==
  ASSUME IInv, OwedInv, TypeOK', NEW t \in Takers, Takes(t)
  PROVE  OwedInv'
<1>1. ASSUME NEW i \in Bufs, Streaming, i < mBufferCnt
      PROVE  FrameOk(i)' /\ (picState = "NORMAL" => AwaitOk(i)')
  <2>1. i \in 0 .. mBufferCnt - 1
    BY <1>1, DeviceAssumption DEF Bufs, IInv, TypeOK, TypeFrames
  <2>2. /\ refCnt[i] \in Nat /\ (picState = "NORMAL" => AwaitOk(i))
        /\ ~Home(i) => refCnt[i] >= 1 /\ refCnt[i] <= Owed(i)
    BY <1>1, <2>1, OutsideDriver
  <2>3. Owed(i)' >= Owed(i) /\ Owed(i) \in Int /\ Owed(i)' \in Int
    BY TakesOwed
  <2>4. UNCHANGED <<refCnt, drv, lost, capPc, capIdx>>
    BY DEF Takes, Alone
  <2>5. QED
    BY <2>2, <2>3, <2>4 DEF FrameOk, AwaitOk, Home
<1>2. QED
  BY <1>1, OwedGoesOn DEF Takes, Alone

\* The capture thread gives its own reference up.
LEMMA DecRefOwed ==
  ASSUME IInv, TypeOK', CaptureDecRef, NEW i
  PROVE  /\ Owed(i)' + Thread(i) = Owed(i) /\ Thread(i) = One(capIdx = i)
         /\ Owed(i) \in Int /\ Owed(i)' \in Int /\ Thread(i) \in Int
<1>1. /\ UNCHANGED <<prevQ, picQ, isPicCopy, pc, buf, idx>> /\ capPc = "decref" /\ capPc' = "top"
  BY DEF CaptureDecRef, picVars, qVars, thrVars
<1>2. \A u \in Takers : Stays(u)
  BY <1>1 DEF Stays, Holding, Pointing, IInv, TypeOK, TypeThreads
<1>3. Queues(i)' = Queues(i) /\ Thread(i)' = 0 /\ Thread(i) = One(capIdx = i)
  BY <1>1 DEF Queues, Occurrences, Thread, One
<1>4. "preview" \in Takers /\ Due("preview", i)' = Due("preview", i)
  BY <1>1, <1>2, DueSame DEF Takers
<1>5. /\ Owed(i)' + (Thread(i) + Queues(i) + Due("preview", i)) = Owed(i) + (0 + Queues(i) + Due("preview", i))
      /\ Owed(i) \in Int /\ Owed(i)' \in Int /\ Thread(i) \in Int /\ Queues(i) \in Int /\ Due("preview", i) \in Int
  BY <1>1, <1>2, <1>3, <1>4, OwedChange DEF IInv
<1>6. QED
  BY <1>3, <1>5

\* The capture thread gives up its reference.
LEMMA DecRefFrames ==
  ASSUME IInv, OwedInv, TypeOK', CaptureDecRef
  PROVE  OwedInv'
<1>0. /\ Calm /\ releasePreviewFrame(capIdx) /\ capIdx \in Bufs /\ capPc = "decref"
      /\ refCnt \in [Bufs -> Nat]
  BY DEF Calm, CaptureDecRef, picVars, qVars, thrVars, Streaming, IInv, TypeOK, TypeControl, TypeFrames
<1>1. ASSUME NEW i \in Bufs, Streaming, i < mBufferCnt
      PROVE  FrameOk(i)' /\ (picState = "NORMAL" => AwaitOk(i)')
  <2>1. i \in 0 .. mBufferCnt - 1
    BY <1>1, DeviceAssumption DEF Bufs, IInv, TypeOK, TypeFrames
  <2>2. /\ refCnt[i] \in Nat /\ (picState = "NORMAL" => AwaitOk(i))
        /\ ~Home(i) => refCnt[i] >= 1 /\ refCnt[i] <= Owed(i)
    BY <1>1, <2>1, OutsideDriver
  <2>3. /\ Owed(i)' + Thread(i) = Owed(i) /\ Thread(i) = IF capIdx = i THEN 1 ELSE 0
        /\ Owed(i) \in Int /\ Owed(i)' \in Int
    BY DecRefOwed DEF One
  <2>4. CASE Home(i)
    BY <1>0, <2>4 DEF releasePreviewFrame, FrameOk, AwaitOk, Home
  <2>5. CASE ~Home(i) /\ i = capIdx /\ refCnt[i] = 1
    BY <1>0, <2>5 DEF releasePreviewFrame, FrameOk, AwaitOk, Home
  <2>6. CASE ~Home(i) /\ i = capIdx /\ refCnt[i] > 1
    <3>1. refCnt'[i] = refCnt[i] - 1
      BY <1>0, <2>6 DEF releasePreviewFrame
    <3>2. refCnt'[i] \in 1 .. Owed(i)'
      BY <2>2, <2>3, <2>6, <3>1
    <3>3. QED
      BY <2>2, <2>6, <3>2 DEF FrameOk, AwaitOk
  <2>7. CASE ~Home(i) /\ i # capIdx
    <3>1. refCnt'[i] = refCnt[i]
      BY <1>0, <2>7 DEF releasePreviewFrame
    <3>2. refCnt'[i] \in 1 .. Owed(i)'
      BY <2>2, <2>3, <2>7, <3>1
    <3>3. QED
      BY <2>2, <2>7, <3>2 DEF FrameOk, AwaitOk
  <2>8. QED
    BY <2>2, <2>4, <2>5, <2>6, <2>7
<1>2. QED
  BY <1>0, <1>1, OwedGoesOn

\* The four outcomes of a captured frame: a copy is made or refused, nobody but
\* the capture thread has it, the preview has it too, a picture thread as well.
FrameTaken(i) ==
  /\ i \in drv /\ drv' = drv \ {i} /\ lost' = lost /\ capPc = "ready" /\ capPc' = "decref" /\ capIdx' = i
  /\ UNCHANGED <<devState, ctl, mBufferCnt, starts>> /\ capState = "started"
  /\ \A u \in Takers : Stays(u)

Copied(i) ==
  /\ picState = "NORMAL" /\ refCnt' = [refCnt EXCEPT ![i] = 1] /\ prevQ' = prevQ
  /\ \/ Len(picQ) = PictureQueue /\ UNCHANGED <<picQ, isPicCopy, capState, picState>>
     \/ /\ picQ' = Append(picQ, PicBuffer)
        /\ isPicCopy' = TRUE /\ capState' = "paused" /\ picState' = "NULL"

Shared(i) ==
  /\ picState # "NORMAL" /\ picState' # "NORMAL" /\ capState' = capState
  /\ \/ refCnt' = [refCnt EXCEPT ![i] = 1] /\ UNCHANGED <<prevQ, picQ, isPicCopy>>
     \/ /\ refCnt' = [refCnt EXCEPT ![i] = 2] /\ UNCHANGED <<picQ, isPicCopy>>
        /\ prevQ' = Append(prevQ, i)
     \/ /\ refCnt' = [refCnt EXCEPT ![i] = 3]
        /\ prevQ' = Append(prevQ, i) /\ picQ' = Append(picQ, i) /\ isPicCopy' = FALSE

\* A captured frame is copied, or shared by the preview and a picture.
LEMMA FrameOutcome ==
  ASSUME IInv, NEW i \in Bufs, CaptureFrame(i)
  PROVE  FrameTaken(i) /\ (Copied(i) \/ Shared(i))
<1>1. buf' = buf /\ idx' = idx
  BY DEF CaptureFrame
<1>2. \A u \in Consumers : pc'[u] = pc[u] \/ (pc[u] = "wait" /\ pc'[u] = "deq")
  BY DEF CaptureFrame, CaptureNormal, CapturePreviewFull, CapturePreview, CapturePicture, Signal,
     IInv, TypeOK, TypeThreads
<1>3. \A u \in Takers : Stays(u)
  BY <1>1, <1>2 DEF Stays, Holding, Pointing, IInv, TypeOK, TypeThreads
<1>4. FrameTaken(i)
  BY <1>3 DEF FrameTaken, CaptureFrame, getPreviewFrame
<1>5. CASE CaptureNormal(i)
  BY <1>4, <1>5 DEF CaptureNormal, Copied
<1>6. CASE CapturePreviewFull(i)
  BY <1>4, <1>6 DEF CapturePreviewFull, Shared, qVars
<1>7. CASE CapturePreview(i)
  BY <1>4, <1>7 DEF CapturePreview, Shared
<1>8. CASE CapturePicture(i)
  BY <1>4, <1>8 DEF CapturePicture, Shared
<1>9. QED
  BY <1>4, <1>5, <1>6, <1>7, <1>8 DEF CaptureFrame

\* Queue entries after a frame was shared.
LEMMA SharedQueues ==
  ASSUME IInv, TypeOK', NEW i \in Bufs, FrameTaken(i), Shared(i), NEW j
  PROVE  /\ Thread(j) = 0 /\ Thread(j)' = One(i = j)
         /\ Queues(j) \in Nat /\ Queues(j)' \in Nat
         /\ i # j => Queues(j)' >= Queues(j)
         /\ isPicCopy' = isPicCopy => Queues(i)' = Queues(i) + (refCnt'[i] - 1)
         /\ Queues(i)' >= refCnt'[i] - 1 /\ refCnt'[i] \in 1 .. 3
         /\ isPicCopy' => isPicCopy
         /\ i # j /\ isPicCopy' = isPicCopy => Queues(j)' = Queues(j)
<1>0. /\ prevQ \in Seq(Bufs) /\ picQ \in Seq(Entries) /\ i \in Entries /\ isPicCopy \in BOOLEAN
      /\ refCnt \in [Bufs -> Nat]
  <2>1. i \in Entries
    BY DeviceAssumption DEF Bufs, Entries
  <2>2. QED
    BY <2>1 DEF IInv, TypeOK, TypeQueues, TypeFlags, TypeFrames
<1>1. Thread(j) = 0 /\ Thread(j)' = One(i = j)
  BY DEF FrameTaken, Thread, One
<1>2. ASSUME NEW k
      PROVE  /\ Occurrences(prevQ, k) \in Nat /\ Occurrences(picQ, k) \in Nat
             /\ Queues(k) \in Nat /\ Queues(k)' \in Nat
             /\ i # k => Queues(k)' >= Queues(k)
             /\ i # k /\ isPicCopy' = isPicCopy => Queues(k)' = Queues(k)
             /\ isPicCopy' = isPicCopy /\ i = k => Queues(k)' = Queues(k) + (refCnt'[i] - 1)
             /\ i = k => Queues(k)' >= refCnt'[i] - 1
             /\ refCnt'[i] \in 1 .. 3 /\ (isPicCopy' => isPicCopy)
  <2>1. Occurrences(prevQ, k) \in Nat /\ Occurrences(picQ, k) \in Nat
    BY <1>0, OccType
  <2>2. Occurrences(Append(prevQ, i), k) = Occurrences(prevQ, k) + (IF i = k THEN 1 ELSE 0)
    BY <1>0, OccAppend DEF One
  <2>3. Occurrences(Append(picQ, i), k) = Occurrences(picQ, k) + (IF i = k THEN 1 ELSE 0)
    BY <1>0, OccAppend DEF One
  <2>4. Queues(k)' = Occurrences(prevQ', k) + IF isPicCopy' THEN 0 ELSE Occurrences(picQ', k)
    BY DEF Queues, Occurrences
  <2>5. Queues(k) = Occurrences(prevQ, k) + IF isPicCopy THEN 0 ELSE Occurrences(picQ, k)
    BY DEF Queues
  <2>6. CASE refCnt' = [refCnt EXCEPT ![i] = 1] /\ UNCHANGED <<prevQ, picQ, isPicCopy>>
    BY <1>0, <2>1, <2>4, <2>5, <2>6
  <2>7. CASE refCnt' = [refCnt EXCEPT ![i] = 2] /\ UNCHANGED <<picQ, isPicCopy>> /\ prevQ' = Append(prevQ, i)
    <3>1. refCnt'[i] = 2 /\ Occurrences(prevQ', k) = Occurrences(prevQ, k) + (IF i = k THEN 1 ELSE 0)
      BY <1>0, <2>2, <2>7
    <3>2. QED
      BY <2>1, <2>4, <2>5, <2>7, <3>1
  <2>8. CASE /\ refCnt' = [refCnt EXCEPT ![i] = 3]
             /\ prevQ' = Append(prevQ, i) /\ picQ' = Append(picQ, i) /\ isPicCopy' = FALSE
    <3>1. /\ refCnt'[i] = 3 /\ Occurrences(prevQ', k) = Occurrences(prevQ, k) + (IF i = k THEN 1 ELSE 0)
          /\ Occurrences(picQ', k) = Occurrences(picQ, k) + (IF i = k THEN 1 ELSE 0)
      BY <1>0, <2>2, <2>3, <2>8
    <3>2. Queues(k)' = Occurrences(prevQ, k) + Occurrences(picQ, k) + (IF i = k THEN 2 ELSE 0)
      BY <2>1, <2>4, <2>8, <3>1
    <3>3. CASE i = k
      BY <1>0, <2>1, <2>5, <2>8, <3>1, <3>2, <3>3
    <3>4. CASE i # k
      BY <1>0, <2>1, <2>5, <2>8, <3>1, <3>2, <3>4
    <3>5. QED
      BY <3>3, <3>4
  <2>9. QED
    BY <2>6, <2>7, <2>8 DEF Shared
<1>3. QED
  BY <1>1, <1>2

\* Threads owe at least as much when mIsPicCopy is cleared.
LEMMA DueMore ==
  ASSUME NEW u \in Takers, NEW i, Stays(u), isPicCopy' => isPicCopy
  PROVE  Due(u, i)' >= Due(u, i)
<1>1. HoldsIt(u, i)' <=> HoldsIt(u, i)
  BY DEF Stays, Holding, HoldsIt, Pointing
<1>2. Owes(u, i) => Owes(u, i)'
  BY <1>1 DEF Owes, Stays, Holding, HoldsIt, Pointing
<1>3. QED
  BY <1>2 DEF Due, One

\* What is owed after a frame was shared: all of its count, or more.
LEMMA SharedOwed ==
  ASSUME IInv, TypeOK', NEW i \in Bufs, FrameTaken(i), Shared(i), NEW j
  PROVE  /\ Owed(j) \in Nat /\ Owed(j)' \in Nat
         /\ i # j => Owed(j)' >= Owed(j)
         /\ i = j => Owed(j)' >= refCnt'[i]
         /\ isPicCopy' = isPicCopy => Owed(j)' = Owed(j) + IF i = j THEN refCnt'[i] ELSE 0
<1>1. /\ Thread(j) = 0 /\ Thread(j)' = IF i = j THEN 1 ELSE 0
      /\ Queues(j) \in Nat /\ Queues(j)' \in Nat /\ (isPicCopy' => isPicCopy)
      /\ i # j => Queues(j)' >= Queues(j)
      /\ i = j => Queues(j)' >= refCnt'[i] - 1
      /\ refCnt'[i] \in 1 .. 3
  BY SharedQueues DEF One
<1>2. \A u \in Takers : Due(u, j) \in 0 .. 1 /\ Due(u, j)' \in 0 .. 1 /\ Due(u, j)' >= Due(u, j)
  <2>1. \A u \in Takers : Due(u, j)' >= Due(u, j)
    BY <1>1, DueMore DEF FrameTaken
  <2>2. QED
    BY <2>1 DEF Due, One
<1>3. Owed(j) \in Nat /\ Owed(j)' \in Nat
  BY <1>1, <1>2 DEF Owed, Takers
<1>4. i # j => Owed(j)' >= Owed(j)
  BY <1>1, <1>2 DEF Owed, Takers
<1>5. i = j => Owed(j)' >= refCnt'[i]
  BY <1>1, <1>2 DEF Owed, Takers
<1>6. ASSUME isPicCopy' = isPicCopy
      PROVE  Owed(j)' = Owed(j) + IF i = j THEN refCnt'[i] ELSE 0
  <2>1. Queues(j)' = Queues(j) + IF i = j THEN refCnt'[i] - 1 ELSE 0
    BY <1>1, <1>6, SharedQueues
  <2>2. "preview" \in Takers /\ Due("preview", j)' = Due("preview", j)
    BY <1>6, DueSame DEF FrameTaken, Takers
  <2>3. /\ Owed(j)' + (Thread(j) + Queues(j) + Due("preview", j))
            = Owed(j) + (Thread(j)' + Queues(j)' + Due("preview", j)')
        /\ Due("preview", j) \in Int
    BY <1>6, <2>2, OwedChange DEF FrameTaken, IInv
  <2>4. CASE i = j
    BY <1>1, <1>3, <2>1, <2>2, <2>3, <2>4
  <2>5. CASE i # j
    BY <1>1, <1>3, <2>1, <2>2, <2>3, <2>5
  <2>6. QED
    BY <2>4, <2>5
<1>7. QED
  BY <1>3, <1>4, <1>5, <1>6

\* A new frame.
LEMMA CaptureFrames ==
  ASSUME IInv, OwedInv, TypeOK', NEW i \in Bufs, CaptureFrame(i)
  PROVE  OwedInv'
<1>0. FrameTaken(i) /\ (Copied(i) \/ Shared(i)) /\ refCnt \in [Bufs -> Nat]
  BY FrameOutcome DEF IInv, TypeOK, TypeFrames
<1> SUFFICES ASSUME Streaming', NEW j \in 0 .. mBufferCnt' - 1
             PROVE  FrameOk(j)' /\ (picState' = "NORMAL" => AwaitOk(j)')
  BY DEF OwedInv
<1>1. Streaming /\ mBufferCnt' = mBufferCnt
  BY <1>0 DEF Streaming, FrameTaken
<1>2. /\ j \in Bufs /\ refCnt[j] \in Nat /\ (picState = "NORMAL" => AwaitOk(j))
      /\ ~Home(j) => refCnt[j] >= 1 /\ refCnt[j] <= Owed(j)
  BY <1>1, OutsideDriver
<1>3. capPc' = "decref" /\ capIdx' = i /\ drv' = drv \ {i} /\ lost' = lost /\ capPc # "decref"
  BY <1>0 DEF FrameTaken
<1>4. CASE Copied(i)
  <2>1. i # j => Home(j)'
    BY <1>2, <1>3, <1>4, <1>0 DEF Copied, AwaitOk, Home
  <2>2. i = j => refCnt'[j] = 1
    BY <1>0, <1>4 DEF Copied
  <2>3. i = j => Owed(j)' >= 1 /\ Owed(j)' \in Nat
    <3>1. (Occurrences(prevQ, j) \in Nat /\ Occurrences(picQ, j) \in Nat)'
      BY OccType DEF TypeOK, TypeQueues
    <3>2. Queues(j)' \in Nat /\ (i = j => Thread(j)' = 1)
      BY <1>3, <3>1 DEF Queues, Thread, One
    <3>3. \A u \in Takers : Due(u, j)' \in 0 .. 1
      BY DEF Due, One
    <3>4. QED
      BY <3>2, <3>3 DEF Owed, Takers
  <2>4. QED
    BY <1>3, <2>1, <2>2, <2>3 DEF FrameOk, AwaitOk
<1>5. CASE Shared(i)
  <2>1. /\ Owed(j) \in Nat /\ Owed(j)' \in Nat /\ (i # j => Owed(j)' >= Owed(j))
        /\ i = j => Owed(j)' >= refCnt'[i]
    BY <1>0, <1>5, SharedOwed
  <2>2. refCnt'[i] \in 1 .. 3
    BY <1>0, <1>5 DEF Shared
  <2>3. i # j => refCnt'[j] = refCnt[j]
    BY <1>0, <1>2, <1>5 DEF Shared
  <2>4. picState' # "NORMAL"
    BY <1>5 DEF Shared
  <2>5. QED
    BY <1>2, <1>3, <2>1, <2>2, <2>3, <2>4 DEF FrameOk, Home
<1>6. QED
  BY <1>0, <1>4, <1>5

-----------------------------------------------------------------------------
(* The first session: no entry is left over from another one, so the count *)
(* is exactly what is owed, unless a NORMAL picture ended the capturing.   *)

Empty == prevQ = <<>> /\ picQ = <<>> /\ \A t \in Takers : ~Holding(t)

OnlyCopy ==
  /\ capState = "paused" /\ prevQ = <<>>
  /\ \A k \in DOMAIN picQ : picQ[k] = PicBuffer
  /\ \A t \in Takers : Holding(t) => pc[t] # "rel" /\ buf[t] = PicBuffer

NoCopy ==
  /\ \A k \in DOMAIN picQ : picQ[k] # PicBuffer
  /\ \A t \in Takers : Holding(t) /\ pc[t] # "rel" => buf[t] # PicBuffer

Counted == \A i \in Bufs : refCnt[i] = Owed(i)

FirstInv ==
  /\ starts = 0 => /\ Empty /\ ~Streaming /\ ~isPicCopy /\ capPc # "decref"
                   /\ \A i \in Bufs : refCnt[i] = 0
  /\ starts = 1 /\ ctl = "deliver" => ~isPicCopy
  /\ starts = 1 /\ Streaming /\ isPicCopy => OnlyCopy
  /\ starts = 1 /\ Streaming /\ ~isPicCopy => NoCopy /\ Counted /\ (picState = "NORMAL" => Empty)

\* What a thread that keeps its frame keeps.
LEMMA StaysHolds ==
  ASSUME NEW u, Stays(u)
  PROVE  /\ Holding(u)' <=> Holding(u)
         /\ Holding(u) => (pc'[u] = "rel" <=> pc[u] = "rel") /\ (pc[u] # "rel" => buf'[u] = buf[u])
BY DEF Stays, Holding, Pointing

\* Nothing is owed by nobody.
LEMMA EmptyOwed ==
  ASSUME Empty, capPc # "decref", NEW i
  PROVE  Owed(i) = 0
<1>1. Thread(i) = 0
  BY DEF Thread, One
<1>2. prevQ \in Seq({}) /\ picQ \in Seq({}) /\ DOMAIN prevQ = {} /\ DOMAIN picQ = {}
  BY DEF Empty
<1>3. Occurrences(prevQ, i) = 0 /\ Occurrences(picQ, i) = 0
  BY <1>2, OccType
<1>4. \A u \in Takers : Due(u, i) = 0
  BY DEF Empty, Holding, Due, One, Owes, HoldsIt, Pointing
<1>5. QED
  BY <1>1, <1>3, <1>4 DEF Owed, Queues, Takers

\* In the first session every holder's buffer is counted, hence filled and mapped.
LEMMA FirstHolder ==
  ASSUME IInv, FirstInv, starts = 1, Streaming, ~isPicCopy,
         NEW t \in Takers, t \in Consumers, pc[t] \in Pointing
  PROVE  /\ buf[t] \in Bufs /\ refCnt[buf[t]] >= 1 /\ buf[t] \in slot /\ buf[t] \in mem
         /\ IndexOf(buf[t]) = buf[t] /\ IsFilled(buf[t])
         /\ \A i : Owes(t, i) <=> buf[t] = i
<1>1. buf[t] \in Entries /\ buf[t] # PicBuffer
  BY DEF IInv, TypeOK, TypeThreads, FirstInv, NoCopy, Holding, Pointing
<1>2. buf[t] \in Bufs
  BY <1>1, DeviceAssumption DEF Entries, Bufs, PicBuffer
<1>3. \A i : Owes(t, i) <=> buf[t] = i
  BY DEF Owes, HoldsIt, Pointing
<1>4. Owed(buf[t]) >= 1 /\ Owed(buf[t]) \in Nat
  BY <1>3, OwedType DEF IInv
<1>5. refCnt[buf[t]] >= 1
  BY <1>2, <1>4 DEF FirstInv, Counted
<1>6. buf[t] \in slot /\ buf[t] \in mem
  BY <1>2, <1>5 DEF IInv, SessionInv, TypeOK, TypeFrames
<1>7. QED
  BY <1>2, <1>3, <1>5, <1>6 DEF IndexOf, IsFilled

\* A quiet step.
LEMMA QuietFirst ==
  ASSUME IInv, FirstInv, TypeOK', Quiet
  PROVE  FirstInv'
<1>1. /\ UNCHANGED <<refCnt, prevQ, picQ, starts, isPicCopy>> /\ (Streaming' => Streaming)
      /\ capPc' = "decref" <=> capPc = "decref"
      /\ Streaming' /\ picState' = "NORMAL" => picState = "NORMAL"
      /\ capState' = "started" => capState = "started" \/ ctl = "deliver"
      /\ ctl' = "deliver" => ctl = "deliver"
  BY DEF Quiet, Calm
<1>2. \A u \in Takers : /\ Holding(u)' <=> Holding(u)
                        /\ Holding(u) => /\ pc'[u] = "rel" <=> pc[u] = "rel"
                                         /\ pc[u] # "rel" => buf'[u] = buf[u]
  BY StaysHolds DEF Quiet
<1>3. Empty => Empty'
  BY <1>1, <1>2 DEF Empty
<1>4. NoCopy => NoCopy'
  BY <1>1, <1>2 DEF NoCopy
<1>5. OnlyCopy /\ ctl # "deliver" => OnlyCopy'
  <2>1. (capState = "paused" /\ ctl # "deliver") => capState' = "paused"
    BY <1>1 DEF TypeOK, TypeControl
  <2>2. QED
    BY <1>1, <1>2, <2>1 DEF OnlyCopy
<1>6. Counted => Counted'
  BY <1>1, QuietOwed DEF Counted, IInv
<1>7. QED
  BY <1>1, <1>3, <1>4, <1>5, <1>6 DEF FirstInv

\* A step that ends a thread's hold.
LEMMA LeavesFirst ==
  ASSUME IInv, FirstInv, TypeOK', NEW t \in Takers, Alone(t), Holding(t), UNCHANGED <<prevQ, picQ>>,
         ~Holding(t)' \/ (~isPicCopy /\ pc'[t] = "rel"),
         starts = 1 /\ Streaming /\ ~isPicCopy => Counted'
  PROVE  FirstInv'
<1>1. /\ UNCHANGED <<starts, isPicCopy>> /\ (Streaming' => Streaming)
      /\ Streaming' /\ picState' = "NORMAL" => picState = "NORMAL"
      /\ capState' = "started" => capState = "started" \/ ctl = "deliver"
      /\ ctl' = "deliver" => ctl = "deliver"
  BY DEF Alone, Calm
<1>2. \A u \in Takers \ {t} : /\ Holding(u)' <=> Holding(u)
                              /\ Holding(u) => /\ pc'[u] = "rel" <=> pc[u] = "rel"
                                               /\ pc[u] # "rel" => buf'[u] = buf[u]
  BY StaysHolds DEF Alone
<1>3. ~Empty
  BY DEF Empty
<1>4. NoCopy => NoCopy'
  BY <1>2 DEF NoCopy
<1>5. OnlyCopy /\ ctl # "deliver" /\ isPicCopy => OnlyCopy'
  <2>1. (capState = "paused" /\ ctl # "deliver") => capState' = "paused"
    BY <1>1 DEF TypeOK, TypeControl
  <2>2. QED
    BY <1>1, <1>2, <2>1 DEF OnlyCopy
<1>6. starts = 0 => FALSE
  BY <1>3 DEF FirstInv
<1>7. QED
  BY <1>1, <1>3, <1>4, <1>5, <1>6 DEF FirstInv

\* A release: the count and what is owed go down by one together.
LEMMA ReleasesFirst ==
  ASSUME IInv, FirstInv, TypeOK', NEW t \in Takers, NEW j \in Bufs, Releases(t, j)
  PROVE  FirstInv'
<1>0. /\ Alone(t) /\ UNCHANGED <<prevQ, picQ, capPc, capIdx, isPicCopy>> /\ t \in Consumers
      /\ \A u \in Takers \ {t} : Stays(u)
  BY DEF Releases, Alone, Calm
<1>1. Holding(t) /\ ~Holding(t)'
  BY <1>0 DEF Releases, Holding, Pointing
<1>2. ASSUME starts = 1, Streaming, ~isPicCopy
      PROVE  Counted'
  <2>1. Counted /\ refCnt \in [Bufs -> Nat]
    BY <1>2 DEF FirstInv, IInv, TypeOK, TypeFrames
  <2>2. \A i : Owes(t, i) <=> j = i
    <3>1. CASE pc[t] \in Pointing
      BY <1>0, <1>2, <3>1, FirstHolder DEF Releases, Pointing
    <3>2. CASE pc[t] = "rel"
      BY <1>0, <3>2 DEF Releases, Owes, HoldsIt, Pointing
    <3>3. QED
      BY <1>1, <3>1, <3>2 DEF Holding
  <2>3. refCnt[j] >= 1
    BY <2>1, <2>2, OwedType DEF IInv, Counted
  <2>4. \A i \in Bufs : refCnt'[i] = IF i = j THEN refCnt[i] - 1 ELSE refCnt[i]
    BY <2>1, <2>3 DEF Releases, releasePreviewFrame
  <2>5. ASSUME NEW i \in Bufs PROVE refCnt'[i] = Owed(i)'
    <3>1. Thread(i)' = Thread(i) /\ Queues(i)' = Queues(i)
      BY <1>0, PartsSame
    <3>2. Due(t, i)' = 0 /\ Due(t, i) = IF i = j THEN 1 ELSE 0
      BY <1>1, <2>2 DEF Due, One, Owes, HoldsIt, Holding
    <3>3. /\ Owed(i)' + Due(t, i) = Owed(i)
          /\ Owed(i) \in Int /\ Owed(i)' \in Int
      <4>1. /\ Owed(i)' + (Thread(i) + Queues(i) + Due(t, i)) = Owed(i) + (Thread(i) + Queues(i) + 0)
            /\ Owed(i) \in Int /\ Owed(i)' \in Int /\ Thread(i) \in Int /\ Queues(i) \in Int
            /\ Due(t, i) \in Int
        BY <1>0, <3>1, <3>2, OwedChange DEF IInv
      <4>2. QED
        BY <4>1
    <3>4. refCnt[i] = Owed(i)
      BY <2>1 DEF Counted
    <3>5. CASE i = j
      BY <2>4, <3>2, <3>3, <3>4, <3>5
    <3>6. CASE i # j
      BY <2>4, <3>2, <3>3, <3>4, <3>6
    <3>7. QED
      BY <3>5, <3>6
  <2>6. QED
    BY <2>5 DEF Counted
<1>3. QED
  BY <1>0, <1>1, <1>2, LeavesFirst

\* An entry of the first session is not dropped, unless it is the copy's.
LEMMA DropsFirst ==
  ASSUME IInv, FirstInv, TypeOK', NEW t \in Takers, Drops(t)
  PROVE  FirstInv'
<1>0. /\ Alone(t) /\ UNCHANGED <<prevQ, picQ>> /\ t \in Consumers /\ pc[t] \in Pointing
      /\ Holding(t) /\ ~Holding(t)'
  BY DEF Drops, Alone, Holding, Pointing
<1>1. ~(starts = 1 /\ Streaming /\ ~isPicCopy)
  BY <1>0, FirstHolder DEF Drops
<1>2. QED
  BY <1>0, <1>1, LeavesFirst

\* The index that a picture thread reads in the first session is its entry's.
LEMMA MarksFirst ==
  ASSUME IInv, FirstInv, TypeOK', NEW t \in Takers, Marks(t)
  PROVE  FirstInv'
<1>0. /\ Alone(t) /\ UNCHANGED <<refCnt, prevQ, picQ, capPc, capIdx, isPicCopy>> /\ t \in Consumers
      /\ pc[t] \in Pointing /\ Holding(t) /\ ~isPicCopy /\ pc'[t] = "rel"
      /\ \A u \in Takers \ {t} : Stays(u)
  BY DEF Marks, Alone, Calm, Holding, Pointing
<1>1. ASSUME starts = 1, Streaming
      PROVE  Counted'
  <2>1. ASSUME NEW i \in Bufs PROVE refCnt'[i] = Owed(i)'
    <3>1. Thread(i)' = Thread(i) /\ Queues(i)' = Queues(i)
      BY <1>0, PartsSame
    <3>2. idx'[t] = buf[t] /\ (Owes(t, i) <=> buf[t] = i)
      BY <1>0, <1>1, FirstHolder DEF Marks
    <3>3. Owes(t, i)' <=> Owes(t, i)
      BY <1>0, <3>2 DEF Owes, HoldsIt, Pointing
    <3>4. Due(t, i)' = Due(t, i)
      BY <3>3 DEF Due, One
    <3>5. Owed(i)' = Owed(i)
      <4>1. /\ Owed(i)' + (Thread(i) + Queues(i) + Due(t, i)) = Owed(i) + (Thread(i) + Queues(i) + Due(t, i))
            /\ Owed(i) \in Int /\ Owed(i)' \in Int /\ Thread(i) \in Int /\ Queues(i) \in Int
            /\ Due(t, i) \in Int
        BY <1>0, <3>1, <3>4, OwedChange DEF IInv
      <4>2. Thread(i) + Queues(i) + Due(t, i) \in Int
        BY <4>1
      <4>3. QED
        BY <4>1, <4>2, Cancel
    <3>6. QED
      BY <1>0, <1>1, <3>5 DEF FirstInv, Counted
  <2>2. QED
    BY <2>1 DEF Counted
<1>2. QED
  BY <1>0, <1>1, LeavesFirst

\* An entry that is taken.
LEMMA TakesFirst ==
  ASSUME IInv, FirstInv, TypeOK', NEW t \in Takers, Takes(t)
  PROVE  FirstInv'
<1>1. /\ UNCHANGED <<starts, isPicCopy, refCnt>> /\ (Streaming' => Streaming) /\ t \in Consumers
      /\ Streaming' /\ picState' = "NORMAL" => picState = "NORMAL"
      /\ capState' = "started" => capState = "started" \/ ctl = "deliver"
      /\ ctl' = "deliver" => ctl = "deliver"
      /\ pc'[t] = "got"
  BY DEF Takes, Alone, Calm
<1>2. \A u \in Takers \ {t} : /\ Holding(u)' <=> Holding(u)
                              /\ Holding(u) => /\ pc'[u] = "rel" <=> pc[u] = "rel"
                                               /\ pc[u] # "rel" => buf'[u] = buf[u]
  BY StaysHolds DEF Takes, Alone
<1>3. ~Empty
  BY DEF Empty, Takes
<1>4. prevQ \in Seq(Bufs) /\ picQ \in Seq(Entries)
  BY DEF IInv, TypeOK, TypeQueues
<1>5. CASE t = "preview"
  <2>1. /\ prevQ # <<>> /\ buf'[t] = Head(prevQ) /\ picQ' = picQ
    BY <1>5 DEF Takes
  <2>2. Head(prevQ) \in Bufs
    BY <1>4, <2>1
  <2>3. buf'[t] # PicBuffer
    BY <2>1, <2>2, DeviceAssumption DEF Bufs, PicBuffer
  <2>4. ~OnlyCopy
    BY <2>1 DEF OnlyCopy
  <2>5. NoCopy => NoCopy'
    BY <1>2, <2>1, <2>3 DEF NoCopy
  <2>6. Counted /\ ~isPicCopy => Counted'
    BY <1>1, TakesOwed DEF Counted
  <2>7. QED
    BY <1>1, <1>3, <2>4, <2>5, <2>6 DEF FirstInv
<1>6. CASE t # "preview"
  <2>1. /\ picQ # <<>> /\ buf'[t] = Head(picQ) /\ picQ' = Tail(picQ) /\ prevQ' = prevQ
    BY <1>6 DEF Takes
  <2>2. /\ Head(picQ) = picQ[1] /\ 1 \in DOMAIN picQ
        /\ \A k \in DOMAIN Tail(picQ) : k + 1 \in DOMAIN picQ /\ Tail(picQ)[k] = picQ[k + 1]
    BY <1>4, <2>1
  <2>3. OnlyCopy /\ ctl # "deliver" => OnlyCopy'
    <3>1. (capState = "paused" /\ ctl # "deliver") => capState' = "paused"
      BY <1>1 DEF TypeOK, TypeControl
    <3>2. QED
      BY <1>1, <1>2, <2>1, <2>2, <3>1 DEF OnlyCopy
  <2>4. NoCopy => NoCopy'
    BY <1>1, <1>2, <2>1, <2>2 DEF NoCopy
  <2>5. Counted /\ ~isPicCopy => Counted'
    BY <1>1, TakesOwed DEF Counted
  <2>6. QED
    BY <1>1, <1>3, <2>3, <2>4, <2>5 DEF FirstInv
<1>7. QED
  BY <1>5, <1>6

\* The capture thread's own reference.
LEMMA DecRefFirst ==
  ASSUME IInv, FirstInv, TypeOK', CaptureDecRef
  PROVE  FirstInv'
<1>1. /\ UNCHANGED <<starts, isPicCopy, picState, capState, ctl, devState, prevQ, picQ, pc, buf, idx>>
      /\ capPc = "decref" /\ releasePreviewFrame(capIdx) /\ capIdx \in Bufs
  BY DEF CaptureDecRef, picVars, qVars, thrVars, IInv, TypeOK, TypeControl
<1>2. /\ Empty' <=> Empty
      /\ NoCopy' <=> NoCopy
      /\ OnlyCopy' <=> OnlyCopy
      /\ Streaming' <=> Streaming
  BY <1>1 DEF Empty, NoCopy, OnlyCopy, Holding, Streaming
<1>3. ASSUME Counted PROVE Counted'
  <2>1. refCnt \in [Bufs -> Nat]
    BY DEF IInv, TypeOK, TypeFrames
  <2>2. ASSUME NEW i \in Bufs
        PROVE  /\ Owed(i)' = Owed(i) - (IF capIdx = i THEN 1 ELSE 0) /\ Owed(i)' >= 0
               /\ Owed(i) \in Int /\ refCnt[i] = Owed(i)
    <3>1. /\ Owed(i)' + Thread(i) = Owed(i) /\ Thread(i) = IF capIdx = i THEN 1 ELSE 0
          /\ Owed(i) \in Int /\ Owed(i)' \in Int
      BY DecRefOwed DEF One
    <3>2. Owed(i)' >= 0
      <4>1. (TypeOK => Owed(i) \in Nat)'
        BY OwedType, PTL
      <4>2. QED
        BY <4>1
    <3>3. QED
      BY <1>3, <3>1, <3>2 DEF Counted
  <2>3. refCnt[capIdx] >= 1
    BY <1>1, <2>2
  <2>4. \A i \in Bufs : refCnt'[i] = IF i = capIdx THEN refCnt[i] - 1 ELSE refCnt[i]
    BY <1>1, <2>1, <2>3 DEF releasePreviewFrame
  <2>5. QED
    BY <2>2, <2>4 DEF Counted
<1>4. QED
  BY <1>1, <1>2, <1>3 DEF FirstInv

\* A new frame of the first session.
LEMMA CaptureFirst ==
  ASSUME ~HwEncoder, IInv, FirstInv, TypeOK', NEW i \in Bufs, CaptureFrame(i)
  PROVE  FirstInv'
<1>0. /\ FrameTaken(i) /\ (Copied(i) \/ Shared(i)) /\ refCnt \in [Bufs -> Nat]
      /\ UNCHANGED <<devState, ctl, starts>> /\ capState = "started" /\ i \in drv
  BY FrameOutcome DEF IInv, TypeOK, TypeFrames, FrameTaken
<1>1. Streaming /\ ctl # "deliver"
  BY <1>0 DEF IInv, CaptureOnlyStreaming, Streaming
<1>2. starts # 0
  BY <1>1 DEF FirstInv
<1>3. starts = 1 => ~isPicCopy /\ NoCopy /\ Counted /\ (picState = "NORMAL" => Empty)
  BY <1>0, <1>1 DEF FirstInv, OnlyCopy
<1>4. \A u \in Takers : /\ Holding(u)' <=> Holding(u)
                        /\ Holding(u) => /\ pc'[u] = "rel" <=> pc[u] = "rel"
                                         /\ pc[u] # "rel" => buf'[u] = buf[u]
  BY <1>0, StaysHolds DEF FrameTaken
<1>5. refCnt[i] = 0
  BY <1>0 DEF IInv, CountedOutsideDriver
<1>6. CASE starts = 1 /\ Copied(i)
  <2>1. Empty
    BY <1>3, <1>6 DEF Copied
  <2>2. picQ' = <<PicBuffer>> /\ isPicCopy' = TRUE /\ capState' = "paused" /\ prevQ' = <<>>
    <3>1. Len(picQ) # PictureQueue /\ Append(picQ, PicBuffer) = <<PicBuffer>>
      BY <2>1, DeviceAssumption DEF Empty
    <3>2. QED
      BY <1>6, <2>1, <3>1 DEF Copied, Empty
  <2>3. OnlyCopy'
    BY <1>4, <2>1, <2>2 DEF OnlyCopy, Empty
  <2>4. QED
    BY <1>0, <1>1, <1>2, <2>2, <2>3 DEF FirstInv
<1>7. CASE starts = 1 /\ Shared(i)
  <2>1. isPicCopy' = isPicCopy /\ ~isPicCopy /\ picState' # "NORMAL"
    BY <1>3, <1>7 DEF Shared, IInv, TypeOK, TypeFlags
  <2>2. NoCopy'
    <3>1. picQ \in Seq(Entries) /\ i # PicBuffer
      BY DeviceAssumption DEF IInv, TypeOK, TypeQueues, Bufs, PicBuffer
    <3>2. \A k \in DOMAIN picQ' : picQ'[k] # PicBuffer
      <4>1. CASE picQ' = picQ
        BY <1>3, <1>7, <4>1 DEF NoCopy
      <4>2. CASE picQ' = Append(picQ, i)
        BY <1>3, <1>7, <3>1, <4>2 DEF NoCopy
      <4>3. QED
        BY <1>7, <4>1, <4>2 DEF Shared
    <3>3. QED
      BY <1>3, <1>4, <1>7, <3>2 DEF NoCopy
  <2>3. ASSUME NEW j \in Bufs PROVE refCnt'[j] = Owed(j)'
    <3>1. Owed(j)' = Owed(j) + (IF i = j THEN refCnt'[i] ELSE 0) /\ Owed(j) \in Nat
      BY <1>0, <1>7, <2>1, SharedOwed
    <3>2. refCnt[j] = Owed(j) /\ refCnt'[i] \in Nat
      BY <1>0, <1>3, <1>7 DEF Counted, Shared
    <3>3. i # j => refCnt'[j] = refCnt[j]
      BY <1>0, <1>7 DEF Shared
    <3>4. QED
      BY <1>5, <3>1, <3>2, <3>3
  <2>4. QED
    BY <1>0, <1>1, <1>2, <2>1, <2>2, <2>3 DEF FirstInv, Counted
<1>8. CASE starts # 1
  BY <1>0, <1>2, <1>8 DEF FirstInv
<1>9. QED
  BY <1>0, <1>6, <1>7, <1>8

\* The steps that begin or end a session.
Session ==
  startDevice \/ startDeviceFails \/ StopDeviceUnmap \/ StopDeviceZero

\* A new session has all its buffers in the driver; an ended one owes nothing.
LEMMA SessionFrames ==
  ASSUME IInv, OwedInv, FirstInv, TypeOK', Session
  PROVE  OwedInv' /\ FirstInv'
<1>1. CASE startDevice
  <2>1. /\ UNCHANGED <<capPc, capIdx, prevQ, picQ, isPicCopy, pc, buf, idx, refCnt>>
        /\ starts' = starts + 1 /\ starts \in Nat /\ mBufferCnt' \in Nat /\ drv' = 0 .. mBufferCnt' - 1
    <3>1. starts \in Nat
      BY DeviceAssumption DEF IInv, TypeOK, TypeControl
    <3>2. mBufferCnt' \in Nat
      BY DeviceAssumption DEF TypeOK, TypeFrames
    <3>3. QED
      BY <1>1, <3>1, <3>2 DEF startDevice, picVars, qVars, thrVars, capVars
  <2>2. OwedInv'
    <3>1. ASSUME NEW i \in 0 .. mBufferCnt' - 1 PROVE i \in drv'
      BY <2>1
    <3>2. QED
      BY <3>1 DEF OwedInv, FrameOk, AwaitOk, Home
  <2>3. ASSUME starts = 0 PROVE Empty' /\ ~isPicCopy' /\ NoCopy' /\ Counted'
    <3>1. Empty /\ ~isPicCopy /\ capPc # "decref" /\ \A i \in Bufs : refCnt[i] = 0
      BY <2>3 DEF FirstInv
    <3>2. Empty' /\ NoCopy'
      BY <2>1, <3>1 DEF Empty, NoCopy, Holding
    <3>3. ASSUME NEW i \in Bufs PROVE Owed(i)' = 0
      <4>1. (Empty /\ capPc # "decref" => Owed(i) = 0)'
        BY EmptyOwed, PTL
      <4>2. QED
        BY <2>1, <3>1, <3>2, <4>1
    <3>4. QED
      BY <2>1, <3>1, <3>2, <3>3 DEF Counted
  <2>4. QED
    BY <2>1, <2>2, <2>3 DEF FirstInv
<1>2. CASE startDeviceFails
  <2>1. starts' = starts + 1 /\ starts \in Nat /\ devState' = "connected" /\ ctl' = "idle"
    BY <1>2, DeviceAssumption DEF startDeviceFails, IInv, TypeOK, TypeControl
  <2>2. QED
    BY <2>1 DEF OwedInv, FirstInv, Streaming
<1>3. CASE StopDeviceUnmap
  <2>1. starts' = starts /\ ctl' = "zero" /\ Streaming
    BY <1>3 DEF StopDeviceUnmap, Streaming
  <2>2. QED
    BY <2>1 DEF OwedInv, FirstInv, Streaming
<1>4. CASE StopDeviceZero
  <2>1. /\ UNCHANGED <<starts, isPicCopy, capPc, prevQ, picQ, pc, buf, idx>>
        /\ devState' = "connected" /\ ctl' = "idle" /\ refCnt' = [i \in Bufs |-> 0]
    BY <1>4 DEF StopDeviceZero, picVars, qVars, thrVars, capVars
  <2>2. Empty => Empty'
    BY <2>1 DEF Empty, Holding
  <2>3. QED
    BY <2>1, <2>2 DEF OwedInv, FirstInv, Streaming
<1>5. QED
  BY <1>1, <1>2, <1>3, <1>4 DEF Session

-----------------------------------------------------------------------------
(* Every step is one of these.                                             *)

Kind ==
  \/ Quiet \/ Session \/ CaptureDecRef \/ \E i \in Bufs : CaptureFrame(i)
  \/ \E t \in Takers : \/ Drops(t) \/ Marks(t) \/ Takes(t)
                       \/ \E j \in Bufs : Releases(t, j)

\* A thread whose variables do not change keeps what it has.
LEMMA StaysSame ==
  ASSUME TypeOK, NEW u, u \in Consumers => pc'[u] = pc[u] /\ buf'[u] = buf[u] /\ idx'[u] = idx[u]
  PROVE  Stays(u)
BY DEF Stays, Holding, Pointing, TypeOK, TypeThreads

\* The capture thread's steps that touch no frame.
LEMMA CaptureKind ==
  ASSUME IInv, CaptureTop \/ v4l2WaitCameraReady \/ CaptureSkip
  PROVE  Quiet
<1> USE DEF CaptureTop, v4l2WaitCameraReady, CaptureSkip, hwVars, frmVars, picVars, qVars, thrVars
<1>1. \A u \in Takers : Stays(u)
  BY StaysSame DEF IInv
<1>2. Calm
  BY DEF Calm, Streaming, singalDisconnect
<1>3. QED
  BY <1>1, <1>2 DEF Quiet

\* The HAL's calls.
LEMMA ControlKind ==
  ASSUME IInv, ControlStep \/ Request
  PROVE  Quiet \/ Session
<1> USE DEF hwVars, frmVars, picVars, qVars, thrVars, capVars
<1>1. CASE Session
  BY <1>1
<1>2. CASE startDeliveringFrames \/ StopDeviceWait \/ startContinuousPicture \/ startSmartPicture
  <2> USE DEF startDeliveringFrames, StopDeviceWait, startContinuousPicture, startSmartPicture
  <2>1. \A u \in Takers : Stays(u)
    BY <1>2, StaysSame DEF IInv
  <2>2. Calm
    BY <1>2 DEF Calm, Streaming
  <2>3. QED
    BY <1>2, <2>1, <2>2 DEF Quiet
<1>3. CASE connectDevice \/ disconnectDevice \/ stopDeliveringFrames \/ cancelPicture
  <2> USE DEF connectDevice, disconnectDevice, stopDeliveringFrames, cancelPicture
  <2>1. \A u \in Takers : Stays(u)
    BY <1>3, StaysSame DEF IInv
  <2>2. Calm
    BY <1>3 DEF Calm, Streaming
  <2>3. QED
    BY <1>3, <2>1, <2>2 DEF Quiet
<1>4. ASSUME NEW m \in Modes, setTakePictureState(m) PROVE Quiet
  <2>1. \A u \in Takers : Stays(u)
    BY <1>4, StaysSame DEF IInv, setTakePictureState
  <2>2. Calm
    BY <1>4 DEF Calm, Streaming, setTakePictureState
  <2>3. QED
    BY <1>4, <2>1, <2>2 DEF Quiet, setTakePictureState
<1>5. QED
  BY <1>1, <1>2, <1>3, <1>4 DEF ControlStep, Request, Session

\* Waking up.
LEMMA SpuriousKind == IInv /\ Spurious => Quiet
<1> SUFFICES ASSUME IInv, Spurious PROVE Quiet
  OBVIOUS
<1> USE DEF Spurious, hwVars, frmVars, picVars, qVars
<1>1. \A u \in Consumers : pc'[u] = pc[u] \/ (pc[u] = "wait" /\ pc'[u] = "deq")
  BY DEF Goto, IInv, TypeOK, TypeThreads
<1>2. \A u \in Takers : Stays(u)
  BY <1>1 DEF Stays, Holding, Pointing, IInv, TypeOK, TypeThreads
<1>3. Calm
  BY DEF Calm, Streaming
<1>4. QED
  BY <1>2, <1>3 DEF Quiet

\* Face detection has no reference.
LEMMA FaceKind == IInv /\ getCurrentFaceFrame => Quiet
<1> SUFFICES ASSUME IInv, getCurrentFaceFrame PROVE Quiet
  OBVIOUS
<1> USE DEF getCurrentFaceFrame, hwVars, frmVars, picVars, qVars, capVars
<1>1. \A u \in Consumers \ {"face"} : pc'[u] = pc[u] /\ buf'[u] = buf[u] /\ idx'[u] = idx[u]
  BY DEF Goto, IInv, TypeOK, TypeThreads
<1>2. \A u \in Takers : Stays(u)
  BY <1>1, StaysSame DEF IInv, Takers
<1>3. Calm
  BY DEF Calm, Streaming
<1>4. QED
  BY <1>2, <1>3 DEF Quiet

\* A step of one thread is calm and leaves the others alone.
LEMMA ThreadAlone ==
  ASSUME IInv, NEW t \in Consumers,
         UNCHANGED <<mBufferCnt, starts, isPicCopy, devState, ctl, capState, capPc, capIdx>>,
         picState' = picState \/ picState' = "NULL",
         \A u \in Consumers \ {t} : pc'[u] = pc[u] /\ buf'[u] = buf[u] /\ idx'[u] = idx[u]
  PROVE  Calm /\ Alone(t)
<1>1. Calm
  BY DEF Calm, Streaming
<1>2. \A u \in Takers \ {t} : Stays(u)
  BY StaysSame DEF IInv
<1>3. QED
  BY <1>1, <1>2 DEF Alone

\* The steps on the queues.
LEMMA ConsumerKind ==
  ASSUME IInv, NEW t \in Queued, ConsumerStep(t)
  PROVE  Kind
<1> USE DEF hwVars, frmVars, picVars, qVars, capVars, Goto, Return
<1>0. t \in Takers /\ t \in Consumers /\ pc \in [Consumers -> {"idle", "deq", "gap", "wait", "got", "use", "inc",
                           "shown", "rel"}]
      /\ buf \in [Consumers -> Entries] /\ idx \in [Consumers -> Nat]
  BY DeviceAssumption DEF Queued, Takers, AllConsumers, IInv, TypeOK, TypeThreads
<1>1. \A u \in Consumers \ {t} : pc'[u] = pc[u] /\ buf'[u] = buf[u] /\ idx'[u] = idx[u]
  BY <1>0 DEF ConsumerStep, Dequeue, Sleep, LockFrame, ReleasePicture
<1>2. UNCHANGED <<mBufferCnt, starts, isPicCopy, devState, ctl, capState, capPc, capIdx, picState>>
  BY DEF ConsumerStep, Dequeue, Sleep, LockFrame, ReleasePicture
<1>3. Calm /\ Alone(t)
  BY <1>0, <1>1, <1>2, ThreadAlone
<1>4. Stays(t) /\ UNCHANGED <<refCnt, drv, lost, prevQ, picQ>> => Quiet
  BY <1>2, <1>3 DEF Quiet, Alone
<1>5. CASE Dequeue(t)
  <2>1. CASE pc'[t] = "gap"
    BY <1>0, <1>4, <1>5, <2>1 DEF Dequeue, Stays, Holding, Pointing, Kind
  <2>2. CASE pc'[t] # "gap"
    <3>1. Takes(t)
      BY <1>0, <1>3, <1>5, <2>2 DEF Dequeue, Takes, Pics
    <3>2. QED
      BY <1>0, <3>1 DEF Kind
  <2>3. QED
    BY <2>1, <2>2
<1>6. CASE Sleep(t)
  BY <1>0, <1>4, <1>6 DEF Sleep, Stays, Holding, Pointing, Kind
<1>7. CASE LockFrame(t)
  <2>1. CASE pc'[t] = "use"
    BY <1>0, <1>4, <1>7, <2>1 DEF LockFrame, Stays, Pointing, Kind
  <2>2. CASE pc'[t] # "use"
    <3>1. Drops(t)
      BY <1>0, <1>3, <1>7, <2>2 DEF LockFrame, Drops
    <3>2. QED
      BY <1>0, <3>1 DEF Kind
  <2>3. QED
    BY <2>1, <2>2
<1>8. CASE ReleasePicture(t)
  <2>1. Releases(t, idx[t]) /\ idx[t] \in Bufs
    BY <1>0, <1>3, <1>8 DEF ReleasePicture, Releases, IInv, IndexInv
  <2>2. QED
    BY <1>0, <2>1 DEF Kind
<1>9. QED
  BY <1>5, <1>6, <1>7, <1>8 DEF ConsumerStep

\* The steps that end a picture or the showing of a frame.
LEMMA DoneKind ==
  ASSUME IInv, PreviewDone \/ PictureTaken \/ SmartTaken \/ ContinuousDone
  PROVE  Kind
<1> USE DEF hwVars, frmVars, picVars, qVars, capVars, Goto, Return
<1>0. /\ pc \in [Consumers -> {"idle", "deq", "gap", "wait", "got", "use", "inc", "shown", "rel"}]
      /\ buf \in [Consumers -> Entries] /\ idx \in [Consumers -> Nat]
      /\ \A e : IndexOf(e) \in Bufs
  BY IndexOfBufs DEF IInv, TypeOK, TypeThreads
<1>1. CASE PreviewDone
  <2>1. "preview" \in Consumers /\ "preview" \in Takers
    BY <1>1 DEF PreviewDone, Takers
  <2>2. Alone("preview")
    BY <1>0, <1>1, <2>1, ThreadAlone DEF PreviewDone
  <2>3. Releases("preview", IndexOf(buf["preview"]))
    BY <1>0, <1>1, <2>1, <2>2 DEF PreviewDone, Releases, Owes, HoldsIt, Pointing
  <2>4. QED
    BY <1>0, <2>1, <2>3 DEF Kind
<1>2. CASE ContinuousDone
  <2>1. "continuous" \in Consumers /\ "continuous" \in Takers
    BY <1>2 DEF ContinuousDone, Takers
  <2>2. Alone("continuous")
    BY <1>0, <1>2, <2>1, ThreadAlone DEF ContinuousDone
  <2>3. Releases("continuous", IndexOf(buf["continuous"]))
    BY <1>0, <1>2, <2>1, <2>2 DEF ContinuousDone, Releases, Owes, HoldsIt, Pointing
  <2>4. QED
    BY <1>0, <2>1, <2>3 DEF Kind
<1>3. ASSUME NEW t \in {"picture", "smart"}, t \in Consumers, pc[t] = "got", AfterPicture(t),
             Alone(t), UNCHANGED <<refCnt, drv, lost, prevQ, picQ>>
      PROVE  Kind
  <2>1. Drops(t) \/ Marks(t)
    BY <1>0, <1>3 DEF AfterPicture, Drops, Marks
  <2>2. t \in Takers
    BY DEF Takers
  <2>3. QED
    BY <2>1, <2>2 DEF Kind
<1>4. CASE PictureTaken
  <2>1. Alone("picture")
    BY <1>0, <1>4, ThreadAlone DEF PictureTaken, AfterPicture
  <2>2. QED
    BY <1>3, <1>4, <2>1 DEF PictureTaken
<1>5. CASE SmartTaken
  <2>1. Alone("smart")
    BY <1>0, <1>5, ThreadAlone DEF SmartTaken, AfterPicture
  <2>2. QED
    BY <1>3, <1>5, <2>1 DEF SmartTaken
<1>6. QED
  BY <1>1, <1>2, <1>4, <1>5
\* The HW encoder's counts and program points stay unused.
LEMMA EncoderStep ==
  ASSUME ~HwEncoder, IInv, EncoderInv, [Next]_vars
  PROVE  EncoderInv'
<1> USE DEF hwVars, frmVars, picVars, qVars, capVars, thrVars, Goto, Return
<1>0. pc \in [Consumers -> {"idle", "deq", "gap", "wait", "got", "use", "inc", "shown", "rel"}]
  BY DEF IInv, TypeOK, TypeThreads
<1>1. ASSUME enc' = enc, "preview" \in Consumers => pc'["preview"] \notin {"inc", "shown"}
      PROVE  EncoderInv'
  BY <1>1 DEF EncoderInv
<1>2. CASE captureThread
  <2>1. CASE \E i \in Bufs : CaptureFrame(i)
    BY <1>0, <1>1, <2>1
       DEF EncoderInv, CaptureFrame, CaptureNormal, CapturePreviewFull, CapturePreview, CapturePicture, Signal
  <2>2. CASE CaptureTop \/ v4l2WaitCameraReady \/ CaptureSkip \/ CaptureDecRef
    BY <1>1, <2>2 DEF EncoderInv, CaptureTop, v4l2WaitCameraReady, CaptureSkip, CaptureDecRef
  <2>3. QED
    BY <1>2, <2>1, <2>2 DEF captureThread
<1>3. CASE ControlStep
  BY <1>1, <1>3 DEF EncoderInv, ControlStep, startDeliveringFrames, StopDeviceWait, StopDeviceUnmap,
                    StopDeviceZero, startContinuousPicture, startSmartPicture
<1>4. CASE Request
  BY <1>1, <1>4 DEF EncoderInv, Request, connectDevice, disconnectDevice, startDevice, startDeviceFails,
                    stopDeliveringFrames, cancelPicture, setTakePictureState
<1>5. CASE Spurious
  BY <1>0, <1>1, <1>5 DEF EncoderInv, Spurious
<1>6. CASE \E t \in Queued : ConsumerStep(t)
  BY <1>0, <1>1, <1>6 DEF EncoderInv, Queued, ConsumerStep, Dequeue, Sleep, LockFrame, ReleasePicture
<1>7. CASE PreviewDone \/ PictureTaken \/ SmartTaken \/ ContinuousDone \/ getCurrentFaceFrame
  BY <1>0, <1>1, <1>7 DEF EncoderInv, PreviewDone, PictureTaken, SmartTaken, ContinuousDone,
                          getCurrentFaceFrame, AfterPicture
<1>8. CASE UNCHANGED vars
  BY <1>1, <1>8 DEF EncoderInv, vars
<1>9. ~EncodeRead /\ ~EncodeWrite
  BY DEF EncodeRead, EncodeWrite, EncoderInv
<1>10. \A i \in Bufs : ~releaseRecordingFrame(i)
  BY DEF releaseRecordingFrame, EncoderInv
<1>11. QED
  BY <1>2, <1>3, <1>4, <1>5, <1>6, <1>7, <1>8, <1>9, <1>10 DEF Next

\* Without the HW encoder every step is of one kind.
LEMMA EveryKind ==
  ASSUME ~HwEncoder, IInv, EncoderInv, [Next]_vars
  PROVE  Kind
<1>1. CASE captureThread
  BY <1>1, CaptureKind DEF captureThread, Kind
<1>2. CASE ControlStep \/ Request
  BY <1>2, ControlKind DEF Kind
<1>3. CASE Spurious \/ getCurrentFaceFrame
  BY <1>3, SpuriousKind, FaceKind DEF Kind
<1>4. CASE \E t \in Queued : ConsumerStep(t)
  BY <1>4, ConsumerKind
<1>5. CASE PreviewDone \/ PictureTaken \/ SmartTaken \/ ContinuousDone
  BY <1>5, DoneKind
<1>6. CASE UNCHANGED vars
  <2> USE DEF vars, hwVars, frmVars, picVars, qVars, capVars, thrVars
  <2>1. \A u \in Takers : Stays(u)
    BY <1>6, StaysSame DEF IInv
  <2>2. Calm
    BY <1>6 DEF Calm, Streaming
  <2>3. QED
    BY <1>6, <2>1, <2>2 DEF Quiet, Kind
<1>7. ~EncodeRead /\ ~EncodeWrite
  BY DEF EncodeRead, EncodeWrite, EncoderInv
<1>8. \A i \in Bufs : ~releaseRecordingFrame(i)
  BY DEF releaseRecordingFrame, EncoderInv
<1>9. QED
  BY <1>1, <1>2, <1>3, <1>4, <1>5, <1>6, <1>7, <1>8 DEF Next

\* The inductive invariant of the frames' references.
HoldInv == IInv /\ EncoderInv /\ OwedInv /\ FirstInv

\* It holds initially: nobody has a frame.
LEMMA InitHold == Init => HoldInv
<1> SUFFICES ASSUME Init PROVE HoldInv
  OBVIOUS
<1>1. IInv
  BY InitIInv
<1>2. EncoderInv
  BY DEF Init, EncoderInv
<1>3. ~Streaming /\ starts = 0 /\ ~isPicCopy /\ capPc # "decref" /\ \A i \in Bufs : refCnt[i] = 0
  BY DEF Init, Streaming
<1>4. Empty
  BY DEF Init, Empty, Holding, Pointing
<1>5. QED
  BY <1>1, <1>2, <1>3, <1>4 DEF HoldInv, OwedInv, FirstInv

\* Every kind of step keeps it.
LEMMA HoldStep ==
  ASSUME ~HwEncoder, HoldInv, [Next]_vars
  PROVE  HoldInv'
<1>0. IInv /\ EncoderInv /\ OwedInv /\ FirstInv
  BY DEF HoldInv
<1>1. IInv' /\ TypeOK'
  BY <1>0, IInvStep DEF IInv
<1>2. EncoderInv'
  BY <1>0, EncoderStep
<1>3. Kind
  BY <1>0, EveryKind
<1>4. ASSUME Quiet PROVE OwedInv' /\ FirstInv'
  BY <1>0, <1>1, <1>4, QuietFrames, QuietFirst
<1>5. ASSUME Session PROVE OwedInv' /\ FirstInv'
  BY <1>0, <1>1, <1>5, SessionFrames
<1>6. ASSUME CaptureDecRef PROVE OwedInv' /\ FirstInv'
  BY <1>0, <1>1, <1>6, DecRefFrames, DecRefFirst
<1>7. ASSUME NEW i \in Bufs, CaptureFrame(i) PROVE OwedInv' /\ FirstInv'
  BY <1>0, <1>1, <1>7, CaptureFrames, CaptureFirst
<1>8. ASSUME NEW t \in Takers, Drops(t) \/ Marks(t) PROVE OwedInv' /\ FirstInv'
  BY <1>0, <1>1, <1>8, DropsFrames, DropsFirst, MarksFirst
<1>9. ASSUME NEW t \in Takers, Takes(t) PROVE OwedInv' /\ FirstInv'
  BY <1>0, <1>1, <1>9, TakesFrames, TakesFirst
<1>10. ASSUME NEW t \in Takers, NEW j \in Bufs, Releases(t, j) PROVE OwedInv' /\ FirstInv'
  BY <1>0, <1>1, <1>10, ReleasesFrames, ReleasesFirst
<1>11. OwedInv' /\ FirstInv'
  BY <1>3, <1>4, <1>5, <1>6, <1>7, <1>8, <1>9, <1>10 DEF Kind
<1>12. QED
  BY <1>1, <1>2, <1>11 DEF HoldInv
-----------------------------------------------------------------------------
(* From what is owed to the references that the properties count.          *)

\* A set of the four threads has as many members as threads are in it.
LEMMA FourCount ==
  ASSUME NEW S, S \subseteq Takers
  PROVE  /\ IsFiniteSet(S)
         /\ Cardinality(S) = One("preview" \in S) + One("picture" \in S) + One("smart" \in S)
                               + One("continuous" \in S)
<1> DEFINE A == S \cap {"preview"}
           B == S \cap {"preview", "picture"}
           C == S \cap {"preview", "picture", "smart"}
<1>1. IsFiniteSet(A) /\ Cardinality(A) = One("preview" \in S)
  <2>1. CASE "preview" \in S
    <3>1. A = {"preview"}
      BY <2>1
    <3>2. QED
      BY <2>1, <3>1, FS_Singleton DEF One
  <2>2. CASE "preview" \notin S
    <3>1. A = {}
      BY <2>2
    <3>2. QED
      BY <2>2, <3>1, FS_EmptySet DEF One
  <2>3. QED
    BY <2>1, <2>2
<1>2. IsFiniteSet(B) /\ Cardinality(B) = Cardinality(A) + One("picture" \in S)
  <2>0. "picture" \notin A /\ Cardinality(A) \in Nat
    BY <1>1, FS_CardinalityType
  <2>1. CASE "picture" \in S
    <3>1. B = A \cup {"picture"}
      BY <2>1
    <3> HIDE DEF A, B
    <3>2. QED
      BY <1>1, <2>0, <2>1, <3>1, FS_AddElement DEF One
  <2>2. CASE "picture" \notin S
    <3>1. B = A
      BY <2>2
    <3> HIDE DEF A, B
    <3>2. QED
      BY <1>1, <2>0, <2>2, <3>1 DEF One
  <2>3. QED
    BY <2>1, <2>2
<1>3. IsFiniteSet(C) /\ Cardinality(C) = Cardinality(B) + One("smart" \in S)
  <2>0. "smart" \notin B /\ Cardinality(B) \in Nat
    BY <1>2, FS_CardinalityType
  <2>1. CASE "smart" \in S
    <3>1. C = B \cup {"smart"}
      BY <2>1
    <3>2. QED
      BY <1>2, <2>0, <2>1, <3>1, FS_AddElement DEF One
  <2>2. CASE "smart" \notin S
    <3>1. C = B
      BY <2>2
    <3>2. QED
      BY <1>2, <2>0, <2>2, <3>1 DEF One
  <2>3. QED
    BY <2>1, <2>2
<1>4. IsFiniteSet(S) /\ Cardinality(S) = Cardinality(C) + One("continuous" \in S)
  <2>0. "continuous" \notin C /\ Cardinality(C) \in Nat
    BY <1>3, FS_CardinalityType
  <2>1. CASE "continuous" \in S
    <3>1. S = C \cup {"continuous"}
      BY <2>1 DEF Takers
    <3>2. QED
      BY <1>3, <2>0, <2>1, <3>1, FS_AddElement DEF One
  <2>2. CASE "continuous" \notin S
    <3>1. S = C
      BY <2>2 DEF Takers
    <3>2. QED
      BY <1>3, <2>0, <2>2, <3>1 DEF One
  <2>3. QED
    BY <2>1, <2>2
<1> HIDE DEF A, B, C
<1>5. QED
  BY <1>1, <1>2, <1>3, <1>4 DEF One

\* Holders has exactly the threads that hold a frame.
LEMMA HoldersCount ==
  ASSUME TypeOK, NEW i
  PROVE  /\ IsFiniteSet(Holders(i)) /\ Holders(i) \subseteq Takers
         /\ \A t \in Takers : t \in Holders(i) <=> HoldsIt(t, i)
         /\ Cardinality(Holders(i)) =
              One(HoldsIt("preview", i)) + One(HoldsIt("picture", i)) + One(HoldsIt("smart", i))
                + One(HoldsIt("continuous", i))
<1>1. Holders(i) \subseteq Takers
  BY DeviceAssumption DEF Holders, Takers, AllConsumers
<1>2. \A t \in Takers : t \in Holders(i) <=> HoldsIt(t, i)
  BY DEF Holders, HoldsIt, Pointing, Takers
<1>3. \A t \in Takers : One(t \in Holders(i)) = One(HoldsIt(t, i))
  BY <1>2 DEF One
<1>4. /\ IsFiniteSet(Holders(i))
      /\ Cardinality(Holders(i)) =
           One("preview" \in Holders(i)) + One("picture" \in Holders(i)) + One("smart" \in Holders(i))
             + One("continuous" \in Holders(i))
  BY <1>1, FourCount
<1> HIDE DEF One, HoldsIt
<1>5. QED
  BY <1>1, <1>2, <1>3, <1>4 DEF Takers

\* What is owed is referenced.
LEMMA OwedReferenced ==
  ASSUME TypeOK, EncoderInv, NEW i \in Bufs
  PROVE  Owed(i) <= References(i) /\ References(i) \in Nat
<1>1. Occurrences(prevQ, i) \in Nat /\ Occurrences(picQ, i) \in Nat
  BY OwedType
<1>2. Queues(i) \in Nat /\ Queues(i) <= Occurrences(prevQ, i) + Occurrences(picQ, i)
  BY <1>1 DEF Queues
<1>3. \A t : /\ Due(t, i) \in 0 .. 1 /\ One(HoldsIt(t, i)) \in 0 .. 1
             /\ Due(t, i) <= One(HoldsIt(t, i))
  BY DEF Due, One, Owes
<1>4. Thread(i) \in 0 .. 1 /\ Thread(i) = IF capPc = "decref" /\ capIdx = i THEN 1 ELSE 0
  BY DEF Thread, One
<1>5. References(i) = Thread(i) + Occurrences(prevQ, i) + Occurrences(picQ, i) + Cardinality(Holders(i))
  <2>1. Cardinality(Holders(i)) \in Nat
    BY HoldersCount, FS_CardinalityType
  <2>2. QED
    BY <1>1, <1>4, <2>1 DEF References, EncoderInv
<1>6. Cardinality(Holders(i)) =
        One(HoldsIt("preview", i)) + One(HoldsIt("picture", i)) + One(HoldsIt("smart", i))
          + One(HoldsIt("continuous", i))
  BY HoldersCount
<1> HIDE DEF One, Due, Thread, Queues
<1>7. QED
  BY <1>1, <1>2, <1>3, <1>4, <1>5, <1>6 DEF Owed

\* Without the HW encoder only a VIDIOC_QBUF that fails loses a frame: in every
\* session of a device that is started and stopped any number of times, with
\* entries of earlier sessions still queued, any other buffer outside the driver
\* is counted and its count never exceeds the releases to come.
THEOREM FrameKept ==
  ASSUME ~HwEncoder
  PROVE  Spec => []NoFrameLost
<1>1. HoldInv /\ [Next]_vars => HoldInv'
  BY HoldStep
<1>2. HoldInv => NoFrameLost
  <2> SUFFICES ASSUME HoldInv, Streaming, NEW i \in 0 .. mBufferCnt - 1, ~Home(i)
               PROVE  refCnt[i] >= 1 /\ refCnt[i] <= References(i)
    BY DEF NoFrameLost, Home
  <2>1. i \in Bufs /\ refCnt[i] \in Nat /\ refCnt[i] >= 1 /\ refCnt[i] <= Owed(i)
    BY OutsideDriver DEF HoldInv
  <2>2. Owed(i) \in Nat /\ Owed(i) <= References(i) /\ References(i) \in Nat
    BY <2>1, OwedType, OwedReferenced DEF HoldInv, IInv
  <2>3. QED
    BY <2>1, <2>2
<1>3. QED
  BY InitHold, <1>1, <1>2, PTL DEF Spec

\* Without the HW encoder, through the first session no frame that is queued for
\* or used by a consumer is in the driver's hands.  The next session breaks it:
\* stopDevice leaves the queues as they are.
THEOREM HeldSafe ==
  ASSUME ~HwEncoder
  PROVE  Spec => [](starts <= 1 => HeldFramesOutOfDriver)
<1>1. HoldInv /\ [Next]_vars => HoldInv'
  BY HoldStep
<1>2. HoldInv => (starts <= 1 => HeldFramesOutOfDriver)
  <2> SUFFICES ASSUME HoldInv, starts <= 1, Streaming, NEW i \in drv
               PROVE  Occurrences(prevQ, i) + Occurrences(picQ, i) + Cardinality(Holders(i)) = 0
    BY DEF HeldFramesOutOfDriver
  <2>1. /\ IInv /\ TypeOK /\ FirstInv /\ i \in Bufs /\ refCnt[i] = 0
        /\ prevQ \in Seq(Bufs) /\ picQ \in Seq(Entries) /\ starts \in Nat
    BY DeviceAssumption
       DEF HoldInv, IInv, TypeOK, TypeFrames, TypeQueues, TypeControl, CountedOutsideDriver
  <2>2. starts = 1
    BY <2>1 DEF FirstInv
  <2>3. Occurrences(prevQ, i) = 0 /\ Occurrences(picQ, i) = 0 /\ \A t \in Takers : ~HoldsIt(t, i)
    <3>1. CASE isPicCopy
      <4>1. OnlyCopy /\ i # PicBuffer
        BY <2>1, <2>2, <3>1, DeviceAssumption DEF FirstInv, Bufs, PicBuffer
      <4>2. (\A k \in DOMAIN prevQ : prevQ[k] # i) /\ (\A k \in DOMAIN picQ : picQ[k] # i)
        BY <4>1 DEF OnlyCopy
      <4>3. \A t \in Takers : ~HoldsIt(t, i)
        BY <4>1 DEF OnlyCopy, HoldsIt, Holding
      <4>4. QED
        BY <2>1, <4>2, <4>3, OccType
    <3>2. CASE ~isPicCopy
      <4>1. Owed(i) = 0
        BY <2>1, <2>2, <3>2 DEF FirstInv, Counted
      <4>2. /\ Thread(i) \in 0 .. 1 /\ Queues(i) \in Nat /\ \A t \in Takers : Due(t, i) \in 0 .. 1
            /\ Occurrences(prevQ, i) \in Nat /\ Occurrences(picQ, i) \in Nat
        BY <2>1, OwedType
      <4>3. Queues(i) = 0
        <5> HIDE DEF Due, Thread, Queues
        <5>1. QED
          BY <4>1, <4>2 DEF Owed, Takers
      <4>4. \A t \in Takers : ~Owes(t, i)
        <5>1. \A t \in Takers : Owes(t, i) => Owed(i) >= 1
          BY <2>1, OwedType
        <5>2. QED
          BY <4>1, <5>1
      <4>5. QED
        BY <3>2, <4>2, <4>3, <4>4 DEF Queues, Owes
    <3>3. QED
      BY <3>1, <3>2
  <2>4. Holders(i) = {}
    BY <2>1, <2>3, HoldersCount
  <2>5. QED
    BY <2>3, <2>4, FS_EmptySet
<1>3. QED
  BY InitHold, <1>1, <1>2, PTL DEF Spec
=============================================================================
