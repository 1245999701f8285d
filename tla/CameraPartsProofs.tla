-------------------------- MODULE CameraPartsProofs --------------------------
(***************************************************************************)
(* Proofs about the smaller parts of the camera HAL, for every value of    *)
(* the bounds.  The parts share no variable: a step of one leaves the      *)
(* others as they are, so each invariant is shown for the steps of its own *)
(* part.                                                                   *)
(***************************************************************************)
EXTENDS MCHalParts, FiniteSetTheorems, SequenceTheorems, TLAPS

\* A step of the composition is, for each part, a step of the part or none.
LEMMA OwnSteps ==
  [Next]_vars => /\ [FNext]_fVars /\ [SNext]_sVars /\ [NNext]_nVars /\ [WNext]_wVars
                 /\ [GNext]_gVars /\ [PNext]_pVars
BY DEF Next, vars

-----------------------------------------------------------------------------
(* The focus thread. *)

\* mAutoFocusThreadExit is set only while the thread is outside its round, and
\* cleanupCamera sleeps only when the thread is about to leave or has left, or
\* when its wait ended by itself.
FocusInv ==
  /\ fExit => fPc \in {"top", "exit", "gone"}
  /\ fPc = "gone" => fExit
  /\ fApi = "waiting" => ~fExit
  /\ ~fConn => fApi = "idle" /\ (fWoke \/ fPc = "gone")
  /\ fConn /\ fApi = "idle" => fStatus = "RUNNING"
  /\ fApi # "idle" => fStatus = "EXIT"
  /\ fApi = "sleep" => fWoke \/ fPc \in {"top", "exit", "gone"}
  /\ fWoke => fApi = "sleep" \/ ~fConn
  /\ fWoke \in BOOLEAN

\* Every step of the focus part keeps it.
LEMMA FocusStep == FocusInv /\ [FNext]_fVars => FocusInv'
<1> SUFFICES ASSUME FocusInv, [FNext]_fVars PROVE FocusInv'
  OBVIOUS
<1> USE DEF FocusInv
<1>1. CASE FocusTop
  BY <1>1 DEF FocusTop
<1>2. CASE FocusMode
  BY <1>2 DEF FocusMode
<1>3. CASE FocusPoll
  BY <1>3 DEF FocusPoll
<1>4. CASE FocusAnswer
  BY <1>4 DEF FocusAnswer
<1>5. CASE FocusContinuous
  BY <1>5 DEF FocusContinuous
<1>6. CASE FocusExit
  BY <1>6 DEF FocusExit
<1>7. CASE FocusConnect
  BY <1>7 DEF FocusConnect
<1>8. CASE setAutoFocus
  BY <1>8 DEF setAutoFocus
<1>9. CASE FocusStop
  BY <1>9 DEF FocusStop
<1>10. CASE FocusWait
  BY <1>10 DEF FocusWait
<1>11. CASE FocusDisconnect
  BY <1>11 DEF FocusDisconnect
<1>12. CASE FocusSpurious
  BY <1>12 DEF FocusSpurious
<1>13. CASE UNCHANGED fVars
  BY <1>13 DEF fVars
<1>14. QED
  BY <1>1, <1>2, <1>3, <1>4, <1>5, <1>6, <1>7, <1>8, <1>9, <1>10, <1>11, <1>12, <1>13 DEF FNext

\* Unless cleanupCamera's wait ended without a signal, the focus thread never asks
\* a driver whose device is closed, however the close falls into its round:
\* cleanupCamera waits for the exit flag and sleeps longer than the thread's pause.
\* And its wait always has a thread that is still to signal.
THEOREM FocusSafe == Spec => []FocusDeviceOpen
<1>1. Init => FocusInv
  BY DEF Init, FInit, FocusInv
<1>2. FocusInv /\ [Next]_vars => FocusInv'
  BY FocusStep, OwnSteps
<1>3. FocusInv => FocusDeviceOpen
  BY DEF FocusInv, FocusDeviceOpen
<1>4. QED
  BY <1>1, <1>2, <1>3, PTL DEF Spec

-----------------------------------------------------------------------------
(* Smart pictures. *)

\* A result that is ready was stored by the detector that is enabled, for the
\* picture that was asked for; a detector runs only while it is enabled, and is
\* enabled only for a picture that is waited for.
SmartInv ==
  /\ sState \in [Kinds -> {"INITIALIZED", "IDLE", "STARTED", "PREPARED", "STOPPED"}]
  /\ \A k \in Kinds : sState[k] = "PREPARED" => (k \in sOwn /\ sEnable = k) \/ k \in sLate
  /\ \A k \in sRuns : k \in Kinds /\ sEnable = k
  /\ sEnable # "none" => sEnable = sReq
  /\ sReq \in Kinds \cup {"none"}
  /\ sPic = "idle" /\ sReq # "none" => sEnable = sReq
  /\ sPic = "stop" => sEnable # "smile"
  /\ sPic \in Kinds => sPic \in sOwn \/ sPic \in sLate
  /\ sLate \subseteq Kinds
  /\ sPic # "idle" => sPic \in Kinds \cup {"stop"} /\ sReq # "none"

\* Every step of the part keeps it.
LEMMA SmartStep == SmartInv /\ [SNext]_sVars => SmartInv'
<1> SUFFICES ASSUME SmartInv, [SNext]_sVars PROVE SmartInv'
  OBVIOUS
<1> USE DEF SmartInv, Kinds
<1>1. CASE StartFace
  BY <1>1 DEF StartFace
<1>2. CASE StopFace
  BY <1>2 DEF StopFace
<1>3. CASE CancelSmart
  BY <1>3 DEF CancelSmart, StopDetector
<1>4. CASE DetectTop
  BY <1>4 DEF DetectTop
<1>5. CASE DetectSleep
  BY <1>5 DEF DetectSleep
<1>6. CASE DetectStart("smile", "blink")
  BY <1>6 DEF DetectStart
<1>7. CASE DetectStart("blink", "top")
  BY <1>7 DEF DetectStart
<1>8. ASSUME NEW faces \in BOOLEAN, faceDetection(faces) PROVE SmartInv'
  BY <1>8 DEF faceDetection
<1>9. ASSUME NEW k \in Kinds, RequestSmart(k) PROVE SmartInv'
  BY <1>9 DEF RequestSmart
<1>10. ASSUME NEW k \in Kinds, SmartFrame(k) PROVE SmartInv'
  BY <1>10 DEF SmartFrame
<1>11. ASSUME NEW k \in Kinds, NEW found \in BOOLEAN, DetectResult(k, found) PROVE SmartInv'
  BY <1>11 DEF DetectResult
<1>12. CASE SmartStop
  BY <1>12 DEF SmartStop, StopDetector
<1>13. CASE SmartDone
  BY <1>13 DEF SmartDone, StopDetector
<1>14. CASE UNCHANGED sVars
  BY <1>14 DEF sVars
<1>15. QED
  BY <1>1, <1>2, <1>3, <1>4, <1>5, <1>6, <1>7, <1>8, <1>9, <1>10, <1>11, <1>12, <1>13, <1>14 DEF SNext

\* A smart picture is taken on the result of an earlier request only if that
\* result came when its detector was stopped already, in any interleaving of the
\* two detectors' callbacks, the detection thread, the frames and cancelPicture:
\* a detector that is stopped loses the result it has with the stop.
THEOREM SmartSafe == Spec => []SmartOnOwnResult
<1>1. Init => SmartInv
  BY DEF Init, SInit, SmartInv, Kinds
<1>2. SmartInv /\ [Next]_vars => SmartInv'
  BY SmartStep, OwnSteps
<1>3. SmartInv => SmartOnOwnResult
  BY DEF SmartInv, SmartOnOwnResult
<1>4. QED
  BY <1>1, <1>2, <1>3, PTL DEF Spec

-----------------------------------------------------------------------------
(* The save thread. *)

\* cleanupCBNotifier destroys the list only after mSaveThreadExited, which the
\* thread sets on its way out and which is cleared only for a new thread.  Once
\* the status is EXIT and the list empty, the thread goes to its wait only if it
\* had made its test before, and it is gone only with mSaveThreadExited set.
SaveInv ==
  /\ nExited => nPc \in {"signal", "gone"}
  /\ nPc \in {"signal", "gone"} /\ nApi # "off" => nExited
  /\ nApi \in {"destroy", "off"} /\ ~nWoke => nPc \in {"signal", "gone"}
  /\ nApi \in {"check", "waiting"} => nStatus = "EXIT" /\ nList = <<>>
  /\ nApi \in {"check", "waiting"} /\ ~nMissed => nPc \notin {"doze", "waiting"}
  /\ nApi = "waiting" => nPc # "gone"

\* Every step of the part keeps it.
LEMMA SaveStep == SaveInv /\ [NNext]_nVars => SaveInv'
<1> SUFFICES ASSUME SaveInv, [NNext]_nVars PROVE SaveInv'
  OBVIOUS
<1> USE DEF SaveInv
<1>1. CASE setCallbacks
  BY <1>1 DEF setCallbacks
<1>2. CASE setPictureMode
  BY <1>2 DEF setPictureMode
<1>3. CASE TakeSingle
  BY <1>3 DEF TakeSingle, SaveSignalled
<1>4. CASE TakeContinuous
  BY <1>4 DEF TakeContinuous, SaveSignalled
<1>5. CASE TakeFailed
  BY <1>5 DEF TakeFailed
<1>6. CASE setFd
  BY <1>6 DEF setFd, FdSignalled
<1>7. CASE RefuseFd
  BY <1>7 DEF RefuseFd
<1>8. CASE CleanupStop
  BY <1>8 DEF CleanupStop, FdSignalled
<1>9. CASE CleanupCheck
  BY <1>9 DEF CleanupCheck
<1>10. CASE CleanupDestroy
  BY <1>10 DEF CleanupDestroy
<1>11. CASE SaveTop
  BY <1>11 DEF SaveTop, Leave
<1>12. CASE SaveSleep
  BY <1>12 DEF SaveSleep
<1>13. CASE SavePop
  BY <1>13 DEF SavePop
<1>14. CASE SaveWaitFd
  BY <1>14 DEF SaveWaitFd
<1>15. CASE SaveTimeout
  BY <1>15 DEF SaveTimeout, Leave
<1>16. CASE SaveWrite
  BY <1>16 DEF SaveWrite
<1>17. CASE SaveRelease
  BY <1>17 DEF SaveRelease
<1>18. CASE SaveExit
  BY <1>18 DEF SaveExit
<1>19. CASE CleanupSpurious
  BY <1>19 DEF CleanupSpurious
<1>20. CASE SaveSpurious
  BY <1>20 DEF SaveSpurious
<1>21. CASE UNCHANGED nVars
  BY <1>21 DEF nVars
<1>22. QED
  BY <1>1, <1>2, <1>3, <1>4, <1>5, <1>6, <1>7, <1>8, <1>9, <1>10, <1>11, <1>12, <1>13, <1>14,
     <1>15, <1>16, <1>17, <1>18, <1>19, <1>20, <1>21 DEF NNext

\* When cleanupCBNotifier has returned, the save thread is past its last use of
\* the picture list, whether it left at its test or after a wait for a file that
\* never came; and a cleanup that waits has a thread that will signal it.  The
\* wait that ends without a signal and the signal that comes before the thread's
\* wait are the only exceptions.
THEOREM SaveGone == Spec => []SaveThreadGone
<1>1. Init => SaveInv
  BY DEF Init, NInit, SaveInv
<1>2. SaveInv /\ [Next]_vars => SaveInv'
  BY SaveStep, OwnSteps
<1>3. SaveInv => SaveThreadGone
  BY DEF SaveInv, SaveThreadGone
<1>4. QED
  BY <1>1, <1>2, <1>3, PTL DEF Spec

-----------------------------------------------------------------------------
(* The preview window. *)

\* The cached dimensions are those of the window's buffers, unless the next frame
\* sets the geometry anyway or the window has refused one.
WindowInv ==
  /\ wShown # "none" => wShown = wGeometry \/ wRefused
  /\ wAdjust \/ wCached = wGeometry \/ wRefused

\* Every step of the part keeps it.
LEMMA WindowStep == WindowInv /\ [WNext]_wVars => WindowInv'
<1> SUFFICES ASSUME WindowInv, [WNext]_wVars PROVE WindowInv'
  OBVIOUS
<1> USE DEF WindowInv
<1>1. CASE startWindow
  BY <1>1 DEF startWindow
<1>2. CASE stopWindow
  BY <1>2 DEF stopWindow
<1>3. ASSUME NEW ok \in BOOLEAN, setPreviewWindow(ok) PROVE WindowInv'
  BY <1>3 DEF setPreviewWindow
<1>4. ASSUME NEW f \in FrameKinds, GeometryRefused(f) PROVE WindowInv'
  BY <1>4 DEF GeometryRefused
<1>5. ASSUME NEW f \in FrameKinds, NEW b \in BOOLEAN, CountRefused(f, b) PROVE WindowInv'
  BY <1>5 DEF CountRefused
<1>6. ASSUME NEW f \in FrameKinds, NEW b \in BOOLEAN, ShowFrame(f, b) PROVE WindowInv'
  BY <1>6 DEF ShowFrame, NeedsGeometry
<1>7. CASE UNCHANGED wVars
  BY <1>7 DEF wVars
<1>8. QED
  BY <1>1, <1>2, <1>3, <1>4, <1>5, <1>6, <1>7 DEF WNext

\* Every displayed frame fits the buffers of its window, for any set of frame
\* formats and any sequence of windows, stops and refusals but a refused geometry.
THEOREM WindowSafe == Spec => []GeometryFits
<1>1. Init => WindowInv
  BY DEF Init, WInit, WindowInv
<1>2. WindowInv /\ [Next]_vars => WindowInv'
  BY WindowStep, OwnSteps
<1>3. WindowInv => GeometryFits
  BY DEF WindowInv, GeometryFits
<1>4. QED
  BY <1>1, <1>2, <1>3, PTL DEF Spec

-----------------------------------------------------------------------------
(* The camera factory. *)

\* An open camera is the listed one, and two listed cameras are different; the
\* entries a scan did not write are not listed.
FactoryInv ==
  /\ gConfig \in Configs
  /\ gPlugged \in SUBSET {0, 1}
  /\ gInfo = [i \in Ids |-> gInfo[i]]
  /\ gOpen = [i \in Ids |-> gOpen[i]]
  /\ Cardinality(gListed) \in Nat
  /\ TooMany => gListed = DOMAIN gConfig
  /\ \A i \in Ids : gOpen[i] # None => gOpen[i] = gInfo[i] /\ i < Cardinality(gListed)
  /\ 1 < Cardinality(gListed) /\ gInfo[0] # None /\ gInfo[1] # None => gInfo[0] # gInfo[1]

\* Short tuples are sequences.
LEMMA ShortSeqs ==
  ASSUME NEW S, NEW a \in S, NEW b \in S, NEW c \in S
  PROVE  <<>> \in Seq(S) /\ <<a>> \in Seq(S) /\ <<a, b>> \in Seq(S) /\ <<a, b, c>> \in Seq(S)
OBVIOUS

\* How many device nodes are plugged.
LEMMA PluggedCount ==
  ASSUME NEW P \in SUBSET {0, 1}
  PROVE  /\ Cardinality(P) \in Nat
         /\ Cardinality(P) > 1 => P = {0, 1}
<1>1. CASE P = {}
  BY <1>1, FS_EmptySet
<1>2. CASE \E x \in {0, 1} : P = {x}
  BY <1>2, FS_Singleton
<1>3. CASE P = {0, 1}
  <2>1. IsFiniteSet({0}) /\ Cardinality({0}) = 1
    BY FS_Singleton
  <2>2. Cardinality({0} \cup {1}) = 2
    BY <2>1, FS_AddElement
  <2>3. {0} \cup {1} = P
    BY <1>3
  <2>4. QED
    BY <1>3, <2>2, <2>3
<1>4. QED
  BY <1>1, <1>2, <1>3

\* The number of cameras a scan finds.
LEMMA ScanCounts ==
  ASSUME gConfig \in Configs, gPlugged \in SUBSET {0, 1}
  PROVE  /\ ScanCount \in Nat
         /\ Cardinality(1 .. ScanCount) = ScanCount
<1>1. ScanCount \in Nat
  BY PluggedCount DEF ScanCount
<1>2. QED
  BY <1>1, FS_Interval

\* The cameras of one scan are different devices, or different inputs of one.
LEMMA ScanDiffers ==
  ASSUME gConfig \in Configs, gPlugged \in SUBSET {0, 1}, 1 < ScanCount
  PROVE  ScanEntry(0) # ScanEntry(1)
<1>1. CASE gConfig = <<Camera(0, 0), Camera(0, 1)>>
  BY <1>1 DEF ScanEntry, Camera
<1>2. ASSUME NEW n \in {0, 1}, gConfig = <<Camera(n, 0)>>
      PROVE  ScanEntry(0) # ScanEntry(1)
  <2>1. ScanEntry(0) = Camera(n, 0) /\ ScanEntry(1) = Camera(1 - n, 0)
    BY <1>2 DEF ScanEntry, Camera
  <2>2. QED
    BY <2>1, <1>2 DEF Camera
<1>3. CASE gConfig = <<>>
  <2>1. gPlugged = {0, 1}
    BY <1>3, PluggedCount DEF ScanCount
  <2>2. (CHOOSE n \in gPlugged : \A m \in gPlugged : n <= m) = 0
    BY <2>1
  <2>3. ScanEntry(0) = Camera(0, 0) /\ ScanEntry(1) = Camera(1, 1)
    <3>1. ~(0 < Len(gConfig)) /\ ~(1 < Len(gConfig)) /\ Len(gConfig) # 1 /\ 1 # 0
      BY <1>3
    <3>2. QED
      BY <2>2, <3>1, Zenon DEF ScanEntry
  <2>4. QED
    BY <2>3 DEF Camera
<1>4. CASE gConfig = <<Camera(0, 0), Camera(0, 1), Camera(1, 0)>>
  BY <1>4 DEF ScanCount, TooMany
<1>5. QED
  BY <1>1, <1>2, <1>3, <1>4 DEF Configs

\* Every step of the part keeps it.
LEMMA FactoryStep == FactoryInv /\ [GNext]_gVars => FactoryInv'
<1> SUFFICES ASSUME FactoryInv, [GNext]_gVars PROVE FactoryInv'
  OBVIOUS
<1> USE DEF FactoryInv, Ids
<1>0. CASE getCameraHardwareNum /\ TooMany
  <2>1. ScanCount = 0 /\ gListed' = gListed /\ UNCHANGED <<gConfig, gPlugged, gOpen>>
    BY <1>0 DEF getCameraHardwareNum, ScanCount
  <2>2. gInfo' = gInfo
    BY <1>0, <2>1 DEF getCameraHardwareNum
  <2>3. QED
    BY <2>1, <2>2 DEF TooMany
<1>1. CASE getCameraHardwareNum /\ ~TooMany
  <2>1. /\ ScanCount \in Nat /\ Cardinality(1 .. ScanCount) = ScanCount
        /\ 1 < ScanCount => ScanEntry(0) # ScanEntry(1)
    BY ScanCounts, ScanDiffers
  <2>2. Cardinality(gListed') = ScanCount
    BY <1>1, <2>1, Zenon DEF getCameraHardwareNum
  <2>3. \A i \in Ids : gOpen'[i] = None
    BY <1>1, Zenon DEF getCameraHardwareNum
  <2>4. gInfo' = [i \in Ids |-> gInfo'[i]]
    BY <1>1, Zenon DEF getCameraHardwareNum
  <2>5. 1 < ScanCount => gInfo'[0] = ScanEntry(0) /\ gInfo'[1] = ScanEntry(1)
    BY <1>1, <2>1 DEF getCameraHardwareNum
  <2>6. UNCHANGED <<gConfig, gPlugged, gOpen>>
    BY <1>1 DEF getCameraHardwareNum
  <2>7. QED
    BY <1>1, <2>1, <2>2, <2>3, <2>4, <2>5, <2>6 DEF TooMany
<1>2. ASSUME NEW node \in {0, 1}, PlugCamera(node) PROVE FactoryInv'
  BY <1>2 DEF PlugCamera, TooMany
<1>3. ASSUME NEW i \in Ids, CloseFactory(i) PROVE FactoryInv'
  BY <1>3 DEF CloseFactory, TooMany
<1>4. ASSUME NEW i \in Ids, NEW ok \in BOOLEAN, cameraDeviceOpen(i, ok) PROVE FactoryInv'
  BY <1>4 DEF cameraDeviceOpen, TooMany
<1>5. CASE UNCHANGED gVars
  BY <1>5 DEF gVars, TooMany
<1>6. QED
  BY <1>0, <1>1, <1>2, <1>3, <1>4, <1>5 DEF GNext

\* Two cameras that are open at once are different devices or different inputs,
\* whatever was plugged and unplugged between the scans: an id is opened only
\* below the count of the last scan, so never with the entry an earlier one left.
THEOREM FactorySafe == Spec => []OpenCamerasDiffer
<1>1. Init => FactoryInv
  <2>1. ASSUME gConfig \in Configs PROVE Cardinality(DOMAIN gConfig) \in Nat
    <3> DEFINE S == {Camera(0, 0), Camera(0, 1), Camera(1, 0)}
    <3>1. gConfig \in Seq(S)
      <4>1. Camera(0, 0) \in S /\ Camera(0, 1) \in S /\ Camera(1, 0) \in S
        OBVIOUS
      <4> HIDE DEF S
      <4>2. QED
        BY <2>1, <4>1, ShortSeqs, Zenon DEF Configs
    <3> HIDE DEF S
    <3>2. Len(gConfig) \in Nat /\ DOMAIN gConfig = 1 .. Len(gConfig)
      BY <3>1
    <3>3. QED
      BY <3>2, FS_Interval
  <2>2. QED
    BY <2>1 DEF Init, GInit, FactoryInv, Ids, TooMany
<1>2. FactoryInv /\ [Next]_vars => FactoryInv'
  BY FactoryStep, OwnSteps
<1>3. FactoryInv => OpenCamerasDiffer
  BY DEF FactoryInv, OpenCamerasDiffer, Ids
<1>4. QED
  BY <1>1, <1>2, <1>3, PTL DEF Spec

-----------------------------------------------------------------------------
(* The image controls. *)

InSeq(q, c) == \E k \in DOMAIN q : q[k] = c
Queued == Controls \ {"zoom"}

\* The controls a first call of setParameters has passed at each point.
After(c) ==
  CASE c = "effect" -> {"expo", "flash", "zoom", "focus", "end"}
    [] c = "expo" -> {"flash", "zoom", "focus", "end"}
    [] c = "flash" -> {"zoom", "focus", "end"}
    [] c = "zoom" -> {"focus", "end"}
    [] c = "focus" -> {"end"}
Settled(c) == pPc # "closed" /\ (~pFirst \/ pPc \in After(c))
Excused(c) == c \in pLost \/ (c = "flash" /\ pCur[c] = "bad")

ControlsType ==
  /\ pCur \in [Controls -> Values] /\ pSlot \in [Controls -> Values]
  /\ pDev \in [Controls -> Values \cup {"unset"}]
  /\ pQueue \in Seq(Queued)
  /\ pCmd = <<>> \/ (\E c \in Queued : pCmd = <<c>>) \/ (\E c \in Queued, v \in Values : pCmd = <<c, v>>)
  /\ pFirst \in BOOLEAN /\ pPc \in Controls \cup {"idle", "closed", "end"}

\* A settled control is on its way to the driver, the value the command thread has
\* already read is the current one or another command follows, and the slot it will
\* read has the current value.
OnItsWay(c) ==
  /\ pDev[c] = pCur[c] \/ InSeq(pQueue, c) \/ (pCmd # <<>> /\ pCmd[1] = c) \/ Excused(c)
  /\ \A v \in Values : pCmd = <<c, v>> => v = pCur[c] \/ InSeq(pQueue, c) \/ Excused(c)
  /\ c \notin {"zoom", "focus"} => pSlot[c] = pCur[c] \/ Excused(c)

ControlsInv == ControlsType /\ \A c \in Controls : Settled(c) => OnItsWay(c)

\* Tuples of one and two elements.
LEMMA Pairs ==
  /\ Len(<<>>) = 0
  /\ \A c : Len(<<c>>) = 1
  /\ \A c, v : Len(<<c, v>>) = 2 /\ Append(<<c>>, v) = <<c, v>>
  /\ \A c, v, d, w : <<c, v>> = <<d, w>> => c = d /\ v = w
  /\ \A c, v, d : <<c, v>> # <<d>> /\ <<c, v>> # <<>>
<1>1. \A c : Len(<<c>>) = 1
  OBVIOUS
<1>2. \A c, v : Len(<<c, v>>) = 2
  OBVIOUS
<1>3. ASSUME NEW c, NEW v PROVE Append(<<c>>, v) = <<c, v>>
  <2> DEFINE S == {c, v}
             s == <<c>>
             t == <<c, v>>
  <2>1. s \in Seq(S) /\ v \in S /\ Len(s) = 1 /\ s[1] = c
    OBVIOUS
  <2>2. t \in Seq(S) /\ Len(t) = 2 /\ t[1] = c /\ t[2] = v
    OBVIOUS
  <2> HIDE DEF S, s, t
  <2>3. Append(s, v) \in Seq(S) /\ Len(Append(s, v)) = 2
    <3>1. Append(s, v) \in Seq(S) /\ Len(Append(s, v)) = Len(s) + 1
      BY <2>1, AppendProperties, Zenon
    <3>2. QED
      BY <2>1, <3>1
  <2>4. Append(s, v)[1] = c /\ Append(s, v)[2] = v
    BY <2>1, AppendProperties
  <2>5. \A i \in 1 .. Len(Append(s, v)) : Append(s, v)[i] = t[i]
    BY <2>2, <2>3, <2>4
  <2>6. Append(s, v) = t
    BY <2>2, <2>3, <2>5, SeqEqual
  <2>7. QED
    BY <2>6 DEF s, t
<1>4. QED
  BY <1>1, <1>2, <1>3

\* What a queue holds after an element was added.
LEMMA InAppend ==
  ASSUME NEW S, NEW q \in Seq(S), NEW e \in S
  PROVE  /\ Append(q, e) \in Seq(S)
         /\ InSeq(Append(q, e), e)
         /\ \A c : InSeq(q, c) => InSeq(Append(q, e), c)
BY DEF InSeq

\* What a queue holds besides its head.
LEMMA InTail ==
  ASSUME NEW S, NEW q \in Seq(S), q # <<>>
  PROVE  /\ Tail(q) \in Seq(S) /\ Head(q) \in S
         /\ \A c : InSeq(q, c) => c = Head(q) \/ InSeq(Tail(q), c)
<1>1. Tail(q) \in Seq(S) /\ Head(q) \in S
  OBVIOUS
<1>2. ASSUME NEW c, InSeq(q, c) PROVE c = Head(q) \/ InSeq(Tail(q), c)
  <2>1. PICK k \in DOMAIN q : q[k] = c
    BY <1>2 DEF InSeq
  <2>2. CASE k = 1
    BY <2>1, <2>2
  <2>3. CASE k # 1
    <3>1. k - 1 \in DOMAIN Tail(q) /\ Tail(q)[k - 1] = c
      BY <2>1, <2>3
    <3>2. QED
      BY <3>1 DEF InSeq
  <2>4. QED
    BY <2>2, <2>3
<1>3. QED
  BY <1>1, <1>2

\* Queueing control c: it is in the queue or lost, and the others are where they were.
LEMMA QueueControlOk ==
  ASSUME ControlsType, NEW c \in Queued, QueueControl(c)
  PROVE  /\ pQueue' \in Seq(Queued)
         /\ InSeq(pQueue', c) \/ c \in pLost'
         /\ \A d : InSeq(pQueue, d) => InSeq(pQueue', d)
         /\ \A d : d # c => (d \in pLost <=> d \in pLost')
<1>1. CASE Len(pQueue) < PQueueMax
  <2>1. pQueue' = Append(pQueue, c) /\ pLost' = pLost \ {c}
    BY <1>1 DEF QueueControl
  <2>2. QED
    BY <2>1, InAppend DEF ControlsType
<1>2. CASE ~(Len(pQueue) < PQueueMax)
  <2>1. pQueue' = pQueue /\ pLost' = pLost \cup {c}
    BY <1>2 DEF QueueControl
  <2>2. QED
    BY <2>1 DEF ControlsType
<1>3. QED
  BY <1>1, <1>2

\* Storing control c: what any step that stores and queues it leaves.
LEMMA StoreOk ==
  ASSUME ControlsInv, NEW c \in Queued \ {"focus"}, NEW v \in Values, Store(c, v), UNCHANGED <<pDev, pCmd>>,
         NEW d \in Controls, Settled(d) \/ d = c
  PROVE  OnItsWay(d)'
<1>0. /\ pCur' = [pCur EXCEPT ![c] = v] /\ pSlot' = [pSlot EXCEPT ![c] = v] /\ c \in Controls
      /\ pCur \in [Controls -> Values] /\ pSlot \in [Controls -> Values]
  BY DEF Store, ControlsInv, ControlsType, Queued
<1>1. /\ InSeq(pQueue', c) \/ c \in pLost'
      /\ \A e : InSeq(pQueue, e) => InSeq(pQueue', e)
      /\ \A e : e # c => (e \in pLost <=> e \in pLost')
  BY QueueControlOk DEF Store, ControlsInv
<1>2. CASE d = c
  BY <1>0, <1>1, <1>2 DEF OnItsWay, Excused
<1>3. CASE d # c
  <2>1. OnItsWay(d) /\ pCur'[d] = pCur[d] /\ pSlot'[d] = pSlot[d]
    BY <1>0, <1>3 DEF ControlsInv
  <2>2. QED
    BY <1>1, <1>3, <2>1 DEF OnItsWay, Excused
<1>4. QED
  BY <1>2, <1>3

\* Where a first call stands when it has passed a control.
LEMMA AfterPoints ==
  /\ \A d \in Controls : After(d) \subseteq {"expo", "flash", "zoom", "focus", "end"} /\ "end" \in After(d)
  /\ \A d \in Controls : "expo" \in After(d) => d = "effect"
  /\ \A d \in Controls : "flash" \in After(d) => d = "expo" \/ "expo" \in After(d)
  /\ \A d \in Controls : "zoom" \in After(d) => d = "flash" \/ "flash" \in After(d)
  /\ \A d \in Controls : "focus" \in After(d) => d = "zoom" \/ "zoom" \in After(d)
  /\ \A d \in Controls : d = "focus" \/ "focus" \in After(d)
BY DEF After, Controls

\* A control keeps its way when nothing about it changes.
LEMMA WayKept ==
  ASSUME NEW d, OnItsWay(d), UNCHANGED <<pQueue, pCmd>>,
         pCur'[d] = pCur[d], pDev'[d] = pDev[d], pSlot'[d] = pSlot[d], d \in pLost => d \in pLost'
  PROVE  OnItsWay(d)'
BY DEF OnItsWay, Excused

\* Initialize, the end of a session and the first checks of a call.
LEMMA SessionStep ==
  ASSUME ControlsInv, OpenParameters \/ CloseParameters \/ SetBasics \/ SetEnd
  PROVE  ControlsInv'
<1> USE DEF ControlsInv
<1>1. CASE OpenParameters
  <2>1. ControlsType'
    BY <1>1 DEF OpenParameters, ControlsType, Values
  <2>2. \A d \in Controls : ~Settled(d)'
    BY <1>1, AfterPoints DEF OpenParameters, Settled
  <2>3. QED
    BY <2>1, <2>2
<1>2. CASE CloseParameters
  <2>1. ControlsType'
    BY <1>2 DEF CloseParameters, ControlsType
  <2>2. \A d \in Controls : ~Settled(d)'
    BY <1>2 DEF CloseParameters, Settled
  <2>3. QED
    BY <2>1, <2>2
<1>3. CASE SetBasics
  <2>1. ControlsType'
    BY <1>3 DEF SetBasics, ControlsType, Controls
  <2>2. \A d \in Controls : Settled(d)' => Settled(d)
    BY <1>3, AfterPoints DEF SetBasics, Settled
  <2>3. UNCHANGED <<pCur, pDev, pSlot, pQueue, pCmd, pLost>>
    BY <1>3 DEF SetBasics
  <2>4. QED
    BY <2>1, <2>2, <2>3, WayKept
<1>4. CASE SetEnd
  <2>1. ControlsType'
    BY <1>4 DEF SetEnd, ControlsType
  <2>2. \A d \in Controls : Settled(d)
    BY <1>4, AfterPoints DEF SetEnd, Settled
  <2>3. UNCHANGED <<pCur, pDev, pSlot, pQueue, pCmd, pLost>>
    BY <1>4 DEF SetEnd
  <2>4. QED
    BY <2>1, <2>2, <2>3, WayKept
<1>5. QED
  BY <1>1, <1>2, <1>3, <1>4

\* Storing keeps the type.
LEMMA StoreType ==
  ASSUME ControlsType, NEW c \in Queued, NEW v \in Values, Store(c, v), UNCHANGED <<pDev, pCmd, pFirst>>,
         pPc' \in Controls \cup {"idle", "closed", "end"}
  PROVE  ControlsType'
<1>1. pQueue' \in Seq(Queued)
  BY QueueControlOk DEF Store
<1>2. QED
  BY <1>1 DEF ControlsType, Store

\* setParameters at the colour effect.
LEMMA EffectStep ==
  ASSUME ControlsInv, NEW v \in Values, SetEffect(v)
  PROVE  ControlsInv'
<1> USE DEF ControlsInv
<1>1. /\ pPc = "effect" /\ pPc' = "expo" /\ UNCHANGED <<pDev, pFirst, pCmd>> /\ pFirst \in BOOLEAN
      /\ pPc' \in Controls
  BY DEF SetEffect, NextControl, ControlsType, Controls
<1>2. ASSUME NEW d \in Controls, Settled(d)' PROVE Settled(d) \/ d = "effect"
  BY <1>1, <1>2, AfterPoints DEF Settled
<1>3. CASE Store("effect", v)
  <2>1. "effect" \in Queued \ {"focus"}
    BY DEF Queued, Controls
  <2>2. QED
    BY <1>1, <1>2, <1>3, <2>1, StoreOk, StoreType
<1>4. CASE ~Store("effect", v)
  <2>1. /\ pLost' = (IF pFirst THEN pLost \cup {"effect"} ELSE pLost)
        /\ UNCHANGED <<pCur, pSlot, pQueue>>
    BY <1>4 DEF SetEffect
  <2>2. ControlsType'
    BY <1>1, <2>1 DEF ControlsType
  <2>3. ASSUME NEW d \in Controls, Settled(d)' PROVE OnItsWay(d)'
    <3>1. CASE pFirst /\ d = "effect"
      BY <2>1, <3>1 DEF OnItsWay, Excused
    <3>2. CASE ~pFirst \/ d # "effect"
      <4>1. Settled(d)
        BY <1>1, <1>2, <2>3, <3>2 DEF Settled
      <4>2. QED
        BY <1>1, <2>1, <4>1, WayKept
    <3>3. QED
      BY <3>1, <3>2
  <2>4. QED
    BY <2>2, <2>3
<1>5. QED
  BY <1>3, <1>4

\* setParameters at the exposure.
LEMMA ExposureStep ==
  ASSUME ControlsInv, NEW v \in Values, SetExposure(v)
  PROVE  ControlsInv'
<1> USE DEF ControlsInv
<1>1. /\ pPc = "expo" /\ pPc' = (IF v = "bad" THEN "idle" ELSE "flash")
      /\ UNCHANGED <<pDev, pFirst, pCmd>> /\ pFirst \in BOOLEAN
      /\ pPc' \in Controls \cup {"idle", "closed", "end"}
  BY DEF SetExposure, NextControl, ControlsType, Controls
<1>2. ASSUME NEW d \in Controls, Settled(d)' PROVE Settled(d) \/ d = "expo"
  BY <1>1, <1>2, AfterPoints DEF Settled
<1>3. CASE v # "bad" /\ Changed("expo", v)
  <2>1. "expo" \in Queued \ {"focus"} /\ Store("expo", v)
    BY <1>3 DEF Queued, Controls, SetExposure
  <2>2. QED
    BY <1>1, <1>2, <2>1, StoreOk, StoreType
<1>4. CASE ~(v # "bad" /\ Changed("expo", v))
  <2>1. UNCHANGED <<pCur, pSlot, pQueue, pLost>>
    BY <1>4 DEF SetExposure, Skip
  <2>2. ControlsType'
    BY <1>1, <2>1 DEF ControlsType
  <2>3. ASSUME NEW d \in Controls, Settled(d)' PROVE Settled(d)
    BY <1>1, <1>4, <2>3, AfterPoints DEF Settled, Changed
  <2>4. QED
    BY <1>1, <2>1, <2>2, <2>3, WayKept
<1>5. QED
  BY <1>3, <1>4

\* setParameters at the flash mode.
LEMMA FlashStep ==
  ASSUME ControlsInv, NEW v \in Values, SetFlash(v)
  PROVE  ControlsInv'
<1> USE DEF ControlsInv
<1>1. /\ pPc = "flash" /\ pPc' = "zoom"
      /\ UNCHANGED <<pDev, pFirst, pCmd>> /\ pFirst \in BOOLEAN
      /\ pPc' \in Controls \cup {"idle", "closed", "end"}
  BY DEF SetFlash, NextControl, ControlsType, Controls
<1>2. ASSUME NEW d \in Controls, Settled(d)' PROVE Settled(d) \/ d = "flash"
  BY <1>1, <1>2, AfterPoints DEF Settled
<1>3. CASE v # "bad"
  <2>1. "flash" \in Queued \ {"focus"} /\ Store("flash", v)
    BY <1>3 DEF Queued, Controls, SetFlash
  <2>2. QED
    BY <1>1, <1>2, <2>1, StoreOk, StoreType
<1>4. CASE v = "bad"
  <2>1. pCur' = [pCur EXCEPT !["flash"] = "bad"] /\ UNCHANGED <<pSlot, pQueue, pLost>>
    BY <1>4 DEF SetFlash
  <2>2. ControlsType'
    BY <1>1, <1>4, <2>1 DEF ControlsType
  <2>3. ASSUME NEW d \in Controls, Settled(d)' PROVE OnItsWay(d)'
    <3>0. pCur \in [Controls -> Values]
      BY DEF ControlsType
    <3>1. CASE d = "flash"
      <4>1. pCur'[d] = "bad"
        BY <2>1, <3>0, <3>1
      <4>2. QED
        BY <3>1, <4>1 DEF OnItsWay, Excused
    <3>2. CASE d # "flash"
      <4>1. Settled(d) /\ pCur'[d] = pCur[d]
        BY <1>2, <2>1, <2>3, <3>0, <3>2
      <4>2. QED
        BY <1>1, <2>1, <4>1, WayKept
    <3>3. QED
      BY <3>1, <3>2
  <2>4. QED
    BY <2>2, <2>3
<1>5. QED
  BY <1>3, <1>4

\* setParameters at the zoom, which is set at once.
LEMMA ZoomStep ==
  ASSUME ControlsInv, NEW v \in Values, SetZoom(v)
  PROVE  ControlsInv'
<1> USE DEF ControlsInv
<1>1. /\ pPc = "zoom" /\ UNCHANGED <<pSlot, pQueue, pFirst, pCmd, pLost>>
      /\ pCur \in [Controls -> Values] /\ pDev \in [Controls -> Values \cup {"unset"}]
  BY DEF SetZoom, ControlsType
<1>2. CASE v = "bad"
  <2>1. pPc' = "idle" /\ UNCHANGED <<pCur, pDev>>
    BY <1>2 DEF SetZoom
  <2>2. ControlsType'
    BY <1>1, <2>1 DEF ControlsType
  <2>3. ASSUME NEW d \in Controls, Settled(d)' PROVE Settled(d)
    BY <1>1, <2>1, <2>3, AfterPoints DEF Settled
  <2>4. QED
    BY <1>1, <2>1, <2>2, <2>3, WayKept
<1>3. CASE v # "bad"
  <2>1. /\ pPc' = "focus" /\ pCur' = [pCur EXCEPT !["zoom"] = v] /\ pDev' = [pDev EXCEPT !["zoom"] = v]
    BY <1>3 DEF SetZoom, NextControl
  <2>2. ControlsType'
    BY <1>1, <2>1 DEF ControlsType, Controls
  <2>3. ASSUME NEW d \in Controls, Settled(d)' PROVE OnItsWay(d)'
    <3>1. CASE d = "zoom"
      <4>1. pDev'[d] = pCur'[d]
        BY <1>1, <2>1, <3>1
      <4>2. \A w \in Values : pCmd' # <<d, w>>
        <5>1. d \notin Queued /\ pCmd' = pCmd
          BY <1>1, <3>1 DEF Queued
        <5>2. SUFFICES ASSUME NEW w \in Values, pCmd = <<d, w>> PROVE FALSE
          BY <5>1
        <5>3. \E c \in Queued, u \in Values : pCmd = <<c, u>>
          BY <5>2, Pairs DEF ControlsType
        <5>4. QED
          BY <5>1, <5>2, <5>3, Pairs
      <4>3. QED
        BY <3>1, <4>1, <4>2 DEF OnItsWay
    <3>2. CASE d # "zoom"
      <4>1. Settled(d)
        BY <1>1, <2>1, <2>3, <3>2, AfterPoints DEF Settled
      <4>2. pCur'[d] = pCur[d] /\ pDev'[d] = pDev[d]
        BY <1>1, <2>1, <3>2
      <4>3. QED
        BY <1>1, <4>1, <4>2, WayKept
    <3>3. QED
      BY <3>1, <3>2
  <2>4. QED
    BY <2>2, <2>3
<1>4. QED
  BY <1>2, <1>3

\* setParameters at the focus mode.
LEMMA FocusModeStep ==
  ASSUME ControlsInv, NEW v \in Values, SetFocusMode(v)
  PROVE  ControlsInv'
<1> USE DEF ControlsInv
<1>1. /\ pPc = "focus" /\ pPc' = (IF v = "bad" THEN "idle" ELSE "end")
      /\ UNCHANGED <<pDev, pFirst, pCmd, pSlot>> /\ pFirst \in BOOLEAN
      /\ pCur \in [Controls -> Values] /\ pQueue \in Seq(Queued)
  BY DEF SetFocusMode, NextControl, ControlsType, Skip
<1>2. ASSUME NEW d \in Controls, Settled(d)' PROVE Settled(d) \/ d = "focus"
  BY <1>1, <1>2, AfterPoints DEF Settled
<1>3. CASE v = "bad" \/ ~Changed("focus", v)
  <2>1. UNCHANGED <<pCur, pSlot, pQueue, pLost>>
    BY <1>3 DEF SetFocusMode, Skip
  <2>2. ControlsType'
    BY <1>1, <2>1 DEF ControlsType
  <2>3. ASSUME NEW d \in Controls, Settled(d)' PROVE Settled(d)
    BY <1>1, <1>3, <2>3, AfterPoints DEF Settled, Changed
  <2>4. QED
    BY <1>1, <2>1, <2>2, <2>3, WayKept
<1>4. CASE ~(v = "bad" \/ ~Changed("focus", v))
  <2>1. pCur' = [pCur EXCEPT !["focus"] = v]
    BY <1>4 DEF SetFocusMode
  <2>2. /\ pQueue' \in Seq(Queued)
        /\ InSeq(pQueue', "focus") \/ "focus" \in pLost'
        /\ \A e : InSeq(pQueue, e) => InSeq(pQueue', e)
        /\ \A e : e # "focus" => (e \in pLost <=> e \in pLost')
    <3>1. CASE pQueue # <<>> /\ "focus" \in {pQueue[1], pQueue[Len(pQueue)]}
      <4>1. UNCHANGED <<pQueue, pLost>>
        BY <1>4, <3>1 DEF SetFocusMode
      <4>2. 1 \in DOMAIN pQueue /\ Len(pQueue) \in DOMAIN pQueue
        BY <1>1, <3>1
      <4>3. InSeq(pQueue, "focus")
        BY <3>1, <4>2 DEF InSeq
      <4>4. QED
        BY <1>1, <4>1, <4>3
    <3>2. CASE ~(pQueue # <<>> /\ "focus" \in {pQueue[1], pQueue[Len(pQueue)]})
      <4>1. QueueControl("focus") /\ "focus" \in Queued
        BY <1>4, <3>2 DEF SetFocusMode, Queued, Controls
      <4>2. QED
        BY <4>1, QueueControlOk
    <3>3. QED
      BY <3>1, <3>2
  <2>3. ControlsType'
    BY <1>1, <2>1, <2>2 DEF ControlsType
  <2>4. ASSUME NEW d \in Controls, Settled(d)' PROVE OnItsWay(d)'
    <3>1. CASE d = "focus"
      BY <2>2, <3>1 DEF OnItsWay, Excused
    <3>2. CASE d # "focus"
      <4>1. Settled(d) /\ pCur'[d] = pCur[d]
        BY <1>1, <1>2, <2>1, <2>4, <3>2
      <4>2. OnItsWay(d)
        BY <4>1
      <4>3. QED
        BY <1>1, <2>2, <3>2, <4>1, <4>2 DEF OnItsWay, Excused
    <3>3. QED
      BY <3>1, <3>2
  <2>5. QED
    BY <2>3, <2>4
<1>5. QED
  BY <1>3, <1>4

\* The command thread: the slot it reads is the current one.
LEMMA CommandStep ==
  ASSUME ControlsInv, CommandTake \/ CommandRead \/ CommandApply
  PROVE  ControlsInv'
<1> USE DEF ControlsInv
<1>0. \A d \in Controls : Settled(d)' => Settled(d)
  BY DEF CommandTake, CommandRead, CommandApply, Settled
<1>1. CASE CommandTake
  <2>1. /\ pCmd = <<>> /\ pCmd' = <<Head(pQueue)>> /\ pQueue' = Tail(pQueue)
        /\ UNCHANGED <<pCur, pDev, pSlot, pFirst, pPc, pLost>>
        /\ pQueue \in Seq(Queued) /\ pQueue # <<>>
    BY <1>1 DEF CommandTake, ControlsType
  <2>2. /\ pQueue' \in Seq(Queued) /\ Head(pQueue) \in Queued
        /\ \A c : InSeq(pQueue, c) => c = Head(pQueue) \/ InSeq(pQueue', c)
    BY <2>1, InTail
  <2>3. ControlsType'
    BY <2>1, <2>2 DEF ControlsType
  <2>4. /\ pCmd' # <<>> /\ pCmd'[1] = Head(pQueue) /\ \A c : \A v : pCmd' # <<c, v>>
    BY <2>1
  <2>5. ASSUME NEW d \in Controls, Settled(d)' PROVE OnItsWay(d)'
    <3>1. OnItsWay(d)
      BY <1>0, <2>5
    <3>2. QED
      BY <2>1, <2>2, <2>4, <3>1 DEF OnItsWay, Excused
  <2>6. QED
    BY <2>3, <2>5
<1>2. CASE CommandRead
  <2>1. PICK c \in Queued : pCmd = <<c>>
    <3>1. Len(pCmd) = 1
      BY <1>2 DEF CommandRead
    <3>2. Len(pCmd) # 0 /\ Len(pCmd) # 2
      BY <3>1
    <3>3. QED
      BY <3>2, Pairs, Zenon DEF ControlsInv, ControlsType
  <2> DEFINE w == IF c = "focus" THEN pCur["focus"] ELSE pSlot[c]
  <2>2. /\ pCmd' = Append(pCmd, w) /\ UNCHANGED <<pCur, pDev, pSlot, pQueue, pFirst, pPc, pLost>>
    BY <1>2, <2>1 DEF CommandRead
  <2>3. w \in Values
    BY DEF ControlsType, Controls, Queued
  <2> HIDE DEF w
  <2>4. pCmd' = <<c, w>>
    BY <2>1, <2>2, Pairs, Zenon
  <2>5. ControlsType'
    BY <2>2, <2>3, <2>4 DEF ControlsType
  <2>6. ASSUME NEW d \in Controls, Settled(d)' PROVE OnItsWay(d)'
    <3>1. OnItsWay(d)
      BY <1>0, <2>6
    <3>2. pCmd # <<>> /\ pCmd[1] = c /\ pCmd' # <<>> /\ pCmd'[1] = c
          /\ \A e : \A v : pCmd' = <<e, v>> => e = c /\ v = w
      BY <2>1, <2>4
    <3>3. CASE d = c
      <4>1. w = pCur[c] \/ Excused(c)
        BY <3>1, <3>3 DEF w, OnItsWay, Queued
      <4>2. QED
        BY <2>2, <3>2, <3>1, <3>3, <4>1 DEF OnItsWay, Excused
    <3>4. CASE d # c
      BY <2>2, <3>1, <3>2, <3>4 DEF OnItsWay, Excused
    <3>5. QED
      BY <3>3, <3>4
  <2>7. QED
    BY <2>5, <2>6
<1>3. CASE CommandApply
  <2>1. PICK c \in Queued, w \in Values : pCmd = <<c, w>>
    <3>1. Len(pCmd) = 2
      BY <1>3 DEF CommandApply
    <3>2. Len(pCmd) # 0 /\ Len(pCmd) # 1
      BY <3>1
    <3>3. QED
      BY <3>2, Pairs, Zenon DEF ControlsInv, ControlsType
  <2>2. /\ pCmd' = <<>> /\ UNCHANGED <<pCur, pSlot, pQueue, pFirst, pPc, pLost>>
        /\ pDev' = IF pPc = "closed" THEN pDev ELSE [pDev EXCEPT ![c] = w]
        /\ pDev \in [Controls -> Values \cup {"unset"}]
    BY <1>3, <2>1 DEF CommandApply, ControlsType
  <2>3. ControlsType'
    BY <2>2 DEF ControlsType
  <2>4. ASSUME NEW d \in Controls, Settled(d)' PROVE OnItsWay(d)'
    <3>1. OnItsWay(d) /\ pPc # "closed"
      BY <1>0, <2>4 DEF Settled
    <3>2. \A v : pCmd' # <<d, v>>
      BY <2>2
    <3>3. CASE d = c
      <4>1. pDev'[d] = w
        BY <2>2, <3>1, <3>3
      <4>2. w = pCur[d] \/ InSeq(pQueue, d) \/ Excused(d)
        BY <2>1, <3>1, <3>3 DEF OnItsWay
      <4>3. QED
        BY <2>2, <3>1, <3>2, <4>1, <4>2 DEF OnItsWay, Excused
    <3>4. CASE d # c
      <4>1. pDev'[d] = pDev[d] /\ pCmd[1] # d
        BY <2>1, <2>2, <3>1, <3>4
      <4>2. QED
        BY <2>2, <3>1, <3>2, <4>1 DEF OnItsWay, Excused
    <3>5. QED
      BY <3>3, <3>4
  <2>5. QED
    BY <2>3, <2>4
<1>4. QED
  BY <1>1, <1>2, <1>3

\* Once a call of setParameters has gone through, every control it stored has
\* reached the driver or is in the queue or the command thread, for any size of
\* the queue and any number of sessions: the one slot of a command is overwritten
\* only by a call that queues the command again or finds the queue full.
THEOREM ControlsSafe == Spec => []ControlsFollow
<1>1. Init => ControlsInv
  <2>1. PInit => ControlsType
    BY DEF PInit, ControlsType, Controls, Values
  <2>2. PInit => \A c \in Controls : ~Settled(c)
    BY DEF PInit, Settled
  <2>3. QED
    BY <2>1, <2>2 DEF Init, ControlsInv
<1>2. ControlsInv /\ [Next]_vars => ControlsInv'
  <2> SUFFICES ASSUME ControlsInv, [PNext]_pVars PROVE ControlsInv'
    BY OwnSteps
  <2>1. CASE PNext
    BY <2>1, SessionStep, EffectStep, ExposureStep, FlashStep, ZoomStep, FocusModeStep, CommandStep DEF PNext
  <2>2. CASE UNCHANGED pVars
    BY <2>2 DEF pVars, ControlsInv, ControlsType, Settled, OnItsWay, Excused
  <2>3. QED
    BY <2>1, <2>2
<1>3. ControlsInv => ControlsFollow
  BY DEF ControlsInv, ControlsFollow, Settled, OnItsWay, Excused, InSeq
<1>4. QED
  BY <1>1, <1>2, <1>3, PTL DEF Spec

-----------------------------------------------------------------------------
(* The files of the pictures. *)

Picture == [name : Nat, id : Int]
Saving == {"fd", "fdwait", "fdtake", "release"}

NotifierType ==
  /\ nSingle \in BOOLEAN /\ nRefused \in BOOLEAN /\ nNext \in Nat /\ nTries \in Int
  /\ nCount \in 0 .. Burst - 1 /\ nFd \in Nat /\ nRing \in [0 .. Burst - 1 -> Nat]
  /\ nList \in Seq(Picture) /\ nAsk \in Seq(Nat)
  /\ nNode = <<>> \/ \E p \in Picture : nNode = <<p>>
  /\ nNode # <<>> <=> nPc \in Saving
  /\ nApi # "on" => nList = <<>>

\* In single mode the file asked for, or the descriptor given, is that of the
\* picture the thread holds; without one there is neither.
SingleInv ==
  /\ nCount = 0 /\ nIndex = 0 /\ \A i \in 0 .. Burst - 1 : nRing[i] = 0
  /\ nNode = <<>> => nAsk = <<>> /\ nFd = 0
  /\ nNode # <<>> =>
       /\ nAsk = <<>> \/ (nAsk = <<nNode[1].name>> /\ nFd = 0)
       /\ nFd = 0 \/ nFd = nNode[1].name
       /\ nPc = "fd" => nTries = WaitCount \/ nRefused
       /\ nPc = "fdtake" => nAsk = <<>>
       /\ nPc = "release" => nAsk = <<>> /\ nFd = 0
       /\ nRefused => nAsk = <<>> /\ nFd = 0

\* The pictures of the burst taken so far, or all of them.
Taken(count) == IF count = 0 THEN Burst ELSE count

\* In a burst of which m pictures were taken: the pictures still to save are the
\* last ones taken, and the files still to open are those of the last ones taken;
\* the next descriptor goes to the place of the first of these.
BurstCounts(m, list, ask, index, held, released) ==
  /\ Len(list) <= m /\ Len(ask) <= Len(list) + 1
  /\ held => Len(list) < m
  /\ ~held \/ released => Len(ask) <= Len(list)
  /\ index = IF Len(ask) = 0 /\ m = Burst THEN 0 ELSE m - Len(ask)

\* The pictures on the list, and the one the thread holds, carry their places.
InPlace(m, list, held, node) ==
  /\ \A k \in 1 .. Len(list) : list[k].id = m - Len(list) + k - 1
  /\ held => node.id = m - Len(list) - 1

\* The files are opened in the order of the pictures.
AskedFor(list, ask, node) ==
  \A k \in 1 .. Len(ask) :
    ask[k] = IF Len(list) - Len(ask) + k = 0 THEN node.name ELSE list[Len(list) - Len(ask) + k].name

\* A place of the ring holds the descriptor of its picture from setFd to the write.
RingEntry(i, m, list, ask, held, node, released) ==
  IF i >= m - Len(list) /\ i < m - Len(ask) THEN list[i - m + Len(list) + 1].name
  ELSE IF held /\ ~released /\ i = m - Len(list) - 1 /\ i < m - Len(ask) THEN node.name
  ELSE 0
RingFollows(m, list, ask, ring, held, node, released) ==
  \A i \in 0 .. Burst - 1 : ring[i] = RingEntry(i, m, list, ask, held, node, released)

BurstOk(m, list, ask, ring, index, held, node, released) ==
  /\ BurstCounts(m, list, ask, index, held, released)
  /\ InPlace(m, list, held, node)
  /\ AskedFor(list, ask, node)
  /\ RingFollows(m, list, ask, ring, held, node, released)

BurstInv ==
  /\ nFd = 0 /\ (nNode # <<>> => ~nRefused)
  /\ nPc = "fdtake" => Len(nAsk) <= Len(nList)
  /\ BurstOk(Taken(nCount), nList, nAsk, nRing, nIndex, nNode # <<>>, nNode[1], nPc = "release")

FilesInv == NotifierType /\ (nSingle => SingleInv) /\ (~nSingle => BurstInv) /\ RightFile

\* A picture of the burst is taken.
LEMMA BurstTake ==
  ASSUME NEW m \in 1 .. Burst, m < Burst, NEW list \in Seq(Picture), NEW ask \in Seq(Nat), NEW ring,
         NEW index, NEW held \in BOOLEAN, NEW node, NEW released \in BOOLEAN, NEW name \in Nat,
         BurstOk(m, list, ask, ring, index, held, node, released)
  PROVE  BurstOk(m + 1, Append(list, [name |-> name, id |-> m]), Append(ask, name), ring, index,
                 held, node, released)
<1> DEFINE pic == [name |-> name, id |-> m]
           list2 == Append(list, pic)
           ask2 == Append(ask, name)
           m2 == m + 1
<1> USE NotifierAssumption
<1>1. pic \in Picture /\ pic.name = name /\ pic.id = m
  BY DEF Picture
<1> HIDE DEF pic
<1>2. /\ Len(list) \in Nat /\ Len(list2) = Len(list) + 1 /\ list2[Len(list) + 1] = pic
      /\ \A k \in 1 .. Len(list) : list2[k] = list[k]
  BY <1>1
<1>3. /\ Len(ask) \in Nat /\ Len(ask2) = Len(ask) + 1 /\ ask2[Len(ask) + 1] = name
      /\ \A k \in 1 .. Len(ask) : ask2[k] = ask[k]
  OBVIOUS
<1> HIDE DEF list2, ask2
<1>4. /\ m2 - Len(list2) = m - Len(list) /\ m2 - Len(ask2) = m - Len(ask)
      /\ Len(list2) - Len(ask2) = Len(list) - Len(ask)
  BY <1>2, <1>3
<1>5. BurstCounts(m2, list2, ask2, index, held, released)
  BY <1>2, <1>3, <1>4 DEF BurstOk, BurstCounts
<1>6. InPlace(m2, list2, held, node)
  <2>1. ASSUME NEW k \in 1 .. Len(list2) PROVE list2[k].id = m2 - Len(list2) + k - 1
    <3>1. CASE k = Len(list2)
      BY <1>1, <1>2, <3>1
    <3>2. CASE k # Len(list2)
      <4>1. k \in 1 .. Len(list) /\ list2[k] = list[k]
        BY <1>2, <3>2
      <4>2. QED
        BY <1>4, <4>1 DEF BurstOk, InPlace
    <3>3. QED
      BY <3>1, <3>2
  <2>2. held => node.id = m2 - Len(list2) - 1
    BY <1>4 DEF BurstOk, InPlace
  <2>3. QED
    BY <2>1, <2>2 DEF InPlace
<1>7. AskedFor(list2, ask2, node)
  <2>1. ASSUME NEW k \in 1 .. Len(ask2)
        PROVE  ask2[k] = IF Len(list2) - Len(ask2) + k = 0 THEN node.name
                         ELSE list2[Len(list2) - Len(ask2) + k].name
    <3>1. CASE k = Len(ask2)
      BY <1>1, <1>2, <1>3, <3>1
    <3>2. CASE k # Len(ask2)
      <4>1. k \in 1 .. Len(ask) /\ ask2[k] = ask[k]
        BY <1>3, <3>2
      <4>2. ask[k] = IF Len(list) - Len(ask) + k = 0 THEN node.name ELSE list[Len(list) - Len(ask) + k].name
        BY <4>1 DEF BurstOk, AskedFor
      <4>3. Len(list) - Len(ask) + k = 0 \/ Len(list) - Len(ask) + k \in 1 .. Len(list)
        BY <1>2, <1>3, <4>1 DEF BurstOk, BurstCounts
      <4>4. QED
        BY <1>2, <1>4, <4>1, <4>2, <4>3
    <3>3. QED
      BY <3>1, <3>2
  <2>2. QED
    BY <2>1 DEF AskedFor
<1>8. RingFollows(m2, list2, ask2, ring, held, node, released)
  <2>1. ASSUME NEW i \in 0 .. Burst - 1
        PROVE  ring[i] = RingEntry(i, m2, list2, ask2, held, node, released)
    <3>1. ring[i] = RingEntry(i, m, list, ask, held, node, released)
      BY DEF BurstOk, RingFollows
    <3>2. /\ m2 - Len(list2) - 1 = m - Len(list) - 1
          /\ i - m2 + Len(list2) + 1 = i - m + Len(list) + 1
      BY <1>2
    <3>3. i >= m - Len(list) /\ i < m - Len(ask) => i - m + Len(list) + 1 \in 1 .. Len(list)
      BY <1>2, <1>3
    <3>4. i >= m - Len(list) /\ i < m - Len(ask)
          => list2[i - m2 + Len(list2) + 1] = list[i - m + Len(list) + 1]
      BY <1>2, <3>2, <3>3
    <3>5. QED
      BY <1>4, <3>1, <3>2, <3>4, Zenon DEF RingEntry
  <2>2. QED
    BY <2>1 DEF RingFollows
<1>9. QED
  BY <1>5, <1>6, <1>7, <1>8 DEF BurstOk, list2, ask2, pic

\* The first picture of a burst is taken.
LEMMA BurstFirst ==
  ASSUME NEW ring, NEW index, NEW node, NEW name \in Nat,
         BurstOk(Burst, <<>>, <<>>, ring, index, FALSE, node, FALSE)
  PROVE  BurstOk(1, <<[name |-> name, id |-> 0]>>, <<name>>, ring, index, FALSE, node, FALSE)
<1> DEFINE pic == [name |-> name, id |-> 0]
           list == <<pic>>
           ask == <<name>>
<1> USE NotifierAssumption
<1>1. pic.name = name /\ pic.id = 0
  OBVIOUS
<1> HIDE DEF pic
<1>2. Len(list) = 1 /\ list[1] = pic /\ Len(ask) = 1 /\ ask[1] = name
  OBVIOUS
<1> HIDE DEF list, ask
<1>3. index = 0 /\ \A i \in 0 .. Burst - 1 : ring[i] = 0
  <2>1. index = 0
    BY DEF BurstOk, BurstCounts
  <2>2. ASSUME NEW i \in 0 .. Burst - 1 PROVE ring[i] = 0
    BY DEF BurstOk, RingFollows, RingEntry
  <2>3. QED
    BY <2>1, <2>2
<1>4. BurstCounts(1, list, ask, index, FALSE, FALSE)
  BY <1>2, <1>3 DEF BurstCounts
<1>5. InPlace(1, list, FALSE, node)
  BY <1>1, <1>2 DEF InPlace
<1>6. AskedFor(list, ask, node)
  BY <1>1, <1>2 DEF AskedFor
<1>7. RingFollows(1, list, ask, ring, FALSE, node, FALSE)
  BY <1>2, <1>3 DEF RingFollows, RingEntry
<1>8. QED
  BY <1>4, <1>5, <1>6, <1>7 DEF BurstOk, list, ask, pic

\* The place of the next descriptor.
LEMMA BurstIndex ==
  ASSUME NEW m \in 1 .. Burst, NEW list \in Seq(Picture), NEW ask \in Seq(Nat), ask # <<>>,
         NEW ring, NEW index, NEW held, NEW node, NEW released,
         BurstOk(m, list, ask, ring, index, held, node, released)
  PROVE  index = m - Len(ask) /\ index \in 0 .. Burst - 1 /\ Len(Tail(ask)) <= Len(list)
<1>1. Len(ask) \in Nat \ {0} /\ Len(Tail(ask)) = Len(ask) - 1 /\ Len(list) \in Nat
  OBVIOUS
<1>2. /\ Len(list) <= m /\ Len(ask) <= Len(list) + 1 /\ (held => Len(list) < m)
      /\ (~held => Len(ask) <= Len(list)) /\ index = m - Len(ask)
  BY <1>1 DEF BurstOk, BurstCounts
<1>3. QED
  BY <1>1, <1>2, NotifierAssumption

\* The application hands over the next descriptor.
LEMMA BurstAnswer ==
  ASSUME NEW m \in 1 .. Burst, NEW list \in Seq(Picture), NEW ask \in Seq(Nat), ask # <<>>,
         NEW ring \in [0 .. Burst - 1 -> Nat], NEW index, NEW held \in BOOLEAN, NEW node,
         NEW released \in BOOLEAN,
         BurstOk(m, list, ask, ring, index, held, node, released)
  PROVE  BurstOk(m, list, Tail(ask), [ring EXCEPT ![index] = Head(ask)],
                 IF index + 1 = Burst THEN 0 ELSE index + 1, held, node, released)
<1> DEFINE ask2 == Tail(ask)
           ring2 == [ring EXCEPT ![index] = Head(ask)]
           index2 == IF index + 1 = Burst THEN 0 ELSE index + 1
<1> USE NotifierAssumption
<1>0. Len(ask) \in Nat \ {0} /\ Len(ask2) = Len(ask) - 1
  OBVIOUS
<1>1. /\ Len(ask) \in Nat \ {0} /\ Len(ask2) = Len(ask) - 1 /\ Head(ask) = ask[1]
      /\ \A k \in 1 .. Len(ask2) : ask2[k] = ask[k + 1]
  OBVIOUS
<1>2. Len(list) \in Nat
  OBVIOUS
<1>3. index = m - Len(ask) /\ index \in 0 .. Burst - 1 /\ Len(ask2) <= Len(list)
  BY BurstIndex
<1>4. \A i \in 0 .. Burst - 1 : ring2[i] = IF i = index THEN ask[1] ELSE ring[i]
  BY <1>1, <1>3
<1> HIDE DEF ask2, ring2
<1>5. BurstCounts(m, list, ask2, index2, held, released)
  <2>1. Len(list) <= m /\ Len(ask) <= Len(list) + 1 /\ (held => Len(list) < m)
    BY <1>0, <1>2 DEF BurstOk, BurstCounts
  <2>2. index2 = IF Len(ask2) = 0 /\ m = Burst THEN 0 ELSE m - Len(ask2)
    <3>1. index + 1 = m - Len(ask2) /\ Len(ask2) \in Nat
      BY <1>0, <1>3
    <3>2. index + 1 = Burst <=> Len(ask2) = 0 /\ m = Burst
      BY <3>1
    <3>3. QED
      BY <3>1, <3>2
  <2> HIDE DEF index2
  <2>3. Len(ask2) <= Len(list) + 1
    BY <1>0, <2>1, <1>2
  <2>4. QED
    BY <1>3, <2>1, <2>2, <2>3, Zenon DEF BurstCounts
<1>6. InPlace(m, list, held, node)
  BY Zenon DEF BurstOk
<1>7. AskedFor(list, ask2, node)
  <2>1. ASSUME NEW k \in 1 .. Len(ask2)
        PROVE  ask2[k] = IF Len(list) - Len(ask2) + k = 0 THEN node.name
                         ELSE list[Len(list) - Len(ask2) + k].name
    <3>1. k + 1 \in 1 .. Len(ask) /\ Len(list) - Len(ask2) + k = Len(list) - Len(ask) + (k + 1)
      BY <1>1, <1>2
    <3>2. ask[k + 1] = IF Len(list) - Len(ask) + (k + 1) = 0 THEN node.name
                       ELSE list[Len(list) - Len(ask) + (k + 1)].name
      BY <3>1 DEF BurstOk, AskedFor
    <3>3. QED
      BY <1>1, <3>1, <3>2
  <2>2. QED
    BY <2>1 DEF AskedFor
<1>8. RingFollows(m, list, ask2, ring2, held, node, released)
  <2>1. ASSUME NEW i \in 0 .. Burst - 1
        PROVE  ring2[i] = RingEntry(i, m, list, ask2, held, node, released)
    <3>1. ring[i] = RingEntry(i, m, list, ask, held, node, released)
      BY DEF BurstOk, RingFollows
    <3>2. CASE i = index
      <4>1. ring2[i] = ask[1]
        BY <1>4, <3>2
      <4>2. ask[1] = IF Len(list) - Len(ask) + 1 = 0 THEN node.name ELSE list[Len(list) - Len(ask) + 1].name
        BY <1>1 DEF BurstOk, AskedFor
      <4>3. CASE Len(list) - Len(ask) + 1 = 0
        <5>1. held /\ ~released
          BY <1>1, <1>2, <4>3 DEF BurstOk, BurstCounts
        <5>2. ~(i >= m - Len(list)) /\ i = m - Len(list) - 1 /\ i < m - Len(ask2)
          <6>1. Len(ask) = Len(list) + 1 /\ Len(ask2) = Len(list)
            BY <1>0, <1>2, <4>3
          <6>2. i = m - (Len(list) + 1)
            BY <1>3, <3>2, <6>1
          <6>3. QED
            BY <1>2, <6>1, <6>2
        <5>3. QED
          BY <4>1, <4>2, <4>3, <5>1, <5>2 DEF RingEntry
      <4>4. CASE Len(list) - Len(ask) + 1 # 0
        <5>1. /\ i >= m - Len(list) /\ i < m - Len(ask2)
              /\ i - m + Len(list) + 1 = Len(list) - Len(ask) + 1
          BY <1>1, <1>2, <1>3, <3>2, <4>4
        <5>2. QED
          BY <4>1, <4>2, <4>4, <5>1 DEF RingEntry
      <4>5. QED
        BY <4>3, <4>4
    <3>3. CASE i # index
      <4>1. ring2[i] = ring[i]
        BY <1>4, <3>3
      <4>2. i < m - Len(ask2) <=> i < m - Len(ask)
        BY <1>1, <1>3, <3>3
      <4>3. QED
        BY <3>1, <4>1, <4>2, Zenon DEF RingEntry
    <3>4. QED
      BY <3>2, <3>3
  <2>2. QED
    BY <2>1 DEF RingFollows
<1> HIDE DEF index2
<1>9. BurstOk(m, list, ask2, ring2, index2, held, node, released)
  BY <1>5, <1>6, <1>7, <1>8, Zenon DEF BurstOk
<1>10. QED
  BY <1>9, Zenon DEF ask2, ring2, index2

\* The same with names for what setFd leaves.
LEMMA BurstOpen ==
  ASSUME NEW m \in 1 .. Burst, NEW list \in Seq(Picture), NEW ask \in Seq(Nat), ask # <<>>,
         NEW ring \in [0 .. Burst - 1 -> Nat], NEW index, NEW held \in BOOLEAN, NEW node,
         NEW released \in BOOLEAN,
         NEW ask2, ask2 = Tail(ask), NEW ring2, ring2 = [ring EXCEPT ![index] = Head(ask)],
         NEW index2, index2 = IF index + 1 = Burst THEN 0 ELSE index + 1,
         BurstOk(m, list, ask, ring, index, held, node, released)
  PROVE  BurstOk(m, list, ask2, ring2, index2, held, node, released)
BY BurstAnswer

\* The thread takes the next picture off the list.
LEMMA BurstPop ==
  ASSUME NEW m \in 1 .. Burst, NEW list \in Seq(Picture), list # <<>>, NEW ask \in Seq(Nat),
         NEW ring, NEW index, NEW node,
         BurstOk(m, list, ask, ring, index, FALSE, node, FALSE)
  PROVE  BurstOk(m, Tail(list), ask, ring, index, TRUE, Head(list), FALSE)
<1> DEFINE list2 == Tail(list)
           pic == Head(list)
<1> USE NotifierAssumption
<1>0. Len(list) \in Nat \ {0} /\ Len(list2) = Len(list) - 1
  OBVIOUS
<1>1. /\ Len(list) \in Nat \ {0} /\ Len(list2) = Len(list) - 1 /\ pic = list[1]
      /\ \A k \in 1 .. Len(list2) : list2[k] = list[k + 1]
  OBVIOUS
<1>2. Len(ask) \in Nat
  OBVIOUS
<1> HIDE DEF list2, pic
<1>3. Len(list) <= m /\ Len(ask) <= Len(list)
  BY <1>1, <1>2 DEF BurstOk, BurstCounts
<1>4. BurstCounts(m, list2, ask, index, TRUE, FALSE)
  BY <1>1, <1>2, <1>3 DEF BurstOk, BurstCounts
<1>5. InPlace(m, list2, TRUE, pic)
  <2>1. ASSUME NEW k \in 1 .. Len(list2) PROVE list2[k].id = m - Len(list2) + k - 1
    <3>1. k + 1 \in 1 .. Len(list)
      BY <1>1
    <3>2. list[k + 1].id = m - Len(list) + (k + 1) - 1
      BY <3>1 DEF BurstOk, InPlace
    <3>3. QED
      BY <1>1, <3>2
  <2>2. pic.id = m - Len(list2) - 1
    <3>1. list[1].id = m - Len(list) + 1 - 1
      BY <1>1 DEF BurstOk, InPlace
    <3>2. QED
      BY <1>1, <3>1
  <2>3. QED
    BY <2>1, <2>2 DEF InPlace
<1>6. AskedFor(list2, ask, pic)
  <2>1. ASSUME NEW k \in 1 .. Len(ask)
        PROVE  ask[k] = IF Len(list2) - Len(ask) + k = 0 THEN pic.name
                        ELSE list2[Len(list2) - Len(ask) + k].name
    <3>1. /\ Len(list) - Len(ask) + k \in 1 .. Len(list)
          /\ Len(list2) - Len(ask) + k + 1 = Len(list) - Len(ask) + k
      BY <1>1, <1>2, <1>3
    <3>2. ask[k] = list[Len(list) - Len(ask) + k].name
      BY <3>1 DEF BurstOk, AskedFor
    <3>3. CASE Len(list) - Len(ask) + k = 1
      BY <1>1, <1>2, <3>1, <3>2, <3>3
    <3>4. CASE Len(list) - Len(ask) + k # 1
      <4>1. Len(list2) - Len(ask) + k \in 1 .. Len(list2)
        BY <1>0, <1>2, <3>1, <3>4
      <4>2. QED
        <5>1. list2[Len(list2) - Len(ask) + k] = list[Len(list2) - Len(ask) + k + 1]
          BY <1>1, <4>1
        <5>2. Len(list2) - Len(ask) + k # 0
          BY <1>0, <4>1
        <5>3. QED
          BY <3>1, <3>2, <5>1, <5>2, Zenon
    <3>5. QED
      BY <3>3, <3>4
  <2>2. QED
    BY <2>1 DEF AskedFor
<1>7. RingFollows(m, list2, ask, ring, TRUE, pic, FALSE)
  <2>1. ASSUME NEW i \in 0 .. Burst - 1
        PROVE  ring[i] = RingEntry(i, m, list2, ask, TRUE, pic, FALSE)
    <3>1. ring[i] = IF i >= m - Len(list) /\ i < m - Len(ask) THEN list[i - m + Len(list) + 1].name ELSE 0
      BY DEF BurstOk, RingFollows, RingEntry
    <3>2. CASE i >= m - Len(list2)
      <4>1. i >= m - Len(list) /\ i - m + Len(list2) + 1 + 1 = i - m + Len(list) + 1
        BY <1>1, <3>2
      <4>2. i < m - Len(ask) => i - m + Len(list2) + 1 \in 1 .. Len(list2)
        BY <1>1, <1>2, <3>2
      <4>3. i < m - Len(ask) => list2[i - m + Len(list2) + 1] = list[i - m + Len(list) + 1]
        BY <1>1, <4>1, <4>2
      <4>4. i # m - Len(list2) - 1
        BY <1>1, <3>2
      <4>5. QED
        BY <3>1, <3>2, <4>1, <4>3, <4>4, Zenon DEF RingEntry
    <3>3. CASE ~(i >= m - Len(list2))
      <4>1. i >= m - Len(list) <=> i = m - Len(list2) - 1
        BY <1>0, <3>3
      <4>2. i = m - Len(list2) - 1 => i - m + Len(list) + 1 = 1
        BY <1>1
      <4>3. QED
        BY <1>1, <3>1, <3>3, <4>1, <4>2, Zenon DEF RingEntry
    <3>4. QED
      BY <3>2, <3>3
  <2>2. QED
    BY <2>1 DEF RingFollows
<1>8. QED
  BY <1>4, <1>5, <1>6, <1>7 DEF BurstOk, list2, pic

\* The thread uses its descriptor and clears the place.
LEMMA BurstWrite ==
  ASSUME NEW m \in 1 .. Burst, NEW list \in Seq(Picture), NEW ask \in Seq(Nat), Len(ask) <= Len(list),
         NEW ring \in [0 .. Burst - 1 -> Nat], NEW index, NEW node,
         BurstOk(m, list, ask, ring, index, TRUE, node, FALSE)
  PROVE  /\ node.id \in 0 .. Burst - 1 /\ ring[node.id] = node.name
         /\ BurstOk(m, list, ask, [ring EXCEPT ![node.id] = 0], index, TRUE, node, TRUE)
<1> DEFINE ring2 == [ring EXCEPT ![node.id] = 0]
<1> USE NotifierAssumption
<1>1. Len(list) \in Nat /\ Len(ask) \in Nat
  OBVIOUS
<1>2. node.id = m - Len(list) - 1 /\ Len(list) < m
  BY DEF BurstOk, BurstCounts, InPlace
<1>3. node.id \in 0 .. Burst - 1 /\ node.id < m - Len(ask) /\ ~(node.id >= m - Len(list))
  BY <1>1, <1>2
<1>4. ring[node.id] = node.name
  <2>1. ring[node.id] = RingEntry(node.id, m, list, ask, TRUE, node, FALSE)
    BY <1>3 DEF BurstOk, RingFollows
  <2>2. QED
    BY <1>2, <1>3, <2>1, Zenon DEF RingEntry
<1>5. \A i \in 0 .. Burst - 1 : ring2[i] = IF i = node.id THEN 0 ELSE ring[i]
  BY <1>3
<1> HIDE DEF ring2
<1>6. BurstCounts(m, list, ask, index, TRUE, TRUE)
  BY <1>1 DEF BurstOk, BurstCounts
<1>7. InPlace(m, list, TRUE, node) /\ AskedFor(list, ask, node)
  BY Zenon DEF BurstOk
<1>8. RingFollows(m, list, ask, ring2, TRUE, node, TRUE)
  <2>1. ASSUME NEW i \in 0 .. Burst - 1
        PROVE  ring2[i] = RingEntry(i, m, list, ask, TRUE, node, TRUE)
    <3>1. ring[i] = RingEntry(i, m, list, ask, TRUE, node, FALSE)
      BY DEF BurstOk, RingFollows
    <3>2. CASE i = node.id
      BY <1>3, <1>5, <3>2 DEF RingEntry
    <3>3. CASE i # node.id
      <4>1. i # m - Len(list) - 1 /\ ring2[i] = ring[i]
        BY <1>2, <1>5, <3>3
      <4>2. QED
        BY <3>1, <4>1, Zenon DEF RingEntry
    <3>4. QED
      BY <3>2, <3>3
  <2>2. QED
    BY <2>1 DEF RingFollows
<1>9. QED
  BY <1>3, <1>4, <1>6, <1>7, <1>8 DEF BurstOk, ring2

\* The picture is released.
LEMMA BurstRelease ==
  ASSUME NEW m, NEW list, NEW ask, NEW ring, NEW index, NEW node, NEW node2,
         BurstOk(m, list, ask, ring, index, TRUE, node, TRUE),
         \A k \in 1 .. Len(ask) : Len(list) - Len(ask) + k # 0
  PROVE  BurstOk(m, list, ask, ring, index, FALSE, node2, FALSE)
<1>1. BurstCounts(m, list, ask, index, FALSE, FALSE)
  BY Zenon DEF BurstOk, BurstCounts
<1>2. InPlace(m, list, FALSE, node2)
  BY Zenon DEF BurstOk, InPlace
<1>3. AskedFor(list, ask, node2)
  BY Zenon DEF BurstOk, AskedFor
<1>4. RingFollows(m, list, ask, ring, FALSE, node2, FALSE)
  BY Zenon DEF BurstOk, RingFollows, RingEntry
<1>5. QED
  BY <1>1, <1>2, <1>3, <1>4 DEF BurstOk

\* One step around a ring.
LEMMA ModStep ==
  ASSUME NEW b \in Nat \ {0}, NEW c \in 0 .. b - 1
  PROVE  (c + 1) % b = IF c + 1 = b THEN 0 ELSE c + 1
<1>1. CASE c + 1 = b
  BY <1>1
<1>2. CASE c + 1 < b
  BY <1>2
<1>3. QED
  BY <1>1, <1>2

HIDE DEF BurstOk

\* A step that touches no picture and no descriptor.
LEMMA FilesKept ==
  ASSUME FilesInv,
         UNCHANGED <<nSingle, nList, nNode, nTries, nFd, nRing, nIndex, nCount, nAsk, nRefused, nFiles>>,
         nPc' = nPc \/ (nPc \notin Saving /\ nPc' \notin Saving),
         nNext' \in Nat, nApi' # "on" => nList = <<>>
  PROVE  FilesInv'
<1>1. /\ NotifierType' /\ RightFile'
  BY DEF FilesInv, NotifierType, RightFile
<1>2. (nSingle => SingleInv)'
  BY DEF FilesInv, SingleInv, Saving
<1>3. (nPc' = "release") = (nPc = "release") /\ (nPc' = "fdtake") = (nPc = "fdtake")
  BY DEF Saving
<1>4. (~nSingle => BurstInv)'
  BY <1>3 DEF FilesInv, BurstInv
<1>5. QED
  BY <1>1, <1>2, <1>4 DEF FilesInv

\* The steps that leave pictures, descriptors and the list alone.
LEMMA QuietSteps ==
  ASSUME FilesInv,
         \/ setCallbacks \/ TakeFailed \/ CleanupCheck \/ CleanupSpurious \/ CleanupDestroy
         \/ SaveTop \/ SaveSleep \/ SaveSpurious \/ SaveExit
  PROVE  FilesInv'
<1>0. nNext \in Nat /\ (nApi # "on" => nList = <<>>)
  BY DEF FilesInv, NotifierType
<1>1. CASE setCallbacks
  BY <1>0, <1>1, FilesKept DEF setCallbacks, Saving
<1>2. CASE TakeFailed
  BY <1>0, <1>2, FilesKept DEF TakeFailed
<1>3. CASE CleanupCheck
  BY <1>0, <1>3, FilesKept DEF CleanupCheck
<1>4. CASE CleanupDestroy
  BY <1>0, <1>4, FilesKept DEF CleanupDestroy
<1>5. CASE SaveTop
  BY <1>0, <1>5, FilesKept DEF SaveTop, Leave, Saving
<1>6. CASE SaveSleep
  BY <1>0, <1>6, FilesKept DEF SaveSleep, Saving
<1>7. CASE SaveExit
  BY <1>0, <1>7, FilesKept DEF SaveExit, Saving
<1>8. CASE CleanupSpurious
  BY <1>0, <1>8, FilesKept DEF CleanupSpurious
<1>9. CASE SaveSpurious
  BY <1>0, <1>9, FilesKept DEF SaveSpurious, Saving
<1>10. QED
  BY <1>1, <1>2, <1>3, <1>4, <1>5, <1>6, <1>7, <1>8, <1>9

\* Between two pictures the ring is empty and its index is where it started.
LEMMA RestingRing ==
  ASSUME NEW ring, NEW index, NEW node
  PROVE  BurstOk(Burst, <<>>, <<>>, ring, index, FALSE, node, FALSE)
         <=> index = 0 /\ \A i \in 0 .. Burst - 1 : ring[i] = 0
<1> USE NotifierAssumption
<1>1. BurstCounts(Burst, <<>>, <<>>, index, FALSE, FALSE) <=> index = 0
  BY DEF BurstCounts
<1>2. InPlace(Burst, <<>>, FALSE, node) /\ AskedFor(<<>>, <<>>, node)
  BY DEF InPlace, AskedFor
<1>3. ASSUME NEW i \in 0 .. Burst - 1 PROVE RingEntry(i, Burst, <<>>, <<>>, FALSE, node, FALSE) = 0
  BY DEF RingEntry
<1>4. RingFollows(Burst, <<>>, <<>>, ring, FALSE, node, FALSE) <=> \A i \in 0 .. Burst - 1 : ring[i] = 0
  BY <1>3 DEF RingFollows
<1>5. QED
  BY <1>1, <1>2, <1>4 DEF BurstOk

\* setPictureMode.
LEMMA ModeStep == FilesInv /\ setPictureMode => FilesInv'
<1> SUFFICES ASSUME FilesInv, setPictureMode PROVE FilesInv'
  OBVIOUS
<1>1. /\ nList = <<>> /\ nNode = <<>> /\ nAsk = <<>> /\ nCount = 0 /\ nPc \notin Saving
      /\ nSingle' = ~nSingle /\ nSingle \in BOOLEAN
      /\ UNCHANGED <<nApi, nPc, nList, nNode, nTries, nFd, nRing, nIndex, nCount, nAsk, nRefused, nFiles, nNext>>
  BY DEF setPictureMode, FilesInv, NotifierType
<1>2. NotifierType' /\ RightFile'
  BY <1>1 DEF FilesInv, NotifierType, RightFile
<1>3. Taken(nCount) = Burst /\ (nNode # <<>>) = FALSE /\ (nPc = "release") = FALSE
  BY <1>1 DEF Taken, Saving
<1>4. CASE nSingle
  <2>1. nIndex = 0 /\ nFd = 0 /\ \A i \in 0 .. Burst - 1 : nRing[i] = 0
    BY <1>1, <1>4 DEF FilesInv, SingleInv
  <2>2. BurstOk(Burst, <<>>, <<>>, nRing, nIndex, FALSE, nNode[1], FALSE)
    BY <2>1, RestingRing
  <2>3. BurstInv'
    BY <1>1, <1>3, <2>1, <2>2 DEF BurstInv, Saving
  <2>4. QED
    BY <1>1, <1>2, <1>4, <2>3 DEF FilesInv
<1>5. CASE ~nSingle
  <2>1. nFd = 0 /\ BurstOk(Burst, <<>>, <<>>, nRing, nIndex, FALSE, nNode[1], FALSE)
    BY <1>1, <1>3, <1>5 DEF FilesInv, BurstInv
  <2>2. nIndex = 0 /\ \A i \in 0 .. Burst - 1 : nRing[i] = 0
    BY <2>1, RestingRing
  <2>3. SingleInv'
    BY <1>1, <2>1, <2>2 DEF SingleInv
  <2>4. QED
    BY <1>1, <1>2, <1>5, <2>3 DEF FilesInv
<1>6. QED
  BY <1>4, <1>5

\* A picture is encoded and listed.
LEMMA TakeStep == FilesInv /\ (TakeSingle \/ TakeContinuous) => FilesInv'
<1> USE NotifierAssumption
<1>1. ASSUME FilesInv, TakeSingle PROVE FilesInv'
  <2>1. /\ nSingle /\ nNext \in Nat /\ nApi = "on" /\ nList \in Seq(Picture)
        /\ nList' = Append(nList, [name |-> nNext + 1, id |-> -1]) /\ nNext' = nNext + 1
        /\ nPc' = nPc \/ (nPc \notin Saving /\ nPc' \notin Saving)
        /\ UNCHANGED <<nApi, nSingle, nNode, nTries, nFd, nRing, nIndex, nCount, nAsk, nRefused, nFiles>>
    BY <1>1 DEF TakeSingle, SaveSignalled, Saving, FilesInv, NotifierType
  <2>2. nList' \in Seq(Picture)
    <3>1. [name |-> nNext + 1, id |-> -1] \in Picture
      BY <2>1 DEF Picture
    <3>2. QED
      BY <2>1, <3>1, InAppend
  <2>3. NotifierType' /\ RightFile'
    BY <1>1, <2>1, <2>2 DEF FilesInv, NotifierType, RightFile
  <2>4. SingleInv'
    BY <1>1, <2>1 DEF FilesInv, SingleInv, Saving
  <2>5. QED
    BY <2>1, <2>3, <2>4 DEF FilesInv
<1>2. ASSUME FilesInv, TakeContinuous PROVE FilesInv'
  <2> DEFINE pic == [name |-> nNext + 1, id |-> nCount]
  <2>1. /\ ~nSingle /\ nNext \in Nat /\ nApi = "on" /\ nList \in Seq(Picture) /\ nAsk \in Seq(Nat)
        /\ nList' = Append(nList, pic) /\ nAsk' = Append(nAsk, nNext + 1) /\ nNext' = nNext + 1
        /\ nCount > 0 \/ (nList = <<>> /\ nNode = <<>> /\ nAsk = <<>>)
        /\ nCount' = (nCount + 1) % Burst /\ nCount \in 0 .. Burst - 1
        /\ nPc' = nPc \/ (nPc \notin Saving /\ nPc' \notin Saving)
        /\ UNCHANGED <<nApi, nSingle, nNode, nTries, nFd, nRing, nIndex, nRefused, nFiles>>
    BY <1>2 DEF TakeContinuous, SaveSignalled, Saving, FilesInv, NotifierType
  <2>2. pic \in Picture
    BY <2>1 DEF Picture
  <2>3. nList' \in Seq(Picture) /\ nAsk' \in Seq(Nat)
    BY <2>1, <2>2, InAppend
  <2>4. nCount' = IF nCount + 1 = Burst THEN 0 ELSE nCount + 1
    BY <2>1, ModStep
  <2>5. NotifierType' /\ RightFile'
    BY <1>2, <2>1, <2>3, <2>4 DEF FilesInv, NotifierType, RightFile
  <2>6. /\ (nPc' = "release") = (nPc = "release") /\ (nNode' # <<>>) = (nNode # <<>>)
        /\ nNode'[1] = nNode[1] /\ nPc' = "fdtake" => nPc = "fdtake"
    BY <2>1 DEF Saving
  <2>7. BurstInv
    BY <1>2, <2>1 DEF FilesInv
  <2>8. Taken(nCount') = nCount + 1
    BY <2>1, <2>4 DEF Taken
  <2>9. BurstOk(nCount + 1, nList', nAsk', nRing, nIndex, nNode # <<>>, nNode[1], nPc = "release")
    <3>1. CASE nCount > 0
      <4>1. BurstOk(nCount, nList, nAsk, nRing, nIndex, nNode # <<>>, nNode[1], nPc = "release")
        BY <2>7, <3>1 DEF BurstInv, Taken
      <4>2. nCount \in 1 .. Burst /\ nCount < Burst
        BY <2>1, <3>1
      <4>3. nNext + 1 \in Nat /\ (nNode # <<>>) \in BOOLEAN /\ (nPc = "release") \in BOOLEAN
        BY <2>1
      <4>4. BurstOk(nCount + 1, Append(nList, pic), Append(nAsk, nNext + 1), nRing, nIndex,
                    nNode # <<>>, nNode[1], nPc = "release")
        BY <2>1, <4>1, <4>2, <4>3, BurstTake, Zenon
      <4>5. QED
        BY <2>1, <4>4, Zenon
    <3>2. CASE nCount = 0
      <4>1. /\ nList = <<>> /\ nNode = <<>> /\ nAsk = <<>> /\ (nNode # <<>>) = FALSE
            /\ (nPc = "release") = FALSE
        BY <1>2, <2>1, <3>2 DEF FilesInv, NotifierType, Saving
      <4>2. BurstOk(Burst, <<>>, <<>>, nRing, nIndex, FALSE, nNode[1], FALSE)
        BY <2>7, <3>2, <4>1 DEF BurstInv, Taken
      <4>3. BurstOk(1, <<[name |-> nNext + 1, id |-> 0]>>, <<nNext + 1>>, nRing, nIndex, FALSE, nNode[1], FALSE)
        <5>1. nNext + 1 \in Nat
          BY <2>1
        <5>2. QED
          BY <4>2, <5>1, BurstFirst, Zenon
      <4>4. nList' = <<pic>> /\ nAsk' = <<nNext + 1>>
        BY <2>1, <4>1
      <4>5. nCount + 1 = 1
        BY <3>2
      <4>6. QED
        BY <3>2, <4>1, <4>3, <4>4, <4>5, Zenon
    <3>3. QED
      BY <2>1, <3>1, <3>2
  <2>10. nPc = "fdtake" => Len(nAsk') <= Len(nList')
    <3>1. Len(nAsk') = Len(nAsk) + 1 /\ Len(nList') = Len(nList) + 1
      BY <2>1, <2>2
    <3>2. QED
      BY <2>1, <2>7, <3>1 DEF BurstInv
  <2> HIDE DEF pic
  <2>11. BurstInv'
    BY <2>1, <2>6, <2>7, <2>8, <2>9, <2>10 DEF BurstInv
  <2>12. QED
    BY <2>1, <2>5, <2>11 DEF FilesInv
<1>3. QED
  BY <1>1, <1>2

\* The head and the tail of a list.
LEMMA HeadTail ==
  ASSUME NEW S, NEW q \in Seq(S), q # <<>>
  PROVE  Tail(q) \in Seq(S) /\ Head(q) \in S
OBVIOUS

\* The application hands over a descriptor.
LEMMA SetFdStep == FilesInv /\ setFd => FilesInv'
<1> SUFFICES ASSUME FilesInv, setFd PROVE FilesInv'
  OBVIOUS
<1> USE NotifierAssumption
<1>1. /\ nAsk # <<>> /\ nAsk' = Tail(nAsk) /\ nPc' = FdSignalled /\ nAsk \in Seq(Nat)
      /\ UNCHANGED <<nApi, nSingle, nList, nNode, nTries, nCount, nRefused, nFiles, nNext>>
      /\ nRing \in [0 .. Burst - 1 -> Nat] /\ nFd \in Nat
  BY DEF setFd, FilesInv, NotifierType
<1>2. Tail(nAsk) \in Seq(Nat) /\ Head(nAsk) \in Nat
  BY <1>1, HeadTail
<1>3. nPc' \in Saving <=> nPc \in Saving
  BY <1>1 DEF FdSignalled, Saving
<1>4. CASE nSingle
  <2>1. nFd' = Head(nAsk) /\ UNCHANGED <<nRing, nIndex>>
    BY <1>4 DEF setFd
  <2>2. /\ nNode # <<>> /\ nAsk = <<nNode[1].name>> /\ nFd = 0 /\ ~nRefused /\ nPc # "release" /\ nPc # "fdtake"
    BY <1>1, <1>4 DEF FilesInv, SingleInv
  <2>3. Head(nAsk) = nNode[1].name /\ Tail(nAsk) = <<>>
    BY <2>2
  <2>4. NotifierType' /\ RightFile'
    BY <1>1, <1>2, <1>3, <2>1 DEF FilesInv, NotifierType, RightFile
  <2>5. SingleInv'
    BY <1>1, <1>4, <2>1, <2>2, <2>3 DEF FilesInv, SingleInv, FdSignalled
  <2>6. QED
    BY <1>1, <1>4, <2>4, <2>5 DEF FilesInv
<1>5. CASE ~nSingle
  <2> DEFINE m == Taken(nCount)
  <2>1. /\ nRing' = [nRing EXCEPT ![nIndex] = Head(nAsk)] /\ nIndex' = (nIndex + 1) % Burst /\ nFd' = nFd
    BY <1>5 DEF setFd
  <2>2. /\ BurstOk(m, nList, nAsk, nRing, nIndex, nNode # <<>>, nNode[1], nPc = "release")
        /\ nFd = 0 /\ (nNode # <<>> => ~nRefused)
    BY <1>5 DEF FilesInv, BurstInv
  <2>3. m \in 1 .. Burst /\ nList \in Seq(Picture)
    BY DEF FilesInv, NotifierType, Taken
  <2> HIDE DEF m
  <2>4. nIndex \in 0 .. Burst - 1 /\ Len(Tail(nAsk)) <= Len(nList)
    BY <1>1, <2>2, <2>3, BurstIndex, Zenon
  <2>5. nIndex' = IF nIndex + 1 = Burst THEN 0 ELSE nIndex + 1
    BY <2>1, <2>4, ModStep
  <2>6. (nPc' = "release") = (nPc = "release")
    BY <1>1 DEF FdSignalled
  <2>7. NotifierType' /\ RightFile'
    BY <1>1, <1>2, <1>3, <2>1, <2>4 DEF FilesInv, NotifierType, RightFile
  <2>8. BurstOk(m, nList', nAsk', nRing', nIndex', nNode' # <<>>, nNode'[1], nPc' = "release")
    <3>1. (nNode # <<>>) \in BOOLEAN /\ (nPc = "release") \in BOOLEAN
      OBVIOUS
    <3>2. BurstOk(m, nList, nAsk', nRing', nIndex', nNode # <<>>, nNode[1], nPc = "release")
      BY <1>1, <2>1, <2>2, <2>3, <2>5, <3>1, BurstOpen, Zenon
    <3>3. QED
      BY <1>1, <2>6, <3>2, Zenon
  <2>9. Taken(nCount') = m
    BY <1>1 DEF m
  <2>10. BurstInv'
    BY <1>1, <2>1, <2>2, <2>4, <2>8, <2>9 DEF BurstInv
  <2>11. QED
    BY <1>1, <1>5, <2>7, <2>10 DEF FilesInv
<1>6. QED
  BY <1>4, <1>5

\* A refused descriptor, the start of the clean-up and a time-out.
LEMMA RefuseStep == FilesInv /\ (RefuseFd \/ CleanupStop \/ SaveTimeout) => FilesInv'
<1>1. ASSUME FilesInv, RefuseFd PROVE FilesInv'
  <2>1. /\ nSingle /\ nAsk # <<>> /\ nAsk' = <<>> /\ nRefused' = TRUE
        /\ UNCHANGED <<nApi, nPc, nSingle, nList, nNode, nTries, nFd, nRing, nIndex, nCount, nFiles, nNext>>
    BY <1>1 DEF RefuseFd
  <2>2. NotifierType' /\ RightFile'
    BY <1>1, <2>1 DEF FilesInv, NotifierType, RightFile
  <2>3. SingleInv'
    BY <1>1, <2>1 DEF FilesInv, SingleInv
  <2>4. QED
    BY <2>1, <2>2, <2>3 DEF FilesInv
<1>2. ASSUME FilesInv, CleanupStop PROVE FilesInv'
  <2>1. /\ nList = <<>> /\ nAsk = <<>> /\ (nNode = <<>> \/ nRefused)
        /\ UNCHANGED <<nSingle, nList, nNode, nTries, nFd, nRing, nIndex, nCount, nAsk, nRefused, nFiles, nNext>>
        /\ nPc' = IF nPc = "waiting" THEN "top" ELSE FdSignalled
    BY <1>2 DEF CleanupStop
  <2>2. CASE nPc # "fdwait"
    BY <1>2, <2>1, <2>2, FilesKept DEF FdSignalled, Saving, FilesInv, NotifierType
  <2>3. CASE nPc = "fdwait"
    <3>1. nPc' = "fdtake" /\ nNode # <<>> /\ nRefused
      BY <1>2, <2>1, <2>3 DEF FdSignalled, Saving, FilesInv, NotifierType
    <3>2. nSingle
      BY <1>2, <3>1 DEF FilesInv, BurstInv, NotifierType
    <3>3. NotifierType' /\ RightFile'
      BY <1>2, <2>1, <2>3, <3>1 DEF FilesInv, NotifierType, RightFile, Saving
    <3>4. SingleInv'
      BY <1>2, <2>1, <3>1, <3>2 DEF FilesInv, SingleInv
    <3>5. QED
      BY <2>1, <3>2, <3>3, <3>4 DEF FilesInv
  <2>4. QED
    BY <2>2, <2>3
<1>3. ASSUME FilesInv, SaveTimeout PROVE FilesInv'
  <2>1. /\ nPc = "fdwait" /\ nRefused /\ nPc' = (IF nStatus = "EXIT" THEN "signal" ELSE "fd")
        /\ nNode' = (IF nStatus = "EXIT" THEN <<>> ELSE nNode)
        /\ UNCHANGED <<nApi, nSingle, nList, nTries, nFd, nRing, nIndex, nCount, nAsk, nRefused, nFiles, nNext>>
    BY <1>3 DEF SaveTimeout, Leave
  <2>2. nNode # <<>> /\ nSingle
    BY <1>3, <2>1 DEF FilesInv, NotifierType, BurstInv, Saving
  <2>3. NotifierType' /\ RightFile'
    BY <1>3, <2>1, <2>2 DEF FilesInv, NotifierType, RightFile, Saving
  <2>4. SingleInv'
    BY <1>3, <2>1, <2>2 DEF FilesInv, SingleInv
  <2>5. QED
    BY <2>1, <2>2, <2>3, <2>4 DEF FilesInv
<1>4. QED
  BY <1>1, <1>2, <1>3

\* The save thread takes the next picture of the list.
LEMMA PopStep == FilesInv /\ SavePop => FilesInv'
<1> SUFFICES ASSUME FilesInv, SavePop PROVE FilesInv'
  OBVIOUS
<1> USE NotifierAssumption
<1>1. /\ nPc = "pop" /\ nList # <<>> /\ nNode' = <<Head(nList)>> /\ nList' = Tail(nList) /\ nTries' = WaitCount
      /\ nAsk' = (IF nSingle THEN Append(nAsk, Head(nList).name) ELSE nAsk)
      /\ nRefused' = FALSE /\ nPc' = "fd" /\ nList \in Seq(Picture) /\ nAsk \in Seq(Nat)
      /\ UNCHANGED <<nApi, nSingle, nFd, nRing, nIndex, nCount, nFiles, nNext>>
  BY DEF SavePop, FilesInv, NotifierType
<1>2. Tail(nList) \in Seq(Picture) /\ Head(nList) \in Picture
  BY <1>1, HeadTail
<1>3. nNode = <<>> /\ nApi = "on"
  BY <1>1 DEF FilesInv, NotifierType, Saving
<1>4. nNode' # <<>> /\ nNode'[1] = Head(nList)
  BY <1>1
<1>5. NotifierType' /\ RightFile'
  <2>1. nAsk' \in Seq(Nat)
    <3>1. Head(nList).name \in Nat
      BY <1>2 DEF Picture
    <3>2. QED
      BY <1>1, <3>1, InAppend
  <2>2. \E p \in Picture : nNode' = <<p>>
    BY <1>1, <1>2
  <2>3. nPc' \in Saving /\ nTries' \in Int
    BY <1>1 DEF Saving
  <2>4. QED
    BY <1>1, <1>2, <1>3, <1>4, <2>1, <2>2, <2>3 DEF FilesInv, NotifierType, RightFile
<1>6. CASE nSingle
  <2>1. nAsk = <<>> /\ nFd = 0
    BY <1>3, <1>6 DEF FilesInv, SingleInv
  <2>2. nAsk' = <<nNode'[1].name>>
    BY <1>1, <1>4, <1>6, <2>1
  <2>3. SingleInv'
    BY <1>1, <1>4, <1>6, <2>1, <2>2 DEF FilesInv, SingleInv
  <2>4. QED
    BY <1>1, <1>5, <1>6, <2>3 DEF FilesInv
<1>7. CASE ~nSingle
  <2> DEFINE m == Taken(nCount)
  <2>1. m \in 1 .. Burst
    BY DEF FilesInv, NotifierType, Taken
  <2>2. nFd = 0 /\ BurstOk(m, nList, nAsk, nRing, nIndex, nNode # <<>>, nNode[1], nPc = "release")
    BY <1>7 DEF FilesInv, BurstInv
  <2>3. (nNode # <<>>) = FALSE /\ (nPc = "release") = FALSE /\ (nNode' # <<>>) = TRUE /\ (nPc' = "release") = FALSE
    BY <1>1, <1>3, <1>4
  <2> HIDE DEF m
  <2>4. BurstOk(m, nList, nAsk, nRing, nIndex, FALSE, nNode[1], FALSE)
    BY <2>2, <2>3
  <2>5. BurstOk(m, Tail(nList), nAsk, nRing, nIndex, TRUE, Head(nList), FALSE)
    BY <1>1, <2>1, <2>4, BurstPop, Zenon
  <2>6. BurstOk(m, nList', nAsk', nRing', nIndex', nNode' # <<>>, nNode'[1], nPc' = "release")
    BY <1>1, <1>4, <1>7, <2>3, <2>5
  <2>7. Taken(nCount') = m
    BY <1>1 DEF m
  <2>8. BurstInv'
    BY <1>1, <2>2, <2>6, <2>7 DEF BurstInv
  <2>9. QED
    BY <1>1, <1>5, <1>7, <2>8 DEF FilesInv
<1>8. QED
  BY <1>6, <1>7

\* The thread's picture and its place in the burst.
LEMMA HeldPicture ==
  ASSUME FilesInv, ~nSingle, nPc \in Saving \ {"release"}
  PROVE  /\ nNode # <<>> /\ Taken(nCount) \in 1 .. Burst
         /\ BurstOk(Taken(nCount), nList, nAsk, nRing, nIndex, TRUE, nNode[1], FALSE)
         /\ nNode[1].id \in 0 .. Burst - 1
         /\ nRing[nNode[1].id] > 0 => Len(nAsk) <= Len(nList)
<1> USE NotifierAssumption
<1> DEFINE m == Taken(nCount)
<1>1. nNode # <<>> /\ m \in 1 .. Burst /\ nList \in Seq(Picture) /\ nAsk \in Seq(Nat)
  BY DEF FilesInv, NotifierType, Taken
<1>2. (nNode # <<>>) = TRUE /\ (nPc = "release") = FALSE
  BY <1>1 DEF Saving
<1>3. BurstOk(m, nList, nAsk, nRing, nIndex, TRUE, nNode[1], FALSE)
  BY <1>2 DEF FilesInv, BurstInv
<1> HIDE DEF m
<1>4. /\ Len(nList) \in Nat /\ Len(nAsk) \in Nat /\ Len(nList) < m /\ nNode[1].id = m - Len(nList) - 1
  BY <1>1, <1>3 DEF BurstOk, BurstCounts, InPlace
<1>5. nNode[1].id \in 0 .. Burst - 1
  BY <1>1, <1>4
<1>6. nRing[nNode[1].id] = RingEntry(nNode[1].id, m, nList, nAsk, TRUE, nNode[1], FALSE)
  BY <1>3, <1>5 DEF BurstOk, RingFollows
<1>7. ~(nNode[1].id >= m - Len(nList))
  BY <1>1, <1>4
<1>8. ~(nNode[1].id < m - Len(nAsk)) => nRing[nNode[1].id] = 0
  BY <1>6, <1>7, Zenon DEF RingEntry
<1>9. nNode[1].id < m - Len(nAsk) => Len(nAsk) <= Len(nList)
  BY <1>1, <1>4
<1>10. nRing[nNode[1].id] > 0 => Len(nAsk) <= Len(nList)
  BY <1>8, <1>9
<1>11. QED
  BY <1>1, <1>3, <1>5, <1>10, Zenon DEF m

\* The save thread takes the descriptor.
LEMMA WaitFdStep == FilesInv /\ SaveWaitFd => FilesInv'
<1> SUFFICES ASSUME FilesInv, SaveWaitFd PROVE FilesInv'
  OBVIOUS
<1> USE NotifierAssumption
<1>1. /\ nPc = "fd" /\ nTries' = nTries - 1 /\ nTries \in Int /\ nSingle \in BOOLEAN
      /\ nPc' = (IF nSingle /\ nTries < 0 THEN "release" ELSE IF Descriptor > 0 THEN "fdtake" ELSE "fdwait")
      /\ UNCHANGED <<nApi, nSingle, nList, nNode, nFd, nRing, nIndex, nCount, nAsk, nRefused, nFiles, nNext>>
      /\ nNode # <<>>
  BY DEF SaveWaitFd, FilesInv, NotifierType, Saving
<1>2. NotifierType' /\ RightFile'
  BY <1>1 DEF FilesInv, NotifierType, RightFile, Saving
<1>3. CASE nSingle
  <2>1. nTries < 0 => nRefused
    BY <1>1, <1>3 DEF FilesInv, SingleInv
  <2>2. Descriptor = nFd
    BY <1>3 DEF Descriptor
  <2>3. SingleInv'
    BY <1>1, <1>3, <2>1, <2>2 DEF FilesInv, SingleInv
  <2>4. QED
    BY <1>1, <1>2, <1>3, <2>3 DEF FilesInv
<1>4. CASE ~nSingle
  <2>1. nPc' = "fdtake" => Len(nAsk) <= Len(nList)
    BY <1>1, <1>4, HeldPicture DEF Descriptor, Saving
  <2>2. (nPc' = "release") = (nPc = "release")
    BY <1>1, <1>4
  <2>3. BurstInv'
    BY <1>1, <1>4, <2>1, <2>2 DEF FilesInv, BurstInv
  <2>4. QED
    BY <1>1, <1>2, <1>4, <2>3 DEF FilesInv
<1>5. QED
  BY <1>1, <1>3, <1>4

\* The save thread writes the file.
LEMMA WriteStep == FilesInv /\ SaveWrite => FilesInv'
<1> SUFFICES ASSUME FilesInv, SaveWrite PROVE FilesInv'
  OBVIOUS
<1> USE NotifierAssumption
<1>1. /\ nPc = "fdtake" /\ nPc' = "release" /\ nNode # <<>> /\ nSingle \in BOOLEAN
      /\ UNCHANGED <<nApi, nSingle, nList, nNode, nTries, nIndex, nCount, nAsk, nRefused, nNext>>
      /\ nRing \in [0 .. Burst - 1 -> Nat] /\ nFd \in Nat
  BY DEF SaveWrite, FilesInv, NotifierType, Saving
<1>2. nFiles' = nFiles \/ (Descriptor > 0 /\ nFiles' = nFiles \cup {<<nNode[1].name, Descriptor>>})
  BY DEF SaveWrite
<1>3. ASSUME Descriptor > 0 => Descriptor = nNode[1].name PROVE RightFile'
  BY <1>2, <1>3 DEF FilesInv, RightFile
<1>4. CASE nSingle
  <2>1. Descriptor = nFd /\ nFd' = 0 /\ nRing' = nRing
    BY <1>4 DEF Descriptor, SaveWrite
  <2>2. nAsk = <<>> /\ (nFd = 0 \/ nFd = nNode[1].name)
    BY <1>1, <1>4 DEF FilesInv, SingleInv
  <2>3. RightFile'
    BY <1>3, <2>1, <2>2
  <2>4. NotifierType'
    BY <1>1, <2>1 DEF FilesInv, NotifierType, Saving
  <2>5. SingleInv'
    BY <1>1, <1>4, <2>1, <2>2 DEF FilesInv, SingleInv
  <2>6. QED
    BY <1>1, <1>4, <2>3, <2>4, <2>5 DEF FilesInv
<1>5. CASE ~nSingle
  <2> DEFINE m == Taken(nCount)
  <2>1. /\ Descriptor = nRing[nNode[1].id] /\ nFd' = nFd
        /\ nRing' = [nRing EXCEPT ![nNode[1].id] = 0]
    BY <1>5 DEF Descriptor, SaveWrite
  <2>2. /\ m \in 1 .. Burst /\ BurstOk(m, nList, nAsk, nRing, nIndex, TRUE, nNode[1], FALSE)
    BY <1>1, <1>5, HeldPicture DEF Saving
  <2>3. nFd = 0 /\ ~nRefused /\ Len(nAsk) <= Len(nList) /\ nList \in Seq(Picture) /\ nAsk \in Seq(Nat)
    BY <1>1, <1>5 DEF FilesInv, BurstInv, NotifierType
  <2> HIDE DEF m
  <2>4. /\ nNode[1].id \in 0 .. Burst - 1 /\ nRing[nNode[1].id] = nNode[1].name
        /\ BurstOk(m, nList, nAsk, [nRing EXCEPT ![nNode[1].id] = 0], nIndex, TRUE, nNode[1], TRUE)
    BY <1>1, <2>2, <2>3, BurstWrite, Zenon
  <2>5. RightFile'
    BY <1>3, <2>1, <2>4
  <2>6. NotifierType'
    BY <1>1, <2>1, <2>4 DEF FilesInv, NotifierType, Saving
  <2>7. (nNode' # <<>>) = TRUE /\ (nPc' = "release") = TRUE /\ Taken(nCount') = m
    BY <1>1 DEF m
  <2>8. BurstOk(m, nList', nAsk', nRing', nIndex', nNode' # <<>>, nNode'[1], nPc' = "release")
    BY <1>1, <2>1, <2>4, <2>7
  <2>9. BurstInv'
    BY <1>1, <2>1, <2>3, <2>7, <2>8 DEF BurstInv
  <2>10. QED
    BY <1>1, <1>5, <2>5, <2>6, <2>9 DEF FilesInv
<1>6. QED
  BY <1>1, <1>4, <1>5

\* The save thread frees the picture.
LEMMA ReleaseStep == FilesInv /\ SaveRelease => FilesInv'
<1> SUFFICES ASSUME FilesInv, SaveRelease PROVE FilesInv'
  OBVIOUS
<1>1. /\ nPc = "release" /\ nNode' = <<>> /\ nRefused' = FALSE /\ nPc' = "top" /\ nNode # <<>> /\ nSingle \in BOOLEAN
      /\ UNCHANGED <<nApi, nSingle, nList, nTries, nFd, nRing, nIndex, nCount, nAsk, nFiles, nNext>>
  BY DEF SaveRelease, FilesInv, NotifierType, Saving
<1>2. NotifierType' /\ RightFile'
  BY <1>1 DEF FilesInv, NotifierType, RightFile, Saving
<1>3. CASE nSingle
  <2>1. SingleInv'
    BY <1>1, <1>3 DEF FilesInv, SingleInv
  <2>2. QED
    BY <1>1, <1>2, <1>3, <2>1 DEF FilesInv
<1>4. CASE ~nSingle
  <2> DEFINE m == Taken(nCount)
  <2>1. (nNode # <<>>) = TRUE /\ (nPc = "release") = TRUE
    BY <1>1
  <2>2. nFd = 0 /\ BurstOk(m, nList, nAsk, nRing, nIndex, TRUE, nNode[1], TRUE)
    BY <1>4, <2>1 DEF FilesInv, BurstInv
  <2> HIDE DEF m
  <2>3. Len(nAsk) <= Len(nList) /\ Len(nAsk) \in Nat /\ Len(nList) \in Nat
    BY <2>2 DEF BurstOk, BurstCounts, FilesInv, NotifierType
  <2>4. \A k \in 1 .. Len(nAsk) : Len(nList) - Len(nAsk) + k # 0
    BY <2>3
  <2>5. BurstOk(m, nList, nAsk, nRing, nIndex, FALSE, nNode'[1], FALSE)
    BY <2>2, <2>4, BurstRelease, Zenon
  <2>6. (nNode' # <<>>) = FALSE /\ (nPc' = "release") = FALSE /\ Taken(nCount') = m
    BY <1>1 DEF m
  <2>7. BurstOk(m, nList', nAsk', nRing', nIndex', nNode' # <<>>, nNode'[1], nPc' = "release")
    BY <1>1, <2>5, <2>6
  <2>8. BurstInv'
    BY <1>1, <2>2, <2>6, <2>7 DEF BurstInv
  <2>9. QED
    BY <1>1, <1>2, <1>4, <2>8 DEF FilesInv
<1>5. QED
  BY <1>1, <1>3, <1>4

\* Every picture goes to the file that was opened for it, for every length of the
\* ring: although the index of mContinuousFd is never reset, the descriptors of a
\* burst reach their pictures however the asking, the answers and the saving
\* interleave, and a descriptor of one picture is never left for the next.
THEOREM FilesSafe == Spec => []RightFile
<1>1. Init => FilesInv
  <2>1. NInit => NotifierType /\ SingleInv /\ nSingle /\ RightFile
    <3> SUFFICES ASSUME NInit PROVE NotifierType /\ SingleInv /\ nSingle /\ RightFile
      OBVIOUS
    <3> USE NotifierAssumption DEF NInit
    <3>1. nCount \in 0 .. Burst - 1 /\ nRing \in [0 .. Burst - 1 -> Nat]
      OBVIOUS
    <3>2. nTries \in Int /\ nList \in Seq(Picture) /\ nAsk \in Seq(Nat) /\ nPc \notin Saving
      BY DEF Saving
    <3>5. NotifierType
      BY <3>1, <3>2 DEF NotifierType
    <3>3. SingleInv
      BY DEF SingleInv
    <3>4. QED
      BY <3>3, <3>5 DEF RightFile
  <2>2. QED
    BY <2>1 DEF Init, FilesInv
<1>2. FilesInv /\ [Next]_vars => FilesInv'
  <2> SUFFICES ASSUME FilesInv, [NNext]_nVars PROVE FilesInv'
    BY OwnSteps
  <2>1. CASE NNext
    BY <2>1, QuietSteps, ModeStep, TakeStep, SetFdStep, RefuseStep, PopStep, WaitFdStep, WriteStep, ReleaseStep DEF NNext
  <2>2. CASE UNCHANGED nVars
    BY <2>2, FilesKept DEF nVars, FilesInv, NotifierType
  <2>3. QED
    BY <2>1, <2>2
<1>3. FilesInv => RightFile
  BY DEF FilesInv
<1>4. QED
  BY <1>1, <1>2, <1>3, PTL DEF Spec

=============================================================================
