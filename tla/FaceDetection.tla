---------------------------- MODULE FaceDetection ----------------------------
(***************************************************************************)
(* Smart pictures of the camera HAL (CameraHardware2.cpp): a face callback *)
(* wakes the detection thread, which starts the smile or the blink         *)
(* detector; the detector's callback stores a result, and the smart        *)
(* picture thread of the device takes the picture when it reads a positive *)
(* one.  Four threads meet here; mFaceDetectionMutex covers the enable     *)
(* flags and mFaceDetectionStateMutex single writes of the states.         *)
(* No statement of the source sets FACE_DETECTION_STATE_ERROR, so that the *)
(* test for it in takePicture always passes and is left out.               *)
(***************************************************************************)
EXTENDS Integers

CONSTANT SmartCalls   \* bound: smart pictures asked for

Kinds == {"smile", "blink"}

VARIABLES sFace,    \* the face library is running
          sEnable,  \* the detection enabled: mSmileDetectionEnable, mBlinkDetectionEnable
          sState,   \* mSmileDetectionState, mBlinkDetectionState
          sResult,  \* mSmilePictureResult, mBlinkPictureResult
          sRuns,    \* detectors between their START and STOP
          sStatus,  \* thread status of mFaceDetectionThread
          sThr,     \* program point of the detection thread
          sReq,     \* the smart picture the application waits for
          sPic,     \* program point of the smart picture thread
          sOwn,     \* history: detectors with a result since the last request
          sLate,    \* history: detectors whose stored result came when they were stopped
          sEver,    \* history: detectors started so far
          sCalls

sVars == <<sFace, sEnable, sState, sResult, sRuns, sStatus, sThr, sReq, sPic, sOwn,
           sLate, sEver, sCalls>>

SInit ==
  /\ sFace = FALSE /\ sEnable = "none"
  /\ sState = [k \in Kinds |-> "INITIALIZED"] /\ sResult = [k \in Kinds |-> FALSE]
  /\ sRuns = {} /\ sStatus = "NULL" /\ sThr = "gone"
  /\ sReq = "none" /\ sPic = "idle" /\ sOwn = {} /\ sLate = {}
  /\ sEver = {} /\ sCalls = 0

-----------------------------------------------------------------------------
(* Calls of the camera service. *)

\* CAMERA_CMD_START_FACE_DETECTION; a thread still running is not started twice.
StartFace ==
  /\ ~sFace /\ sFace' = TRUE /\ sStatus' = "RUNNING"
  /\ sThr' = IF sThr = "gone" THEN "top" ELSE sThr
  /\ UNCHANGED <<sEnable, sState, sResult, sRuns, sReq, sPic, sOwn, sLate, sEver, sCalls>>

\* CAMERA_CMD_STOP_FACE_DETECTION.
StopFace ==
  /\ sFace /\ sFace' = FALSE /\ sStatus' = "EXIT"
  /\ sThr' = IF sThr = "waiting" THEN "smile" ELSE sThr
  /\ UNCHANGED <<sEnable, sState, sResult, sRuns, sReq, sPic, sOwn, sLate, sEver, sCalls>>

\* takePicture in mode smile or blink.  The application asks for the next
\* picture when the last one was taken or cancelled.
RequestSmart(k) ==
  /\ sReq = "none" /\ sPic = "idle" /\ sCalls < SmartCalls
  /\ sReq' = k /\ sEnable' = k /\ sOwn' = {} /\ sCalls' = sCalls + 1
  /\ sLate' = {d \in sLate : sState[d] = "PREPARED"}
  /\ UNCHANGED <<sFace, sState, sResult, sRuns, sStatus, sThr, sPic, sEver>>

\* Mutant: the detector is stopped but its state stays as it was.
StopKeepsState(k) ==
  IF sEnable = k
  THEN sEnable' = "none" /\ sRuns' = sRuns \ {k} /\ UNCHANGED sState
  ELSE UNCHANGED <<sEnable, sRuns, sState>>

\* Disable detector k, stop it, then STOPPED; a callback may still come.
StopDetector(k) ==
  IF sEnable = k
  THEN /\ sEnable' = "none" /\ sRuns' = sRuns \ {k}
       /\ sState' = [sState EXCEPT ![k] = "STOPPED"]
  ELSE UNCHANGED <<sEnable, sRuns, sState>>

\* cancelPicture; it has set the picture state to NULL, so that no further
\* frame reaches the smart picture thread.
CancelSmart ==
  /\ sReq # "none" /\ sPic = "idle" /\ sReq' = "none"
  /\ StopDetector(sReq)
  /\ UNCHANGED <<sFace, sResult, sStatus, sThr, sPic, sOwn, sLate, sEver, sCalls>>

-----------------------------------------------------------------------------
(* faceDetectionThread. *)

DetectTop ==
  /\ sThr = "top" /\ sThr' = IF sStatus = "EXIT" THEN "gone" ELSE "sleep"
  /\ UNCHANGED <<sFace, sEnable, sState, sResult, sRuns, sStatus, sReq, sPic, sOwn, sLate, sEver, sCalls>>

\* It waits whether or not there is something to do.
DetectSleep ==
  /\ sThr = "sleep" /\ sThr' = "waiting"
  /\ UNCHANGED <<sFace, sEnable, sState, sResult, sRuns, sStatus, sReq, sPic, sOwn, sLate, sEver, sCalls>>

DetectStart(k, after) ==
  /\ sThr = k /\ sThr' = after
  /\ IF sEnable = k
     THEN /\ sState' = [sState EXCEPT ![k] = "STARTED"]
          /\ sRuns' = sRuns \cup {k} /\ sEver' = sEver \cup {k}
     ELSE UNCHANGED <<sState, sRuns, sEver>>
  /\ UNCHANGED <<sFace, sEnable, sResult, sStatus, sReq, sPic, sOwn, sLate, sCalls>>

-----------------------------------------------------------------------------
(* Callbacks of the detection libraries. *)

\* faceDetection: it signals without the mutex, so only a thread inside its
\* wait is woken; without faces, or with nothing enabled, the results go.
faceDetection(faces) ==
  /\ sFace
  /\ IF faces /\ sEnable # "none"
     THEN /\ sThr' = IF sThr = "waiting" THEN "smile" ELSE sThr
          /\ UNCHANGED <<sState, sResult>>
     ELSE /\ sState' = [k \in Kinds |-> "IDLE"]
          /\ sResult' = [k \in Kinds |-> FALSE]
          /\ UNCHANGED sThr
  /\ UNCHANGED <<sFace, sEnable, sRuns, sStatus, sReq, sPic, sOwn, sLate, sEver, sCalls>>

\* smileDetection, blinkDetection: they test neither the enable flag nor the
\* state, so a result that comes after STOP is stored like any other.
DetectResult(k, found) ==
  /\ k \in sEver
  /\ sResult' = [sResult EXCEPT ![k] = found]
  /\ sState' = [sState EXCEPT ![k] = "PREPARED"]
  /\ IF k \in sRuns THEN sOwn' = sOwn \cup {k} /\ UNCHANGED sLate
                   ELSE sLate' = sLate \cup {k} /\ UNCHANGED sOwn
  /\ UNCHANGED <<sFace, sEnable, sRuns, sStatus, sThr, sReq, sPic, sEver, sCalls>>

-----------------------------------------------------------------------------
(* smartPictureThread of the device, once per frame, and notifyPictureMsg. *)

SmartFrame(k) ==
  /\ sPic = "idle" /\ sReq # "none"
  /\ sResult[k] /\ sState[k] = "PREPARED" /\ sPic' = k
  /\ UNCHANGED <<sFace, sEnable, sState, sResult, sRuns, sStatus, sThr, sReq, sOwn, sLate, sEver, sCalls>>

SmartStop ==
  /\ sPic \in Kinds /\ sPic' = "stop"
  /\ StopDetector("smile")
  /\ UNCHANGED <<sFace, sResult, sStatus, sThr, sReq, sOwn, sLate, sEver, sCalls>>

SmartDone ==
  /\ sPic = "stop" /\ sPic' = "idle" /\ sReq' = "none"
  /\ StopDetector("blink")
  /\ UNCHANGED <<sFace, sResult, sStatus, sThr, sOwn, sLate, sEver, sCalls>>

SNext ==
  \/ StartFace \/ StopFace \/ CancelSmart
  \/ DetectTop \/ DetectSleep
  \/ DetectStart("smile", "blink") \/ DetectStart("blink", "top")
  \/ \E faces \in BOOLEAN : faceDetection(faces)
  \/ \E k \in Kinds :
       \/ RequestSmart(k) \/ SmartFrame(k)
       \/ \E found \in BOOLEAN : DetectResult(k, found)
  \/ SmartStop \/ SmartDone

=============================================================================
