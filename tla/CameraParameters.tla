-------------------------- MODULE CameraParameters --------------------------
(***************************************************************************)
(* The image controls of setParameters (CameraHardware2.cpp): the calling  *)
(* thread compares each control with mParameters, stores it and queues a   *)
(* command, whose data lives in the command's one slot of mQueueElement;   *)
(* the command thread hands the value to the driver.  A control stands for *)
(* its class of handling:                                                  *)
(*   effect   an unknown value is skipped (white balance as well)          *)
(*   expo     a value out of range ends the call with -EINVAL              *)
(*   flash    stored even if unknown, queued by every call                 *)
(*   zoom     checked, then given to the driver by the calling thread      *)
(*   focus    checked, queued once, read from mParameters when executed    *)
(***************************************************************************)
EXTENDS Integers, Sequences

CONSTANTS PQueueMax,   \* capacity of mQueueCommand
          PCalls       \* bound: calls of setParameters

VARIABLES pCur,    \* mParameters
          pDev,    \* what the driver was last told
          pSlot,   \* mQueueElement[c].data
          pQueue,  \* mQueueCommand
          pFirst,  \* mFirstSetParameters
          pPc,     \* next control of the running call, "idle" between calls
          pCmd,    \* what the command thread does: a command, its value
          pLost,   \* history: controls whose last command met a full queue, or
                   \* that the first call of a session left out
          pCalls

pVars == <<pCur, pDev, pSlot, pQueue, pFirst, pPc, pCmd, pLost, pCalls>>

Controls == {"effect", "expo", "flash", "zoom", "focus"}
Values == {"default", "other", "bad"}
NextControl == [effect |-> "expo", expo |-> "flash", flash |-> "zoom",
                zoom |-> "focus", focus |-> "end"]

PInit ==
  /\ pCur = [c \in Controls |-> "default"]
  /\ pDev = [c \in Controls |-> "unset"]
  /\ pSlot = [c \in Controls |-> "default"]
  /\ pQueue = <<>> /\ pFirst = TRUE /\ pPc = "closed"
  /\ pCmd = <<>> /\ pLost = {} /\ pCalls = 0

-----------------------------------------------------------------------------
\* Initialize of an opened camera: default parameters, a driver that nobody
\* has told anything.  Commands of the last session may still be queued.
OpenParameters ==
  /\ pPc = "closed" /\ pCalls < PCalls
  /\ pCur' = [c \in Controls |-> "default"]
  /\ pDev' = [c \in Controls |-> "unset"]
  /\ pFirst' = TRUE /\ pPc' = "idle" /\ pLost' = {}
  /\ UNCHANGED <<pSlot, pQueue, pCmd, pCalls>>

CloseParameters ==
  /\ pPc = "idle" /\ pPc' = "closed"
  /\ UNCHANGED <<pCur, pDev, pSlot, pQueue, pFirst, pCmd, pLost, pCalls>>

\* Frame rate, JPEG quality and rotation are checked first.
SetBasics ==
  /\ pPc = "idle" /\ pCalls < PCalls /\ pCalls' = pCalls + 1
  /\ pPc' \in {"idle", "effect"}
  /\ UNCHANGED <<pCur, pDev, pSlot, pQueue, pFirst, pCmd, pLost>>

\* OSAL_Queue of control c's command: a full queue drops it.
QueueControl(c) ==
  IF Len(pQueue) < PQueueMax
  THEN pQueue' = Append(pQueue, c) /\ pLost' = pLost \ {c}
  ELSE pLost' = pLost \cup {c} /\ UNCHANGED pQueue

\* mParameters.set, the slot and the queue.
Store(c, v) ==
  /\ pCur' = [pCur EXCEPT ![c] = v]
  /\ pSlot' = [pSlot EXCEPT ![c] = v]
  /\ QueueControl(c)

Skip == UNCHANGED <<pCur, pSlot, pQueue, pLost>>

Changed(c, v) == pFirst \/ pCur[c] # v

SetEffect(v) ==
  /\ pPc = "effect" /\ pPc' = NextControl.effect
  /\ IF v # "bad" /\ Changed("effect", v) THEN Store("effect", v)
     ELSE /\ pLost' = IF pFirst THEN pLost \cup {"effect"} ELSE pLost
          /\ UNCHANGED <<pCur, pSlot, pQueue>>
  /\ UNCHANGED <<pDev, pFirst, pCmd, pCalls>>

\* Mutant: the value is stored before its range is checked.
ExposureUnchecked(v) ==
  /\ pPc = "expo"
  /\ pCur' = [pCur EXCEPT !["expo"] = v]
  /\ IF v = "bad" THEN pPc' = "idle" /\ UNCHANGED <<pSlot, pQueue, pLost>>
     ELSE /\ pPc' = NextControl.expo
          /\ IF Changed("expo", v)
             THEN pSlot' = [pSlot EXCEPT !["expo"] = v] /\ QueueControl("expo")
             ELSE UNCHANGED <<pSlot, pQueue, pLost>>
  /\ UNCHANGED <<pDev, pFirst, pCmd, pCalls>>

SetExposure(v) ==
  /\ pPc = "expo"
  /\ pPc' = IF v = "bad" THEN "idle" ELSE NextControl.expo
  /\ IF v # "bad" /\ Changed("expo", v) THEN Store("expo", v) ELSE Skip
  /\ UNCHANGED <<pDev, pFirst, pCmd, pCalls>>

SetFlash(v) ==
  /\ pPc = "flash" /\ pPc' = NextControl.flash
  /\ IF v = "bad"
     THEN pCur' = [pCur EXCEPT !["flash"] = v] /\ UNCHANGED <<pSlot, pQueue, pLost>>
     ELSE Store("flash", v)
  /\ UNCHANGED <<pDev, pFirst, pCmd, pCalls>>

SetZoom(v) ==
  /\ pPc = "zoom"
  /\ IF v = "bad" THEN pPc' = "idle" /\ UNCHANGED <<pCur, pDev>>
     ELSE /\ pPc' = NextControl.zoom
          /\ pCur' = [pCur EXCEPT !["zoom"] = v]
          /\ pDev' = [pDev EXCEPT !["zoom"] = v]
  /\ UNCHANGED <<pSlot, pQueue, pFirst, pCmd, pLost, pCalls>>

\* checkFocusArea, checkFocusMode; OSAL_QueueSetElem leaves the queue alone if
\* the command stands at one of its ends.
SetFocusMode(v) ==
  /\ pPc = "focus"
  /\ pPc' = IF v = "bad" THEN "idle" ELSE NextControl.focus
  /\ IF v = "bad" \/ ~Changed("focus", v) THEN Skip
     ELSE /\ pCur' = [pCur EXCEPT !["focus"] = v]
          /\ IF pQueue # <<>> /\ "focus" \in {pQueue[1], pQueue[Len(pQueue)]}
             THEN UNCHANGED <<pQueue, pLost>> ELSE QueueControl("focus")
          /\ UNCHANGED pSlot
  /\ UNCHANGED <<pDev, pFirst, pCmd, pCalls>>

\* The GPS position and the thumbnail size always succeed.
SetEnd ==
  /\ pPc = "end" /\ pPc' = "idle" /\ pFirst' = FALSE
  /\ UNCHANGED <<pCur, pDev, pSlot, pQueue, pCmd, pLost, pCalls>>

-----------------------------------------------------------------------------
(* commandThread: take the slot's address, read its value, call the driver. *)

CommandTake ==
  /\ pCmd = <<>> /\ pQueue # <<>>
  /\ pCmd' = <<Head(pQueue)>> /\ pQueue' = Tail(pQueue)
  /\ UNCHANGED <<pCur, pDev, pSlot, pFirst, pPc, pLost, pCalls>>

CommandRead ==
  /\ Len(pCmd) = 1
  /\ pCmd' = Append(pCmd, IF pCmd[1] = "focus" THEN pCur["focus"] ELSE pSlot[pCmd[1]])
  /\ UNCHANGED <<pCur, pDev, pSlot, pQueue, pFirst, pPc, pLost, pCalls>>

\* A driver that is closed meanwhile refuses the ioctl.
CommandApply ==
  /\ Len(pCmd) = 2 /\ pCmd' = <<>>
  /\ pDev' = IF pPc = "closed" THEN pDev ELSE [pDev EXCEPT ![pCmd[1]] = pCmd[2]]
  /\ UNCHANGED <<pCur, pSlot, pQueue, pFirst, pPc, pLost, pCalls>>

PNext ==
  \/ OpenParameters \/ CloseParameters \/ SetBasics \/ SetEnd
  \/ \E v \in Values :
       SetEffect(v) \/ SetExposure(v) \/ SetFlash(v) \/ SetZoom(v) \/ SetFocusMode(v)
  \/ CommandTake \/ CommandRead \/ CommandApply

=============================================================================
