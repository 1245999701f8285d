----------------------------- MODULE CameraFocus -----------------------------
(***************************************************************************)
(* The focus thread of the camera HAL (CameraHardware2.cpp) between        *)
(* connectCamera, which starts it, and cleanupCamera, which stops it.  The *)
(* thread polls the driver's focus status without any lock; mAutoFocusMutex *)
(* covers the exit handshake and setAutoFocus only.                        *)
(***************************************************************************)
EXTENDS Integers

CONSTANT FocusCalls   \* bound: setAutoFocus calls and sessions

VARIABLES fConn,    \* the device's mCameraFd is open
          fStatus,  \* thread status of mAutoFocusThread
          fPc,      \* program point of the focus thread
          fExit,    \* mAutoFocusThreadExit
          fSingle,  \* mIsSingleFocus
          fFocus,   \* mFocusStatus
          fLock,    \* 3A lock of the driver's focus
          fApi,     \* program point of the camera service's thread
          fWoke,    \* history: cleanupCamera's wait ended without a signal
          fCalls

fVars == <<fConn, fStatus, fPc, fExit, fSingle, fFocus, fLock, fApi, fWoke, fCalls>>

FocusStatuses == {"IDLE", "BUSY", "SUCCESS", "FAIL", "DONE"}

\* mFocusStatus & FOCUS_STATUS_DONE: success and failure carry the done bit.
IsDone(s) == s \in {"SUCCESS", "FAIL", "DONE"}

FInit ==
  /\ fConn = FALSE /\ fStatus = "NULL" /\ fPc = "gone" /\ fExit = TRUE
  /\ fSingle = FALSE /\ fFocus = "IDLE" /\ fLock = FALSE
  /\ fApi = "idle" /\ fWoke = FALSE /\ fCalls = 0

-----------------------------------------------------------------------------
(* autoFocusThread; "gone" is a thread that is not running. *)

\* 30 ms later, under the mutex: leave, or announce that the thread runs.
FocusTop ==
  /\ fPc = "top"
  /\ IF fStatus = "EXIT" THEN fPc' = "exit" /\ UNCHANGED fExit
     ELSE fPc' = "mode" /\ fExit' = FALSE
  /\ UNCHANGED <<fConn, fStatus, fSingle, fFocus, fLock, fApi, fCalls, fWoke>>

FocusMode ==
  /\ fPc = "mode" /\ fPc' = IF fSingle THEN "poll" ELSE "status"
  /\ UNCHANGED <<fConn, fStatus, fExit, fSingle, fFocus, fLock, fApi, fCalls, fWoke>>

\* A focus asked for: poll until the lens has arrived or failed, two seconds
\* have passed, or the driver reports an error; reached locks the focus.
FocusPoll ==
  /\ fPc = "poll"
  /\ \/ fPc' = "poll" /\ UNCHANGED fLock
     \/ fPc' = "answer" /\ \E reached \in {FALSE, fConn} : fLock' = (fLock \/ reached)
  /\ UNCHANGED <<fConn, fStatus, fExit, fSingle, fFocus, fApi, fCalls, fWoke>>

FocusAnswer ==
  /\ fPc = "answer" /\ fSingle' = FALSE /\ fFocus' = "DONE" /\ fPc' = "top"
  /\ UNCHANGED <<fConn, fStatus, fExit, fLock, fApi, fCalls, fWoke>>

\* Continuous focus: one poll of the driver per round.  A closed device makes
\* the thread leave, an unknown value changes nothing.
FocusContinuous ==
  /\ fPc = "status"
  /\ IF ~fConn THEN fPc' = "exit" /\ UNCHANGED fFocus
     ELSE /\ fPc' = "top"
          /\ \/ UNCHANGED fFocus
             \/ fFocus' \in {"IDLE", "BUSY", "SUCCESS", "FAIL"}
  /\ UNCHANGED <<fConn, fStatus, fExit, fSingle, fLock, fApi, fCalls, fWoke>>

FocusExit ==
  /\ fPc = "exit" /\ fExit' = TRUE /\ fPc' = "gone"
  /\ fApi' = IF fApi = "waiting" THEN "sleep" ELSE fApi
  /\ UNCHANGED <<fConn, fStatus, fSingle, fFocus, fLock, fCalls, fWoke>>

-----------------------------------------------------------------------------
(* The camera service's thread. *)

\* connectCamera with focus support.
FocusConnect ==
  /\ fApi = "idle" /\ ~fConn /\ fCalls < FocusCalls
  /\ fConn' = TRUE /\ fStatus' = "RUNNING" /\ fCalls' = fCalls + 1 /\ fWoke' = FALSE
  /\ fPc' = IF fPc = "gone" THEN "top" ELSE fPc
  /\ UNCHANGED <<fExit, fSingle, fFocus, fLock, fApi>>

\* A focus in mode infinity or fixed arms the thread but not the driver.
setAutoFocus ==
  /\ fApi = "idle" /\ fConn /\ fCalls < FocusCalls
  /\ fSingle' = TRUE /\ fCalls' = fCalls + 1
  /\ fLock' \in {fLock, FALSE}
  /\ UNCHANGED <<fConn, fStatus, fPc, fExit, fFocus, fApi, fWoke>>

\* cleanupCamera: stop the thread, then look whether it has left.
FocusStop ==
  /\ fApi = "idle" /\ fConn
  /\ fStatus' = IF fStatus = "RUNNING" THEN "EXIT" ELSE fStatus
  /\ fApi' = "check"
  /\ UNCHANGED <<fConn, fPc, fExit, fSingle, fFocus, fLock, fCalls, fWoke>>

\* Mutant: the close does not wait for the focus thread.
FocusNoWait ==
  /\ fApi = "check" /\ fApi' = "sleep"
  /\ UNCHANGED <<fConn, fStatus, fPc, fExit, fSingle, fFocus, fLock, fCalls, fWoke>>

FocusWait ==
  /\ fApi = "check" /\ fApi' = IF fExit THEN "sleep" ELSE "waiting"
  /\ UNCHANGED <<fConn, fStatus, fPc, fExit, fSingle, fFocus, fLock, fCalls, fWoke>>

\* The wait is a single if: it may end without a signal.
FocusSpurious ==
  /\ fApi = "waiting" /\ fApi' = "sleep" /\ fWoke' = TRUE
  /\ UNCHANGED <<fConn, fStatus, fPc, fExit, fSingle, fFocus, fLock, fCalls>>

\* usleep(100000), which outlasts the usleep(30000) and the last few
\* instructions of a thread that was leaving when the sleep began; then the
\* device is stopped and disconnected.
FocusDisconnect ==
  /\ fApi = "sleep" /\ (fPc \notin {"top", "exit"} \/ fWoke)
  /\ fConn' = FALSE /\ fApi' = "idle"
  /\ UNCHANGED <<fStatus, fPc, fExit, fSingle, fFocus, fLock, fCalls, fWoke>>

FNext ==
  \/ FocusTop \/ FocusMode \/ FocusPoll \/ FocusAnswer \/ FocusContinuous \/ FocusExit
  \/ FocusConnect \/ setAutoFocus \/ FocusStop \/ FocusWait
  \/ FocusSpurious \/ FocusDisconnect

=============================================================================
