-------------------------- MODULE CallbackNotifier --------------------------
(***************************************************************************)
(* Saving pictures to files (CallbackNotifier.cpp, BufferListManager.cpp): *)
(* takePicture pushes an encoded picture on a list and signals; the save   *)
(* thread pops it, asks the application for a file descriptor, waits for   *)
(* setFd and writes.  In single mode the application is asked per picture  *)
(* and answers through mFd; in fast continuous mode it opens one file per  *)
(* picture of the burst, and the descriptors travel through the ring       *)
(* mContinuousFd, whose index is never reset.                              *)
(*                                                                         *)
(* A picture and the file the application opens for it carry one number.   *)
(* The application takes a burst to its end, starts the next burst,        *)
(* changes the mode and closes the camera when the pictures are saved, and *)
(* answers in time what it answers.                                        *)
(***************************************************************************)
EXTENDS Integers, Sequences

CONSTANTS Burst,      \* pictures of a burst, length of mContinuousFd
          WaitCount,  \* wait_cnt of savePictureThread
          Pictures    \* bound: pictures taken

ASSUME NotifierAssumption == Burst \in Nat \ {0} /\ WaitCount \in Nat

VARIABLES nApi,     \* the camera service: off, on, or inside cleanupCBNotifier
          nStatus,  \* thread status of mSavePictureThread
          nPc,      \* program point of the save thread
          nExited,  \* mSaveThreadExited
          nSingle,  \* mIsSinglePicture
          nList,    \* mBufferList: pictures [name, id]
          nNode,    \* pNode, <<>> or <<picture>>
          nTries,   \* wait_cnt
          nFd,      \* mFd, 0 for none
          nRing,    \* mContinuousFd
          nIndex,   \* mContinuousFdIndex % 10
          nCount,   \* mSavePictureCnt
          nAsk,     \* files the application was asked for and still has to answer
          nRefused, \* the application does not answer for the current picture
          nFiles,   \* history: <<picture, file>> written
          nNext,    \* history: pictures taken
          nWoke,    \* history: cleanupCBNotifier's wait woke without a signal
          nMissed   \* history: its signal fell before the save thread's wait

nVars == <<nApi, nStatus, nPc, nExited, nSingle, nList, nNode, nTries, nFd,
           nRing, nIndex, nCount, nAsk, nRefused, nFiles, nNext,
           nWoke, nMissed>>

NInit ==
  /\ nApi = "off" /\ nStatus = "NULL" /\ nPc = "gone" /\ nExited = FALSE
  /\ nSingle = TRUE /\ nList = <<>> /\ nNode = <<>> /\ nTries = WaitCount
  /\ nFd = 0 /\ nRing = [i \in 0 .. Burst - 1 |-> 0] /\ nIndex = 0 /\ nCount = 0
  /\ nAsk = <<>> /\ nRefused = FALSE /\ nFiles = {} /\ nNext = 0
  /\ nWoke = FALSE /\ nMissed = FALSE

-----------------------------------------------------------------------------
(* The camera service's thread. *)

setCallbacks ==
  /\ nApi = "off" /\ nPc = "gone" /\ nNext < Pictures
  /\ nApi' = "on" /\ nExited' = FALSE /\ nStatus' = "RUNNING" /\ nPc' = "top"
  /\ nWoke' = FALSE /\ nMissed' = FALSE
  /\ UNCHANGED <<nSingle, nList, nNode, nTries, nFd, nRing, nIndex, nCount,
                 nAsk, nRefused, nFiles, nNext>>

setPictureMode ==
  /\ nApi = "on" /\ nList = <<>> /\ nNode = <<>> /\ nAsk = <<>> /\ nCount = 0
  /\ nSingle' = ~nSingle
  /\ UNCHANGED <<nApi, nStatus, nPc, nExited, nList, nNode, nTries, nFd, nRing,
                 nIndex, nCount, nAsk, nRefused, nFiles, nNext, nWoke, nMissed>>

\* pthread_cond_signal(&mSavePictureCond), pthread_cond_signal(&mPictureFdCond)
\* as the save thread sees them.
SaveSignalled == IF nPc = "waiting" THEN "top" ELSE nPc
FdSignalled == IF nPc = "fdwait" THEN "fdtake" ELSE nPc

\* takePicture of the notifier: the list is pushed and the thread signalled
\* without mSavePictureMutex.
TakeSingle ==
  /\ nApi = "on" /\ nSingle /\ nNext < Pictures /\ nNext' = nNext + 1
  /\ nList' = Append(nList, [name |-> nNext + 1, id |-> -1])
  /\ nPc' = SaveSignalled
  /\ UNCHANGED <<nApi, nStatus, nExited, nSingle, nNode, nTries, nFd, nRing,
                 nIndex, nCount, nAsk, nRefused, nFiles, nWoke, nMissed>>

\* No memory for the picture, or the JPEG encoder fails.
TakeFailed ==
  /\ nApi = "on" /\ nNext < Pictures /\ nNext' = nNext + 1
  /\ UNCHANGED <<nApi, nStatus, nPc, nExited, nSingle, nList, nNode, nTries,
                 nFd, nRing, nIndex, nCount, nAsk, nRefused, nFiles, nWoke,
                 nMissed>>

\* A picture of a burst; the count the application is told makes it open the
\* file of the picture.
TakeContinuous ==
  /\ nApi = "on" /\ ~nSingle
  /\ nCount > 0 \/ (nNext < Pictures /\ nList = <<>> /\ nNode = <<>> /\ nAsk = <<>>)
  /\ nNext' = nNext + 1 /\ nCount' = (nCount + 1) % Burst
  /\ nList' = Append(nList, [name |-> nNext + 1, id |-> nCount])
  /\ nAsk' = Append(nAsk, nNext + 1)
  /\ nPc' = SaveSignalled
  /\ UNCHANGED <<nApi, nStatus, nExited, nSingle, nNode, nTries, nFd, nRing,
                 nIndex, nRefused, nFiles, nWoke, nMissed>>

\* setFd.
setFd ==
  /\ nApi = "on" /\ nAsk # <<>> /\ nAsk' = Tail(nAsk)
  /\ IF nSingle THEN nFd' = Head(nAsk) /\ UNCHANGED <<nRing, nIndex>>
     ELSE /\ nRing' = [nRing EXCEPT ![nIndex] = Head(nAsk)]
          /\ nIndex' = (nIndex + 1) % Burst /\ UNCHANGED nFd
  /\ nPc' = FdSignalled
  /\ UNCHANGED <<nApi, nStatus, nExited, nSingle, nList, nNode, nTries, nCount,
                 nRefused, nFiles, nNext, nWoke, nMissed>>

\* The application could not open the file it was asked for.
RefuseFd ==
  /\ nApi = "on" /\ nSingle /\ nAsk # <<>> /\ nAsk' = <<>> /\ nRefused' = TRUE
  /\ UNCHANGED <<nApi, nStatus, nPc, nExited, nSingle, nList, nNode, nTries,
                 nFd, nRing, nIndex, nCount, nFiles, nNext, nWoke, nMissed>>

\* cleanupCBNotifier: stop the thread, signal both conditions, without the
\* mutex: a save thread between its test of the status and its wait misses it.
CleanupStop ==
  /\ nApi = "on" /\ nAsk = <<>> /\ nList = <<>> /\ nCount = 0
  /\ nNode = <<>> \/ nRefused
  /\ nApi' = "check" /\ nStatus' = "EXIT"
  /\ nPc' = IF nPc = "waiting" THEN "top" ELSE FdSignalled
  /\ nMissed' = (nPc = "doze")
  /\ UNCHANGED <<nExited, nSingle, nList, nNode, nTries, nFd, nRing, nIndex,
                 nCount, nAsk, nRefused, nFiles, nNext, nWoke>>

\* Mutant: the cleanup does not wait for the thread.
CleanupNoWait ==
  /\ nApi = "check" /\ nApi' = "destroy"
  /\ UNCHANGED <<nStatus, nPc, nExited, nSingle, nList, nNode, nTries, nFd,
                 nRing, nIndex, nCount, nAsk, nRefused, nFiles, nNext, nWoke,
                 nMissed>>

\* The save thread holds mSavePictureMutex from its tests to its wait.
CleanupCheck ==
  /\ nApi = "check" /\ nPc # "doze"
  /\ nApi' = IF nExited THEN "destroy" ELSE "waiting"
  /\ UNCHANGED <<nStatus, nPc, nExited, nSingle, nList, nNode, nTries, nFd,
                 nRing, nIndex, nCount, nAsk, nRefused, nFiles, nNext, nWoke,
                 nMissed>>

\* The wait of the cleanup, an if and not a loop, may end without a signal.
CleanupSpurious ==
  /\ nApi = "waiting" /\ nApi' = "destroy" /\ nWoke' = TRUE
  /\ UNCHANGED <<nStatus, nPc, nExited, nSingle, nList, nNode, nTries, nFd, nRing,
                 nIndex, nCount, nAsk, nRefused, nFiles, nNext, nMissed>>

\* Destroy the thread object and the list with what is left in it.
CleanupDestroy ==
  /\ nApi = "destroy" /\ nApi' = "off" /\ nList' = <<>>
  /\ UNCHANGED <<nStatus, nPc, nExited, nSingle, nNode, nTries, nFd, nRing,
                 nIndex, nCount, nAsk, nRefused, nFiles, nNext, nWoke, nMissed>>

-----------------------------------------------------------------------------
(* savePictureThread. *)

\* Leave: mSaveThreadExited under the mutex, the signal after it.
Leave == nExited' = TRUE /\ nPc' = "signal"

SaveTop ==
  /\ nPc = "top"
  /\ IF nStatus = "EXIT" /\ (nSingle \/ nList = <<>>) THEN Leave
     ELSE nPc' = (IF nList = <<>> THEN "doze" ELSE "pop") /\ UNCHANGED nExited
  /\ UNCHANGED <<nApi, nStatus, nSingle, nList, nNode, nTries, nFd, nRing,
                 nIndex, nCount, nAsk, nRefused, nFiles, nNext, nWoke, nMissed>>

SaveSleep ==
  /\ nPc = "doze" /\ nPc' = "waiting"
  /\ UNCHANGED <<nApi, nStatus, nExited, nSingle, nList, nNode, nTries, nFd,
                 nRing, nIndex, nCount, nAsk, nRefused, nFiles, nNext, nWoke,
                 nMissed>>

\* So may that of the save thread, which then tests again.
SaveSpurious ==
  /\ nPc = "waiting" /\ nPc' = "top"
  /\ UNCHANGED <<nApi, nStatus, nExited, nSingle, nList, nNode, nTries, nFd, nRing,
                 nIndex, nCount, nAsk, nRefused, nFiles, nNext, nWoke, nMissed>>

\* pop; in single mode CAMERA_MSG_SNAP_FD asks for the picture's file.
SavePop ==
  /\ nPc = "pop" /\ nList # <<>>
  /\ nNode' = <<Head(nList)>> /\ nList' = Tail(nList) /\ nTries' = WaitCount
  /\ nAsk' = IF nSingle THEN Append(nAsk, Head(nList).name) ELSE nAsk
  /\ nRefused' = FALSE /\ nPc' = "fd"
  /\ UNCHANGED <<nApi, nStatus, nExited, nSingle, nFd, nRing, nIndex, nCount,
                 nFiles, nNext, nWoke, nMissed>>

Descriptor == IF nSingle THEN nFd ELSE nRing[nNode[1].id]

\* One round of the wait: wait_cnt is counted down before it is known whether
\* the round succeeds.
SaveWaitFd ==
  /\ nPc = "fd"
  /\ nTries' = nTries - 1
  /\ nPc' = IF nSingle /\ nTries < 0 THEN "release"
            ELSE IF Descriptor > 0 THEN "fdtake" ELSE "fdwait"
  /\ UNCHANGED <<nApi, nStatus, nExited, nSingle, nList, nNode, nFd, nRing,
                 nIndex, nCount, nAsk, nRefused, nFiles, nNext, nWoke, nMissed>>

\* pthread_cond_timedwait times out: the thread may leave here, its picture
\* neither saved nor freed, or tries again.
SaveTimeout ==
  /\ nPc = "fdwait" /\ nRefused
  /\ IF nStatus = "EXIT" THEN Leave ELSE nPc' = "fd" /\ UNCHANGED nExited
  /\ nNode' = IF nStatus = "EXIT" THEN <<>> ELSE nNode
  /\ UNCHANGED <<nApi, nStatus, nSingle, nList, nTries, nFd, nRing, nIndex,
                 nCount, nAsk, nRefused, nFiles, nNext, nWoke, nMissed>>

\* Mutant: mFd keeps the descriptor that was used.
TakeFdKept ==
  /\ nPc = "fdtake"
  /\ nFiles' = IF Descriptor > 0 THEN nFiles \cup {<<nNode[1].name, Descriptor>>} ELSE nFiles
  /\ nPc' = "release"
  /\ UNCHANGED <<nApi, nStatus, nExited, nSingle, nList, nNode, nTries, nFd,
                 nRing, nIndex, nCount, nAsk, nRefused, nNext, nWoke, nMissed>>

\* Take the descriptor and clear its place; write, if there is one and, in
\* single mode, the tries are not used up; close it.
SaveWrite ==
  /\ nPc = "fdtake"
  /\ IF nSingle THEN nFd' = 0 /\ UNCHANGED nRing
     ELSE nRing' = [nRing EXCEPT ![nNode[1].id] = 0] /\ UNCHANGED nFd
  /\ nFiles' = IF Descriptor > 0 /\ (nSingle => nTries >= 0)
               THEN nFiles \cup {<<nNode[1].name, Descriptor>>} ELSE nFiles
  /\ nPc' = "release"
  /\ UNCHANGED <<nApi, nStatus, nExited, nSingle, nList, nNode, nTries, nIndex,
                 nCount, nAsk, nRefused, nNext, nWoke, nMissed>>

SaveRelease ==
  /\ nPc = "release" /\ nNode' = <<>> /\ nRefused' = FALSE /\ nPc' = "top"
  /\ UNCHANGED <<nApi, nStatus, nExited, nSingle, nList, nTries, nFd, nRing,
                 nIndex, nCount, nAsk, nFiles, nNext, nWoke, nMissed>>

SaveExit ==
  /\ nPc = "signal" /\ nPc' = "gone"
  /\ nApi' = IF nApi = "waiting" THEN "destroy" ELSE nApi
  /\ UNCHANGED <<nStatus, nExited, nSingle, nList, nNode, nTries, nFd, nRing,
                 nIndex, nCount, nAsk, nRefused, nFiles, nNext, nWoke, nMissed>>

NNext ==
  \/ setCallbacks \/ setPictureMode \/ TakeSingle \/ TakeContinuous \/ TakeFailed
  \/ setFd \/ RefuseFd
  \/ CleanupStop \/ CleanupCheck \/ CleanupSpurious \/ CleanupDestroy
  \/ SaveTop \/ SaveSleep \/ SaveSpurious \/ SavePop \/ SaveWaitFd \/ SaveTimeout
  \/ SaveWrite \/ SaveRelease \/ SaveExit

=============================================================================
