------------------------ MODULE CameraHardwareProofs ------------------------
(***************************************************************************)
(* Proofs about the control side of the camera HAL, for every length of    *)
(* the command queue and every number of calls and device failures.        *)
(***************************************************************************)
EXTENDS CameraHardware, TLAPS

(* The control state of a thread: where it is, how deep in calls, where the *)
(* innermost one returns and where the outermost one returns.              *)

Depth(t) == Len(stack[t])
BackTo(t) == IF stack[t] = <<>> THEN "none" ELSE Head(stack[t])
Base(t) == IF stack[t] = <<>> THEN pc[t] ELSE stack[t][Len(stack[t])]

\* The program points, which are also the return addresses.
Points ==
  {"doStartPreview", "doStopPreview", "stop", "stopDevice", "window", "connect", "start",
   "deliver", "windowOff", "picStop", "picState", "picStart", "picDeliver", "picFailed",
   "recStart", "recOn", "closeStop", "disconnect", "unlock", "idle", "stopPreview", "sizes",
   "signal", "top", "nocommand", "waiting", "doTakePictureEnd", "TAKE_PICTURE", "PICTURE_MSG",
   "STOP_FACE_DETECTE", "STOP_CONTINUOUSSNAP"}
StackType == pc \in [Threads -> Points] /\ stack \in [Threads -> Seq(Points)]

Stays(t) ==
  /\ pc'[t] = pc[t] /\ Depth(t)' = Depth(t) /\ BackTo(t)' = BackTo(t) /\ Base(t)' = Base(t)
Others(t) == \A u \in Threads : u # t => Stays(u)

\* What Goto, Call and Return do to it.
Went(t, l) ==
  /\ pc'[t] = l /\ Depth(t)' = Depth(t) /\ BackTo(t)' = BackTo(t)
  /\ Base(t)' = IF Depth(t) = 0 THEN l ELSE Base(t)
  /\ Others(t)
Called(t, proc, after) ==
  /\ pc'[t] = proc /\ Depth(t)' = Depth(t) + 1 /\ BackTo(t)' = after
  /\ Base(t)' = IF Depth(t) = 0 THEN after ELSE Base(t)
  /\ Others(t)
Returned(t) ==
  /\ pc'[t] = BackTo(t) /\ Depth(t)' = Depth(t) - 1 /\ Base(t)' = Base(t)
  /\ BackTo(t)' = IF Depth(t) = 1 THEN "none" ELSE Base(t)
  /\ Others(t)

\* A thread whose program point and stack do not change stays where it is.
LEMMA StaysRule ==
  ASSUME NEW t \in Threads, pc'[t] = pc[t], stack'[t] = stack[t]
  PROVE  Stays(t)
BY DEF Stays, Depth, BackTo, Base

\* What a jump does to the control state.
LEMMA GotoRule ==
  ASSUME StackType, NEW t \in Threads, NEW l \in Points, Goto(t, l)
  PROVE  StackType' /\ Went(t, l)
<1>1. pc' \in [Threads -> Points] /\ stack' = stack /\ pc'[t] = l
  BY DEF StackType, Goto
<1>2. \A u \in Threads : u # t => pc'[u] = pc[u] /\ stack'[u] = stack[u]
  BY DEF StackType, Goto
<1>3. Others(t)
  BY <1>2, StaysRule DEF Others
<1>4. stack[t] = <<>> <=> Depth(t) = 0
  BY DEF Depth, StackType
<1>5. QED
  BY <1>1, <1>3, <1>4 DEF StackType, Went, Depth, BackTo, Base

\* A return address put in front of a stack.
LEMMA Pushed ==
  ASSUME NEW S, NEW a \in S, NEW s \in Seq(S)
  PROVE  LET n == <<a>> \o s
         IN  /\ n \in Seq(S) /\ Len(n) = Len(s) + 1 /\ n # <<>> /\ Head(n) = a
             /\ n[Len(n)] = IF Len(s) = 0 THEN a ELSE s[Len(s)]
<1> DEFINE n == <<a>> \o s
<1>1. <<a>> \in Seq(S) /\ Len(<<a>>) = 1
  OBVIOUS
<1>2. n \in Seq(S) /\ Len(n) = Len(s) + 1
  BY <1>1
<1>3. n[1] = a
  BY <1>1
<1>4. \A i \in 1..Len(s) : n[i + 1] = s[i]
  BY <1>1
<1> HIDE DEF n
<1>6. n # <<>> /\ Head(n) = a
  BY <1>2, <1>3
<1>7. Len(s) # 0 => n[Len(n)] = s[Len(s)]
  BY <1>2, <1>4
<1>8. QED
  BY <1>2, <1>3, <1>6, <1>7 DEF n

\* What a call does to it.
LEMMA CallRule ==
  ASSUME StackType, NEW t \in Threads, NEW proc \in Points, NEW after \in Points,
         Call(t, proc, after)
  PROVE  StackType' /\ Called(t, proc, after)
<1>1. PICK s \in Seq(Points) : s = stack[t]
  BY DEF StackType
<1> DEFINE n == <<after>> \o s
<1>2. /\ n \in Seq(Points) /\ Len(n) = Len(s) + 1 /\ n # <<>> /\ Head(n) = after
      /\ n[Len(n)] = IF Len(s) = 0 THEN after ELSE s[Len(s)]
  BY Pushed
<1>7. s = <<>> <=> Len(s) = 0
  OBVIOUS
<1>3. pc'[t] = proc /\ stack'[t] = n /\ StackType'
  BY <1>1, <1>2 DEF StackType, Call
<1>4. \A u \in Threads : u # t => pc'[u] = pc[u] /\ stack'[u] = stack[u]
  BY DEF StackType, Call
<1>5. Others(t)
  BY <1>4, StaysRule DEF Others
<1> HIDE DEF n
<1>6. QED
  BY <1>1, <1>2, <1>3, <1>5, <1>7 DEF Called, Depth, BackTo, Base

\* What a return does to it.
LEMMA ReturnRule ==
  ASSUME StackType, NEW t \in Threads, Return(t), Depth(t) \in {1, 2}
  PROVE  StackType' /\ Returned(t)
<1>1. PICK s \in Seq(Points) : s = stack[t]
  BY DEF StackType
<1> DEFINE n == Tail(s)
<1>2. /\ Len(s) \in {1, 2} /\ s # <<>> /\ Head(s) \in Points
  BY <1>1 DEF Depth
<1>3. /\ n \in Seq(Points) /\ Len(n) = Len(s) - 1
      /\ Len(s) = 1 => n = <<>>
      /\ Len(s) = 2 => n # <<>> /\ Head(n) = s[Len(s)] /\ n[Len(n)] = s[Len(s)]
      /\ Head(s) = s[1]
  <2>1. /\ n \in Seq(Points) /\ Len(n) = Len(s) - 1 /\ Head(s) = s[1]
        /\ \A i \in 1..Len(n) : n[i] = s[i + 1]
    BY <1>2
  <2> HIDE DEF n
  <2>2. Len(s) = 1 => n = <<>>
    BY <2>1
  <2>3. ASSUME Len(s) = 2 PROVE n # <<>> /\ Head(n) = s[Len(s)] /\ n[Len(n)] = s[Len(s)]
    <3>1. Len(n) = 1 /\ n[1] = s[2]
      BY <2>1, <2>3
    <3>2. n # <<>> /\ Head(n) = n[1]
      BY <2>1, <3>1
    <3>3. QED
      BY <2>3, <3>1, <3>2
  <2>4. QED
    BY <2>1, <2>2, <2>3
<1>4. pc'[t] = Head(s) /\ stack'[t] = n /\ StackType'
  BY <1>1, <1>2, <1>3 DEF StackType, Return
<1>5. \A u \in Threads : u # t => pc'[u] = pc[u] /\ stack'[u] = stack[u]
  BY DEF StackType, Return
<1>6. Others(t)
  BY <1>5, StaysRule DEF Others
<1> HIDE DEF n
<1>7. QED
  BY <1>1, <1>2, <1>3, <1>4, <1>6 DEF Returned, Depth, BackTo, Base

-----------------------------------------------------------------------------
(* What holds however the application calls: the program points that each   *)
(* procedure is called from, and what a sleeping command thread may have in *)
(* its queue.                                                               *)

StartPoints == {"doStartPreview", "window", "connect", "start", "deliver"}
StartBases(t) == IF t = "api" THEN {"unlock", "recOn"} ELSE {"unlock"}
StopBases(t) == IF t = "api" THEN {"unlock", "recStart", "closeStop"} ELSE {"picStop"}
DeviceBase(t) == IF t = "api" THEN "disconnect" ELSE "picState"
CmdLocked == {"unlock", "picStop", "picState", "picStart", "picDeliver", "picFailed"}
TopPoints(t) ==
  IF t = "api"
  THEN {"idle", "stopPreview", "sizes", "signal", "unlock", "recStart", "recOn", "closeStop",
        "disconnect"}
  ELSE {"TAKE_PICTURE", "PICTURE_MSG", "STOP_FACE_DETECTE", "STOP_CONTINUOUSSNAP", "top",
        "nocommand", "waiting", "doTakePictureEnd"} \cup CmdLocked

ShapeInv(t) ==
  \/ Depth(t) = 0 /\ Base(t) = pc[t] /\ BackTo(t) = "none" /\ pc[t] \in TopPoints(t)
  \/ /\ Depth(t) = 1 /\ BackTo(t) = Base(t)
     /\ \/ pc[t] \in StartPoints /\ Base(t) \in StartBases(t)
        \/ pc[t] = "doStopPreview" /\ Base(t) \in StopBases(t)
        \/ pc[t] = "windowOff" /\ Base(t) \in StartBases(t) \cup StopBases(t)
        \/ pc[t] \in {"stop", "stopDevice"} /\ Base(t) = DeviceBase(t)
  \/ /\ Depth(t) = 2 /\ pc[t] \in {"stop", "stopDevice"}
     /\ \/ BackTo(t) = "window" /\ Base(t) \in StartBases(t)
        \/ BackTo(t) = "windowOff" /\ Base(t) \in StopBases(t)
AllShape == \A t \in Threads : ShapeInv(t)

PictureCommands == {"TAKE_PICTURE", "PICTURE_MSG"}
OnlyUnlocked == \A i \in 1..Len(queue) : queue[i] \in Unlocked
InQueue == \E i \in 1..Len(queue) : queue[i] \in PictureCommands
OneInQueue ==
  \A i, j \in 1..Len(queue) : queue[i] \in PictureCommands /\ queue[j] \in PictureCommands => i = j

QueueInv ==
  /\ queue \in Seq(Commands)
  /\ pc["cmd"] \in {"nocommand", "waiting"} => OnlyUnlocked

(* What holds when the application waits for its pictures, until it closes *)
(* a camera with a picture under way.                                      *)

\* The command thread sleeps and no picture is under way.
Exclusive ==
  /\ pc["cmd"] = "waiting" /\ queue = <<>> /\ ~taken
  /\ picState \in {"NULL", "CONTINUOUS"}

\* Which thread holds mObjectLock; the calls without it run while the command
\* thread sleeps.
LockInv ==
  /\ lock = "cmd" <=> Base("cmd") \in CmdLocked
  /\ lock = "api" <=> Base("api") = "unlock"
  /\ Base("api") \in {"recStart", "recOn", "closeStop", "disconnect"} => Exclusive

\* An idle camera is disconnected, with nothing under way.
IdleInv ==
  /\ idle <=> devState = "DISCONNECTED"
  /\ idle => /\ pc["api"] = "idle" /\ pc["cmd"] \in {"top", "nocommand", "waiting"}
             /\ ~preview /\ queue = <<>> /\ ~taken /\ picState \in {"NULL", "CONTINUOUS"}

\* At most one picture is under way: asked for, in the device, with the picture
\* thread or reported back.
AtPicture == pc["cmd"] \in PictureCommands \/ Base("cmd") \in {"picStop", "picState"}
InDevice == picState \notin {"NULL", "CONTINUOUS"}
OnePicture ==
  /\ OneInQueue
  /\ ~(AtPicture /\ InDevice) /\ ~(AtPicture /\ InQueue) /\ ~(AtPicture /\ taken)
  /\ ~(InDevice /\ InQueue) /\ ~(InDevice /\ taken) /\ ~(InQueue /\ taken)
  /\ pc["cmd"] = "doTakePictureEnd" => ~InDevice

Quiet == preview => isStarted /\ (capture \/ faults > 0)

\* What a thread inside the preview code has established so far.
MovesInv(t) ==
  /\ pc[t] \in {"window", "connect", "start", "picStart"} => devState = "CONNECTED"
  /\ pc[t] \in {"deliver", "picDeliver"} => devState = "STARTED"
  /\ pc[t] \in {"picState", "disconnect"} => devState # "STARTED"
  /\ pc[t] \in {"doStartPreview", "unlock"} => Quiet
  /\ \/ Base(t) \in {"picState", "picStart", "picDeliver", "picFailed", "disconnect"}
     \/ pc[t] \in {"picStop", "recStart", "closeStop"}
     => ~preview
  /\ pc[t] = "picFailed" => faults > 0
  /\ pc[t] \in StartPoints \/ BackTo(t) = "window" => (picState = "NORMAL" => faults > 0)
AllMoves == \A t \in Threads : MovesInv(t)

RestInv ==
  /\ picState = "NORMAL" => ~preview \/ faults > 0
  /\ (\A t \in Threads : ~InPreviewCode(t)) => Quiet

DeviceType ==
  /\ devState \in {"DISCONNECTED", "CONNECTED", "STARTED"} /\ faults \in Nat
  /\ mode \in PictureModes

ControlInv == StackType /\ DeviceType /\ AllShape /\ QueueInv
PictureInv == LockInv /\ IdleInv /\ OnePicture /\ AllMoves /\ RestInv

\* The application waits for its pictures and has closed no camera before one.
Orderly == WaitsForPicture /\ ~overlap
HardwareInv == ControlInv /\ (Orderly => PictureInv)

\* An empty queue holds no picture, and one of unlocked commands neither.
LEMMA EmptyQueue ==
  /\ queue = <<>> => ~InQueue /\ OneInQueue /\ OnlyUnlocked
  /\ OnlyUnlocked => ~InQueue
<1>1. queue = <<>> => 1..Len(queue) = {}
  OBVIOUS
<1>2. QED
  BY <1>1 DEF InQueue, OneInQueue, OnlyUnlocked, Unlocked, PictureCommands

\* A queue that does not change.
LEMMA SameQueue ==
  ASSUME queue' = queue
  PROVE  (InQueue' <=> InQueue) /\ (OneInQueue' <=> OneInQueue) /\ (OnlyUnlocked' <=> OnlyUnlocked)
BY DEF InQueue, OneInQueue, OnlyUnlocked

\* What queueing a command does to the queue.
LEMMA QueuedRule ==
  ASSUME queue \in Seq(Commands), NEW c \in Commands, queue' = Queued(c)
  PROVE  /\ queue' \in Seq(Commands)
         /\ c \in Unlocked /\ OnlyUnlocked => OnlyUnlocked'
         /\ c \notin PictureCommands => (InQueue' => InQueue) /\ (OneInQueue => OneInQueue')
         /\ ~InQueue => OneInQueue'
<1>1. PICK q \in Seq(Commands) : q = queue'
  BY HardwareAssumption DEF Queued
<1>2. \A i \in 1..Len(q) :
         \/ i \in 1..Len(queue) /\ q[i] = queue[i]
         \/ i = Len(queue) + 1 /\ q[i] = c
  BY <1>1, HardwareAssumption DEF Queued
<1>3. QED
  BY <1>1, <1>2 DEF InQueue, OneInQueue, OnlyUnlocked

\* What taking the first command out of it does.
LEMMA TailRule ==
  ASSUME queue \in Seq(Commands), queue # <<>>, queue' = Tail(queue)
  PROVE  /\ queue' \in Seq(Commands) /\ Head(queue) \in Commands
         /\ InQueue' => InQueue
         /\ OneInQueue => OneInQueue'
         /\ Head(queue) \in PictureCommands /\ OneInQueue => InQueue /\ ~InQueue'
<1>1. PICK q \in Seq(Commands) : q = queue'
  OBVIOUS
<1>2. \A i \in 1..Len(q) : i + 1 \in 1..Len(queue) /\ q[i] = queue[i + 1] /\ i + 1 # 1
  BY <1>1
<1>3. 1 \in 1..Len(queue) /\ Head(queue) = queue[1] /\ Head(queue) \in Commands
  OBVIOUS
<1>4. InQueue' => InQueue
  BY <1>1, <1>2 DEF InQueue
<1>5. OneInQueue => OneInQueue'
  BY <1>1, <1>2 DEF OneInQueue
<1>6. Head(queue) \in PictureCommands /\ OneInQueue => InQueue /\ ~InQueue'
  BY <1>1, <1>2, <1>3 DEF OneInQueue, InQueue
<1>7. QED
  BY <1>1, <1>3, <1>4, <1>5, <1>6

\* A signal: thread t goes to l, and a sleeping command thread to its loop.
Wakes(t, l) ==
  /\ pc'[t] = l /\ Depth(t)' = Depth(t) /\ BackTo(t)' = BackTo(t)
  /\ Base(t)' = IF Depth(t) = 0 THEN l ELSE Base(t)
  /\ pc["cmd"] # "waiting" => Stays("cmd")
  /\ pc["cmd"] = "waiting" =>
       /\ pc'["cmd"] = "top" /\ Depth("cmd")' = Depth("cmd") /\ BackTo("cmd")' = BackTo("cmd")
       /\ Base("cmd")' = IF Depth("cmd") = 0 THEN "top" ELSE Base("cmd")

\* What a signal does to the control state.
LEMMA WakesRule ==
  ASSUME StackType, NEW l \in Points, stack' = stack,
         pc' = Woken([pc EXCEPT !["api"] = l])
  PROVE  StackType' /\ Wakes("api", l)
<1>1. /\ pc' \in [Threads -> Points] /\ pc'["api"] = l
      /\ pc'["cmd"] = IF pc["cmd"] = "waiting" THEN "top" ELSE pc["cmd"]
  BY DEF StackType, Woken, Threads, Points
<1>2. \A t \in Threads : stack[t] = <<>> <=> Depth(t) = 0
  BY DEF Depth, StackType
<1>3. Depth("api")' = Depth("api") /\ Depth("cmd")' = Depth("cmd")
  BY DEF Depth
<1>4. QED
  BY <1>1, <1>2, <1>3, StaysRule DEF StackType, Threads, Wakes, BackTo, Base

-----------------------------------------------------------------------------
(* One lemma per action: it keeps the control part of the invariant and,    *)
(* when the application waits for its pictures, the rest.                   *)

USE DEF Threads, HardwareInv, ControlInv, DeviceType, AllShape, ShapeInv, StartPoints, StartBases,
  StopBases, DeviceBase, TopPoints, CmdLocked, isStarted, isConnected, NoFault, PictureInv, LockInv,
  Exclusive, IdleInv, InDevice, AllMoves, MovesInv, RestInv, Quiet, InPreviewCode,
  Orderly

\* stopDeliveringFrames pauses the capture thread.
LEMMA StopDeliveringStep ==
  ASSUME HardwareInv, NEW t \in Threads, StopDelivering(t)
  PROVE  HardwareInv'
<1> USE DEF StopDelivering, winVars, bounds
<1>1. /\ StackType'
      /\ Went(t, "stopDevice")
  BY GotoRule DEF Points
<1>3. ControlInv'
  BY <1>1, SameQueue DEF QueueInv, Fault, PictureModes, parVars, Went, Others, Stays
<1>4. ASSUME Orderly' PROVE PictureInv'
  BY SMTT(30), <1>1, <1>4, SameQueue, EmptyQueue
     DEF OnePicture, AtPicture, PictureCommands, Went, Others, Stays
<1>5. QED
  BY <1>3, <1>4

\* stopDevice returns to the window, its closing, the picture or the disconnect.
LEMMA StopDeviceStep ==
  ASSUME HardwareInv, NEW t \in Threads, StopDevice(t)
  PROVE  HardwareInv'
<1> USE DEF StopDevice, winVars, bounds
<1>1. /\ StackType'
      /\ Returned(t)
  BY ReturnRule DEF Points
<1>3. ControlInv'
  BY <1>1, SameQueue DEF QueueInv, Fault, PictureModes, parVars, Returned, Others, Stays
<1>4. ASSUME Orderly' PROVE PictureInv'
  BY SMTT(30), <1>1, <1>4, SameQueue, EmptyQueue
     DEF OnePicture, AtPicture, PictureCommands, Returned, Others, Stays
<1>5. QED
  BY <1>3, <1>4

\* doStartPreview: nothing to do, stop the device first, or go on.
LEMMA StartCheckStep ==
  ASSUME HardwareInv, NEW t \in Threads, StartPreviewCheck(t)
  PROVE  HardwareInv'
<1> USE DEF StartPreviewCheck, devVars, winVars, bounds
<1>1. /\ StackType'
      /\ \/ isStarted /\ preview /\ Returned(t)
         \/ isStarted /\ ~preview /\ Called(t, "stop", "window")
         \/ ~isStarted /\ Went(t, "window")
  BY SMTT(30), ReturnRule, CallRule, GotoRule DEF Points
<1>3. ControlInv'
  BY <1>1, SameQueue
     DEF QueueInv, Fault, PictureModes, parVars, Went, Called, Returned, Others, Stays
<1>4. ASSUME Orderly' PROVE PictureInv'
  BY SMTT(30), <1>1, <1>4, SameQueue, EmptyQueue
     DEF OnePicture, AtPicture, PictureCommands, Went, Called, Returned, Others, Stays
<1>5. QED
  BY <1>3, <1>4

\* doStartPreview shows the window only over a device that is connected, not started.
LEMMA WindowStep ==
  ASSUME HardwareInv, NEW t \in Threads, StartPreviewWindow(t)
  PROVE  HardwareInv'
<1> USE DEF StartPreviewWindow, devVars, bounds
<1>1. /\ StackType'
      /\ Went(t, "connect")
  BY GotoRule DEF Points
<1>3. ControlInv'
  BY <1>1, SameQueue DEF QueueInv, Fault, PictureModes, parVars, Went, Others, Stays
<1>4. ASSUME Orderly' PROVE PictureInv'
  BY SMTT(30), <1>1, <1>4, SameQueue, EmptyQueue
     DEF OnePicture, AtPicture, PictureCommands, Went, Others, Stays
<1>5. QED
  BY <1>3, <1>4

\* doStartPreview finds the device connected: only an idle camera is disconnected.
LEMMA ConnectStep ==
  ASSUME HardwareInv, NEW t \in Threads, StartPreviewConnect(t)
  PROVE  HardwareInv'
<1> USE DEF StartPreviewConnect, Fault, winVars
<1>1. /\ StackType'
      /\ \/ NoFault /\ Went(t, "start")
         \/ Fault /\ ~isConnected /\ Went(t, "windowOff")
  BY GotoRule DEF Points
<1>3. ControlInv'
  BY <1>1, SameQueue DEF QueueInv, Fault, PictureModes, parVars, Went, Others, Stays
<1>4. ASSUME Orderly' PROVE PictureInv'
  BY SMTT(30), <1>1, <1>4, SameQueue, EmptyQueue
     DEF OnePicture, AtPicture, PictureCommands, Went, Others, Stays
<1>5. QED
  BY <1>3, <1>4

\* doStartPreview starts the device or closes the window again.
LEMMA StartStep ==
  ASSUME HardwareInv, NEW t \in Threads, StartPreviewDevice(t)
  PROVE  HardwareInv'
<1> USE DEF StartPreviewDevice, Start, Fault, winVars
<1>1. /\ StackType'
      /\ \/ devState' = "STARTED" /\ Went(t, "deliver")
         \/ UNCHANGED devState /\ Went(t, "windowOff")
  BY GotoRule DEF Points
<1>3. ControlInv'
  BY <1>1, SameQueue DEF QueueInv, Fault, PictureModes, parVars, Went, Others, Stays
<1>4. ASSUME Orderly' PROVE PictureInv'
  BY SMTT(30), <1>1, <1>4, SameQueue, EmptyQueue
     DEF OnePicture, AtPicture, PictureCommands, Went, Others, Stays
<1>5. QED
  BY <1>3, <1>4

\* startDeliveringFrames ends a preview start: window, device and capture agree.
LEMMA DeliverStep ==
  ASSUME HardwareInv, NEW t \in Threads, StartDelivering(t)
  PROVE  HardwareInv'
<1> USE DEF StartDelivering, winVars, bounds
<1>1. /\ StackType'
      /\ Returned(t)
  BY ReturnRule DEF Points
<1>3. ControlInv'
  BY <1>1, SameQueue DEF QueueInv, Fault, PictureModes, parVars, Returned, Others, Stays
<1>4. ASSUME Orderly' PROVE PictureInv'
  BY SMTT(30), <1>1, <1>4, SameQueue, EmptyQueue
     DEF OnePicture, AtPicture, PictureCommands, Returned, Others, Stays
<1>5. QED
  BY <1>3, <1>4

\* Closing the window ends a preview stop or a failed start.
LEMMA WindowOffStep ==
  ASSUME HardwareInv, NEW t \in Threads, StopWindow(t)
  PROVE  HardwareInv'
<1> USE DEF StopWindow, devVars, bounds
<1>1. /\ StackType'
      /\ Returned(t)
  BY ReturnRule DEF Points
<1>3. ControlInv'
  BY <1>1, SameQueue DEF QueueInv, Fault, PictureModes, parVars, Returned, Others, Stays
<1>4. ASSUME Orderly' PROVE PictureInv'
  BY SMTT(30), <1>1, <1>4, SameQueue, EmptyQueue
     DEF OnePicture, AtPicture, PictureCommands, Returned, Others, Stays
<1>5. QED
  BY <1>3, <1>4

\* doStopPreview: nothing to do, stop the device first, or close the window.
LEMMA StopCheckStep ==
  ASSUME HardwareInv, NEW t \in Threads, StopPreviewCheck(t)
  PROVE  HardwareInv'
<1> USE DEF StopPreviewCheck, devVars, winVars, bounds
<1>1. /\ StackType'
      /\ \/ ~preview /\ Returned(t)
         \/ preview /\ isStarted /\ Called(t, "stop", "windowOff")
         \/ preview /\ ~isStarted /\ Went(t, "windowOff")
  BY SMTT(30), ReturnRule, CallRule, GotoRule DEF Points
<1>3. ControlInv'
  BY <1>1, SameQueue
     DEF QueueInv, Fault, PictureModes, parVars, Went, Called, Returned, Others, Stays
<1>4. ASSUME Orderly' PROVE PictureInv'
  BY SMTT(30), <1>1, <1>4, SameQueue, EmptyQueue
     DEF OnePicture, AtPicture, PictureCommands, Went, Called, Returned, Others, Stays
<1>5. QED
  BY <1>3, <1>4

\* mObjectLock is released where window, device and capture agree.
LEMMA UnlockStep ==
  ASSUME HardwareInv, NEW t \in Threads, Unlock(t)
  PROVE  HardwareInv'
<1> USE DEF Unlock, devVars, winVars, bounds
<1>1. /\ StackType'
      /\ Went(t, IF t = "api" THEN "idle" ELSE "top")
  BY GotoRule DEF Points
<1>3. ControlInv'
  BY <1>1, SameQueue DEF QueueInv, Fault, PictureModes, parVars, Went, Others, Stays
<1>4. ASSUME Orderly' PROVE PictureInv'
  BY SMTT(30), <1>1, <1>4, SameQueue, EmptyQueue
     DEF OnePicture, AtPicture, PictureCommands, Went, Others, Stays
<1>5. QED
  BY <1>3, <1>4

\* The command thread takes a command, or finds none under mCommandMutex.
LEMMA CommandThreadStep ==
  ASSUME HardwareInv, commandThread
  PROVE  HardwareInv'
<1> USE DEF commandThread, QueueInv, Commands, Unlocked, devVars, winVars, bounds
<1>1. /\ StackType'
      /\ \/ queue = <<>> /\ queue' = queue /\ Went("cmd", "nocommand")
         \/ queue # <<>> /\ queue' = Tail(queue) /\ Head(queue) \in Commands
            /\ Went("cmd", Head(queue))
  BY SMTT(30), GotoRule, TailRule DEF Points, QueueInv, Commands, Unlocked
<1>3. ControlInv'
  BY <1>1, TailRule, EmptyQueue, SameQueue
     DEF QueueInv, Fault, PictureModes, parVars, Went, Others, Stays, Commands, Unlocked
<1>4. ASSUME Orderly' PROVE PictureInv'
  BY SMTT(30), <1>1, <1>4, TailRule, EmptyQueue, SameQueue
     DEF OnePicture, AtPicture, PictureCommands, Went, Others, Stays, QueueInv, Commands, Unlocked
<1>5. QED
  BY <1>3, <1>4

\* It sleeps on the queue it has looked at.
LEMMA CommandWaitStep ==
  ASSUME HardwareInv, CommandWait
  PROVE  HardwareInv'
<1> USE DEF CommandWait, devVars, winVars, bounds
<1>1. /\ StackType'
      /\ Went("cmd", "waiting")
  BY GotoRule DEF Points
<1>3. ControlInv'
  BY <1>1, SameQueue DEF QueueInv, Fault, PictureModes, parVars, Went, Others, Stays
<1>4. ASSUME Orderly' PROVE PictureInv'
  BY SMTT(30), <1>1, <1>4, SameQueue, EmptyQueue
     DEF OnePicture, AtPicture, PictureCommands, Went, Others, Stays
<1>5. QED
  BY <1>3, <1>4

\* doTakePicture: the picture of the running preview, or the device taken over.
LEMMA TakeStep ==
  ASSUME HardwareInv, doTakePicture
  PROVE  HardwareInv'
<1> USE DEF doTakePicture, winVars, bounds
<1>1. /\ StackType'
      /\ \/ PictureOfPreview \notin {"NULL", "NORMAL"} /\ Went("cmd", "top")
         \/ PictureOfPreview = "NULL" /\ preview /\ Called("cmd", "doStopPreview", "picStop")
         \/ PictureOfPreview = "NULL" /\ ~preview /\ Went("cmd", "picStop")
  <2>1. PictureOfPreview # "NORMAL"
    BY DEF PictureOfPreview, PictureModes
  <2>2. QED
    BY <2>1, CallRule, GotoRule DEF Points
<1>3. ControlInv'
  BY <1>1, SameQueue DEF QueueInv, Fault, PictureModes, parVars, Went, Called, Others, Stays
<1>4. ASSUME Orderly' PROVE PictureInv'
  BY SMTT(30), <1>1, <1>4, SameQueue, EmptyQueue
     DEF OnePicture, AtPicture, PictureCommands, Went, Called, Others, Stays
<1>5. QED
  BY <1>3, <1>4

\* doTakePicture stops a device that streams without a window.
LEMMA PicStopStep ==
  ASSUME HardwareInv, TakePictureStop
  PROVE  HardwareInv'
<1> USE DEF TakePictureStop, devVars, winVars, bounds
<1>1. /\ StackType'
      /\ \/ isStarted /\ Called("cmd", "stop", "picState")
         \/ ~isStarted /\ Went("cmd", "picState")
  BY SMTT(30), CallRule, GotoRule DEF Points
<1>3. ControlInv'
  BY <1>1, SameQueue DEF QueueInv, Fault, PictureModes, parVars, Went, Called, Others, Stays
<1>4. ASSUME Orderly' PROVE PictureInv'
  BY SMTT(30), <1>1, <1>4, SameQueue, EmptyQueue
     DEF OnePicture, AtPicture, PictureCommands, Went, Called, Others, Stays
<1>5. QED
  BY <1>3, <1>4

\* The picture is handed to the device while the preview is off.
LEMMA PicStateStep ==
  ASSUME HardwareInv, TakePictureState
  PROVE  HardwareInv'
<1> USE DEF TakePictureState, winVars, bounds
<1>1. /\ StackType'
      /\ Went("cmd", "picStart")
  BY GotoRule DEF Points
<1>3. ControlInv'
  BY <1>1, SameQueue DEF QueueInv, Fault, PictureModes, parVars, Went, Others, Stays
<1>4. ASSUME Orderly' PROVE PictureInv'
  BY SMTT(30), <1>1, <1>4, SameQueue, EmptyQueue
     DEF OnePicture, AtPicture, PictureCommands, Went, Others, Stays
<1>5. QED
  BY <1>3, <1>4

\* doTakePicture starts the device in the picture size; only a fault fails it.
LEMMA PicStartStep ==
  ASSUME HardwareInv, TakePictureStart
  PROVE  HardwareInv'
<1> USE DEF TakePictureStart, Start, Fault, winVars
<1>1. /\ StackType'
      /\ \/ devState' = "STARTED" /\ Went("cmd", "picDeliver")
         \/ UNCHANGED devState /\ (isConnected /\ ~isStarted => faults' = faults + 1)
            /\ Went("cmd", "picFailed")
  BY GotoRule DEF Points
<1>3. ControlInv'
  BY <1>1, SameQueue DEF QueueInv, Fault, PictureModes, parVars, Went, Others, Stays
<1>4. ASSUME Orderly' PROVE PictureInv'
  BY SMTT(30), <1>1, <1>4, SameQueue, EmptyQueue
     DEF OnePicture, AtPicture, PictureCommands, Went, Others, Stays
<1>5. QED
  BY <1>3, <1>4

\* The capture thread runs for the picture.
LEMMA PicDeliverStep ==
  ASSUME HardwareInv, TakePictureDeliver
  PROVE  HardwareInv'
<1> USE DEF TakePictureDeliver, winVars, bounds
<1>1. /\ StackType'
      /\ Went("cmd", "unlock")
  BY GotoRule DEF Points
<1>3. ControlInv'
  BY <1>1, SameQueue DEF QueueInv, Fault, PictureModes, parVars, Went, Others, Stays
<1>4. ASSUME Orderly' PROVE PictureInv'
  BY SMTT(30), <1>1, <1>4, SameQueue, EmptyQueue
     DEF OnePicture, AtPicture, PictureCommands, Went, Others, Stays
<1>5. QED
  BY <1>3, <1>4

\* A failed picture restarts the preview it had stopped.
LEMMA PicFailedStep ==
  ASSUME HardwareInv, TakePictureFailed
  PROVE  HardwareInv'
<1> USE DEF TakePictureFailed, devVars, winVars, bounds
<1>1. /\ StackType'
      /\ \/ Called("cmd", "doStartPreview", "unlock")
         \/ Went("cmd", "unlock")
  BY SMTT(30), CallRule, GotoRule DEF Points
<1>3. ControlInv'
  BY <1>1, SameQueue DEF QueueInv, Fault, PictureModes, parVars, Went, Called, Others, Stays
<1>4. ASSUME Orderly' PROVE PictureInv'
  BY SMTT(30), <1>1, <1>4, SameQueue, EmptyQueue
     DEF OnePicture, AtPicture, PictureCommands, Went, Called, Others, Stays
<1>5. QED
  BY <1>3, <1>4

\* The picture is reported to the application.
LEMMA PictureMsgStep ==
  ASSUME HardwareInv, PictureMsg
  PROVE  HardwareInv'
<1> USE DEF PictureMsg, devVars, winVars, bounds
<1>1. /\ StackType'
      /\ Went("cmd", IF ImageCaptureIntent THEN "top" ELSE "doTakePictureEnd")
  BY GotoRule DEF Points
<1>3. ControlInv'
  BY <1>1, SameQueue DEF QueueInv, Fault, PictureModes, parVars, Went, Others, Stays
<1>4. ASSUME Orderly' PROVE PictureInv'
  BY SMTT(30), <1>1, <1>4, SameQueue, EmptyQueue
     DEF OnePicture, AtPicture, PictureCommands, Went, Others, Stays
<1>5. QED
  BY <1>3, <1>4

\* A burst is cancelled.
LEMMA StopSnapStep ==
  ASSUME HardwareInv, StopContinuousSnap
  PROVE  HardwareInv'
<1> USE DEF StopContinuousSnap, winVars, bounds
<1>1. /\ StackType'
      /\ Went("cmd", "doTakePictureEnd")
  BY GotoRule DEF Points
<1>3. ControlInv'
  BY <1>1, SameQueue DEF QueueInv, Fault, PictureModes, parVars, Went, Others, Stays
<1>4. ASSUME Orderly' PROVE PictureInv'
  BY SMTT(30), <1>1, <1>4, SameQueue, EmptyQueue
     DEF OnePicture, AtPicture, PictureCommands, Went, Others, Stays
<1>5. QED
  BY <1>3, <1>4

\* doTakePictureEnd restarts the preview with no picture in the device.
LEMMA EndStep ==
  ASSUME HardwareInv, doTakePictureEnd
  PROVE  HardwareInv'
<1> USE DEF doTakePictureEnd, devVars, winVars, bounds
<1>1. /\ StackType'
      /\ \/ isConnected /\ ~preview /\ lock' = "cmd" /\ Called("cmd", "doStartPreview", "unlock")
         \/ UNCHANGED lock /\ Went("cmd", "top")
  BY SMTT(30), CallRule, GotoRule DEF Points
<1>3. ControlInv'
  BY <1>1, SameQueue DEF QueueInv, Fault, PictureModes, parVars, Went, Called, Others, Stays
<1>4. ASSUME Orderly' PROVE PictureInv'
  BY SMTT(30), <1>1, <1>4, SameQueue, EmptyQueue
     DEF OnePicture, AtPicture, PictureCommands, Went, Called, Others, Stays
<1>5. QED
  BY <1>3, <1>4

\* The face detector stops.
LEMMA StopFaceStep ==
  ASSUME HardwareInv, StopFaceDetecte
  PROVE  HardwareInv'
<1> USE DEF StopFaceDetecte, devVars, winVars, bounds
<1>1. /\ StackType'
      /\ Went("cmd", "top")
  BY GotoRule DEF Points
<1>3. ControlInv'
  BY <1>1, SameQueue DEF QueueInv, Fault, PictureModes, parVars, Went, Others, Stays
<1>4. ASSUME Orderly' PROVE PictureInv'
  BY SMTT(30), <1>1, <1>4, SameQueue, EmptyQueue
     DEF OnePicture, AtPicture, PictureCommands, Went, Others, Stays
<1>5. QED
  BY <1>3, <1>4

\* An idle camera is connected, or stays disconnected after a fault.
LEMMA ConnectCameraStep ==
  ASSUME HardwareInv, connectCamera
  PROVE  HardwareInv'
<1> USE DEF connectCamera, ApiCall, Fault, DefaultParameters, parVars
<1>1. /\ StackType'
      /\ Stays("api") /\ Stays("cmd")
  BY StaysRule DEF Points, StackType
<1>3. ControlInv'
  <2>1. CASE idle' = FALSE /\ devState' = "CONNECTED" /\ NoFault /\ DefaultParameters
    BY <1>1, <2>1, SameQueue DEF PictureModes, QueueInv, Stays
  <2>2. CASE ~isConnected /\ Fault /\ UNCHANGED <<idle, devState, parVars, capSize>>
    <3>1. mode' = mode /\ faults' \in Nat /\ devState' = devState
      BY <2>2 DEF parVars
    <3>2. QED
      BY <1>1, <3>1, SameQueue DEF QueueInv, Stays
  <2>3. QED
    BY <2>1, <2>2
<1>4. ASSUME Orderly' PROVE PictureInv'
  BY <1>1, <1>4, SameQueue, EmptyQueue DEF OnePicture, AtPicture, PictureCommands, Stays
<1>5. QED
  BY <1>3, <1>4

\* startPreview is called when no picture is under way.
LEMMA StartPreviewStep ==
  ASSUME HardwareInv, startPreview
  PROVE  HardwareInv'
<1> USE DEF startPreview, ApiCall, PictureDone, devVars, winVars
<1>1. /\ StackType'
      /\ Called("api", "doStartPreview", "unlock")
  BY CallRule DEF Points
<1>3. ControlInv'
  BY <1>1, SameQueue DEF QueueInv, Fault, PictureModes, parVars, Called, Others, Stays
<1>4. ASSUME Orderly' PROVE PictureInv'
  BY SMTT(30), <1>1, <1>4, SameQueue, EmptyQueue
     DEF OnePicture, AtPicture, PictureCommands, Called, Others, Stays
<1>5. QED
  BY <1>3, <1>4

\* stopPreview queues a command and signals.
LEMMA StopPreviewStep ==
  ASSUME HardwareInv, stopPreview
  PROVE  HardwareInv'
<1> USE DEF stopPreview, ApiCall, CommandMutexFree, devVars, winVars
<1>1. /\ StackType'
      /\ Wakes("api", "stopPreview")
  BY WakesRule DEF Points
<1>2. /\ queue' \in Seq(Commands)
      /\ InQueue' => InQueue
      /\ OneInQueue => OneInQueue'
  BY QueuedRule DEF QueueInv, Commands, Unlocked, PictureCommands
<1>3. ControlInv'
  BY <1>1, <1>2 DEF QueueInv, Fault, PictureModes, parVars, Wakes, Stays
<1>4. ASSUME Orderly' PROVE PictureInv'
  BY SMTT(30), <1>1, <1>4, <1>2, EmptyQueue
     DEF OnePicture, AtPicture, PictureCommands, Wakes, Stays
<1>5. QED
  BY <1>3, <1>4

\* stopPreview takes mObjectLock.
LEMMA StopLockedStep ==
  ASSUME HardwareInv, StopPreviewLocked
  PROVE  HardwareInv'
<1> USE DEF StopPreviewLocked, devVars, winVars, bounds
<1>1. /\ StackType'
      /\ Called("api", "doStopPreview", "unlock")
  BY CallRule DEF Points
<1>3. ControlInv'
  BY <1>1, SameQueue DEF QueueInv, Fault, PictureModes, parVars, Called, Others, Stays
<1>4. ASSUME Orderly' PROVE PictureInv'
  BY SMTT(30), <1>1, <1>4, SameQueue, EmptyQueue
     DEF OnePicture, AtPicture, PictureCommands, Called, Others, Stays
<1>5. QED
  BY <1>3, <1>4

\* takePicture queues the only picture that is under way.
LEMMA TakePictureStep ==
  ASSUME HardwareInv, takePicture
  PROVE  HardwareInv'
<1> USE DEF takePicture, ApiCall, PictureDone, CommandMutexFree, devVars, winVars
<1>1. /\ StackType'
      /\ Wakes("api", "idle")
  <2>1. pc = [pc EXCEPT !["api"] = pc["api"]] /\ pc["api"] \in Points
    BY DEF StackType
  <2>2. QED
    BY <2>1, WakesRule
<1>2. /\ queue' \in Seq(Commands)
      /\ ~InQueue => OneInQueue'
  BY QueuedRule DEF QueueInv, Commands, Unlocked, PictureCommands
<1>3. ControlInv'
  BY <1>1, <1>2 DEF QueueInv, Fault, PictureModes, parVars, Wakes, Stays
<1>4. ASSUME Orderly' PROVE PictureInv'
  BY SMTT(30), <1>1, <1>4, <1>2, EmptyQueue
     DEF OnePicture, AtPicture, PictureCommands, Wakes, Stays
<1>5. QED
  BY <1>3, <1>4

\* cancelPicture takes the picture out of the device.
LEMMA CancelStep ==
  ASSUME HardwareInv, cancelPicture
  PROVE  HardwareInv'
<1> USE DEF cancelPicture, ApiCall, winVars
<1>1. /\ StackType'
      /\ Stays("api") /\ Stays("cmd")
  BY StaysRule DEF Points, StackType
<1>3. ControlInv'
  BY <1>1, SameQueue DEF QueueInv, Fault, PictureModes, parVars, Stays
<1>4. ASSUME Orderly' PROVE PictureInv'
  BY SMTT(30), <1>1, <1>4, SameQueue, EmptyQueue DEF OnePicture, AtPicture, PictureCommands, Stays
<1>5. QED
  BY <1>3, <1>4

\* setParameters queues the end of a burst and does not signal yet.
LEMMA ParametersStep ==
  ASSUME HardwareInv, NEW m \in PictureModes, NEW cancel, setParameters(m, cancel)
  PROVE  HardwareInv'
<1> USE DEF setParameters, ApiCall, devVars, winVars
<1>1. /\ StackType'
      /\ \E next \in {"sizes", "idle"} : Went("api", next)
  BY GotoRule DEF Points
<1>2. /\ queue' \in Seq(Commands)
      /\ OnlyUnlocked => OnlyUnlocked'
      /\ InQueue' => InQueue
      /\ OneInQueue => OneInQueue'
  BY QueuedRule, SameQueue DEF QueueInv, Commands, Unlocked, PictureCommands
<1>3. ControlInv'
  BY <1>1, <1>2 DEF QueueInv, Fault, PictureModes, parVars, Went, Others, Stays
<1>4. ASSUME Orderly' PROVE PictureInv'
  BY SMTT(30), <1>1, <1>4, <1>2, EmptyQueue
     DEF OnePicture, AtPicture, PictureCommands, Went, Others, Stays
<1>5. QED
  BY <1>3, <1>4

\* setParameters stores the sizes.
LEMMA SizesStep ==
  ASSUME HardwareInv, NEW ps, NEW vs, NEW h, SetSizes(ps, vs, h)
  PROVE  HardwareInv'
<1> USE DEF SetSizes, devVars, winVars, bounds
<1>1. /\ StackType'
      /\ Went("api", "signal") \/ Went("api", "idle")
  BY GotoRule DEF Points
<1>3. ControlInv'
  BY <1>1, SameQueue DEF QueueInv, Fault, PictureModes, parVars, Went, Others, Stays
<1>4. ASSUME Orderly' PROVE PictureInv'
  BY SMTT(30), <1>1, <1>4, SameQueue, EmptyQueue
     DEF OnePicture, AtPicture, PictureCommands, Went, Others, Stays
<1>5. QED
  BY <1>3, <1>4

\* setParameters signals.
LEMMA SignalStep ==
  ASSUME HardwareInv, SetSignal
  PROVE  HardwareInv'
<1> USE DEF SetSignal, devVars, winVars, bounds
<1>1. /\ StackType'
      /\ Wakes("api", "idle")
  BY WakesRule DEF Points
<1>3. ControlInv'
  BY <1>1, SameQueue DEF QueueInv, Fault, PictureModes, parVars, Wakes, Stays
<1>4. ASSUME Orderly' PROVE PictureInv'
  BY SMTT(30), <1>1, <1>4, SameQueue, EmptyQueue
     DEF OnePicture, AtPicture, PictureCommands, Wakes, Stays
<1>5. QED
  BY <1>3, <1>4

\* startRecording runs without mObjectLock while the command thread sleeps.
LEMMA RecordingStep ==
  ASSUME HardwareInv, startRecording
  PROVE  HardwareInv'
<1> USE DEF startRecording, ApiCall, PictureDone, devVars, winVars
<1>1. /\ StackType'
      /\ \/ Called("api", "doStopPreview", "recStart")
         \/ Went("api", "recOn")
  BY SMTT(30), CallRule, GotoRule DEF Points
<1>3. ControlInv'
  BY <1>1, SameQueue DEF QueueInv, Fault, PictureModes, parVars, Went, Called, Others, Stays
<1>4. ASSUME Orderly' PROVE PictureInv'
  BY SMTT(30), <1>1, <1>4, SameQueue, EmptyQueue
     DEF OnePicture, AtPicture, PictureCommands, Went, Called, Others, Stays
<1>5. QED
  BY <1>3, <1>4

\* startRecording starts the preview in the video size.
LEMMA RecPreviewStep ==
  ASSUME HardwareInv, RecordingPreview
  PROVE  HardwareInv'
<1> USE DEF RecordingPreview, devVars, winVars, bounds
<1>1. /\ StackType'
      /\ Called("api", "doStartPreview", "recOn")
  BY CallRule DEF Points
<1>3. ControlInv'
  BY <1>1, SameQueue DEF QueueInv, Fault, PictureModes, parVars, Called, Others, Stays
<1>4. ASSUME Orderly' PROVE PictureInv'
  BY SMTT(30), <1>1, <1>4, SameQueue, EmptyQueue
     DEF OnePicture, AtPicture, PictureCommands, Called, Others, Stays
<1>5. QED
  BY <1>3, <1>4

\* The recording is on.
LEMMA RecOnStep ==
  ASSUME HardwareInv, RecordingOn
  PROVE  HardwareInv'
<1> USE DEF RecordingOn, devVars, bounds
<1>1. /\ StackType'
      /\ Went("api", "idle")
  BY GotoRule DEF Points
<1>3. ControlInv'
  BY <1>1, SameQueue DEF QueueInv, Fault, PictureModes, parVars, Went, Others, Stays
<1>4. ASSUME Orderly' PROVE PictureInv'
  BY SMTT(30), <1>1, <1>4, SameQueue, EmptyQueue
     DEF OnePicture, AtPicture, PictureCommands, Went, Others, Stays
<1>5. QED
  BY <1>3, <1>4

\* stopRecording touches neither the device nor the window.
LEMMA StopRecStep ==
  ASSUME HardwareInv, stopRecording
  PROVE  HardwareInv'
<1> USE DEF stopRecording, ApiCall, devVars
<1>1. /\ StackType'
      /\ Stays("api") /\ Stays("cmd")
  BY StaysRule DEF Points, StackType
<1>3. ControlInv'
  BY <1>1, SameQueue DEF QueueInv, Fault, PictureModes, parVars, Stays
<1>4. ASSUME Orderly' PROVE PictureInv'
  BY SMTT(30), <1>1, <1>4, SameQueue, EmptyQueue DEF OnePicture, AtPicture, PictureCommands, Stays
<1>5. QED
  BY <1>3, <1>4

\* closeCamera runs without mObjectLock: while the command thread sleeps, or it
\* ends the orderly behaviour.
LEMMA CloseStep ==
  ASSUME HardwareInv, closeCamera
  PROVE  HardwareInv'
<1> USE DEF closeCamera, ApiCall, PictureDone, devVars, winVars
<1>1. /\ StackType'
      /\ Called("api", "doStopPreview", "closeStop")
  BY CallRule DEF Points
<1>3. ControlInv'
  BY <1>1, SameQueue DEF QueueInv, Fault, PictureModes, parVars, Called, Others, Stays
<1>4. ASSUME Orderly' PROVE PictureInv'
  <2>1. Orderly /\ PictureDone
    BY Zenon, <1>4
  <2>2. QED
    BY SMTT(30), <1>1, <2>1, SameQueue, EmptyQueue
       DEF OnePicture, AtPicture, PictureCommands, Called, Others, Stays
<1>5. QED
  BY <1>3, <1>4

\* closeCamera stops a device that streams without a window.
LEMMA CloseStopStep ==
  ASSUME HardwareInv, CloseStop
  PROVE  HardwareInv'
<1> USE DEF CloseStop, devVars, winVars, bounds
<1>1. /\ StackType'
      /\ \/ isStarted /\ Called("api", "stop", "disconnect")
         \/ ~isStarted /\ Went("api", "disconnect")
  BY SMTT(30), CallRule, GotoRule DEF Points
<1>3. ControlInv'
  BY <1>1, SameQueue DEF QueueInv, Fault, PictureModes, parVars, Went, Called, Others, Stays
<1>4. ASSUME Orderly' PROVE PictureInv'
  BY SMTT(30), <1>1, <1>4, SameQueue, EmptyQueue
     DEF OnePicture, AtPicture, PictureCommands, Went, Called, Others, Stays
<1>5. QED
  BY <1>3, <1>4

\* closeCamera disconnects a device that nobody started again.
LEMMA DisconnectStep ==
  ASSUME HardwareInv, CloseDisconnect
  PROVE  HardwareInv'
<1> USE DEF CloseDisconnect, bounds
<1>1. /\ StackType'
      /\ Went("api", "idle")
  BY GotoRule DEF Points
<1>3. ControlInv'
  BY <1>1, SameQueue DEF QueueInv, Fault, PictureModes, parVars, Went, Others, Stays
<1>4. ASSUME Orderly' PROVE PictureInv'
  BY SMTT(30), <1>1, <1>4, SameQueue, EmptyQueue
     DEF OnePicture, AtPicture, PictureCommands, Went, Others, Stays
<1>5. QED
  BY <1>3, <1>4

\* A frame serves the picture; only a NORMAL picture pauses the capture thread.
LEMMA FrameStep ==
  ASSUME HardwareInv, CaptureFrame
  PROVE  HardwareInv'
<1> USE DEF CaptureFrame, winVars, bounds
<1>1. /\ StackType'
      /\ Stays("api") /\ Stays("cmd")
  BY StaysRule DEF Points, StackType
<1>3. ControlInv'
  BY <1>1, SameQueue DEF QueueInv, Fault, PictureModes, parVars, Stays
<1>4. ASSUME Orderly' PROVE PictureInv'
  BY <1>1, <1>4, SameQueue, EmptyQueue DEF OnePicture, AtPicture, PictureCommands, Stays
<1>5. QED
  BY <1>3, <1>4

\* notifyPictureMsg queues the message of the picture and signals.
LEMMA NotifyStep ==
  ASSUME HardwareInv, notifyPictureMsg
  PROVE  HardwareInv'
<1> USE DEF notifyPictureMsg, CommandMutexFree, winVars, bounds
<1>1. /\ StackType'
      /\ Wakes("api", pc["api"])
  <2>1. pc = [pc EXCEPT !["api"] = pc["api"]] /\ pc["api"] \in Points
    BY DEF StackType
  <2>2. QED
    BY <2>1, WakesRule
<1>2. /\ queue' \in Seq(Commands)
      /\ ~InQueue => OneInQueue'
  BY QueuedRule DEF QueueInv, Commands, Unlocked, PictureCommands
<1>3. ControlInv'
  BY <1>1, <1>2 DEF QueueInv, Fault, PictureModes, parVars, Wakes, Stays
<1>4. ASSUME Orderly' PROVE PictureInv'
  BY SMTT(30), <1>1, <1>4, <1>2, EmptyQueue
     DEF OnePicture, AtPicture, PictureCommands, Wakes, Stays
<1>5. QED
  BY <1>3, <1>4

-----------------------------------------------------------------------------
\* The invariant holds initially.
LEMMA InitHardware == Init => HardwareInv
<1> SUFFICES ASSUME Init PROVE HardwareInv
  OBVIOUS
<1> USE DEF Init
<1>1. \A t \in Threads : stack[t] = <<>> /\ pc[t] = IF t = "api" THEN "idle" ELSE "top"
  OBVIOUS
<1>2. \A t \in Threads : Depth(t) = 0 /\ BackTo(t) = "none" /\ Base(t) = pc[t]
  BY <1>1 DEF Depth, BackTo, Base
<1>3. StackType
  BY DEF StackType, Points
<1>4. ControlInv
  BY <1>1, <1>2, <1>3, HardwareAssumption DEF QueueInv, PictureModes
<1>5. PictureInv
  BY <1>1, <1>2, EmptyQueue DEF OnePicture, AtPicture, PictureCommands
<1>6. QED
  BY <1>4, <1>5

\* A step that changes nothing.
LEMMA StutterHardware ==
  ASSUME HardwareInv, UNCHANGED vars
  PROVE  HardwareInv'
<1>1. /\ pc' = pc /\ stack' = stack /\ queue' = queue /\ lock' = lock /\ preview' = preview
      /\ devState' = devState /\ capture' = capture /\ picState' = picState /\ taken' = taken
      /\ idle' = idle /\ mode' = mode /\ faults' = faults
      /\ overlap' = overlap
  BY DEF vars, devVars, winVars, parVars, bounds
<1>2. Stays("api") /\ Stays("cmd")
  BY <1>1, StaysRule
<1>3. ControlInv'
  BY <1>1, <1>2, SameQueue DEF StackType, QueueInv, Stays
<1>4. ASSUME Orderly' PROVE PictureInv'
  BY <1>1, <1>2, <1>4, SameQueue DEF OnePicture, AtPicture, PictureCommands, Stays
<1>5. QED
  BY <1>3, <1>4

\* Every step keeps the invariant.
LEMMA NextHardware == HardwareInv /\ [Next]_vars => HardwareInv'
<1> SUFFICES ASSUME HardwareInv, [Next]_vars PROVE HardwareInv'
  OBVIOUS
<1>1. ASSUME NEW t \in Threads, ThreadStep(t) PROVE HardwareInv'
  BY <1>1, StopDeliveringStep, StopDeviceStep, StartCheckStep, WindowStep, ConnectStep, StartStep,
     DeliverStep, WindowOffStep, StopCheckStep, UnlockStep DEF ThreadStep, PreviewStep
<1>2. ASSUME CommandStep PROVE HardwareInv'
  BY <1>2, CommandThreadStep, CommandWaitStep, TakeStep, PicStopStep, PicStateStep, PicStartStep,
     PicDeliverStep, PicFailedStep, PictureMsgStep, StopSnapStep, EndStep, StopFaceStep
     DEF CommandStep
<1>3. ASSUME ApiStep PROVE HardwareInv'
  BY <1>3, ConnectCameraStep, StartPreviewStep, StopPreviewStep, StopLockedStep, TakePictureStep,
     CancelStep, ParametersStep, SizesStep, SignalStep, RecordingStep, RecPreviewStep, RecOnStep,
     StopRecStep, CloseStep, CloseStopStep, DisconnectStep DEF ApiStep
<1>4. QED
  BY <1>1, <1>2, <1>3, FrameStep, NotifyStep, StutterHardware DEF Next, Stopped

HIDE DEF HardwareInv, ControlInv

\* The command thread never waits while a picture or its message is in the queue,
\* whoever queued it and whenever: commandThread looks at the queue and waits under
\* mCommandMutex, and takePicture and notifyPictureMsg queue and signal under it.
THEOREM PictureAwake == Spec => []NoSleepOnPicture
<1>1. HardwareInv => NoSleepOnPicture
  BY DEF HardwareInv, ControlInv, QueueInv, OnlyUnlocked, NoSleepOnPicture
<1>2. QED
  BY <1>1, InitHardware, NextHardware, PTL DEF Spec

\* An application that waits for its pictures finds the window, the device and the
\* capture thread in agreement between any two calls, whatever it calls and however
\* the command thread's pictures fall between: unless the device has failed or the
\* camera was closed with a picture under way.
THEOREM PreviewAgrees ==
  ASSUME WaitsForPicture
  PROVE  Spec => []PreviewConsistent
<1>1. HardwareInv => PreviewConsistent
  BY DEF HardwareInv, Orderly, PreviewConsistent
<1>2. QED
  BY <1>1, InitHardware, NextHardware, PTL DEF Spec

\* For the same application, a camera that reports itself idle has released its
\* device and its window, and no command is left that would start them again after
\* closeCamera: unless closeCamera, which looks at nothing, came while the command
\* thread was at a picture.
THEOREM IdleSafe ==
  ASSUME WaitsForPicture
  PROVE  Spec => []IdleReleased
<1>1. HardwareInv => IdleReleased
  BY DEF HardwareInv, Orderly, IdleReleased
<1>2. QED
  BY <1>1, InitHardware, NextHardware, PTL DEF Spec
=============================================================================
