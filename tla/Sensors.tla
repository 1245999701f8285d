------------------------------- MODULE Sensors -------------------------------
(***************************************************************************)
(* The sensor HAL (libsensors): open_sensors loads the drivers, lists the  *)
(* sensors whose input devices it finds and creates one driver object for  *)
(* each; the sensor service then activates sensors from its binder threads *)
(* while its own thread loops in pollEvents.  A driver object takes raw    *)
(* input events out of a ring (InputEventCircularReader) and completes one *)
(* sample at each EV_SYN.                                                  *)
(*                                                                         *)
(* The service activates a listed sensor that is not active and            *)
(* deactivates one that is, except for the deactivations at its start.     *)
(***************************************************************************)
EXTENDS Integers, Sequences, SequencesExt

CONSTANTS ZCalls,     \* bound: activate and setDelay calls
          ZSamples,   \* bound: samples of all sensors
          ZReader,    \* events an InputEventCircularReader holds
          ZDelays,    \* delays the service asks for, in units of 500 ns
          ZCount      \* events pollEvents may return

ASSUME ReaderAssumption == ZReader \in Nat \ {0}

VARIABLES zPc,      \* "boot", "detect" or "open"
          zInputs,  \* input devices not yet looked at, in directory order
          zFxos,    \* built with MAG_SENSOR_FXOS8700
          zOther,   \* otherDevice and ctpDevice entries with isFind
          zList,    \* sSensorList: the handles listed; sNumber is its length
          zFound,   \* handles with seStatus[].isFound
          zUser,    \* AccelSensor::mUser
          zEn,      \* mEnabled or mEnCount of each handle
          zOn,      \* the driver's enable attribute
          zFailed,  \* history: the last write of the enable attribute failed
          zActive,  \* the sensors the service has activated
          zWant,    \* mDelay of each handle
          zRate,    \* the driver's delay attribute (ms, us for a plain magnetometer)
          zCalls,   \* calls so far
          zDev,     \* raw events the input device has queued so far
          zRead,    \* raw events the reader has taken so far
          zRing,    \* the reader: slot, mHead, mCurr, mFreeSpace
          zMask,    \* mPendingMask, as the handles it stands for
          zRevents, \* objects whose revents still says POLLIN
          zPoll,    \* pollEvents: "idle", "scan", "fill", "read" or "poll"
          zI,       \* the object it looks at
          zRoom,    \* count
          zEvents   \* nbEvents

zVars == <<zPc, zInputs, zFxos, zOther, zList, zFound, zUser, zEn, zOn, zFailed, zActive,
           zWant, zRate, zCalls, zDev, zRead, zRing, zMask, zRevents, zPoll, zI, zRoom, zEvents>>
zDetectVars == <<zInputs, zFxos, zOther, zList, zFound>>
zCallVars == <<zUser, zEn, zOn, zFailed, zActive, zWant, zRate, zCalls>>
zPollVars == <<zDev, zRead, zRing, zMask, zRevents, zPoll, zI, zRoom, zEvents>>

Handles == {"A", "M", "GY", "L", "PX", "O", "T"}
\* The objects, in the order in which the poll context creates them.
ObjectOrder == <<"A", "M", "GY", "L", "PX", "T">>
ObjectKinds == Handles \ {"O"}

\* The lists of known input devices: a few names of each.
gsensorList == {"Virtual.Acc", "bma250"}
magSensorList == {"lsm303d_mag", "FreescaleMagnetometer"}
gyrSensorList == {"bmg160"}
ligSensorList == {"lightsensor"}
proSensorList == {"proximity"}
tempSensorList == {"sunxi-temp"}
\* The handle of the list that has the name.
SensorOf(name) ==
  CASE name \in gsensorList -> "A"
    [] name \in magSensorList -> "M"
    [] name \in gyrSensorList -> "GY"
    [] name \in ligSensorList -> "L"
    [] name \in proSensorList -> "PX"
    [] name \in tempSensorList -> "T"
    [] OTHER -> "none"
PanelDevices == {"gt", "gsl", "ft5x"}
OtherDevices == {"sw-", "axp"}

\* Boards: the input devices the configured modules register, in directory order.
Boards ==
  {<<"axp", "bma250", "lightsensor", "proximity", "Virtual.Acc", "gt">>,
   <<"Virtual.Acc", "FreescaleMagnetometer", "gsl">>,
   <<"sw-", "gt", "lsm303d_mag", "axp", "bmg160", "Virtual.Acc", "ft5x", "sunxi-temp">>}

EmptyRing == [slot |-> [i \in 0..(2 * ZReader - 1) |-> 0], head |-> 0, curr |-> 0, free |-> ZReader]

ZInit ==
  /\ zPc = "boot" /\ zInputs = <<>> /\ zFxos = FALSE /\ zOther = {} /\ zList = <<>> /\ zFound = {}
  /\ zUser = 0 /\ zEn = [h \in Handles |-> 0] /\ zOn = [o \in ObjectKinds |-> FALSE]
  /\ zFailed = {} /\ zActive = {} /\ zWant = [h \in Handles |-> 0]
  /\ zRate = [o \in ObjectKinds |-> 0] /\ zCalls = 0
  /\ zDev = [o \in ObjectKinds |-> 0] /\ zRead = [o \in ObjectKinds |-> 0]
  /\ zRing = [o \in ObjectKinds |-> EmptyRing] /\ zMask = [o \in ObjectKinds |-> {}]
  /\ zRevents = {} /\ zPoll = "idle" /\ zI = 1 /\ zRoom = 0 /\ zEvents = 0

-----------------------------------------------------------------------------
\* insmodDevice: a module is loaded or not (one failure is followed).  The dummy
\* accelerometer, loaded last, may be missing only beside another one: with none
\* at all, accel stays 0 and the compass would count itself as its own user.
Loadable(board) ==
  {j \in DOMAIN board : board[j] \in gsensorList => Cardinality(Range(board) \cap gsensorList) > 1}
insmodDevice ==
  /\ zPc = "boot" /\ zPc' = "detect"
  /\ \E board \in Boards :
       /\ zInputs' \in {board} \union {RemoveAt(board, i) : i \in Loadable(board)}
       /\ zFxos' = ("FreescaleMagnetometer" \in Range(board))
  /\ UNCHANGED <<zOther, zList, zFound, zCallVars, zPollVars>>

\* otherDeviceDetect: an input device that is not a sensor.  Only the first
\* touch panel is remembered; once all are found nothing is looked up here.
otherDeviceDetect(name) ==
  /\ ~(OtherDevices \subseteq zOther /\ zOther \cap PanelDevices # {})
  /\ \/ name \in OtherDevices \ zOther
     \/ name \in PanelDevices /\ zOther \cap PanelDevices = {}

\* getDevice: the entries one input device adds to the sensor list.
getDevice(name) ==
  LET h == SensorOf(name)
  IN CASE h = "none" \/ h \in zFound -> <<>>
       [] name = "FreescaleMagnetometer" -> <<"M", "O">>
       [] OTHER -> <<h>>

searchDevice(name) ==
  IF otherDeviceDetect(name)
  THEN zOther' = zOther \union {name} /\ UNCHANGED <<zList, zFound>>
  ELSE /\ zList' = zList \o getDevice(name)
       /\ zFound' = zFound \union (Range(getDevice(name)) \ {"O"})
       /\ UNCHANGED zOther

\* sensorsDetect looks at the input devices in directory order.
sensorsDetect ==
  /\ zPc = "detect" /\ zInputs # <<>> /\ zInputs' = Tail(zInputs)
  /\ searchDevice(Head(zInputs))
  /\ UNCHANGED <<zPc, zFxos, zCallVars, zPollVars>>

\* The poll context: an object for each kind that was found.
Objects == SelectSeq(ObjectOrder, LAMBDA o : o \in zFound)
open_sensors ==
  /\ zPc = "detect" /\ zInputs = <<>> /\ zPc' = "open"
  /\ UNCHANGED <<zDetectVars, zCallVars, zPollVars>>

\* The objects pollEvents looks at: sNumber of them, one less in the FXOS8700
\* build, where the orientation is listed without an object of its own.
Polled == IF zFxos THEN Len(zList) - 1 ELSE Len(zList)

-----------------------------------------------------------------------------
\* The object of a handle: the magnetometer also makes the orientation.
handleToDriver(h) == IF h = "O" THEN "M" ELSE h
Bump(n, en) == IF en THEN n + 1 ELSE IF n = 0 THEN 0 ELSE n - 1

\* Mutant: the compass is not counted as a user of the accelerometer.
AccelUsersOwn(h, en) == IF h = "A" THEN Bump(zUser, en) ELSE zUser
\* AccelSensor::setEnable counts users: the compass needs the accelerometer.
AccelUsers(h, en) == IF h \in {"A", "M", "O"} THEN Bump(zUser, en) ELSE zUser
AccelWrites(h, en) == IF h \in {"A", "M", "O"} THEN {<<"A", AccelUsers(h, en) > 0>>} ELSE {}

\* MagSensor::setEnable: the driver is on while either of its sensors is enabled.
MagWrites(h, en) ==
  {<<"M", Bump(zEn[h], en) > 0 \/ zEn[IF h = "M" THEN "O" ELSE "M"] > 0>>}

\* MagnetoSensor::setEnable writes only when the count leaves or reaches zero.
MagnetoWrites(h, en) ==
  LET n == Bump(zEn[h], en)
  IN IF (zEn[h] = 0) = (n = 0) THEN {} ELSE {<<"M", n > 0>>}

\* The other sensors keep a flag and write when it changes.
GyroWrites(h, en) == IF (zEn["GY"] > 0) = en THEN {} ELSE {<<"GY", en>>}
LightWrites(h, en) == IF (zEn["L"] > 0) = en THEN {} ELSE {<<"L", en>>}
ProximityWrites(h, en) == IF (zEn["PX"] > 0) = en THEN {} ELSE {<<"PX", en>>}
TempWrites(h, en) == IF (zEn["T"] > 0) = en THEN {} ELSE {<<"T", en>>}

Writes(h, en) ==
  AccelWrites(h, en) \union
  CASE h \in {"M", "O"} /\ zFxos -> MagWrites(h, en)
    [] h = "M" /\ ~zFxos -> MagnetoWrites(h, en)
    [] h = "GY" -> GyroWrites(h, en)
    [] h = "L" -> LightWrites(h, en)
    [] h = "PX" -> ProximityWrites(h, en)
    [] h = "T" -> TempWrites(h, en)
    [] OTHER -> {}

\* The counts of mEnabled, or the flag, are kept whether or not a write failed.
Enabled(h, en) ==
  IF h \in {"A", "M", "O"} THEN Bump(zEn[h], en) ELSE IF en THEN 1 ELSE 0

\* set_sysfs_input_attr: the attributes written, of which those of failed fail.
set_sysfs_input_attr(writes, failed) ==
  LET written == {w[1] : w \in writes} IN
  /\ zOn' = [o \in ObjectKinds |->
               IF o \in written \ failed THEN <<o, TRUE>> \in writes ELSE zOn[o]]
  /\ zFailed' = (zFailed \ written) \union (written \cap failed)

\* Only the two magnetometers report a failed write.
Failure(h, en, failed) ==
  h \in {"M", "O"} /\ "M" \in {w[1] : w \in Writes(h, en)} \cap failed

\* What each class writes to the delay attribute: most keep the delay between
\* 312.5 us and 10.24 s and write milliseconds, so that the least is written as 0.
Clamped(d) == IF d > 20480000 THEN 20480000 ELSE IF d < 625 THEN 625 ELSE d
AccelDelay(d) == Clamped(d) \div 2000
MagDelay(d) == Clamped(d) \div 2000
MagnetoDelay(d) == d \div 2
GyroDelay(d) == d \div 2000
LightDelay(d) == Clamped(d) \div 2000
ProximityDelay(d) == Clamped(d) \div 2000
TempDelay(d) == Clamped(d) \div 2000
Written(o, d) ==
  CASE o = "A" -> AccelDelay(d)
    [] o = "M" -> IF zFxos THEN MagDelay(d) ELSE MagnetoDelay(d)
    [] o = "GY" -> GyroDelay(d)
    [] o = "L" -> LightDelay(d)
    [] o = "PX" -> ProximityDelay(d)
    [] o = "T" -> TempDelay(d)

\* MagSensor::setEnable ends with update_delay.
RateAfterEnable(h, en, failed) ==
  IF zFxos /\ h \in {"M", "O"} /\ ~Failure(h, en, failed) /\ Enabled(h, en) > 0
  THEN [zRate EXCEPT !["M"] = MagDelay(zWant[h])] ELSE zRate

activate(h, en) ==
  /\ zPc = "open" /\ zCalls < ZCalls /\ zCalls' = zCalls + 1
  /\ h \in Range(zList)
  /\ IF en THEN h \notin zActive ELSE h \in zActive \/ zActive = {}
  /\ zUser' = AccelUsers(h, en)
  /\ zEn' = [zEn EXCEPT ![h] = Enabled(h, en)]
  /\ \E failed \in SUBSET {w[1] : w \in Writes(h, en)} :
       /\ set_sysfs_input_attr(Writes(h, en), failed)
       /\ zRate' = RateAfterEnable(h, en, failed)
       /\ zActive' = IF ~en THEN zActive \ {h}
                     ELSE IF Failure(h, en, failed) THEN zActive ELSE zActive \union {h}
  /\ UNCHANGED <<zPc, zDetectVars, zWant, zPollVars>>

\* setDelay: the compass also sets the accelerometer's, whoever asked last wins;
\* the FXOS8700 sets its own only for a sensor that is enabled.
setDelay(h, ns) ==
  /\ zPc = "open" /\ zCalls < ZCalls /\ zCalls' = zCalls + 1
  /\ h \in Range(zList)
  /\ zWant' = [zWant EXCEPT ![h] = ns]
  /\ zRate' = [o \in ObjectKinds |->
                 IF \/ o = "A" /\ h \in {"A", "M", "O"}
                    \/ o = handleToDriver(h) /\ (o = "M" /\ zFxos => zEn[h] > 0)
                 THEN Written(o, ns) ELSE zRate[o]]
  /\ UNCHANGED <<zPc, zDetectVars, zUser, zEn, zOn, zFailed, zActive, zPollVars>>

-----------------------------------------------------------------------------
\* An enabled driver queues the events of a sample, the last an EV_SYN.
Sample(o) ==
  /\ zPc = "open" /\ zOn[o] /\ o \in zFound
  /\ zDev["A"] + zDev["M"] + zDev["GY"] + zDev["L"] + zDev["PX"] + zDev["T"] < 2 * ZSamples
  /\ zDev' = [zDev EXCEPT ![o] = @ + 2]
  /\ UNCHANGED <<zPc, zDetectVars, zCallVars, zRead, zRing, zMask, zRevents, zPoll, zI, zRoom,
                 zEvents>>
IsSyn(e) == e % 2 = 0

pollEvents ==
  /\ zPc = "open" /\ zPoll = "idle" /\ zPoll' = "scan"
  /\ zI' = 1 /\ zRoom' = ZCount /\ zEvents' = 0
  /\ UNCHANGED <<zPc, zDetectVars, zCallVars, zDev, zRead, zRing, zMask, zRevents>>

\* An object whose revents says POLLIN is read, the others are passed over.
ScanObject ==
  /\ zPoll = "scan" /\ zI <= Polled /\ zRoom > 0
  /\ IF Objects[zI] \in zRevents
     THEN zPoll' = "fill" /\ UNCHANGED zI
     ELSE zI' = zI + 1 /\ UNCHANGED zPoll
  /\ UNCHANGED <<zPc, zDetectVars, zCallVars, zDev, zRead, zRing, zMask, zRevents, zRoom, zEvents>>

\* Mutant: mHead wraps at the end, without the events that ran past it.
FilledWithoutCopy(r, first, n) ==
  [slot |-> [i \in DOMAIN r.slot |->
               IF i \in r.head..(r.head + n - 1) THEN first + i - r.head ELSE r.slot[i]],
   head |-> (r.head + n) % ZReader, curr |-> r.curr, free |-> r.free - n]
\* The ring after fill() has put n events, the first numbered first, at mHead:
\* what ran past the end is copied to the start.
Filled(r, first, n) ==
  LET put == [i \in DOMAIN r.slot |->
                IF i \in r.head..(r.head + n - 1) THEN first + i - r.head ELSE r.slot[i]]
      over == r.head + n - ZReader
  IN [slot |-> IF over > 0
               THEN [i \in DOMAIN put |-> IF i < over THEN put[ZReader + i] ELSE put[i]]
               ELSE put,
      head |-> IF over > 0 THEN over ELSE r.head + n,
      curr |-> r.curr,
      free |-> r.free - n]

\* readEvents starts with fill(): the read blocks when the device has nothing,
\* which a revents left over from the last call does not exclude.
fill ==
  /\ zPoll = "fill" /\ zPoll' = "read"
  /\ LET o == Objects[zI]
         queued == zDev[o] - zRead[o]
         n == IF queued < zRing[o].free THEN queued ELSE zRing[o].free
     IN /\ zRing[o].free > 0 => queued > 0
        /\ zRing' = [zRing EXCEPT ![o] = Filled(@, zRead[o] + 1, n)]
        /\ zRead' = [zRead EXCEPT ![o] = @ + n]
  /\ UNCHANGED <<zPc, zDetectVars, zCallVars, zDev, zMask, zRevents, zI, zRoom, zEvents>>

Available(o) == ZReader - zRing[o].free
next(r) == [r EXCEPT !.curr = IF @ + 1 >= ZReader THEN 0 ELSE @ + 1, !.free = @ + 1]

\* One round of the loop of a class with one sensor: an axis is noted in
\* mPendingMask; at an EV_SYN a pending sample is reported if the sensor is
\* enabled.  The event is taken out of the ring in both cases.
Round(h, e) ==
  [mask |-> IF IsSyn(e) THEN {} ELSE {h},
   sent |-> IF IsSyn(e) /\ zMask[h] # {} /\ zEn[h] > 0 THEN 1 ELSE 0,
   next |-> TRUE]
\* AccelSensor counts its users apart: the compass does not make it report.
AccelRead(e) == Round("A", e)
\* MagnetoSensor leaves an event of another type in the ring and would find it
\* again for ever; the drivers send none.
MagnetoRead(e) == Round("M", e)
GyroRead(e) == Round("GY", e)
LightRead(e) == Round("L", e)
ProximityRead(e) == Round("PX", e)
TempRead(e) == Round("T", e)
\* MagSensor makes two sensors of a sample, the magnetometer first: the EV_SYN
\* stays in the ring until neither is pending.
MagRead(e) ==
  LET h == IF "M" \in zMask["M"] THEN "M" ELSE "O"
      left == zMask["M"] \ {h}
  IN IF ~IsSyn(e) THEN [mask |-> {"M", "O"}, sent |-> 0, next |-> TRUE]
     ELSE [mask |-> left,
           sent |-> IF h \in zMask["M"] /\ zEn[h] > 0 THEN 1 ELSE 0,
           next |-> left = {}]
ReadOne(o, e) ==
  CASE o = "A" -> AccelRead(e)
    [] o = "M" -> IF zFxos THEN MagRead(e) ELSE MagnetoRead(e)
    [] o = "GY" -> GyroRead(e)
    [] o = "L" -> LightRead(e)
    [] o = "PX" -> ProximityRead(e)
    [] o = "T" -> TempRead(e)

readEvents ==
  /\ zPoll = "read" /\ zRoom > 0
  /\ LET o == Objects[zI]
         r == ReadOne(o, zRing[o].slot[zRing[o].curr])
     IN /\ Available(o) > 0
        /\ zMask' = [zMask EXCEPT ![o] = r.mask]
        /\ zRing' = IF r.next THEN [zRing EXCEPT ![o] = next(@)] ELSE zRing
        /\ zRoom' = zRoom - r.sent /\ zEvents' = zEvents + r.sent
  /\ UNCHANGED <<zPc, zDetectVars, zCallVars, zDev, zRead, zRevents, zPoll, zI>>

\* readEvents returns; a call that left no room keeps the revents.
ReadDone ==
  /\ zPoll = "read" /\ zPoll' = "scan" /\ zI' = zI + 1
  /\ zRoom = 0 \/ Available(Objects[zI]) = 0
  /\ zRevents' = IF zRoom > 0 THEN zRevents \ {Objects[zI]} ELSE zRevents
  /\ UNCHANGED <<zPc, zDetectVars, zCallVars, zDev, zRead, zRing, zMask, zRoom, zEvents>>

Ready == {Objects[i] : i \in {j \in 1..Polled : zDev[Objects[j]] > zRead[Objects[j]]}}

\* poll() on the first Polled descriptors, which the wake pipe is not one of: it
\* waits if there is nothing to return.  With no room it is not called.
Poll ==
  /\ zPoll = "scan" /\ (zI > Polled \/ zRoom = 0)
  /\ IF zRoom = 0
     THEN zPoll' = "idle" /\ zI' = 1 /\ UNCHANGED zRevents
     ELSE /\ Ready # {} \/ zEvents > 0
          /\ zRevents' = Ready
          /\ zPoll' = IF Ready = {} THEN "idle" ELSE "scan"
          /\ zI' = 1
  /\ UNCHANGED <<zPc, zDetectVars, zCallVars, zDev, zRead, zRing, zMask, zRoom, zEvents>>

ZNext ==
  \/ insmodDevice \/ sensorsDetect \/ open_sensors
  \/ \E h \in Handles, en \in BOOLEAN : activate(h, en)
  \/ \E h \in Handles, ns \in ZDelays : setDelay(h, ns)
  \/ \E o \in ObjectKinds : Sample(o)
  \/ pollEvents \/ ScanObject \/ fill \/ readEvents \/ ReadDone \/ Poll

=============================================================================
