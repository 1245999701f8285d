--------------------------- MODULE AudioHalProofs ---------------------------
(***************************************************************************)
(* For every set of sound cards, modes and output devices: no playback or  *)
(* capture device is open in a call, the route follows mode and device,    *)
(* and out_write neither misses a handle nor uses a released echo          *)
(* reference, however the three threads interleave.                        *)
(***************************************************************************)
EXTENDS AudioHal, TLAPS

\* Where each thread can be, and where a thread has each mutex.
PlayAt == {"idle", "w_hw", "w_out", "w_write", "w_failed", "w_fhw", "f_in", "put", "s_echo", "p_out"}
RecAt == {"idle", "r_hw", "r_in", "r_read", "r_put", "r_get", "r_add", "r_lock", "f_in", "put"}
CtlAt == {"idle", "m_mode", "m_out", "f_in", "put", "m_end", "u_init"}

HasHw ==
  {"w_out", "p_out", "f_in", "put", "r_in", "r_put", "r_get", "r_add", "r_lock", "m_mode", "m_out",
   "m_end"}
HasIn == {"r_read", "r_put", "r_get", "r_add", "r_lock", "put"}
HasOut == {"w_write", "w_failed", "s_echo"}

PcInv ==
  /\ aPc \in [Threads -> PlayAt \cup RecAt \cup CtlAt]
  /\ aPc["play"] \in PlayAt /\ aPc["rec"] \in RecAt /\ aPc["ctl"] \in CtlAt

\* The three mutexes, each held exactly by the thread that is at such a point.
LockInv ==
  /\ aLock \in [{"hw", "in", "out"} -> Threads \cup {None}]
  /\ \A t \in Threads :
       /\ aLock["hw"] = t <=> aPc[t] \in HasHw
       /\ aLock["in"] = t <=> aPc[t] \in HasIn
       /\ aLock["out"] = t <=> aPc[t] \in HasOut

FlagInv == aMode \in Modes \cup {"normal"}

\* The output stream: handles are closed before active_output is cleared, and
\* standby is entered last.
OutInv ==
  /\ ~aHalf /\ ~aActOut => aDrv = {}
  /\ ~aHalf => aDrv \subseteq aPcm
  /\ ~aHalf /\ aOutStandby => aPcm = {}
  /\ ~aHalf /\ aOutStandby => ~aActOut
  /\ aPc["play"] \in HasOut => ~aOutStandby
  /\ aPc["play"] \in {"w_failed", "s_echo"} => ~aActOut /\ aPcm = {}

\* A stream that is not in standby has a handle for each card it writes to, but for
\* one that is coming, or was started in a call.
HandleInv ==
  /\ ~aOutStandby => Playing \ aComing \subseteq aPcm \/ (aPcm = {} /\ ~aActOut)
  /\ aPc["ctl"] # "u_init" => aComing = {}

\* The echo reference of the output stream: given back before the stream may be
\* used again, unless the stream got it in standby.
EchoInv ==
  /\ ~aHalf /\ aOutEcho \notin {None, "late", "astray"} /\ ~aActOut =>
       aPc["play"] \in {"w_failed", "s_echo"}
  /\ aActOut => aOutEcho # "stale"
  /\ EchoAlive

\* The input stream.
InInv ==
  /\ ~aHalf /\ (aInStandby \/ ~aActIn) => ~aInPcm
  /\ aPc["rec"] = "r_read" => aActIn
  /\ ~aInStandby /\ (\A t \in Threads : aPc[t] # "put") => aActIn
  /\ \A t \in Threads : aPc[t] = "put" => ~aInPcm
  /\ aPc["rec"] \in {"r_put", "r_get", "r_add", "r_lock"} => aMode # "call" /\ aInStandby

\* A change of the mode is under way and has not set the route.
Changing == aPc["ctl"] \in {"m_out", "f_in", "put", "m_end"}

ModeInv ==
  /\ aInCall => aMode \in InCallModes
  /\ ~Changing /\ aMode \in InCallModes => aInCall
  /\ aActOut /\ aPc["ctl"] # "m_out" => aMode \notin CallModes
  /\ aHalf => aMode # "call"

\* The factory test also sets in_call: select_mode does nothing when the mode
\* changes between it and a call.
NoFactory == "factory" \notin Modes

CaptureInv == NoFactory => (aMode = "call" /\ aPc["ctl"] \notin {"m_out", "f_in"} => ~aInPcm)

RouteInv ==
  NoFactory => (~Changing /\ (aActOut \/ aMode \in CallModes) => aRoute = Route(aMode, aDevice))

AudioInv ==
  /\ PcInv /\ LockInv /\ FlagInv /\ OutInv /\ HandleInv /\ EchoInv /\ InInv
  /\ ModeInv /\ CaptureInv /\ RouteInv

-----------------------------------------------------------------------------
\* The invariant holds initially.
LEMMA AudioInit == AInit => AudioInv
  <1> SUFFICES ASSUME AInit PROVE AudioInv OBVIOUS
  <1> USE DEF AInit, Threads, None
  <1>1. PcInv /\ LockInv /\ FlagInv
    BY DEF PcInv, LockInv, FlagInv, PlayAt, RecAt, CtlAt, HasHw, HasIn, HasOut
  <1>2. OutInv /\ HandleInv /\ EchoInv /\ InInv
    BY DEF OutInv, HandleInv, EchoInv, EchoAlive, InInv, HasOut
  <1>3. ModeInv /\ CaptureInv /\ RouteInv
    BY DEF ModeInv, CaptureInv, RouteInv, Changing, CallModes, InCallModes, Route
  <1> QED BY <1>1, <1>2, <1>3 DEF AudioInv

\* The record side releases the reference: the output stream has none, or a
\* standby that has closed the handles is about to clear it.
LEMMA EchoReleased ==
  ASSUME EchoInv, ~aHalf, aActOut' = aActOut,
         aOutEcho' = aOutEcho \/ (~aActOut /\ aOutEcho' = Stale(aOutEcho)),
         aPc["play"] \in {"w_failed", "s_echo"} => aPc'["play"] = aPc["play"],
         aPc'["play"] = "w_write" => aPc["play"] = "w_write"
  PROVE  EchoInv'
  <1>1. CASE aOutEcho' = aOutEcho BY <1>1 DEF EchoInv, EchoAlive
  <1>2. CASE ~aActOut /\ aOutEcho' = Stale(aOutEcho)
    BY <1>2 DEF EchoInv, EchoAlive, Stale, None
  <1> QED BY <1>1, <1>2

\* out_write takes no lock yet.
LEMMA OutWrite ==
  ASSUME AudioInv, ~aHalf, out_write
  PROVE  AudioInv'
  <1> USE DEF AudioInv, Threads, None, out_write, Goto, modeVars, devVars, outVars, inVars
  <1>1. PcInv' BY DEF PcInv, PlayAt, RecAt, CtlAt
  <1>2. LockInv' BY DEF PcInv, LockInv, InInv, PlayAt, RecAt, CtlAt, HasHw, HasIn, HasOut
  <1>3. FlagInv' BY DEF FlagInv
  <1>4. OutInv' BY DEF PcInv, LockInv, FlagInv, OutInv, ModeInv, Changing, HasOut
  <1>5. HandleInv' BY DEF PcInv, LockInv, OutInv, HandleInv, ModeInv, Playing, HasOut
  <1>6. EchoInv' BY DEF PcInv, LockInv, FlagInv, OutInv, EchoInv, EchoAlive, HasOut
  <1>7. InInv' BY DEF PcInv, LockInv, FlagInv, InInv, ModeInv, HasHw, HasIn
  <1>8. ModeInv'
    BY DEF PcInv, LockInv, FlagInv, OutInv, InInv, ModeInv, Changing, HasHw, CallModes,
           InCallModes
  <1>9. CaptureInv'
    BY DEF PcInv, LockInv, FlagInv, OutInv, InInv, ModeInv, CaptureInv, Changing, HasHw,
           CallModes, InCallModes, NoFactory
  <1>10. RouteInv'
    BY DEF PcInv, LockInv, FlagInv, OutInv, ModeInv, RouteInv, Changing, HasHw, CallModes,
           InCallModes, NoFactory, Route
  <1> QED BY <1>1, <1>2, <1>3, <1>4, <1>5, <1>6, <1>7, <1>8, <1>9, <1>10

\* A thread takes the device lock and then asks for a stream lock.
LEMMA TakeHwStep ==
  ASSUME AudioInv, ~aHalf,
         \/ TakeHw("play", "w_hw", "w_out") \/ TakeHw("play", "w_fhw", "f_in") \/ TakeHw("play", "idle", "p_out")
         \/ TakeHw("rec", "r_hw", "r_in") \/ TakeHw("rec", "idle", "f_in")
         \/ TakeHw("ctl", "idle", "m_mode")
  PROVE  AudioInv'
  <1> USE DEF AudioInv, Threads, None, TakeHw, Lock, Free, Goto, modeVars, devVars, outVars,
              inVars
  <1>1. PcInv' BY DEF PcInv, PlayAt, RecAt, CtlAt
  <1>2. LockInv' BY DEF PcInv, LockInv, InInv, PlayAt, RecAt, CtlAt, HasHw, HasIn, HasOut
  <1>3. FlagInv' BY DEF FlagInv
  <1>4. OutInv' BY DEF PcInv, LockInv, FlagInv, OutInv, ModeInv, Changing, HasOut
  <1>5. HandleInv' BY DEF PcInv, LockInv, OutInv, HandleInv, ModeInv, Playing, HasOut
  <1>6. EchoInv' BY DEF PcInv, LockInv, FlagInv, OutInv, EchoInv, EchoAlive, HasOut
  <1>7. InInv' BY DEF PcInv, LockInv, FlagInv, InInv, ModeInv, HasHw, HasIn
  <1>8. ModeInv'
    BY DEF PcInv, LockInv, FlagInv, OutInv, InInv, ModeInv, Changing, HasHw, CallModes,
           InCallModes
  <1>9. CaptureInv'
    BY DEF PcInv, LockInv, FlagInv, OutInv, InInv, ModeInv, CaptureInv, Changing, HasHw,
           CallModes, InCallModes, NoFactory
  <1>10. RouteInv'
    BY DEF PcInv, LockInv, FlagInv, OutInv, ModeInv, RouteInv, Changing, HasHw, CallModes,
           InCallModes, NoFactory, Route
  <1> QED BY <1>1, <1>2, <1>3, <1>4, <1>5, <1>6, <1>7, <1>8, <1>9, <1>10

\* start_output_stream opens the handles of the active cards, or all are closed again.
LEMMA WriteStartStep ==
  ASSUME AudioInv, ~aHalf, WriteStart
  PROVE  AudioInv'
  <1> USE DEF AudioInv, Threads, None, WriteStart, start_output_stream, Opened, Playing, Free,
              Goto, devVars, inVars, outVars
  <1>1. PcInv' BY DEF PcInv, PlayAt, RecAt, CtlAt
  <1>2. LockInv' BY DEF PcInv, LockInv, InInv, PlayAt, RecAt, CtlAt, HasHw, HasIn, HasOut
  <1>3. FlagInv' BY DEF FlagInv
  <1>4. OutInv'
    <2>0. aPc["play"] = "w_out" /\ aPc' = [aPc EXCEPT !["play"] = IF aOutStandby' THEN "idle" ELSE "w_write"]
      OBVIOUS
    <2>00. aPc'["play"] = IF aOutStandby' THEN "idle" ELSE "w_write" BY <2>0 DEF PcInv
    <2>1. CASE ~aOutStandby BY <2>00, <2>1 DEF OutInv, HasOut
    <2>2. CASE aOutStandby /\ aMode \in CallModes BY <2>00, <2>2 DEF OutInv, HasOut
    <2>3. CASE aOutStandby /\ aMode \notin CallModes
      <3>1. aPcm = {} /\ aDrv = {} /\ ~aActOut BY <2>3 DEF OutInv
      <3> HIDE DEF Playing, Opened
      <3>2. PICK bad : \E kept \in {{}, bad} :
              /\ aPcm' = (aPcm \ bad) \cup (Opened(bad) \cup kept)
              /\ aDrv' = aDrv \cup (Opened(bad) \cup kept)
              /\ aActOut' = (bad = kept) /\ aOutStandby' = (bad # {})
              /\ aHalf' = (aHalf \/ (bad # {} /\ Opened(bad) \cup kept # {}))
        <4>1. start_output_stream
          <5> HIDE DEF start_output_stream
          <5> QED BY <2>3
        <4> HIDE DEF WriteStart
        <4>2. \E bad \in {{}} \cup {{c} : c \in Playing} : \E kept \in {{}, bad} :
                LET ok == Opened(bad) \cup kept IN
                /\ bad = {} => Playing \cap aDrv = {}
                /\ aDrv \cap ok = {}
                /\ aPcm' = (aPcm \ bad) \cup ok
                /\ aDrv' = aDrv \cup ok
                /\ aActOut' = (bad = kept)
                /\ aOutStandby' = (bad # {})
                /\ aOutEcho' = (IF aEcho /\ ok # {} THEN "live" ELSE aOutEcho)
                /\ aHalf' = (aHalf \/ (bad # {} /\ ok # {}))
          BY <2>3, <4>1, Zenon DEF start_output_stream
        <4> HIDE DEF start_output_stream
        <4>3. PICK bad \in {{}} \cup {{c} : c \in Playing} : \E kept \in {{}, bad} :
                LET ok == Opened(bad) \cup kept IN
                /\ aPcm' = (aPcm \ bad) \cup ok
                /\ aDrv' = aDrv \cup ok
                /\ aActOut' = (bad = kept)
                /\ aOutStandby' = (bad # {})
                /\ aHalf' = (aHalf \/ (bad # {} /\ ok # {}))
          BY <4>2, Zenon
        <4>4. \E kept \in {{}, bad} :
              /\ aPcm' = (aPcm \ bad) \cup (Opened(bad) \cup kept)
              /\ aDrv' = aDrv \cup (Opened(bad) \cup kept)
              /\ aActOut' = (bad = kept) /\ aOutStandby' = (bad # {})
              /\ aHalf' = (aHalf \/ (bad # {} /\ Opened(bad) \cup kept # {}))
          BY <4>3, Zenon
        <4> QED BY <4>4, Zenon
      <3>3. PICK kept \in {{}, bad} :
              /\ aPcm' = (aPcm \ bad) \cup (Opened(bad) \cup kept)
              /\ aDrv' = aDrv \cup (Opened(bad) \cup kept)
              /\ aActOut' = (bad = kept) /\ aOutStandby' = (bad # {})
              /\ aHalf' = (aHalf \/ (bad # {} /\ Opened(bad) \cup kept # {}))
        BY <3>2, Zenon
      <3>4. PICK ok : ok = Opened(bad) \cup kept OBVIOUS
      <3>5. aPcm' = ok /\ aDrv' = ok BY <3>1, <3>3, <3>4
      <3>6. aHalf' <=> bad # {} /\ ok # {} BY <3>3, <3>4
      <3>7. aActOut' => bad = {} \/ ok # {} BY <3>3, <3>4
      <3>8. bad = {} => aActOut' BY <3>3
      <3>9. aOutStandby' <=> bad # {} BY <3>3
      <3>10. aPc'["play"] \notin {"w_failed", "s_echo"} /\ (aPc'["play"] \in HasOut => ~aOutStandby')
        BY <2>00 DEF HasOut
      <3> QED BY <3>5, <3>6, <3>7, <3>8, <3>9, <3>10 DEF OutInv
    <2> QED BY <2>1, <2>2, <2>3
  <1>5. HandleInv' BY DEF PcInv, LockInv, OutInv, HandleInv, ModeInv, HasOut
  <1>6. EchoInv' BY DEF PcInv, LockInv, FlagInv, OutInv, EchoInv, EchoAlive, HasOut
  <1>7. InInv' BY DEF PcInv, LockInv, FlagInv, InInv, ModeInv, HasHw, HasIn
  <1>8. ModeInv'
    BY DEF PcInv, LockInv, FlagInv, OutInv, InInv, ModeInv, Changing, HasHw, CallModes,
           InCallModes
  <1>9. CaptureInv'
    BY DEF PcInv, LockInv, FlagInv, OutInv, InInv, ModeInv, CaptureInv, Changing, HasHw,
           CallModes, InCallModes, NoFactory
  <1>10. RouteInv'
    BY DEF PcInv, LockInv, FlagInv, OutInv, ModeInv, RouteInv, Changing, HasHw, CallModes,
           InCallModes, NoFactory, Route
  <1> QED BY <1>1, <1>2, <1>3, <1>4, <1>5, <1>6, <1>7, <1>8, <1>9, <1>10

\* A write goes to the open handles; a failed one closes them.
LEMMA WritePcmStep ==
  ASSUME AudioInv, ~aHalf, WritePcm
  PROVE  AudioInv'
  <1> USE DEF AudioInv, Threads, None, WritePcm, CloseHandles, Unlock, Goto, Playing, modeVars,
              devVars, inVars
  <1>1. PcInv' BY DEF PcInv, PlayAt, RecAt, CtlAt
  <1>2. LockInv' BY DEF PcInv, LockInv, InInv, PlayAt, RecAt, CtlAt, HasHw, HasIn, HasOut
  <1>3. FlagInv' BY DEF FlagInv
  <1>4. OutInv' BY DEF PcInv, LockInv, FlagInv, OutInv, ModeInv, Changing, HasOut
  <1>5. HandleInv' BY DEF PcInv, LockInv, OutInv, HandleInv, ModeInv, HasOut
  <1>6. EchoInv' BY DEF PcInv, LockInv, FlagInv, OutInv, EchoInv, EchoAlive, HasOut
  <1>7. InInv' BY DEF PcInv, LockInv, FlagInv, InInv, ModeInv, HasHw, HasIn
  <1>8. ModeInv'
    BY DEF PcInv, LockInv, FlagInv, OutInv, InInv, ModeInv, Changing, HasHw, CallModes,
           InCallModes
  <1>9. CaptureInv'
    BY DEF PcInv, LockInv, FlagInv, OutInv, InInv, ModeInv, CaptureInv, Changing, HasHw,
           CallModes, InCallModes, NoFactory
  <1>10. RouteInv'
    BY DEF PcInv, LockInv, FlagInv, OutInv, ModeInv, RouteInv, Changing, HasHw, CallModes,
           InCallModes, NoFactory, Route
  <1> QED BY <1>1, <1>2, <1>3, <1>4, <1>5, <1>6, <1>7, <1>8, <1>9, <1>10

\* The output goes into standby, after a failed write or on request.
LEMMA StandbyStep ==
  ASSUME AudioInv, ~aHalf, \/ WriteFailed \/ out_standby
  PROVE  AudioInv'
  <1> USE DEF AudioInv, Threads, None, WriteFailed, out_standby, EndStandby, CloseHandles, Lock,
              Free, Unlock, Goto, modeVars, devVars, inVars
  <1>1. PcInv' BY DEF PcInv, PlayAt, RecAt, CtlAt
  <1>2. LockInv' BY DEF PcInv, LockInv, InInv, PlayAt, RecAt, CtlAt, HasHw, HasIn, HasOut
  <1>3. FlagInv' BY DEF FlagInv
  <1>4. OutInv' BY DEF PcInv, LockInv, FlagInv, OutInv, ModeInv, Changing, HasOut
  <1>5. HandleInv' BY DEF PcInv, LockInv, OutInv, HandleInv, ModeInv, Playing, HasOut
  <1>6. EchoInv' BY DEF PcInv, LockInv, FlagInv, OutInv, EchoInv, EchoAlive, HasOut
  <1>7. InInv' BY DEF PcInv, LockInv, FlagInv, InInv, ModeInv, HasHw, HasIn
  <1>8. ModeInv'
    BY DEF PcInv, LockInv, FlagInv, OutInv, InInv, ModeInv, Changing, HasHw, CallModes,
           InCallModes
  <1>9. CaptureInv'
    BY DEF PcInv, LockInv, FlagInv, OutInv, InInv, ModeInv, CaptureInv, Changing, HasHw,
           CallModes, InCallModes, NoFactory
  <1>10. RouteInv'
    BY DEF PcInv, LockInv, FlagInv, OutInv, ModeInv, RouteInv, Changing, HasHw, CallModes,
           InCallModes, NoFactory, Route
  <1> QED BY <1>1, <1>2, <1>3, <1>4, <1>5, <1>6, <1>7, <1>8, <1>9, <1>10

\* out_set_parameters changes the route.
LEMMA RoutingStep ==
  ASSUME AudioInv, ~aHalf,
         aPc["play"] = "p_out", Free("out"), SetRouting,
         UNCHANGED <<aMode, aInCall, aActIn, aEcho, aExist, aComing, inVars, aNeed, aVoip, aForce,
                     aHalf>>
  PROVE  AudioInv'
  <1> USE DEF AudioInv, Threads, None, SetRouting, do_output_standby, CloseHandles, Free, Unlock,
              Goto, outVars, inVars
  <1>1. PcInv' BY DEF PcInv, PlayAt, RecAt, CtlAt
  <1>2. LockInv' BY DEF PcInv, LockInv, InInv, PlayAt, RecAt, CtlAt, HasHw, HasIn, HasOut
  <1>3. FlagInv' BY DEF FlagInv
  <1>4. OutInv' BY DEF PcInv, LockInv, FlagInv, OutInv, ModeInv, Changing, HasOut
  <1>5. HandleInv' BY DEF PcInv, LockInv, OutInv, HandleInv, ModeInv, Playing, HasOut
  <1>6. EchoInv' BY DEF PcInv, LockInv, FlagInv, OutInv, EchoInv, EchoAlive, HasOut
  <1>7. InInv' BY DEF PcInv, LockInv, FlagInv, InInv, ModeInv, HasHw, HasIn
  <1>8. ModeInv'
    BY DEF PcInv, LockInv, FlagInv, OutInv, InInv, ModeInv, Changing, HasHw, CallModes,
           InCallModes
  <1>9. CaptureInv'
    BY DEF PcInv, LockInv, FlagInv, OutInv, InInv, ModeInv, CaptureInv, Changing, HasHw,
           CallModes, InCallModes, NoFactory
  <1>10. RouteInv'
    BY DEF PcInv, LockInv, FlagInv, OutInv, ModeInv, RouteInv, Changing, HasHw, CallModes,
           InCallModes, NoFactory, Route
  <1> QED BY <1>1, <1>2, <1>3, <1>4, <1>5, <1>6, <1>7, <1>8, <1>9, <1>10

\* out_set_parameters changes the active cards or the raw mode.
LEMMA OutActiveStep ==
  ASSUME AudioInv, ~aHalf,
         aPc["play"] = "p_out", Free("out"), SetOutActive \/ SetRaw,
         UNCHANGED <<aMode, aInCall, aActIn, aEcho, aExist, aComing, inVars, aNeed, aVoip, aForce,
                     aHalf>>
  PROVE  AudioInv'
  <1> USE DEF AudioInv, Threads, None, SetOutActive, SetRaw, do_output_standby, CloseHandles,
              Free, Unlock, Goto, outVars, inVars
  <1>1. PcInv' BY DEF PcInv, PlayAt, RecAt, CtlAt
  <1>2. LockInv' BY DEF PcInv, LockInv, InInv, PlayAt, RecAt, CtlAt, HasHw, HasIn, HasOut
  <1>3. FlagInv' BY DEF FlagInv
  <1>4. OutInv' BY DEF PcInv, LockInv, FlagInv, OutInv, ModeInv, Changing, HasOut
  <1>5. HandleInv' BY DEF PcInv, LockInv, OutInv, HandleInv, ModeInv, Playing, HasOut
  <1>6. EchoInv' BY DEF PcInv, LockInv, FlagInv, OutInv, EchoInv, EchoAlive, HasOut
  <1>7. InInv' BY DEF PcInv, LockInv, FlagInv, InInv, ModeInv, HasHw, HasIn
  <1>8. ModeInv'
    BY DEF PcInv, LockInv, FlagInv, OutInv, InInv, ModeInv, Changing, HasHw, CallModes,
           InCallModes
  <1>9. CaptureInv'
    BY DEF PcInv, LockInv, FlagInv, OutInv, InInv, ModeInv, CaptureInv, Changing, HasHw,
           CallModes, InCallModes, NoFactory
  <1>10. RouteInv'
    BY DEF PcInv, LockInv, FlagInv, OutInv, ModeInv, RouteInv, Changing, HasHw, CallModes,
           InCallModes, NoFactory, Route
  <1> QED BY <1>1, <1>2, <1>3, <1>4, <1>5, <1>6, <1>7, <1>8, <1>9, <1>10

\* A mode or route change puts the input into standby.
LEMMA ForceInputStep ==
  ASSUME AudioInv, ~aHalf, NEW t \in {"play", "ctl"}, ForceInput(t)
  PROVE  AudioInv'
  <1> USE DEF AudioInv, Threads, None, ForceInput, do_input_standby, AfterInput, Release, Stale,
              Free, Unlock, Goto, modeVars, devVars, inVars
  <1>1. PcInv' BY DEF PcInv, PlayAt, RecAt, CtlAt
  <1>2. LockInv' BY DEF PcInv, LockInv, InInv, PlayAt, RecAt, CtlAt, HasHw, HasIn, HasOut
  <1>3. FlagInv' BY DEF FlagInv
  <1>4. OutInv' BY DEF PcInv, LockInv, FlagInv, OutInv, ModeInv, Changing, HasOut
  <1>5. HandleInv' BY DEF PcInv, LockInv, OutInv, HandleInv, ModeInv, Playing, HasOut
  <1>6. EchoInv'
    <2>1. ~aHalf /\ EchoInv OBVIOUS
    <2>2. aOutEcho' = aOutEcho \/ (~aActOut /\ aOutEcho' = Stale(aOutEcho)) OBVIOUS
    <2>3. aActOut' = aActOut OBVIOUS
    <2>4. /\ aPc["play"] \in {"w_failed", "s_echo"} => aPc'["play"] = aPc["play"]
          /\ aPc'["play"] = "w_write" => aPc["play"] = "w_write"
      BY DEF PcInv
    <2> QED BY <2>1, <2>2, <2>3, <2>4, EchoReleased
  <1>7. InInv' BY DEF PcInv, LockInv, FlagInv, InInv, ModeInv, HasHw, HasIn
  <1>8. ModeInv'
    BY DEF PcInv, LockInv, FlagInv, OutInv, InInv, ModeInv, Changing, HasHw, CallModes,
           InCallModes
  <1>9. CaptureInv'
    BY DEF PcInv, LockInv, FlagInv, OutInv, InInv, ModeInv, CaptureInv, Changing, HasHw,
           CallModes, InCallModes, NoFactory
  <1>10. RouteInv'
    BY DEF PcInv, LockInv, FlagInv, OutInv, ModeInv, RouteInv, Changing, HasHw, CallModes,
           InCallModes, NoFactory, Route
  <1> QED BY <1>1, <1>2, <1>3, <1>4, <1>5, <1>6, <1>7, <1>8, <1>9, <1>10

\* The input that goes into standby releases its echo reference.
LEMMA PutEchoStep ==
  ASSUME AudioInv, ~aHalf, NEW t \in Threads, PutEcho(t)
  PROVE  AudioInv'
  <1> USE DEF AudioInv, Threads, None, PutEcho, Removed, AfterInput, Release, Free, Unlock, Goto,
              modeVars, devVars
  <1>1. PcInv' BY DEF PcInv, PlayAt, RecAt, CtlAt
  <1>2. LockInv' BY DEF PcInv, LockInv, InInv, PlayAt, RecAt, CtlAt, HasHw, HasIn, HasOut
  <1>3. FlagInv' BY DEF FlagInv
  <1>4. OutInv' BY DEF PcInv, LockInv, FlagInv, OutInv, ModeInv, Changing, HasOut
  <1>5. HandleInv' BY DEF PcInv, LockInv, OutInv, HandleInv, ModeInv, Playing, HasOut
  <1>6. EchoInv' BY DEF PcInv, LockInv, FlagInv, OutInv, EchoInv, EchoAlive, HasOut
  <1>7. InInv' BY DEF PcInv, LockInv, FlagInv, InInv, ModeInv, HasHw, HasIn
  <1>8. ModeInv'
    BY DEF PcInv, LockInv, FlagInv, OutInv, InInv, ModeInv, Changing, HasHw, CallModes,
           InCallModes
  <1>9. CaptureInv'
    BY DEF PcInv, LockInv, FlagInv, OutInv, InInv, ModeInv, CaptureInv, Changing, HasHw,
           CallModes, InCallModes, NoFactory
  <1>10. RouteInv'
    BY DEF PcInv, LockInv, FlagInv, OutInv, ModeInv, RouteInv, Changing, HasHw, CallModes,
           InCallModes, NoFactory, Route
  <1> QED BY <1>1, <1>2, <1>3, <1>4, <1>5, <1>6, <1>7, <1>8, <1>9, <1>10

\* in_read takes no lock yet.
LEMMA InRead ==
  ASSUME AudioInv, ~aHalf, in_read
  PROVE  AudioInv'
  <1> USE DEF AudioInv, Threads, None, in_read, Goto, modeVars, devVars, outVars, inVars
  <1>1. PcInv' BY DEF PcInv, PlayAt, RecAt, CtlAt
  <1>2. LockInv' BY DEF PcInv, LockInv, InInv, PlayAt, RecAt, CtlAt, HasHw, HasIn, HasOut
  <1>3. FlagInv' BY DEF FlagInv
  <1>4. OutInv' BY DEF PcInv, LockInv, FlagInv, OutInv, ModeInv, Changing, HasOut
  <1>5. HandleInv' BY DEF PcInv, LockInv, OutInv, HandleInv, ModeInv, Playing, HasOut
  <1>6. EchoInv' BY DEF PcInv, LockInv, FlagInv, OutInv, EchoInv, EchoAlive, HasOut
  <1>7. InInv' BY DEF PcInv, LockInv, FlagInv, InInv, ModeInv, HasHw, HasIn
  <1>8. ModeInv'
    BY DEF PcInv, LockInv, FlagInv, OutInv, InInv, ModeInv, Changing, HasHw, CallModes,
           InCallModes
  <1>9. CaptureInv'
    BY DEF PcInv, LockInv, FlagInv, OutInv, InInv, ModeInv, CaptureInv, Changing, HasHw,
           CallModes, InCallModes, NoFactory
  <1>10. RouteInv'
    BY DEF PcInv, LockInv, FlagInv, OutInv, ModeInv, RouteInv, Changing, HasHw, CallModes,
           InCallModes, NoFactory, Route
  <1> QED BY <1>1, <1>2, <1>3, <1>4, <1>5, <1>6, <1>7, <1>8, <1>9, <1>10

\* start_input_stream opens the capture card and may ask for an echo reference.
LEMMA ReadStartStep ==
  ASSUME AudioInv, ~aHalf, ReadStart
  PROVE  AudioInv'
  <1> USE DEF AudioInv, Threads, None, ReadStart, OpenInput, WantEcho, Stale, Free, Unlock, Goto,
              modeVars, devVars
  <1>1. PcInv' BY DEF PcInv, PlayAt, RecAt, CtlAt
  <1>2. LockInv' BY DEF PcInv, LockInv, InInv, PlayAt, RecAt, CtlAt, HasHw, HasIn, HasOut
  <1>3. FlagInv' BY DEF FlagInv
  <1>4. OutInv' BY DEF PcInv, LockInv, FlagInv, OutInv, ModeInv, Changing, HasOut
  <1>5. HandleInv' BY DEF PcInv, LockInv, OutInv, HandleInv, ModeInv, Playing, HasOut
  <1>6. EchoInv'
    <2>1. ~aHalf /\ EchoInv OBVIOUS
    <2>2. aOutEcho' = aOutEcho \/ (~aActOut /\ aOutEcho' = Stale(aOutEcho)) OBVIOUS
    <2>3. aActOut' = aActOut OBVIOUS
    <2>4. /\ aPc["play"] \in {"w_failed", "s_echo"} => aPc'["play"] = aPc["play"]
          /\ aPc'["play"] = "w_write" => aPc["play"] = "w_write"
      BY DEF PcInv
    <2> QED BY <2>1, <2>2, <2>3, <2>4, EchoReleased
  <1>7. InInv'
    <2> USE DEF PcInv, LockInv, InInv, HasHw, HasIn
    <2>1. (~aHalf /\ (aInStandby \/ ~aActIn) => ~aInPcm)' OBVIOUS
    <2>2. (aPc["rec"] = "r_read" => aActIn)' OBVIOUS
    <2>3. (~aInStandby /\ (\A t \in Threads : aPc[t] # "put") => aActIn)' OBVIOUS
    <2>4. (\A t \in Threads : aPc[t] = "put" => ~aInPcm)' OBVIOUS
    <2>5. (aPc["rec"] \in {"r_put", "r_get", "r_add", "r_lock"} => aMode # "call" /\ aInStandby)' OBVIOUS
    <2> QED BY <2>1, <2>2, <2>3, <2>4, <2>5
  <1>8. ModeInv'
    BY DEF PcInv, LockInv, FlagInv, OutInv, InInv, ModeInv, Changing, HasHw, CallModes,
           InCallModes
  <1>9. CaptureInv'
    BY DEF PcInv, LockInv, FlagInv, OutInv, InInv, ModeInv, CaptureInv, Changing, HasHw,
           CallModes, InCallModes, NoFactory
  <1>10. RouteInv'
    BY DEF PcInv, LockInv, FlagInv, OutInv, ModeInv, RouteInv, Changing, HasHw, CallModes,
           InCallModes, NoFactory, Route
  <1> QED BY <1>1, <1>2, <1>3, <1>4, <1>5, <1>6, <1>7, <1>8, <1>9, <1>10

\* The echo reference is created and given to the output.
LEMMA GetEchoStep ==
  ASSUME AudioInv, ~aHalf, get_echo_reference
  PROVE  AudioInv'
  <1> USE DEF AudioInv, Threads, None, get_echo_reference, Removed, OpenInput, Free, Unlock,
              Goto, modeVars, devVars, inVars
  <1>1. PcInv' BY DEF PcInv, PlayAt, RecAt, CtlAt
  <1>2. LockInv' BY DEF PcInv, LockInv, InInv, PlayAt, RecAt, CtlAt, HasHw, HasIn, HasOut
  <1>3. FlagInv' BY DEF FlagInv
  <1>4. OutInv' BY DEF PcInv, LockInv, FlagInv, OutInv, ModeInv, Changing, HasOut
  <1>5. HandleInv' BY DEF PcInv, LockInv, OutInv, HandleInv, ModeInv, Playing, HasOut
  <1>6. EchoInv' BY DEF PcInv, LockInv, FlagInv, OutInv, EchoInv, EchoAlive, HasOut
  <1>7. InInv' BY DEF PcInv, LockInv, FlagInv, InInv, ModeInv, HasHw, HasIn
  <1>8. ModeInv'
    BY DEF PcInv, LockInv, FlagInv, OutInv, InInv, ModeInv, Changing, HasHw, CallModes,
           InCallModes
  <1>9. CaptureInv'
    BY DEF PcInv, LockInv, FlagInv, OutInv, InInv, ModeInv, CaptureInv, Changing, HasHw,
           CallModes, InCallModes, NoFactory
  <1>10. RouteInv'
    BY DEF PcInv, LockInv, FlagInv, OutInv, ModeInv, RouteInv, Changing, HasHw, CallModes,
           InCallModes, NoFactory, Route
  <1> QED BY <1>1, <1>2, <1>3, <1>4, <1>5, <1>6, <1>7, <1>8, <1>9, <1>10

\* A read from the capture card.
LEMMA ReadPcmStep ==
  ASSUME AudioInv, ~aHalf, ReadPcm
  PROVE  AudioInv'
  <1> USE DEF AudioInv, Threads, None, ReadPcm, Unlock, Goto, modeVars, devVars, outVars, inVars
  <1>1. PcInv' BY DEF PcInv, PlayAt, RecAt, CtlAt
  <1>2. LockInv' BY DEF PcInv, LockInv, InInv, PlayAt, RecAt, CtlAt, HasHw, HasIn, HasOut
  <1>3. FlagInv' BY DEF FlagInv
  <1>4. OutInv' BY DEF PcInv, LockInv, FlagInv, OutInv, ModeInv, Changing, HasOut
  <1>5. HandleInv' BY DEF PcInv, LockInv, OutInv, HandleInv, ModeInv, Playing, HasOut
  <1>6. EchoInv' BY DEF PcInv, LockInv, FlagInv, OutInv, EchoInv, EchoAlive, HasOut
  <1>7. InInv' BY DEF PcInv, LockInv, FlagInv, InInv, ModeInv, HasHw, HasIn
  <1>8. ModeInv'
    BY DEF PcInv, LockInv, FlagInv, OutInv, InInv, ModeInv, Changing, HasHw, CallModes,
           InCallModes
  <1>9. CaptureInv'
    BY DEF PcInv, LockInv, FlagInv, OutInv, InInv, ModeInv, CaptureInv, Changing, HasHw,
           CallModes, InCallModes, NoFactory
  <1>10. RouteInv'
    BY DEF PcInv, LockInv, FlagInv, OutInv, ModeInv, RouteInv, Changing, HasHw, CallModes,
           InCallModes, NoFactory, Route
  <1> QED BY <1>1, <1>2, <1>3, <1>4, <1>5, <1>6, <1>7, <1>8, <1>9, <1>10

\* The input goes into standby on request.
LEMMA InStandbyStep ==
  ASSUME AudioInv, ~aHalf, in_standby
  PROVE  AudioInv'
  <1> USE DEF AudioInv, Threads, None, in_standby, SetEcho, do_input_standby, AfterInput, Release,
              Stale, Free, Unlock, Goto, modeVars, devVars, inVars
  <1>1. PcInv' BY DEF PcInv, PlayAt, RecAt, CtlAt
  <1>2. LockInv' BY DEF PcInv, LockInv, InInv, PlayAt, RecAt, CtlAt, HasHw, HasIn, HasOut
  <1>3. FlagInv' BY DEF FlagInv
  <1>4. OutInv' BY DEF PcInv, LockInv, FlagInv, OutInv, ModeInv, Changing, HasOut
  <1>5. HandleInv' BY DEF PcInv, LockInv, OutInv, HandleInv, ModeInv, Playing, HasOut
  <1>6. EchoInv'
    <2>1. ~aHalf /\ EchoInv OBVIOUS
    <2>2. aOutEcho' = aOutEcho \/ (~aActOut /\ aOutEcho' = Stale(aOutEcho)) OBVIOUS
    <2>3. aActOut' = aActOut OBVIOUS
    <2>4. /\ aPc["play"] \in {"w_failed", "s_echo"} => aPc'["play"] = aPc["play"]
          /\ aPc'["play"] = "w_write" => aPc["play"] = "w_write"
      BY DEF PcInv
    <2> QED BY <2>1, <2>2, <2>3, <2>4, EchoReleased
  <1>7. InInv' BY DEF PcInv, LockInv, FlagInv, InInv, ModeInv, HasHw, HasIn
  <1>8. ModeInv'
    BY DEF PcInv, LockInv, FlagInv, OutInv, InInv, ModeInv, Changing, HasHw, CallModes,
           InCallModes
  <1>9. CaptureInv'
    BY DEF PcInv, LockInv, FlagInv, OutInv, InInv, ModeInv, CaptureInv, Changing, HasHw,
           CallModes, InCallModes, NoFactory
  <1>10. RouteInv'
    BY DEF PcInv, LockInv, FlagInv, OutInv, ModeInv, RouteInv, Changing, HasHw, CallModes,
           InCallModes, NoFactory, Route
  <1> QED BY <1>1, <1>2, <1>3, <1>4, <1>5, <1>6, <1>7, <1>8, <1>9, <1>10

\* adev_set_mode stores the mode and decides which streams must stop.
LEMMA SetModeStep ==
  ASSUME AudioInv, ~aHalf, adev_set_mode
  PROVE  AudioInv'
  <1> USE DEF AudioInv, Threads, None, adev_set_mode, Forces, Unlock, Goto, devVars, outVars,
              inVars
  <1>1. PcInv' BY DEF PcInv, PlayAt, RecAt, CtlAt
  <1>2. LockInv' BY DEF PcInv, LockInv, InInv, PlayAt, RecAt, CtlAt, HasHw, HasIn, HasOut
  <1>3. FlagInv' BY DEF FlagInv
  <1>4. OutInv' BY DEF PcInv, LockInv, FlagInv, OutInv, ModeInv, Changing, HasOut
  <1>5. HandleInv' BY DEF PcInv, LockInv, OutInv, HandleInv, ModeInv, Playing, HasOut
  <1>6. EchoInv' BY DEF PcInv, LockInv, FlagInv, OutInv, EchoInv, EchoAlive, HasOut
  <1>7. InInv' BY DEF PcInv, LockInv, FlagInv, InInv, ModeInv, HasHw, HasIn
  <1>8. ModeInv'
    BY DEF PcInv, LockInv, FlagInv, OutInv, InInv, ModeInv, Changing, HasHw, CallModes,
           InCallModes
  <1>9. CaptureInv'
    BY DEF PcInv, LockInv, FlagInv, OutInv, InInv, ModeInv, CaptureInv, Changing, HasHw,
           CallModes, InCallModes, NoFactory
  <1>10. RouteInv'
    BY DEF PcInv, LockInv, FlagInv, OutInv, ModeInv, RouteInv, Changing, HasHw, CallModes,
           InCallModes, NoFactory, Route
  <1> QED BY <1>1, <1>2, <1>3, <1>4, <1>5, <1>6, <1>7, <1>8, <1>9, <1>10

\* A mode change puts the output into standby.
LEMMA ForceOutputStep ==
  ASSUME AudioInv, ~aHalf, ForceOutput
  PROVE  AudioInv'
  <1> USE DEF AudioInv, Threads, None, ForceOutput, do_output_standby, CloseHandles, Free, Goto,
              modeVars, devVars, inVars, outVars
  <1>1. PcInv' BY DEF PcInv, PlayAt, RecAt, CtlAt
  <1>2. LockInv' BY DEF PcInv, LockInv, InInv, PlayAt, RecAt, CtlAt, HasHw, HasIn, HasOut
  <1>3. FlagInv' BY DEF FlagInv
  <1>4. OutInv' BY DEF PcInv, LockInv, FlagInv, OutInv, ModeInv, Changing, HasOut
  <1>5. HandleInv' BY DEF PcInv, LockInv, OutInv, HandleInv, ModeInv, Playing, HasOut
  <1>6. EchoInv' BY DEF PcInv, LockInv, FlagInv, OutInv, EchoInv, EchoAlive, HasOut
  <1>7. InInv' BY DEF PcInv, LockInv, FlagInv, InInv, ModeInv, HasHw, HasIn
  <1>8. ModeInv'
    BY DEF PcInv, LockInv, FlagInv, OutInv, InInv, ModeInv, Changing, HasHw, CallModes,
           InCallModes
  <1>9. CaptureInv'
    BY DEF PcInv, LockInv, FlagInv, OutInv, InInv, ModeInv, CaptureInv, Changing, HasHw,
           CallModes, InCallModes, NoFactory
  <1>10. RouteInv'
    BY DEF PcInv, LockInv, FlagInv, OutInv, ModeInv, RouteInv, Changing, HasHw, CallModes,
           InCallModes, NoFactory, Route
  <1> QED BY <1>1, <1>2, <1>3, <1>4, <1>5, <1>6, <1>7, <1>8, <1>9, <1>10

\* select_mode enters or leaves the call in the codec.
LEMMA SelectModeStep ==
  ASSUME AudioInv, ~aHalf, select_mode
  PROVE  AudioInv'
  <1> USE DEF AudioInv, Threads, None, select_mode, Unlock, Goto, devVars, outVars, inVars
  <1>1. PcInv' BY DEF PcInv, PlayAt, RecAt, CtlAt
  <1>2. LockInv' BY DEF PcInv, LockInv, InInv, PlayAt, RecAt, CtlAt, HasHw, HasIn, HasOut
  <1>3. FlagInv' BY DEF FlagInv
  <1>4. OutInv' BY DEF PcInv, LockInv, FlagInv, OutInv, ModeInv, Changing, HasOut
  <1>5. HandleInv' BY DEF PcInv, LockInv, OutInv, HandleInv, ModeInv, Playing, HasOut
  <1>6. EchoInv' BY DEF PcInv, LockInv, FlagInv, OutInv, EchoInv, EchoAlive, HasOut
  <1>7. InInv' BY DEF PcInv, LockInv, FlagInv, InInv, ModeInv, HasHw, HasIn
  <1>8. ModeInv'
    BY DEF PcInv, LockInv, FlagInv, OutInv, InInv, ModeInv, Changing, HasHw, CallModes,
           InCallModes
  <1>9. CaptureInv'
    BY DEF PcInv, LockInv, FlagInv, OutInv, InInv, ModeInv, CaptureInv, Changing, HasHw,
           CallModes, InCallModes, NoFactory
  <1>10. RouteInv'
    BY DEF PcInv, LockInv, FlagInv, OutInv, ModeInv, RouteInv, Changing, HasHw, CallModes,
           InCallModes, NoFactory, Route
  <1> QED BY <1>1, <1>2, <1>3, <1>4, <1>5, <1>6, <1>7, <1>8, <1>9, <1>10

\* A stream is opened again by the framework.
LEMMA ReopenStep ==
  ASSUME AudioInv, ~aHalf, ReopenOutput \/ ReopenInput
  PROVE  AudioInv'
  <1> USE DEF AudioInv, Threads, None, ReopenOutput, ReopenInput, modeVars, devVars, outVars,
              inVars
  <1>1. PcInv' BY DEF PcInv, PlayAt, RecAt, CtlAt
  <1>2. LockInv' BY DEF PcInv, LockInv, InInv, PlayAt, RecAt, CtlAt, HasHw, HasIn, HasOut
  <1>3. FlagInv' BY DEF FlagInv
  <1>4. OutInv' BY DEF PcInv, LockInv, FlagInv, OutInv, ModeInv, Changing, HasOut
  <1>5. HandleInv' BY DEF PcInv, LockInv, OutInv, HandleInv, ModeInv, Playing, HasOut
  <1>6. EchoInv' BY DEF PcInv, LockInv, FlagInv, OutInv, EchoInv, EchoAlive, HasOut
  <1>7. InInv' BY DEF PcInv, LockInv, FlagInv, InInv, ModeInv, HasHw, HasIn
  <1>8. ModeInv'
    BY DEF PcInv, LockInv, FlagInv, OutInv, InInv, ModeInv, Changing, HasHw, CallModes,
           InCallModes
  <1>9. CaptureInv'
    BY DEF PcInv, LockInv, FlagInv, OutInv, InInv, ModeInv, CaptureInv, Changing, HasHw,
           CallModes, InCallModes, NoFactory
  <1>10. RouteInv'
    BY DEF PcInv, LockInv, FlagInv, OutInv, ModeInv, RouteInv, Changing, HasHw, CallModes,
           InCallModes, NoFactory, Route
  <1> QED BY <1>1, <1>2, <1>3, <1>4, <1>5, <1>6, <1>7, <1>8, <1>9, <1>10

\* A card is unplugged, or plugged in two steps.
LEMMA DevicesStep ==
  ASSUME AudioInv, ~aHalf, updata_audio_devices \/ do_init_audio_card
  PROVE  AudioInv'
  <1> USE DEF AudioInv, Threads, None, updata_audio_devices, do_init_audio_card, Goto, modeVars,
              outVars, inVars
  <1>1. PcInv' BY DEF PcInv, PlayAt, RecAt, CtlAt
  <1>2. LockInv' BY DEF PcInv, LockInv, InInv, PlayAt, RecAt, CtlAt, HasHw, HasIn, HasOut
  <1>3. FlagInv' BY DEF FlagInv
  <1>4. OutInv' BY DEF PcInv, LockInv, FlagInv, OutInv, ModeInv, Changing, HasOut
  <1>5. HandleInv' BY DEF PcInv, LockInv, OutInv, HandleInv, ModeInv, Playing, HasOut
  <1>6. EchoInv' BY DEF PcInv, LockInv, FlagInv, OutInv, EchoInv, EchoAlive, HasOut
  <1>7. InInv' BY DEF PcInv, LockInv, FlagInv, InInv, ModeInv, HasHw, HasIn
  <1>8. ModeInv'
    BY DEF PcInv, LockInv, FlagInv, OutInv, InInv, ModeInv, Changing, HasHw, CallModes,
           InCallModes
  <1>9. CaptureInv'
    BY DEF PcInv, LockInv, FlagInv, OutInv, InInv, ModeInv, CaptureInv, Changing, HasHw,
           CallModes, InCallModes, NoFactory
  <1>10. RouteInv'
    BY DEF PcInv, LockInv, FlagInv, OutInv, ModeInv, RouteInv, Changing, HasHw, CallModes,
           InCallModes, NoFactory, Route
  <1> QED BY <1>1, <1>2, <1>3, <1>4, <1>5, <1>6, <1>7, <1>8, <1>9, <1>10

\* mediaserver dies and starts again.
LEMMA RestartStep ==
  ASSUME AudioInv, Restart
  PROVE  AudioInv'
  <1> USE DEF AudioInv, Threads, None, Restart
  <1>1. PcInv' BY DEF PcInv, PlayAt, RecAt, CtlAt
  <1>2. LockInv' BY DEF PcInv, LockInv, InInv, PlayAt, RecAt, CtlAt, HasHw, HasIn, HasOut
  <1>3. FlagInv' BY DEF FlagInv
  <1>4. OutInv' BY DEF PcInv, LockInv, FlagInv, OutInv, ModeInv, Changing, HasOut
  <1>5. HandleInv' BY DEF PcInv, LockInv, OutInv, HandleInv, ModeInv, Playing, HasOut
  <1>6. EchoInv' BY DEF PcInv, LockInv, FlagInv, OutInv, EchoInv, EchoAlive, HasOut
  <1>7. InInv' BY DEF PcInv, LockInv, FlagInv, InInv, ModeInv, HasHw, HasIn
  <1>8. ModeInv'
    BY DEF PcInv, LockInv, FlagInv, OutInv, InInv, ModeInv, Changing, HasHw, CallModes,
           InCallModes
  <1>9. CaptureInv'
    BY DEF PcInv, LockInv, FlagInv, OutInv, InInv, ModeInv, CaptureInv, Changing, HasHw,
           CallModes, InCallModes, NoFactory
  <1>10. RouteInv'
    BY DEF PcInv, LockInv, FlagInv, OutInv, ModeInv, RouteInv, Changing, HasHw, CallModes,
           InCallModes, NoFactory, Route
  <1> QED BY <1>1, <1>2, <1>3, <1>4, <1>5, <1>6, <1>7, <1>8, <1>9, <1>10

\* The invariant is inductive.
LEMMA AudioInductive == ASpec => []AudioInv
  <1>1. AudioInv /\ [ANext]_aVars => AudioInv'
    <2> SUFFICES ASSUME AudioInv, [ANext]_aVars PROVE AudioInv' OBVIOUS
    <2>1. CASE UNCHANGED aVars
      BY <2>1 DEF aVars, modeVars, devVars, outVars, inVars, AudioInv, PcInv, LockInv, FlagInv,
                  OutInv, HandleInv, Playing, EchoInv, EchoAlive, InInv, ModeInv, CaptureInv,
                  RouteInv, Changing
    <2>2. CASE Restart BY <2>2, RestartStep
    <2>3. CASE ~aHalf /\ PlayStep
      BY <2>3, TakeHwStep, WriteStartStep, WritePcmStep, StandbyStep, ForceInputStep, PutEchoStep,
         RoutingStep, OutActiveStep
         DEF PlayStep, out_set_parameters, Threads
    <2>4. CASE ~aHalf /\ RecStep
      BY <2>4, TakeHwStep, ReadStartStep, GetEchoStep, ReadPcmStep, InStandbyStep, PutEchoStep
         DEF RecStep, Threads
    <2>5. CASE ~aHalf /\ CtlStep
      BY <2>5, SetModeStep, ForceOutputStep, ForceInputStep, PutEchoStep, SelectModeStep, DevicesStep
         DEF CtlStep, Threads
    <2>6. CASE ~aHalf /\ (out_write \/ out_standby \/ out_set_parameters)
      BY <2>6, OutWrite, StandbyStep, TakeHwStep, RoutingStep, OutActiveStep
         DEF out_set_parameters
    <2>7. CASE ~aHalf /\ (in_read \/ updata_audio_devices \/ ReopenOutput \/ ReopenInput)
      BY <2>7, InRead, DevicesStep, ReopenStep
    <2>8. CASE ~aHalf /\ (TakeHw("rec", "idle", "f_in") \/ TakeHw("ctl", "idle", "m_mode"))
      BY <2>8, TakeHwStep
    <2> QED BY <2>1, <2>2, <2>3, <2>4, <2>5, <2>6, <2>7, <2>8 DEF ANext
  <1> QED BY <1>1, AudioInit, PTL DEF ASpec

\* out_write never writes to an echo reference that the record side released,
\* although standby clears active_output without the hw mutex: the only one it can
\* meet was given to the stream after its standby.
THEOREM EchoSafe == ASpec => []EchoAlive
  <1>1. AudioInv => EchoAlive BY DEF AudioInv, EchoInv
  <1> QED BY <1>1, AudioInductive, PTL

\* out_write finds a handle for every card it writes to, or none at all after a
\* call has begun, whatever cards are removed or made active; the only handle that
\* it can miss is that of a card do_init_audio_card is at.
THEOREM HandlesSafe == ASpec => []HandlesComplete
  <1>1. AudioInv => HandlesComplete
    BY DEF AudioInv, OutInv, HandleInv, HandlesComplete, HasOut
  <1> QED BY <1>1, AudioInductive, PTL

\* In a call no playback and no capture device is open, on a device without the
\* factory test mode.
THEOREM CallSafe ==
  ASSUME NoFactory
  PROVE  ASpec => []CallOwnsCodec
  <1>1. AudioInv => CallOwnsCodec
    BY DEF AudioInv, PcInv, LockInv, OutInv, ModeInv, CaptureInv, CallOwnsCodec, CallModes, Free,
           HasHw, Threads, None
  <1> QED BY <1>1, AudioInductive, PTL

\* While something is played, and in a call, the route is that of the mode and
\* the output device, on a device without the factory test mode.
THEOREM RouteSafe ==
  ASSUME NoFactory
  PROVE  ASpec => []RouteFollows
  <1>1. AudioInv => RouteFollows
    BY DEF AudioInv, LockInv, RouteInv, RouteFollows, Changing, Free, HasHw, Threads, None
  <1> QED BY <1>1, AudioInductive, PTL

=============================================================================
