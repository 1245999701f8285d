------------------------------ MODULE AudioHal ------------------------------
(***************************************************************************)
(* The streams of the audio HAL (audio_hw.c) under its three mutexes: the  *)
(* playback thread (out_write, out_standby, out_set_parameters), the       *)
(* record thread (in_read, in_standby, in_set_parameters, the effects) and *)
(* the thread of AudioFlinger that changes the mode, lists the cards and   *)
(* closes and opens the output stream.                                     *)
(*                                                                         *)
(* A step ends where another thread can see the difference: at a mutex, at *)
(* a read of the mode or of active_output that its mutex does not protect, *)
(* and inside do_output_standby, which is also called without the mutex of *)
(* the hw device.  Samples, rates and resamplers are left out, and so is   *)
(* the record path of the codec; a pcm is its card.  An access through a   *)
(* pointer that is NULL ends the media server, which is started again.     *)
(***************************************************************************)
EXTENDS Integers

CONSTANTS Cards,      \* sound cards with a playback device
          Codec,      \* the card of the codec, active by default
          Pluggable,  \* cards that come and go
          Fallback,   \* cards 0 and 1, made active for an unknown name
          Modes,      \* the audio modes that AudioFlinger sets
          Devices     \* output devices the policy routes to

Threads == {"play", "rec", "ctl"}
None == "none"

VARIABLES
  aMode, aInCall,           \* adev->mode, in_call
  aDevice, aRoute,          \* adev->out_device; the route the codec was given
  aActOut, aActIn,          \* adev->active_output, active_input (NULL or the stream)
  aEcho,                    \* adev->echo_reference exists
  aExist, aActive,          \* dev_manager: flag_exist and flag_out, flag_out_active
  aComing,                  \* the card that do_init_audio_card is at
  aDrv,                     \* cards whose playback device is open in the driver
  aPcm, aOutStandby,        \* out->multi_pcm, standby
  aOutEcho, aInEcho,        \* echo_reference of the streams: none, live or, once it is
                            \* released, stale; late or, once it is released, astray if
                            \* the stream got it after its standby
  aInPcm, aInStandby,       \* in->pcm (NULL or open), standby
  aNeed, aVoip,             \* in->need_echo_reference, source is VOICE_COMMUNICATION
  aForce,                   \* force_input_standby of the playback thread
  aLock, aPc,               \* owners of the mutexes, where each thread is
  aHalf                     \* a start has failed after it had opened something

outVars == <<aPcm, aOutStandby, aOutEcho, aDrv>>
inVars == <<aInPcm, aInStandby, aInEcho>>
devVars == <<aExist, aActive, aComing>>
modeVars == <<aMode, aInCall, aDevice, aRoute>>
aVars == <<modeVars, aActOut, aActIn, aEcho, devVars, outVars, inVars, aNeed, aVoip,
           aForce, aLock, aPc, aHalf>>

\* Modes in which the modem or the tuner drives the codec and nothing is played.
CallModes == {"call", "factory", "fm"}
\* Modes for which select_mode keeps in_call.
InCallModes == {"call", "factory"}

\* The route select_output_device gives the codec.
Route(m, d) == <<IF m \in CallModes THEN m ELSE "normal", d>>

\* The open handles that out_write uses: cards that exist and are active.  Its loop
\* also looks at the entry past the last one; that is text, in_devices, and so its
\* flag_out is never AUDIO_OUT.
Playing == aExist \cap aActive

-----------------------------------------------------------------------------
Free(l) == aLock[l] = None
Goto(t, l) == aPc' = [aPc EXCEPT ![t] = l]
Lock(t, l) == Free(l) /\ aLock' = [aLock EXCEPT ![l] = t]
Unlock(ls) == aLock' = [l \in DOMAIN aLock |-> IF l \in ls THEN None ELSE aLock[l]]

\* adev_open, and the first streams that AudioFlinger opens.
AInit ==
  /\ aMode = "normal" /\ aInCall = FALSE
  /\ aDevice = "speaker" /\ aRoute = Route("normal", "speaker")
  /\ aActOut = FALSE /\ aActIn = FALSE /\ aEcho = FALSE
  /\ aExist = Cards /\ aActive = {Codec} /\ aComing = {}
  /\ aDrv = {} /\ aPcm = {} /\ aOutStandby = TRUE /\ aOutEcho = None
  /\ aInPcm = FALSE /\ aInStandby = TRUE /\ aInEcho = None
  /\ aNeed = FALSE /\ aVoip = FALSE /\ aForce = FALSE
  /\ aLock = [l \in {"hw", "in", "out"} |-> None]
  /\ aPc = [t \in Threads |-> "idle"]
  /\ aHalf = FALSE

-----------------------------------------------------------------------------
(* do_output_standby: first the handles and active_output, then the echo   *)
(* reference.  A caller without the hw mutex can be seen between the two.  *)

CloseHandles ==
  /\ aDrv' = aDrv \ aPcm /\ aPcm' = {}
  /\ aActOut' = FALSE

do_output_standby ==
  IF aOutStandby THEN UNCHANGED <<outVars, aActOut>>
  ELSE CloseHandles /\ aOutEcho' = None /\ aOutStandby' = TRUE

KeepsStreamMutex(done) ==
  /\ aOutEcho' = None /\ aOutStandby' = TRUE
  /\ Goto("play", done) /\ UNCHANGED aLock
  /\ aForce' = FALSE
  /\ UNCHANGED <<modeVars, aActOut, aActIn, aEcho, devVars, aDrv, aPcm, inVars, aNeed,
                 aVoip, aHalf>>

\* The second half, when the caller has the mutex of the stream only.  It writes to
\* the reference first, which may have been released since active_output is cleared.
EndStandby(done) ==
  /\ aOutEcho' = None /\ aOutStandby' = TRUE
  /\ Goto("play", done) /\ Unlock({"out"})
  /\ aForce' = FALSE
  /\ UNCHANGED <<modeVars, aActOut, aActIn, aEcho, devVars, aDrv, aPcm, inVars, aNeed,
                 aVoip, aHalf>>

-----------------------------------------------------------------------------
(* do_input_standby, with the mutexes of the hw device and of the stream.  *)
(* Putting the echo reference back waits for the output stream when        *)
(* active_output says there is one.                                        *)

\* What release_echo_reference makes of a pointer to the reference.
Stale(e) == CASE e = "live" -> "stale" [] e = "late" -> "astray" [] OTHER -> e

\* What remove_echo_reference makes of it.
Removed(e) == IF e \in {"live", "late"} THEN None ELSE e

\* release_echo_reference and what is left of do_input_standby.
Release ==
  /\ aEcho' = FALSE
  /\ aInEcho' = None /\ aInStandby' = TRUE

\* Where the caller of do_input_standby goes on: select_mode keeps the hw mutex.
AfterInput(t) ==
  /\ Unlock(IF t = "ctl" THEN {"in"} ELSE {"in", "hw"})
  /\ Goto(t, IF t = "ctl" THEN "m_end" ELSE "idle")

do_input_standby(t) ==
  /\ IF aInStandby
     THEN AfterInput(t) /\ UNCHANGED <<inVars, aActIn, aEcho, aOutEcho>>
     ELSE /\ aInPcm' = FALSE /\ aActIn' = FALSE
          /\ \/ /\ aInEcho = "live" /\ aActOut
                /\ Goto(t, "put") /\ aLock' = [aLock EXCEPT !["in"] = t]
                /\ UNCHANGED <<aInStandby, aInEcho, aEcho, aOutEcho>>
             \/ /\ aInEcho = "live" /\ ~aActOut
                /\ Release /\ AfterInput(t)
                /\ aOutEcho' = Stale(aOutEcho)
             \/ /\ aInEcho # "live"
                /\ aInEcho' = None /\ aInStandby' = TRUE /\ AfterInput(t)
                /\ UNCHANGED <<aEcho, aOutEcho>>
  /\ UNCHANGED <<aActOut, aPcm, aOutStandby, aDrv>>

PutWithoutRemove(t) ==
  /\ aPc[t] = "put" /\ Free("out")
  /\ aOutEcho' = Stale(aOutEcho)
  /\ Release /\ AfterInput(t)
  /\ UNCHANGED <<modeVars, aActOut, aActIn, devVars, aPcm, aOutStandby, aDrv, aInPcm,
                 aNeed, aVoip, aForce, aHalf>>

\* remove_echo_reference, then the release.
PutEcho(t) ==
  /\ aPc[t] = "put" /\ Free("out")
  /\ aOutEcho' = Removed(aOutEcho)
  /\ Release /\ AfterInput(t)
  /\ UNCHANGED <<modeVars, aActOut, aActIn, devVars, aPcm, aOutStandby, aDrv, aInPcm,
                 aNeed, aVoip, aForce, aHalf>>

\* The input stream is taken to standby by a thread that has the hw mutex.
ForceInput(t) ==
  /\ aPc[t] = "f_in" /\ t # "rec"
  /\ IF aActIn THEN Free("in") /\ do_input_standby(t)
     ELSE AfterInput(t) /\ UNCHANGED <<inVars, aActIn, aEcho, aOutEcho, aActOut, aPcm, aOutStandby, aDrv>>
  /\ UNCHANGED <<modeVars, devVars, aNeed, aVoip, aForce, aHalf>>

-----------------------------------------------------------------------------
(* The playback thread.                                                    *)

TakeHw(t, from, to) ==
  /\ aPc[t] = from /\ Lock(t, "hw") /\ Goto(t, to)
  /\ UNCHANGED <<modeVars, aActOut, aActIn, aEcho, devVars, outVars, inVars, aNeed, aVoip,
                 aForce, aHalf>>

\* out_write up to its first mutex.  A buffer whose raw header differs from
\* the last one is out_standby followed by this step.
out_write ==
  /\ aPc["play"] = "idle" /\ aMode \notin CallModes
  /\ Goto("play", "w_hw")
  /\ UNCHANGED <<modeVars, aActOut, aActIn, aEcho, devVars, outVars, inVars, aNeed, aVoip,
                 aForce, aLock, aHalf>>

\* The cards that start_output_stream opens, lowest first, until one fails:
\* a card that is already open cannot be opened again.
Opened(bad) == {c \in Playing : \A b \in bad : c < b}

\* Devices that the property audio.routing may name.
RoutingProperty == {"speaker", "hdmi", "spdif"}

\* start_output_stream: nothing in a call; a card that fails is closed, or kept if
\* it is its resampler that fails, and the ones before it stay open.
start_output_stream ==
  \/ /\ aMode \in CallModes
     /\ aOutStandby' = FALSE
     /\ UNCHANGED <<aDevice, aRoute, aActOut, aPcm, aOutEcho, aDrv, aHalf>>
  \/ /\ aMode \notin CallModes
     /\ \E d \in {aDevice} \cup (Devices \cap RoutingProperty) :
          aDevice' = d /\ aRoute' = Route(aMode, d)
     /\ \E bad \in {{}} \cup {{c} : c \in Playing} : \E kept \in {{}, bad} :
          LET ok == Opened(bad) \cup kept IN
          /\ bad = {} => Playing \cap aDrv = {}
          /\ aDrv \cap ok = {}
          /\ aPcm' = (aPcm \ bad) \cup ok
          /\ aDrv' = aDrv \cup ok
          /\ aActOut' = (bad = kept)
          /\ aOutStandby' = (bad # {})
          /\ aOutEcho' = IF aEcho /\ ok # {} THEN "live" ELSE aOutEcho
          /\ aHalf' = (aHalf \/ (bad # {} /\ ok # {}))

\* With the hw mutex, out_write takes the stream's, starts a stream in standby
\* and gives the hw mutex back.
WriteStart ==
  /\ aPc["play"] = "w_out" /\ Free("out")
  /\ IF aOutStandby
     THEN /\ start_output_stream
          /\ aForce' = (~aOutStandby' /\ aActIn /\ aVoip)
     ELSE UNCHANGED <<aDevice, aRoute, aActOut, outVars, aForce, aHalf>>
  /\ aLock' = [aLock EXCEPT !["hw"] = None, !["out"] = IF aOutStandby' THEN None ELSE "play"]
  /\ Goto("play", IF aOutStandby' THEN "idle" ELSE "w_write")
  /\ UNCHANGED <<aMode, aInCall, aActIn, aEcho, devVars, inVars, aNeed, aVoip>>

\* The samples go to every active card; a card that fails takes the stream to
\* standby, with the stream's mutex only.
WritePcm ==
  /\ aPc["play"] = "w_write" /\ Playing \subseteq aPcm
  /\ \/ Goto("play", IF aForce THEN "w_fhw" ELSE "idle") /\ Unlock({"out"})
        /\ aForce' = FALSE
        /\ UNCHANGED <<aDrv, aPcm, aActOut>>
     \/ Playing # {} /\ Goto("play", "w_failed") /\ CloseHandles /\ UNCHANGED <<aLock, aForce>>
  /\ UNCHANGED <<modeVars, aActIn, aEcho, devVars, aOutStandby, aOutEcho, inVars, aNeed,
                 aVoip, aHalf>>

WriteFailed ==
  aPc["play"] = "w_failed" /\ EndStandby(IF aForce THEN "w_fhw" ELSE "idle")

\* out_standby takes the mutex of the stream only.
out_standby ==
  \/ /\ aPc["play"] = "idle" /\ ~aOutStandby
     /\ Lock("play", "out") /\ Goto("play", "s_echo")
     /\ CloseHandles
     /\ UNCHANGED <<modeVars, aActIn, aEcho, devVars, aOutStandby, aOutEcho, inVars, aNeed,
                    aVoip, aForce, aHalf>>
  \/ aPc["play"] = "s_echo" /\ EndStandby("idle")

\* out_set_parameters, routing: a change to or from HDMI restarts the stream, a
\* change during a VoIP recording restarts the recording.
SetRouting ==
  \E d \in Devices \ {aDevice} :
    /\ IF aActOut /\ (d = "hdmi" \/ aDevice = "hdmi") THEN do_output_standby
       ELSE UNCHANGED <<outVars, aActOut>>
    /\ aDevice' = d /\ aRoute' = Route(aMode, d)
    /\ UNCHANGED aActive
    /\ IF aActOut /\ aActIn /\ aVoip
       THEN Goto("play", "f_in") /\ UNCHANGED aLock
       ELSE Goto("play", "idle") /\ Unlock({"hw"})

ActiveWithoutStandby ==
  /\ \E known \in SUBSET aExist, unknown \in BOOLEAN :
       /\ unknown \/ known # {}
       /\ aActive' = IF unknown THEN known \cup Fallback ELSE known
  /\ UNCHANGED <<outVars, aActOut>>
  /\ aRoute' = Route(aMode, aDevice)
  /\ Goto("play", "idle") /\ Unlock({"hw"})
  /\ UNCHANGED aDevice

\* out_set_parameters, the output cards: known names, and cards 0 and 1 for a
\* name that no card has.
SetOutActive ==
  /\ \E known \in SUBSET aExist, unknown \in BOOLEAN :
       /\ unknown \/ known # {}
       /\ aActive' = IF unknown THEN known \cup Fallback ELSE known
  /\ do_output_standby
  /\ aRoute' = Route(aMode, aDevice)
  /\ Goto("play", "idle") /\ Unlock({"hw"})
  /\ UNCHANGED aDevice

\* out_set_parameters, raw data output on or off.  While it is on out_write
\* returns at once, as if it had not been called.
SetRaw ==
  /\ do_output_standby
  /\ Goto("play", "idle") /\ Unlock({"hw"})
  /\ UNCHANGED <<aActive, aDevice, aRoute>>

out_set_parameters ==
  \/ TakeHw("play", "idle", "p_out")
  \/ /\ aPc["play"] = "p_out" /\ Free("out")
     /\ \/ SetRouting
        \/ SetOutActive
        \/ SetRaw
     /\ UNCHANGED <<aMode, aInCall, aActIn, aEcho, aExist, aComing, inVars, aNeed, aVoip,
                    aForce, aHalf>>

-----------------------------------------------------------------------------
(* The record thread.                                                      *)

in_read ==
  /\ aPc["rec"] = "idle" /\ aMode # "call"
  /\ Goto("rec", "r_hw")
  /\ UNCHANGED <<modeVars, aActOut, aActIn, aEcho, devVars, outVars, inVars, aNeed, aVoip,
                 aForce, aLock, aHalf>>

\* start_input_stream opens the capture card: it works, it fails, or the
\* resampler fails and the open handle is left behind.
OpenInput ==
  \/ /\ aInPcm' = TRUE /\ aInStandby' = FALSE /\ aActIn' = TRUE
     /\ Goto("rec", "r_read") /\ aLock' = [aLock EXCEPT !["hw"] = None, !["in"] = "rec"]
     /\ UNCHANGED aHalf
  \/ /\ aInPcm' = FALSE /\ aActIn' = FALSE
     /\ Goto("rec", "idle") /\ Unlock({"hw", "in"})
     /\ UNCHANGED <<aInStandby, aHalf>>
  \/ /\ aInPcm' = TRUE /\ aActIn' = TRUE /\ aHalf' = TRUE
     /\ Goto("rec", "idle") /\ Unlock({"hw", "in"})
     /\ UNCHANGED aInStandby

\* in_read takes both mutexes.  start_input_stream may first want an echo
\* reference, and puts back the one that is left; in a call it does nothing.
WantEcho == aNeed /\ aInEcho = None

ReadStart ==
  /\ aPc["rec"] = "r_in" /\ Free("in")
  /\ \/ /\ ~aInStandby \/ aMode = "call"
        /\ aActIn' = (aActIn \/ aInStandby) /\ aInStandby' = FALSE
        /\ Goto("rec", "r_read") /\ aLock' = [aLock EXCEPT !["hw"] = None, !["in"] = "rec"]
        /\ UNCHANGED <<aInPcm, aEcho, aOutEcho, aHalf>>
     \/ /\ aInStandby /\ aMode # "call" /\ ~WantEcho
        /\ OpenInput /\ UNCHANGED <<aEcho, aOutEcho>>
     \/ /\ aInStandby /\ aMode # "call" /\ WantEcho
        /\ aActIn' = TRUE /\ aLock' = [aLock EXCEPT !["in"] = "rec"]
        /\ Goto("rec", IF aEcho /\ aActOut THEN "r_put" ELSE "r_get")
        /\ IF aEcho /\ ~aActOut THEN aEcho' = FALSE /\ aOutEcho' = Stale(aOutEcho)
           ELSE UNCHANGED <<aEcho, aOutEcho>>
        /\ UNCHANGED <<aInPcm, aInStandby, aHalf>>
  /\ UNCHANGED <<modeVars, aActOut, devVars, aPcm, aOutStandby, aDrv, aInEcho, aNeed, aVoip,
                 aForce>>

\* get_echo_reference: put the old reference back, create a new one for the
\* active output, look at active_output again, give the reference to that stream
\* when its mutex is free, and go on to open the card.
get_echo_reference ==
  /\ \/ /\ aPc["rec"] = "r_put" /\ Free("out")
        /\ aOutEcho' = Removed(aOutEcho)
        /\ aEcho' = FALSE
        /\ Goto("rec", "r_get")
        /\ UNCHANGED <<aActIn, inVars, aLock, aHalf>>
     \/ /\ aPc["rec"] = "r_get" /\ aActOut
        /\ aEcho' = TRUE /\ Goto("rec", "r_add")
        /\ UNCHANGED <<aActIn, inVars, aOutEcho, aLock, aHalf>>
     \/ /\ aPc["rec"] = "r_get"      \* no active output, or no reference created
        /\ OpenInput /\ UNCHANGED <<aEcho, aInEcho, aOutEcho>>
     \/ /\ aPc["rec"] = "r_add" /\ aActOut /\ Goto("rec", "r_lock")
        /\ UNCHANGED <<aActIn, aEcho, inVars, aOutEcho, aLock, aHalf>>
     \/ /\ aPc["rec"] = "r_lock" /\ Free("out")
        /\ aOutEcho' = (IF aActOut THEN "live" ELSE "late") /\ aInEcho' = "live"
        /\ OpenInput /\ UNCHANGED aEcho
  /\ UNCHANGED <<modeVars, aActOut, devVars, aPcm, aOutStandby, aDrv, aNeed, aVoip, aForce>>

ReadPcm ==
  /\ aPc["rec"] = "r_read" /\ aInPcm
  /\ Goto("rec", "idle") /\ Unlock({"in"})
  /\ UNCHANGED <<modeVars, aActOut, aActIn, aEcho, devVars, outVars, inVars, aNeed, aVoip,
                 aForce, aHalf>>

\* An echo canceller added by in_add_audio_effect or removed by
\* in_remove_audio_effect restarts the stream.
SetEcho == aNeed' = ~aNeed /\ UNCHANGED aVoip

\* in_standby, and in_set_parameters with a new source.
in_standby ==
  /\ aPc["rec"] = "f_in" /\ Free("in")
  /\ \/ UNCHANGED <<aNeed, aVoip>>
     \/ aVoip' = ~aVoip /\ UNCHANGED aNeed
     \/ SetEcho
  /\ do_input_standby("rec")
  /\ UNCHANGED <<modeVars, devVars, aForce, aHalf>>

-----------------------------------------------------------------------------
(* AudioFlinger: the mode, the list of cards, the output stream.           *)

\* adev_set_mode and select_mode up to force_all_standby, which is called when
\* a call starts or ends and for the tuner.
Forces(m) == (m \in InCallModes) # aInCall \/ m = "fm"

adev_set_mode ==
  /\ aPc["ctl"] = "m_mode"
  /\ \E m \in Modes \ {aMode} :
       /\ aMode' = m
       /\ aInCall' = (aInCall /\ m \in InCallModes)
       /\ \/ /\ Forces(m) /\ UNCHANGED aLock
             /\ Goto("ctl", IF aActOut THEN "m_out" ELSE "f_in")
          \/ ~Forces(m) /\ m = "comm" /\ Goto("ctl", "m_end") /\ UNCHANGED aLock
          \/ ~Forces(m) /\ m # "comm" /\ Goto("ctl", "idle") /\ Unlock({"hw"})
  /\ UNCHANGED <<aDevice, aRoute, aActOut, aActIn, aEcho, devVars, outVars, inVars, aNeed,
                 aVoip, aForce, aHalf>>

ForgetsOutput ==
  /\ aPc["ctl"] = "m_out" /\ Free("out")
  /\ Goto("ctl", "f_in")
  /\ UNCHANGED <<modeVars, aActOut, outVars, aActIn, aEcho, devVars, inVars, aNeed, aVoip, aForce,
                 aLock, aHalf>>

\* force_all_standby: the active output.
ForceOutput ==
  /\ aPc["ctl"] = "m_out" /\ Free("out")
  /\ do_output_standby
  /\ Goto("ctl", "f_in")
  /\ UNCHANGED <<modeVars, aActIn, aEcho, devVars, inVars, aNeed, aVoip, aForce, aLock,
                 aHalf>>

RouteBeforeDevice ==
  /\ aPc["ctl"] = "m_end"
  /\ aInCall' = (aMode \in InCallModes)
  /\ aDevice' = IF aMode \in InCallModes /\ aDevice = "speaker" THEN "earpiece" ELSE aDevice
  /\ aRoute' = Route(aMode, aDevice)
  /\ Goto("ctl", "idle") /\ Unlock({"hw"})
  /\ UNCHANGED <<aMode, aActOut, aActIn, aEcho, devVars, outVars, inVars, aNeed, aVoip,
                 aForce, aHalf>>

\* The end of select_mode: a call starts on the earpiece, and the route is set.
select_mode ==
  /\ aPc["ctl"] = "m_end"
  /\ aInCall' = (aMode \in InCallModes)
  /\ aDevice' = IF aMode \in InCallModes /\ aDevice = "speaker" THEN "earpiece" ELSE aDevice
  /\ aRoute' = Route(aMode, aDevice')
  /\ Goto("ctl", "idle") /\ Unlock({"hw"})
  /\ UNCHANGED <<aMode, aActOut, aActIn, aEcho, devVars, outVars, inVars, aNeed, aVoip,
                 aForce, aHalf>>

\* adev_close_output_stream once the stream is in standby, or in a call, when it
\* returns at once; and adev_open_output_stream for the next one.
ReopenOutput ==
  /\ aPc["play"] = "idle" /\ aPc["ctl"] = "idle"
  /\ aOutStandby \/ aMode \in CallModes
  /\ aPcm' = {} /\ aOutStandby' = TRUE /\ aOutEcho' = None
  /\ UNCHANGED <<modeVars, aActOut, aActIn, aEcho, devVars, aDrv, inVars, aNeed, aVoip,
                 aForce, aLock, aPc, aHalf>>

\* adev_close_input_stream once the stream is in standby, and
\* adev_open_input_stream.
ReopenInput ==
  /\ aPc["rec"] = "idle" /\ aPc["ctl"] = "idle" /\ aInStandby
  /\ aInPcm' = FALSE /\ aInEcho' = None /\ aNeed' = FALSE /\ aVoip' = FALSE
  /\ UNCHANGED <<modeVars, aActOut, aActIn, aEcho, devVars, outVars, aInStandby, aForce,
                 aLock, aPc, aHalf>>

\* adev_get_parameters lists the cards: updata_audio_devices takes note of the
\* ones that went, and calls do_init_audio_card for the ones that came.  No mutex.
updata_audio_devices ==
  /\ aPc["ctl"] = "idle"
  /\ \/ \E c \in Pluggable \cap aExist :
          aExist' = aExist \ {c} /\ UNCHANGED <<aComing, aPc>>
     \/ \E c \in Pluggable \ aExist :
          aExist' = aExist \cup {c} /\ aComing' = {c} /\ Goto("ctl", "u_init")
  /\ UNCHANGED <<modeVars, aActOut, aActIn, aEcho, aActive, outVars, inVars, aNeed, aVoip,
                 aForce, aLock, aHalf>>

\* do_init_audio_card, after flag_exist and flag_out: the card may still be active
\* from before it went.
do_init_audio_card ==
  /\ aPc["ctl"] = "u_init" /\ aActive' = aActive \ aComing /\ aComing' = {}
  /\ Goto("ctl", "idle")
  /\ UNCHANGED <<modeVars, aActOut, aActIn, aEcho, aExist, outVars, inVars, aNeed, aVoip,
                 aForce, aLock, aHalf>>

\* A NULL handle in out_write or in_read, or an active_output that has gone in
\* get_echo_reference: the media server dies and comes back.  A handle that a
\* failed start leaves behind is closed by such a restart only.
NullAccess ==
  \/ aPc["play"] = "w_write" /\ ~(Playing \subseteq aPcm)
  \/ aPc["rec"] = "r_read" /\ ~aInPcm
  \/ aPc["rec"] = "r_add" /\ ~aActOut

\* It may also die, or go on: force_all_standby and put_echo_reference read
\* active_output twice, and a released reference is written to.
BadAccess ==
  \/ ~aActOut /\ aPc["rec"] = "r_put"
  \/ ~aActOut /\ \E t \in Threads : aPc[t] \in {"put", "m_out"}
  \/ /\ ~aOutStandby /\ aOutEcho \in {"stale", "astray"}
     /\ aPc["play"] \in {"w_write", "w_failed", "s_echo", "p_out"} \/ aPc["ctl"] = "m_out"

Restart ==
  /\ NullAccess \/ BadAccess \/ aHalf
  /\ aMode' = "normal" /\ aInCall' = FALSE
  /\ aDevice' = "speaker" /\ aRoute' = Route("normal", "speaker")
  /\ aActOut' = FALSE /\ aActIn' = FALSE /\ aEcho' = FALSE
  /\ aExist' = Cards /\ aActive' = {Codec} /\ aComing' = {}
  /\ aDrv' = {} /\ aPcm' = {} /\ aOutStandby' = TRUE /\ aOutEcho' = None
  /\ aInPcm' = FALSE /\ aInStandby' = TRUE /\ aInEcho' = None
  /\ aNeed' = FALSE /\ aVoip' = FALSE /\ aForce' = FALSE
  /\ aLock' = [l \in DOMAIN aLock |-> None]
  /\ aPc' = [t \in Threads |-> "idle"]
  /\ aHalf' = FALSE

-----------------------------------------------------------------------------
PlayStep ==
  \/ TakeHw("play", "w_hw", "w_out") \/ WriteStart \/ WritePcm \/ WriteFailed
  \/ TakeHw("play", "w_fhw", "f_in") \/ ForceInput("play") \/ PutEcho("play")
  \/ aPc["play"] = "s_echo" /\ out_standby
  \/ aPc["play"] = "p_out" /\ out_set_parameters
RecStep ==
  \/ TakeHw("rec", "r_hw", "r_in") \/ ReadStart \/ get_echo_reference \/ ReadPcm
  \/ in_standby \/ PutEcho("rec")
CtlStep ==
  \/ adev_set_mode \/ ForceOutput \/ ForceInput("ctl") \/ PutEcho("ctl") \/ select_mode
  \/ do_init_audio_card

\* Bound: a behaviour is not followed past a start that has failed half-way.
ANext ==
  \/ /\ ~aHalf
     /\ \/ out_write \/ out_standby \/ out_set_parameters
        \/ in_read \/ TakeHw("rec", "idle", "f_in")
        \/ TakeHw("ctl", "idle", "m_mode") \/ updata_audio_devices
        \/ ReopenOutput \/ ReopenInput
        \/ PlayStep \/ RecStep \/ CtlStep
  \/ Restart

\* A thread inside the HAL goes on, and a NULL handle ends it.  Nothing says that a
\* call is made, or that a doubtful access is noticed.
AFairness ==
  /\ WF_aVars(PlayStep) /\ WF_aVars(RecStep) /\ WF_aVars(CtlStep)
  /\ WF_aVars((NullAccess \/ aHalf) /\ Restart)

ASpec == AInit /\ [][ANext]_aVars /\ AFairness

-----------------------------------------------------------------------------
\* In a call the modem owns the codec: the HAL has no playback and no capture
\* device open, whatever was being started when the mode changed.
CallOwnsCodec ==
  aMode = "call" /\ aInCall /\ Free("hw") => aDrv = {} /\ ~aInPcm

\* out_write does not write to an echo reference that the record side has
\* released, although out_standby clears active_output without the hw mutex; but
\* for one that get_echo_reference, which waited for the stream's mutex, has given
\* to a stream that was in standby by then ("late", then "astray").
EchoAlive == aPc["play"] = "w_write" => aOutEcho # "stale"

\* While something is played, and in a call, the codec has the route of the
\* current mode and output device.
RouteFollows ==
  Free("hw") /\ (aActOut \/ aMode \in CallModes) => aRoute = Route(aMode, aDevice)

\* Cards that go or are made active never leave out_write with a missing handle: it
\* finds one for every card it writes to, or, when a call began between its test
\* of the mode and the mutex, none at all.  The card that comes at this moment is
\* the one exception: its flag from before it went is cleared last.
HandlesComplete ==
  aPc["play"] = "w_write" => Playing \ aComing \subseteq aPcm \/ (aPcm = {} /\ ~aActOut)

\* A change of the mode that has got the hw mutex ends, however the streams are
\* used: this is why out_write and in_read always take the hw mutex first.
ModeChangeEnds == aLock["hw"] = "ctl" ~> aLock["hw"] # "ctl"

=============================================================================
