----------------------------- MODULE CodecRoutes -----------------------------
(***************************************************************************)
(* The routes of the audio codec: the codec library (libcodec_audio) turns *)
(* a mode and the output devices of audio_hw.c into mixer controls, in one *)
(* of three plans, and the radio library (libril_audio) sends AT commands  *)
(* to the modem.  audio_hw.c changes mode and devices under adev->lock;    *)
(* set_voice_volume is called without it.                                  *)
(*                                                                         *)
(* A codec is a record of the controls that are on, the output switch, the *)
(* gains and the static variables of the plan.  line is the modem's line   *)
(* in the driver, which audio_phone_end_call hangs up.                     *)
(***************************************************************************)
EXTENDS Integers, Sequences

CONSTANTS KCalls,     \* bound: calls of the HAL
          KVolumes    \* voice volumes, 0..10

VARIABLES kPc,      \* "boot" or "open"
          kPlan,    \* the plan of the client, or "none" without a client
          kBp,      \* the modem of bp_client
          kNoEar,   \* no_earpiece
          kMode, kDev, kInCall,   \* of sunxi_audio_device
          kCodec,   \* the codec, as above
          kModem,   \* what the modem was told: loop mode, channel and level
          kRoute,   \* history: the last route, "normal", "fm", "factory", "phone"
          kPath,    \* history: the devices of that route
          kTables,  \* the sections of the volume file that were read
          kVolume,  \* the set_voice_volume call in progress, or <<>>
          kStale,   \* history: it wrote for devices that had been changed
          kDied,    \* history: mediaserver died with the codec left as it was
          kCalls

kVars == <<kPc, kPlan, kBp, kNoEar, kMode, kDev, kInCall, kCodec, kModem, kRoute, kPath, kTables,
           kVolume, kStale, kDied, kCalls>>
kBootVars == <<kPc, kPlan, kBp, kNoEar, kTables, kDied>>

Modes == {"NORMAL", "RINGTONE", "IN_CALL", "IN_COMMUNICATION", "FM", "FACTORY_TEST"}
Paths == {{"SPEAKER"}, {"EARPIECE"}, {"HEADSET"}, {"HEADPHONE"}, {"SCO"}, {"SPEAKER", "HEADSET"},
          {"SCO", "SPEAKER"}, {"AUX_DIGITAL"}}
Bps == {"demo", "mu509", "em55", "usi6276"}
MaxVolume == 10   \* adev->voice_volume is 1.0 and is never set

FreshCodec == [on |-> {}, switch |-> "spk", gain |-> [g \in {"speaker", "headphone", "earpiece", "line"} |-> 0],
               endCall |-> FALSE, inRecord |-> FALSE, fmLast |-> "none", line |-> FALSE, null |-> FALSE]

KInit ==
  /\ kPc = "boot" /\ kPlan = "none" /\ kBp = "demo" /\ kNoEar = FALSE /\ kTables = {}
  /\ kMode = "NORMAL" /\ kDev = {"SPEAKER"} /\ kInCall = FALSE
  /\ kCodec = FreshCodec /\ kModem = [loop |-> FALSE, channel |-> -1, level |-> 0]
  /\ kRoute = "normal" /\ kPath = {"SPEAKER"} /\ kVolume = <<>> /\ kStale = FALSE
  /\ kDied = FALSE /\ kCalls = 0

-----------------------------------------------------------------------------
(* codec_utils.c, volume_conf.c, codec.c: the client. *)

\* get_mixer fails when one of the controls is missing.
get_mixer(missing) == missing = {}

\* get_volume_config: phone_volume.conf is a sequence of sections, each a key
\* and the lines that follow it.  It fails if there is no section, which a
\* missing file comes to, or if the file ends inside one; a section that is not
\* there leaves the levels of its tables at 0.
PhoneSections == {"earpiece", "speaker", "headphone"}
Section(key) == [key |-> key, lines |-> IF key \in PhoneSections THEN 3 ELSE 2]
process_line(section) == section.lines >= Section(section.key).lines
VolumeFiles ==
  LET whole == <<Section("earpiece"), Section("headphone"), Section("speaker"),
                 Section("fm_headphone"), Section("fm_speaker")>>
  IN {<<>>, whole, Append(Tail(whole), [key |-> "earpiece", lines |-> 1]), SubSeq(whole, 1, 3)}
get_volume_config(file) ==
  [ret |-> IF file # <<>> /\ \A i \in DOMAIN file : process_line(file[i]) THEN 0 ELSE -1,
   tables |-> {file[i].key : i \in {j \in DOMAIN file : process_line(file[j])}}]

\* codec_device_detect: the first plan whose name the property holds, or pad.
codec_device_detect(property) == IF property = "" THEN "pad" ELSE property
codec_client_new(property, missing, file) ==
  IF get_mixer(missing) /\ get_volume_config(file).ret = 0 THEN codec_device_detect(property)
  ELSE "none"
bp_device_detect(property) == IF property = "" THEN "demo" ELSE property

\* adev_open; its own select_output_device comes before the client is there.
adev_open ==
  /\ kPc = "boot" /\ kPc' = "open"
  /\ \E property \in {"", "one", "two"}, missing \in {{}, {"a control"}},
        file \in VolumeFiles :
       /\ kPlan' = codec_client_new(property, missing, file)
       /\ kTables' = get_volume_config(file).tables
  /\ \E property \in Bps \union {""} : kBp' = bp_device_detect(property)
  /\ kNoEar' \in BOOLEAN
  /\ UNCHANGED <<kMode, kDev, kInCall, kCodec, kModem, kRoute, kPath, kVolume, kStale, kDied, kCalls>>

-----------------------------------------------------------------------------
(* The controls. *)

mixer_ctl_set(c, off, on) == [c EXCEPT !.on = (@ \ off) \union on]
Gain(c, g, value) == [c EXCEPT !.gain[g] = value]
\* audio_phone_end_call: the driver disconnects the line.
HangUp(c) == [c EXCEPT !.line = FALSE]
Wired(path) == path \cap {"HEADSET", "HEADPHONE"} # {}

Level(volume) == IF volume >= 10 THEN 5 ELSE volume \div 2
\* The gain that a section of the volume file gives for it.
TableGain(key, volume) == IF key \in kTables THEN Level(volume) ELSE 0

\* The output switch outside calls; h2w is the state of the headset switch.
NormalSwitch(path, h2w) ==
  IF Wired(path) /\ "SPEAKER" \in path THEN "spk_headset"
  ELSE IF "EARPIECE" \in path THEN "earpiece"
  ELSE IF h2w THEN "headset"
  ELSE "spk"

\* pad: a tablet without a modem.
pad_set_normal_path(c, path, h2w) ==
  [mixer_ctl_set(c, {"linein_in"}, {}) EXCEPT !.switch = NormalSwitch(path, h2w)]
pad_set_normal_volume(c, path, vol) ==
  IF "SPEAKER" \in path THEN Gain(c, "speaker", vol)
  ELSE IF Wired(path) THEN Gain(c, "headphone", vol) ELSE c
pad_set_fm_volume(c, path, volume) ==
  LET val == Level(volume) + 2
  IN Gain(Gain(c, "line", val), IF "SPEAKER" \in path THEN "speaker" ELSE "headphone", val)
pad_set_fm_path(c, path) ==
  IF "SPEAKER" \in path
  THEN mixer_ctl_set(c, {"headphone_out"}, {"linein_in", "speaker_out"})
  ELSE mixer_ctl_set(c, {"speaker_out"}, {"linein_in", "headphone_out"})

\* Mutant: the flag that clean_phone_path left is dropped without hanging up.
one_set_normal_path_deaf(c, path, h2w) ==
  [mixer_ctl_set(c, {"linein_in"}, {})
     EXCEPT !.switch = NormalSwitch(path, h2w), !.endCall = FALSE]
\* Plan one: the modem, FM and Bluetooth are analog.
one_set_normal_path(c, path, h2w) ==
  [mixer_ctl_set(IF c.endCall THEN HangUp(c) ELSE c, {"linein_in"}, {})
     EXCEPT !.switch = NormalSwitch(path, h2w), !.endCall = FALSE]
\* With speaker and headset both on, FM stays where it was.
one_set_fm_path(c, path) ==
  LET d == mixer_ctl_set(HangUp(c), {}, {"linein_in"})
      both == "SPEAKER" \in path /\ Wired(path)
      speaker == IF both THEN c.fmLast = "speaker" ELSE "SPEAKER" \in path
  IN IF both /\ c.fmLast = "none" THEN d
     ELSE IF speaker
     THEN [mixer_ctl_set(d, {"headphone_out"}, {"speaker_out"}) EXCEPT !.fmLast = "speaker"]
     ELSE [mixer_ctl_set(d, {"speaker_out"}, {"headphone_out"}) EXCEPT !.fmLast = "headset"]
one_set_factory_path(c) ==
  LET out == IF kNoEar THEN "speaker_out" ELSE "earpiece_out"
      d == mixer_ctl_set(HangUp(c), {"speaker_out", "headphone_out", "earpiece_out", "headset_mic"},
                         {"phone_out", "phone_in", "main_mic", out})
  IN Gain(Gain([d EXCEPT !.line = TRUE], "headphone", 60), "speaker", 30)

\* The device a call is heard on: the first that the path has.
Heard(path) ==
  IF "EARPIECE" \in path /\ ~kNoEar THEN "earpiece_out"
  ELSE IF path \cap {"SPEAKER", "EARPIECE"} # {} THEN "speaker_out"
  ELSE IF Wired(path) THEN "headphone_out"
  ELSE IF "SCO" \in path THEN "bt_out"
  ELSE "none"
\* The output whose volume is set: here the speaker comes first.
Sounded(path) ==
  IF "SPEAKER" \in path \/ ("EARPIECE" \in path /\ kNoEar) THEN "speaker"
  ELSE IF "EARPIECE" \in path THEN "earpiece"
  ELSE IF Wired(path) THEN "headphone"
  ELSE "none"
\* The microphone of a call: the headset's own if it has one.
Spoken(path) ==
  IF Heard(path) = "bt_out" THEN "bt_mic"
  ELSE IF Heard(path) = "headphone_out" /\ "HEADPHONE" \notin path THEN "headset_mic"
  ELSE "main_mic"

one_set_phone_volume(c, path, volume) ==
  IF Sounded(path) = "none" THEN c ELSE Gain(c, Sounded(path), TableGain(Sounded(path), volume))

\* Mutant: the Bluetooth controls are left on.
one_set_phone_path_bt(c, path) ==
  LET d == mixer_ctl_set([c EXCEPT !.line = TRUE], {"linein_in"}, {"phone_in", "phone_out"})
  IN IF Heard(path) = "none" THEN d
     ELSE mixer_ctl_set(d, {"speaker_out", "headphone_out", "earpiece_out", "main_mic", "headset_mic"},
                        {Heard(path), Spoken(path)})
\* set_phone_path: one output and one microphone.  record_ops is NULL.
one_set_phone_path(c, path) ==
  LET bt == {"bt_clk_fmt", "bt_mic", "bt_phonein", "bt_out"}
      d == mixer_ctl_set([c EXCEPT !.line = TRUE], {"linein_in"}, {"phone_out"})
      e == IF "SCO" \in path THEN mixer_ctl_set(d, {"phone_in"}, {})
           ELSE mixer_ctl_set(d, bt, {"phone_in"})
      quiet == mixer_ctl_set(e, {"speaker_out", "headphone_out", "earpiece_out",
                                 "main_mic", "headset_mic"}, {})
  IN IF c.inRecord THEN [c EXCEPT !.null = TRUE]
     ELSE IF Heard(path) = "none" THEN e
     ELSE IF Heard(path) = "bt_out" THEN mixer_ctl_set(quiet, {}, bt)
     ELSE mixer_ctl_set(quiet, {}, {Heard(path), Spoken(path)})
one_set_phone_record_enable(c, enable) ==
  LET d == mixer_ctl_set(c, {"linein_record"}, {})
  IN IF enable THEN [mixer_ctl_set(d, {}, {"voice_record"}) EXCEPT !.inRecord = TRUE]
     ELSE IF c.inRecord THEN [mixer_ctl_set(d, {"voice_record"}, {}) EXCEPT !.null = TRUE]
     ELSE d
one_set_phone_record(c) == [c EXCEPT !.null = TRUE]
clean_phone_path(c) == [c EXCEPT !.endCall = TRUE]

\* Plan two: the modem is digital; FM is not turned off by a normal route.
two_set_normal_path(c, path, h2w) ==
  LET switch == NormalSwitch(path, h2w)
  IN [(IF c.endCall THEN HangUp(c) ELSE c)
        EXCEPT !.switch = IF switch = "spk" /\ "SCO" \in path THEN "bt_button_voice" ELSE switch,
               !.endCall = FALSE]
two_set_fm_volume(c, path, volume) ==
  IF "SPEAKER" \in path
  THEN Gain(Gain(c, "line", TableGain("fm_speaker", volume)), "speaker", TableGain("fm_speaker", volume))
  ELSE Gain(Gain(c, "line", TableGain("fm_headphone", volume)), "headphone",
            TableGain("fm_headphone", volume))
two_set_fm_path(c, path) == pad_set_fm_path(HangUp(c), path)
two_set_factory_path(c) ==
  LET d == mixer_ctl_set(HangUp(c), {"phone_headset_mic"}, {"linein_in", "phone_main_mic"})
      e == [d EXCEPT !.switch = IF kNoEar THEN "spk" ELSE "earpiece"]
  IN Gain(Gain(e, "headphone", 60), "speaker", 30)
\* The speaker is turned on here, not in set_phone_path.
two_set_phone_volume(c, path, volume) ==
  one_set_phone_volume(IF Sounded(path) = "speaker" THEN mixer_ctl_set(c, {}, {"speaker_out"}) ELSE c,
                       path, volume)
two_set_phone_path(c, path) ==
  LET bt == {"bt_mic", "bt_phonein", "bt_out"}
      off == IF "SCO" \in path THEN {} ELSE bt
      d == mixer_ctl_set([c EXCEPT !.line = TRUE],
                         off \union {"speaker_out", "linein_in", "bt_clk_fmt"},
                         {"clk_fmt_status", "phonein", "phone_out"})
      quiet == mixer_ctl_set(d, {"headphone_out", "earpiece_out", "main_mic", "headset_mic"}, {})
      capture(x, from, to) == IF c.inRecord THEN mixer_ctl_set(x, {from}, {to}) ELSE x
  IN IF Heard(path) = "none" THEN d
     ELSE IF Heard(path) = "bt_out"
     THEN capture(mixer_ctl_set(quiet, {"phonein"}, bt \union {"bt_clk_fmt"}),
                  "capture_mic", "capture_bt")
     ELSE capture(mixer_ctl_set(quiet, {}, ({Heard(path)} \ {"speaker_out"}) \union {Spoken(path)}),
                  "capture_bt", "capture_mic")
two_set_phone_record_enable(c, enable) ==
  LET d == mixer_ctl_set(c, {"linein_record"}, {})
  IN IF enable THEN [mixer_ctl_set(d, {}, {"voice_record"}) EXCEPT !.inRecord = TRUE]
     ELSE IF c.inRecord THEN [mixer_ctl_set(d, {"voice_record"}, {}) EXCEPT !.inRecord = FALSE]
     ELSE d

-----------------------------------------------------------------------------
(* audio_iface.c: the plan's operation, if the client has it. *)

normal_play_route(c, path, h2w) ==
  CASE kPlan = "pad" -> pad_set_normal_path(c, path, h2w)
    [] kPlan = "one" -> one_set_normal_path(c, path, h2w)
    [] kPlan = "two" -> two_set_normal_path(c, path, h2w)
    [] OTHER -> c
normal_play_volume(c, path, vol) ==
  IF kPlan \in {"pad", "two"} THEN pad_set_normal_volume(c, path, vol) ELSE c
normal_record_enable(c) ==
  IF kPlan # "none" THEN mixer_ctl_set(c, {"linein_record", "voice_record"}, {}) ELSE c
fm_play_route(c, path) ==
  CASE kPlan = "pad" -> pad_set_fm_path(c, path)
    [] kPlan = "one" -> one_set_fm_path(c, path)
    [] kPlan = "two" -> two_set_fm_path(c, path)
    [] OTHER -> c
fm_record_enable(c, enable) ==
  IF kPlan = "none" THEN c
  ELSE mixer_ctl_set(c, {"voice_record", "linein_record"}, IF enable THEN {"linein_record"} ELSE {})
fm_volume(c, path, volume) ==
  CASE kPlan = "pad" -> pad_set_fm_volume(c, path, volume)
    [] kPlan = "two" -> two_set_fm_volume(c, path, volume)
    [] OTHER -> c
factory_route(c) ==
  CASE kPlan = "one" -> one_set_factory_path(c)
    [] kPlan = "two" -> two_set_factory_path(c)
    [] OTHER -> c
clear_phone_route(c) == IF kPlan \in {"one", "two"} THEN clean_phone_path(c) ELSE c
phone_play_route(c, path) ==
  CASE kPlan = "one" -> one_set_phone_path(c, path)
    [] kPlan = "two" -> two_set_phone_path(c, path)
    [] OTHER -> c
phone_record_enable(c, enable) ==
  CASE kPlan = "one" -> one_set_phone_record_enable(c, enable)
    [] kPlan = "two" -> two_set_phone_record_enable(c, enable)
    [] OTHER -> c
phone_record_route(c) == IF kPlan = "one" THEN one_set_phone_record(c) ELSE c
phone_volume(c, path, volume) ==
  CASE kPlan = "one" -> one_set_phone_volume(c, path, volume)
    [] kPlan = "two" -> two_set_phone_volume(c, path, volume)
    [] OTHER -> c

\* libril_audio: the modem's view of the device, and what each modem is told.  Only
\* the mu509 is told a path, which is 0 for every device, and a level, never 0; the
\* commands of the demo and the usi6276 are not sent, nor is the demo's AT command.
set_incall_device(path) ==
  CASE path = {"SPEAKER"} \/ path = {"AUX_DIGITAL"} -> "SPK"
    [] path = {"HEADSET"} \/ path = {"HEADPHONE"} -> "HEADSET"
    [] path = {"SCO"} -> "BT"
    [] OTHER -> "EARPIECE"
mu509_set_call_path(m, type) == [m EXCEPT !.channel = 0]
mu509_set_call_volume(m, volume) ==
  [m EXCEPT !.level = IF Level(volume) = 0 THEN 1 ELSE Level(volume)]
demo_set_call_path(m, type) == m
demo_set_call_volume(m, volume) == m
usi6276_set_call_path(m, type) == m
usi6276_set_call_volume(m, volume) == m
em55_set_call_path(m, type) == m
ril_set_call_audio_path(m, type) ==
  CASE kBp = "mu509" -> mu509_set_call_path(m, type)
    [] kBp = "demo" -> demo_set_call_path(m, type)
    [] kBp = "usi6276" -> usi6276_set_call_path(m, type)
    [] kBp = "em55" -> em55_set_call_path(m, type)
set_bp_volume(m, volume) ==
  CASE kBp = "mu509" -> mu509_set_call_volume(m, volume)
    [] kBp = "demo" -> demo_set_call_volume(m, volume)
    [] kBp = "usi6276" -> usi6276_set_call_volume(m, volume)
    [] kBp = "em55" -> m
ril_set_call_at(m) == IF kBp = "demo" THEN m ELSE [m EXCEPT !.loop = TRUE]

-----------------------------------------------------------------------------
(* audio_hw.c: the calls that change the route. *)

select_output_device(c, mode, path, h2w) ==
  CASE mode = "RINGTONE" ->
         normal_play_volume(normal_play_volume(normal_play_route(c, path, h2w), {"HEADSET"}, 60),
                            {"SPEAKER"}, 30)
    [] mode = "FM" -> fm_play_route(c, path)
    [] mode = "FACTORY_TEST" -> factory_route(c)
    [] mode = "IN_CALL" -> phone_play_route(c, path)
    [] OTHER -> normal_play_route(c, path, h2w)
RouteName(mode) ==
  CASE mode = "FM" -> "fm" [] mode = "FACTORY_TEST" -> "factory" [] mode = "IN_CALL" -> "phone"
    [] OTHER -> "normal"

select_input_device(c, mode) ==
  CASE mode = "IN_CALL" -> phone_record_route(phone_record_enable(c, TRUE))
    [] mode = "FM" -> fm_record_enable(c, TRUE)
    [] mode = "NORMAL" -> normal_record_enable(c)
    [] OTHER -> c

adev_set_voice_volume(c, mode, path, volume) ==
  CASE mode = "FM" -> fm_volume(c, path, volume)
    [] mode = "IN_CALL" -> phone_volume(c, path, volume)
    [] OTHER -> c
VoiceModes == {"IN_CALL", "FACTORY_TEST", "FM"}

\* The route for mode and path, and with it the volume where the code sets it.
Routed(c, mode, path, h2w, withVolume) ==
  /\ kCodec' = IF withVolume
               THEN adev_set_voice_volume(select_output_device(c, mode, path, h2w), mode, path, MaxVolume)
               ELSE select_output_device(c, mode, path, h2w)
  /\ kModem' = LET m == CASE mode = "FACTORY_TEST" -> ril_set_call_at(kModem)
                         [] mode = "IN_CALL" -> ril_set_call_audio_path(kModem, set_incall_device(path))
                         [] OTHER -> kModem
               IN IF withVolume /\ mode = "IN_CALL" THEN set_bp_volume(m, MaxVolume) ELSE m
  /\ kRoute' = RouteName(mode) /\ kPath' = path /\ kStale' = FALSE

Call == kPc = "open" /\ ~kCodec.null /\ kCalls < KCalls /\ kCalls' = kCalls + 1

\* adev_set_mode: entering a call leaves the speaker; a change between a call
\* and the factory test does not change the route.
select_mode(mode) ==
  /\ Call /\ mode # kMode /\ kMode' = mode
  /\ \E h2w \in BOOLEAN :
       IF mode \in {"IN_CALL", "FACTORY_TEST"}
       THEN /\ kInCall' = TRUE
            /\ IF kInCall THEN UNCHANGED <<kDev, kCodec, kModem, kRoute, kPath, kStale>>
               ELSE /\ kDev' = IF kDev = {"SPEAKER"} THEN {"EARPIECE"} ELSE kDev \ {"SPEAKER"}
                    /\ Routed(kCodec, mode, kDev', h2w, TRUE)
       ELSE LET again == mode \in {"IN_COMMUNICATION", "FM"}
                ended == select_input_device(
                           select_output_device(clear_phone_route(kCodec), mode, kDev, h2w), mode)
            IN /\ kInCall' = FALSE /\ UNCHANGED kDev
               /\ CASE again -> Routed(IF kInCall THEN ended ELSE kCodec, mode, kDev, h2w, mode = "FM")
                    [] ~again /\ kInCall ->
                         /\ kCodec' = ended /\ UNCHANGED kModem
                         /\ kRoute' = RouteName(mode) /\ kPath' = kDev /\ kStale' = FALSE
                    [] OTHER -> UNCHANGED <<kCodec, kModem, kRoute, kPath, kStale>>
  /\ UNCHANGED <<kBootVars, kVolume>>

\* out_set_parameters with a routing.
out_set_parameters(path) ==
  /\ Call /\ path # kDev /\ kDev' = path
  /\ \E h2w \in BOOLEAN : Routed(kCodec, kMode, path, h2w, kMode \in VoiceModes)
  /\ UNCHANGED <<kBootVars, kMode, kInCall, kVolume>>

\* The route is set again when an output starts, when an active device is
\* chosen, and in a call with the volume when the TTY mode changes.
Reroute ==
  /\ Call
  /\ \E h2w \in BOOLEAN, tty \in BOOLEAN :
       /\ tty => kMode \in VoiceModes
       /\ Routed(kCodec, kMode, kDev, h2w, tty)
  /\ UNCHANGED <<kBootVars, kMode, kDev, kInCall, kVolume>>

\* set_voice_volume from the framework: mode and devices are read without the lock.
VolumeRead(volume) ==
  /\ Call /\ kVolume = <<>> /\ kMode \in {"IN_CALL", "FM"}
  /\ kVolume' = [mode |-> kMode, path |-> kDev, volume |-> volume]
  /\ UNCHANGED <<kBootVars, kMode, kDev, kInCall, kCodec, kModem, kRoute, kPath, kStale>>
VolumeWrite ==
  /\ ~kCodec.null /\ kVolume # <<>> /\ kVolume' = <<>>
  /\ kCodec' = adev_set_voice_volume(kCodec, kVolume.mode, kVolume.path, kVolume.volume)
  /\ kModem' = IF kVolume.mode = "IN_CALL" THEN set_bp_volume(kModem, kVolume.volume) ELSE kModem
  /\ kStale' = (kStale \/ kVolume.path # kDev \/ kVolume.mode # kMode)
  /\ UNCHANGED <<kBootVars, kMode, kDev, kInCall, kRoute, kPath, kCalls>>

\* The input is selected: a routing of the input, its start or its standby.
in_set_parameters ==
  /\ Call /\ kCodec' = select_input_device(kCodec, kMode)
  /\ UNCHANGED <<kBootVars, kMode, kDev, kInCall, kModem, kRoute, kPath, kVolume, kStale>>
adev_close_input_stream ==
  /\ Call
  /\ kCodec' = phone_record_enable(fm_record_enable(normal_record_enable(kCodec), FALSE), FALSE)
  /\ UNCHANGED <<kBootVars, kMode, kDev, kInCall, kModem, kRoute, kPath, kVolume, kStale>>

\* mediaserver dies of the NULL record_ops and is started again: the mixer keeps
\* its values, the library its initial ones.
Restart ==
  /\ kCodec.null /\ kDied' = TRUE
  /\ kCodec' = [kCodec EXCEPT !.endCall = FALSE, !.inRecord = FALSE, !.fmLast = "none", !.null = FALSE]
  /\ kMode' = "NORMAL" /\ kDev' = {"SPEAKER"} /\ kInCall' = FALSE /\ kVolume' = <<>>
  /\ UNCHANGED <<kPc, kPlan, kBp, kNoEar, kTables, kModem, kRoute, kPath, kStale, kCalls>>

KNext ==
  \/ adev_open
  \/ \E mode \in Modes : select_mode(mode)
  \/ \E path \in Paths : out_set_parameters(path)
  \/ Reroute \/ \E volume \in KVolumes : VolumeRead(volume)
  \/ VolumeWrite \/ in_set_parameters \/ adev_close_input_stream \/ Restart

=============================================================================
