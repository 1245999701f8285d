--------------------------- MODULE AudioPartsProofs ---------------------------
(***************************************************************************)
(* Proofs about the smaller parts of the audio HAL, the karaoke microphone *)
(* and the sensor HAL, for every value of the bounds; part by part, as in  *)
(* CameraPartsProofs.                                                      *)
(***************************************************************************)
EXTENDS MCHalParts, FiniteSetTheorems, SequenceTheorems, TLAPS

\* A step of the composition is, for each part, a step of the part or none.
LEMMA OwnSteps ==
  [Next]_vars => /\ [DNext]_dVars /\ [MNext]_mVars /\ [QNext]_qVars /\ [KNext]_kVars /\ [ZNext]_zVars
BY DEF Next, vars

-----------------------------------------------------------------------------
(* The karaoke microphone. *)

\* The microphone is started only with a device open.
MicInv ==
  ~mAgain => /\ mStarted => mModule
             /\ mOn = IF mStarted THEN mCtls ELSE {}

\* Every step of the part keeps it.
LEMMA MicStep == MicInv /\ [MNext]_mVars => MicInv'
<1> SUFFICES ASSUME MicInv, [MNext]_mVars PROVE MicInv'
  OBVIOUS
<1> USE DEF MicInv
<1>1. ASSUME NEW result \in {"ok", "no device", "no module"}, com_karaoke_micphone_init(result) PROVE MicInv'
  BY <1>1 DEF com_karaoke_micphone_init, MicCall, Opened
<1>2. CASE com_karaoke_micphone_start
  BY <1>2 DEF com_karaoke_micphone_start, MicCall, mic_start
<1>3. CASE com_karaoke_micphone_stop
  BY <1>3 DEF com_karaoke_micphone_stop, MicCall, mic_stop
<1>4. CASE com_karaoke_micphone_release
  BY <1>4 DEF com_karaoke_micphone_release, MicCall, Closed
<1>5. ASSUME NEW volume \in MicVolumes, com_karaoke_micphone_setVolume(volume) PROVE MicInv'
  BY <1>5 DEF com_karaoke_micphone_setVolume, MicCall
<1>6. CASE UNCHANGED mVars
  BY <1>6 DEF mVars
<1>7. QED
  BY <1>1, <1>2, <1>3, <1>4, <1>5, <1>6 DEF MNext

\* The switches that are on are those of the codec while the microphone is started
\* and none otherwise, for every codec and every sequence of calls in which init
\* is not repeated.
THEOREM MicSafe == Spec => []MicFollows
<1>1. Init => MicInv
  BY DEF Init, MInit, MicInv
<1>2. MicInv /\ [Next]_vars => MicInv'
  BY MicStep, OwnSteps
<1>3. MicInv => MicFollows
  BY DEF MicInv, MicFollows
<1>4. QED
  BY <1>1, <1>2, <1>3, PTL DEF Spec

-----------------------------------------------------------------------------
(* The sound cards. *)

CardNames == {"", "AUDIO_CODEC", "AUDIO_HDMI", "AUDIO_SPDIF", "AUDIO_USB_mic", "AUDIO_USB_dac"}
Cards == [exist : BOOLEAN, name : CardNames, in : BOOLEAN, out : BOOLEAN, inActive : BOOLEAN,
          outActive : BOOLEAN]
AtMostOne(mgr) == \A s, t \in Slots : mgr[s].inActive /\ mgr[t].inActive => s = t

CardsInv ==
  /\ dPlug \in [Slots -> KnownCards \union UsbCards \union {"none"}]
  /\ dMgr \in [Slots -> Cards]
  /\ AtMostOne(dMgr)

\* A card that is initialised was not activated by it.
LEMMA CardInitialised ==
  ASSUME dPlug \in [Slots -> KnownCards \union UsbCards \union {"none"}],
         NEW card \in Cards, NEW s \in Slots, NEW slots, dPlug[s] # "none"
  PROVE  /\ do_init_audio_card(card, s, slots) \in Cards
         /\ do_init_audio_card(card, s, slots).inActive => card.inActive
<1>1. dPlug[s] \in KnownCards \union UsbCards
  OBVIOUS
<1>2. KnownName(dPlug[s]) \in CardNames
  BY <1>1 DEF KnownName, CardNames, KnownCards, UsbCards
<1>3. find_name_map(s, slots) \in CardNames
  BY <1>2 DEF find_name_map, CardNames
<1>4. QED
  BY <1>3 DEF do_init_audio_card, Cards

\* set_audio_devices_active for the input leaves at most one card active.
LEMMA InActiveOne ==
  ASSUME NEW mgr \in [Slots -> Cards], NEW names
  PROVE  /\ SetInActive(mgr, names) \in [Slots -> Cards]
         /\ AtMostOne(SetInActive(mgr, names))
<1> DEFINE chosen == IF Named(mgr, "in", names[1]) # {} THEN First(Named(mgr, "in", names[1])) ELSE 0
           asked == Asked(names)
<1>1. SetInActive(mgr, names) = [s \in Slots |-> [mgr[s] EXCEPT !.inActive = asked /\ s = chosen]]
  BY DEF SetInActive
<1>2. asked \in BOOLEAN
  BY DEF Asked
<1> HIDE DEF chosen, asked
<1> DEFINE r(s) == [mgr[s] EXCEPT !.inActive = asked /\ s = chosen]
<1>3. \A s \in Slots : r(s) \in Cards /\ (r(s).inActive => s = chosen)
  BY <1>2 DEF Cards
<1> HIDE DEF r
<1>4. SetInActive(mgr, names) = [s \in Slots |-> r(s)]
  BY <1>1 DEF r
<1>5. QED
  BY <1>3, <1>4 DEF AtMostOne

\* The one for the output leaves the marks of the input.
LEMMA OutActiveKeeps ==
  ASSUME NEW mgr \in [Slots -> Cards], NEW names
  PROVE  /\ SetOutActive(mgr, names) \in [Slots -> Cards]
         /\ \A s \in Slots : SetOutActive(mgr, names)[s].inActive = mgr[s].inActive
<1> DEFINE known == {i \in DOMAIN names : \A j \in 1..i : Named(mgr, "out", names[j]) # {}}
           chosen == {First(Named(mgr, "out", names[i])) : i \in known}
                     \union (IF OutKnown(mgr, names) THEN {} ELSE {0, 1})
<1>1. SetOutActive(mgr, names) = [s \in Slots |-> [mgr[s] EXCEPT !.outActive = s \in chosen]]
  BY DEF SetOutActive
<1> HIDE DEF known, chosen
<1> DEFINE r(s) == [mgr[s] EXCEPT !.outActive = s \in chosen]
<1>2. ASSUME NEW s \in Slots PROVE r(s) \in Cards /\ r(s).inActive = mgr[s].inActive
  <2>1. \A c \in Cards, b \in BOOLEAN :
          [c EXCEPT !.outActive = b] \in Cards /\ [c EXCEPT !.outActive = b].inActive = c.inActive
    BY DEF Cards
  <2>2. mgr[s] \in Cards /\ (s \in chosen) \in BOOLEAN
    OBVIOUS
  <2>3. QED
    BY <2>1, <2>2, Zenon
<1> HIDE DEF r
<1>3. SetOutActive(mgr, names) = [s \in Slots |-> r(s)]
  BY <1>1 DEF r
<1>4. QED
  BY <1>2, <1>3

\* The default of a direction is one card.
LEMMA DefaultOne ==
  ASSUME NEW mgr, NEW dir, NEW s \in DefaultCards(mgr, dir), NEW t \in DefaultCards(mgr, dir)
  PROVE  s = t
BY DEF DefaultCards

\* The list as adev_open leaves it: the properties, or else the default card.
LEMMA ActiveOne ==
  ASSUME NEW mgr \in [Slots -> Cards], \A s \in Slots : ~mgr[s].inActive
  PROVE  /\ init_audio_devices_active(mgr) \in [Slots -> Cards]
         /\ AtMostOne(init_audio_devices_active(mgr))
<1> DEFINE m == ActiveFromProperties(mgr)
           ins == IF Asked(dPropIn) THEN {} ELSE DefaultCards(m, "in")
           outs == IF Asked(dPropOut) /\ OutKnown(mgr, dPropOut) THEN {} ELSE DefaultCards(m, "out")
<1>1. init_audio_devices_active(mgr) =
        [s \in Slots |-> [m[s] EXCEPT !.inActive = @ \/ s \in ins, !.outActive = @ \/ s \in outs]]
  BY DEF init_audio_devices_active
<1>2. m \in [Slots -> Cards] /\ AtMostOne(m) /\ (~Asked(dPropIn) => \A s \in Slots : ~m[s].inActive)
  BY InActiveOne, OutActiveKeeps DEF ActiveFromProperties, AtMostOne
<1>3. /\ Asked(dPropIn) => ins = {}
      /\ \A s, t \in ins : s = t
  BY DefaultOne
<1> HIDE DEF m, ins, outs
<1> DEFINE r == [s \in Slots |-> [m[s] EXCEPT !.inActive = @ \/ s \in ins, !.outActive = @ \/ s \in outs]]
<1>4. r \in [Slots -> Cards]
  BY <1>2 DEF Cards
<1>5. \A s \in Slots : r[s].inActive <=> m[s].inActive \/ s \in ins
  BY <1>2 DEF Cards
<1> HIDE DEF r
<1>6. AtMostOne(r)
  BY <1>2, <1>3, <1>5 DEF AtMostOne
<1>7. QED
  BY <1>1, <1>4, <1>6 DEF r

\* init_audio_devices activates no card.
LEMMA InitCards ==
  ASSUME CardsInv
  PROVE  /\ init_audio_devices \in [Slots -> Cards]
         /\ \A s \in Slots : ~init_audio_devices[s].inActive
<1>1. NoCard \in Cards /\ ~NoCard.inActive
  BY DEF NoCard, Cards, CardNames
<1>2. \A s \in Plugged : /\ s \in Slots
                         /\ do_init_audio_card(NoCard, s, Plugged) \in Cards
                         /\ ~do_init_audio_card(NoCard, s, Plugged).inActive
  BY <1>1, CardInitialised DEF Plugged, CardsInv
<1>3. QED
  BY <1>1, <1>2, Zenon DEF init_audio_devices

\* Every step of the part keeps it.
LEMMA CardsStep == CardsInv /\ [DNext]_dVars => CardsInv'
<1> SUFFICES ASSUME CardsInv, [DNext]_dVars PROVE CardsInv'
  OBVIOUS
<1>1. CASE OpenDevice
  BY <1>1, InitCards, ActiveOne DEF OpenDevice, CardsInv, AtMostOne
<1>2. CASE get_audio_devices
  <2> DEFINE new == {s \in Plugged : ~dMgr[s].exist}
             card(s) == IF s \in new THEN do_init_audio_card(dMgr[s], s, new)
                        ELSE IF s \in Plugged THEN dMgr[s]
                        ELSE [dMgr[s] EXCEPT !.exist = FALSE, !.in = FALSE, !.out = FALSE]
  <2>1. dMgr' = [s \in Slots |-> card(s)] /\ dPlug' = dPlug
    BY <1>2 DEF get_audio_devices, updata_audio_devices
  <2>2. ASSUME NEW s \in Slots
        PROVE  card(s) \in Cards /\ (card(s).inActive => dMgr[s].inActive)
    <3>1. dMgr[s] \in Cards
      BY DEF CardsInv
    <3>2. CASE s \in new
      BY <3>1, <3>2, CardInitialised DEF CardsInv, Plugged
    <3>3. CASE s \notin new
      BY <3>1, <3>3 DEF Cards
    <3>4. QED
      BY <3>2, <3>3
  <2> HIDE DEF card
  <2>3. QED
    BY <2>1, <2>2 DEF CardsInv, AtMostOne
<1>3. CASE RestartServer
  BY <1>3 DEF RestartServer, CardsInv, NoCard, Cards, CardNames, AtMostOne
<1>4. ASSUME NEW s \in Slots, Unplug(s) PROVE CardsInv'
  BY <1>4 DEF Unplug, CardsInv, AtMostOne
<1>5. ASSUME NEW s \in Slots, NEW id \in KnownCards \union UsbCards, Plug(s, id) PROVE CardsInv'
  BY <1>5 DEF Plug, CardsInv, AtMostOne
<1>6. ASSUME NEW names \in NameLists, SetInDevices(names) PROVE CardsInv'
  BY <1>6, InActiveOne DEF SetInDevices, CardsInv, AtMostOne
<1>7. ASSUME NEW names \in NameLists, SetOutDevices(names) PROVE CardsInv'
  BY <1>7, OutActiveKeeps DEF SetOutDevices, CardsInv, AtMostOne
<1>8. CASE UNCHANGED dVars
  BY <1>8 DEF dVars, CardsInv, AtMostOne
<1>9. QED
  BY <1>1, <1>2, <1>3, <1>4, <1>5, <1>6, <1>7, <1>8 DEF DNext

\* At most one capture card is active, for any number of slots and of free names,
\* after any sequence of plugs, lists, settings and restarts of mediaserver: a card
\* that comes back in a slot loses the mark the last one left there only if it can
\* capture, and a setting clears the marks of all.
THEOREM CaptureSafe == Spec => []OneCapture
<1>1. Init => CardsInv
  <2>1. NoCard \in Cards /\ ~NoCard.inActive
    BY DEF NoCard, Cards, CardNames
  <2>2. DInit => dPlug \in [Slots -> KnownCards \union UsbCards \union {"none"}]
    BY DEF DInit, KnownCards, UsbCards
  <2>3. QED
    BY <2>1, <2>2 DEF Init, DInit, CardsInv, AtMostOne
<1>2. CardsInv /\ [Next]_vars => CardsInv'
  BY CardsStep, OwnSteps
<1>3. CardsInv => OneCapture
  BY DEF CardsInv, AtMostOne, OneCapture
<1>4. QED
  BY <1>1, <1>2, <1>3, PTL DEF Spec


-----------------------------------------------------------------------------
(* The codec's routes. *)

CodecFields == {"on", "line", "endCall", "inRecord", "null"}
CallMics == {"main_mic", "headset_mic", "bt_mic"}
CallOuts == {"speaker_out", "headphone_out", "earpiece_out", "bt_out"}
\* The microphones and outputs a call may use that are on.
Sides(c) == c.on \cap (CallMics \union CallOuts)

\* A call routed to one device: its microphone alone, and no other output.
OneDevice(c, path) ==
  (\E d \in {"SPEAKER", "EARPIECE", "HEADSET", "HEADPHONE", "SCO"} : path = {d})
  => /\ c.on \cap CallMics = {Spoken(path)}
     /\ c.on \cap CallOuts \subseteq {Heard(path)}

\* What select_mode, the routes and the volume maintain.  Before the library is
\* open nothing is on; in plan one a recording of a call has killed mediaserver;
\* in a call the last route is that of the output devices.
RoutesInv ==
  /\ CodecFields \subseteq DOMAIN kCodec
  /\ kPc = "boot" => kPlan = "none" /\ ~kCodec.inRecord /\ ~kInCall
  /\ kMode \in Modes /\ (kInCall <=> kMode \in {"IN_CALL", "FACTORY_TEST"})
  /\ kCodec.line => kPlan \in {"one", "two"} /\ (kInCall \/ kDied)
  /\ kPlan = "one" /\ kCodec.inRecord => kCodec.null
  /\ kInCall /\ kRoute = "phone" => kPath = kDev
  /\ kPlan \in {"one", "two"} /\ kInCall /\ kRoute = "phone" /\ ~kStale => OneDevice(kCodec, kPath)

\* d has the line, the flags and the sides of c.
SameCall(c, d) ==
  /\ CodecFields \subseteq DOMAIN d
  /\ d.line = c.line /\ d.endCall = c.endCall /\ d.inRecord = c.inRecord /\ d.null = c.null
  /\ Sides(d) = Sides(c)

\* A gain changes none of them; a control that is not of a call's devices neither.
LEMMA GainSame ==
  ASSUME NEW c, CodecFields \subseteq DOMAIN c, NEW g, NEW value
  PROVE  SameCall(c, Gain(c, g, value))
BY DEF Gain, SameCall, Sides, CodecFields

\* The flags are those before a control is set.
LEMMA ControlsFlags ==
  ASSUME NEW c, CodecFields \subseteq DOMAIN c, NEW off, NEW on, NEW d, d = mixer_ctl_set(c, off, on)
  PROVE  /\ CodecFields \subseteq DOMAIN d
         /\ d.line = c.line /\ d.endCall = c.endCall /\ d.inRecord = c.inRecord /\ d.null = c.null
         /\ d.on = (c.on \ off) \union on
BY DEF mixer_ctl_set, CodecFields

\* Controls that are not of a call's devices leave the sides as they are.
LEMMA ControlsSame ==
  ASSUME NEW c, CodecFields \subseteq DOMAIN c, NEW off, NEW on,
         off \cap (CallMics \union CallOuts) = {}, on \cap (CallMics \union CallOuts) = {}
  PROVE  SameCall(c, mixer_ctl_set(c, off, on))
<1> DEFINE d == mixer_ctl_set(c, off, on)
<1>1. /\ CodecFields \subseteq DOMAIN d
      /\ d.line = c.line /\ d.endCall = c.endCall /\ d.inRecord = c.inRecord /\ d.null = c.null
      /\ d.on = (c.on \ off) \union on
  BY ControlsFlags
<1> HIDE DEF d
<1>2. Sides(d) = Sides(c)
  BY <1>1 DEF Sides
<1>3. SameCall(c, d)
  BY <1>1, <1>2 DEF SameCall
<1>4. QED
  BY <1>3 DEF d

\* Twice the same is the same.
LEMMA SameTwice ==
  ASSUME NEW a, NEW b, NEW c, SameCall(a, b), SameCall(b, c)
  PROVE  SameCall(a, c)
BY DEF SameCall

\* A route outside calls leaves the flags of the recording, connects no line, and
\* hangs up what clean_phone_path has marked.
Ends(c, d) ==
  /\ CodecFields \subseteq DOMAIN d
  /\ d.inRecord = c.inRecord /\ d.null = c.null
  /\ d.line => c.line
  /\ kPlan \in {"one", "two"} /\ c.endCall => ~d.line

\* The play route of every plan does so.
LEMMA NormalEnds ==
  ASSUME NEW c, CodecFields \subseteq DOMAIN c, NEW path, NEW h2w
  PROVE  Ends(c, normal_play_route(c, path, h2w))
<1> DEFINE d == normal_play_route(c, path, h2w)
<1> SUFFICES Ends(c, d)
  OBVIOUS
<1>1. CASE kPlan = "pad"
  <2>1. d = pad_set_normal_path(c, path, h2w)
    BY <1>1 DEF normal_play_route
  <2>2. QED
    BY <1>1, <2>1 DEF pad_set_normal_path, mixer_ctl_set, Ends, CodecFields
<1>2. CASE kPlan = "one"
  <2>1. d = one_set_normal_path(c, path, h2w)
    BY <1>2 DEF normal_play_route
  <2>2. QED
    BY <1>2, <2>1 DEF one_set_normal_path, mixer_ctl_set, HangUp, Ends, CodecFields
<1>3. CASE kPlan = "two"
  <2>1. d = two_set_normal_path(c, path, h2w)
    BY <1>3 DEF normal_play_route
  <2>2. QED
    BY <1>3, <2>1 DEF two_set_normal_path, HangUp, Ends, CodecFields
<1>4. CASE kPlan \notin {"pad", "one", "two"}
  <2>1. d = c
    BY <1>4 DEF normal_play_route
  <2>2. QED
    BY <1>4, <2>1 DEF Ends, CodecFields
<1>5. QED
  BY <1>1, <1>2, <1>3, <1>4

\* So does the route of the radio.
LEMMA FmEnds ==
  ASSUME NEW c, CodecFields \subseteq DOMAIN c, NEW path
  PROVE  Ends(c, fm_play_route(c, path))
<1> DEFINE d == fm_play_route(c, path)
<1> SUFFICES Ends(c, d)
  OBVIOUS
<1>1. CASE kPlan = "pad"
  <2>1. d = pad_set_fm_path(c, path)
    BY <1>1 DEF fm_play_route
  <2>2. QED
    BY <1>1, <2>1 DEF pad_set_fm_path, mixer_ctl_set, Ends, CodecFields
<1>2. CASE kPlan = "one"
  <2>1. d = one_set_fm_path(c, path)
    BY <1>2 DEF fm_play_route
  <2>2. QED
    BY <1>2, <2>1 DEF one_set_fm_path, mixer_ctl_set, HangUp, Ends, CodecFields
<1>3. CASE kPlan = "two"
  <2>1. d = two_set_fm_path(c, path)
    BY <1>3 DEF fm_play_route
  <2>2. QED
    BY <1>3, <2>1 DEF two_set_fm_path, pad_set_fm_path, mixer_ctl_set, HangUp, Ends, CodecFields
<1>4. CASE kPlan \notin {"pad", "one", "two"}
  <2>1. d = c
    BY <1>4 DEF fm_play_route
  <2>2. QED
    BY <1>4, <2>1 DEF Ends, CodecFields
<1>5. QED
  BY <1>1, <1>2, <1>3, <1>4

\* The volumes of play, radio and call: gains, and in a call on plan two the
\* speaker's switch.
LEMMA PlayVolume ==
  ASSUME NEW c, CodecFields \subseteq DOMAIN c, NEW path, NEW vol
  PROVE  SameCall(c, normal_play_volume(c, path, vol))
BY GainSame DEF normal_play_volume, pad_set_normal_volume, SameCall

\* So does the volume of the radio.
LEMMA FmVolume ==
  ASSUME NEW c, CodecFields \subseteq DOMAIN c, NEW path, NEW volume
  PROVE  SameCall(c, fm_volume(c, path, volume))
<1>1. ASSUME NEW g, NEW x, NEW h, NEW y PROVE SameCall(c, Gain(Gain(c, g, x), h, y))
  <2>1. SameCall(c, Gain(c, g, x))
    BY GainSame
  <2>2. SameCall(Gain(c, g, x), Gain(Gain(c, g, x), h, y))
    BY <2>1, GainSame DEF SameCall
  <2>3. QED
    BY <2>1, <2>2, SameTwice
<1>2. SameCall(c, c)
  BY DEF SameCall
<1>3. CASE kPlan = "pad"
  BY <1>1, <1>3 DEF fm_volume, pad_set_fm_volume
<1>4. CASE kPlan = "two"
  BY <1>1, <1>4 DEF fm_volume, two_set_fm_volume
<1>5. CASE kPlan \notin {"pad", "two"}
  BY <1>2, <1>5 DEF fm_volume
<1>6. QED
  BY <1>3, <1>4, <1>5

\* A call's devices are judged by the sides alone.
LEMMA SidesJudge ==
  ASSUME NEW c, NEW d, NEW path, Sides(d) = Sides(c), OneDevice(c, path)
  PROVE  OneDevice(d, path)
<1>1. c.on \cap CallMics = Sides(c) \cap CallMics /\ c.on \cap CallOuts = Sides(c) \cap CallOuts
  BY DEF Sides
<1>2. d.on \cap CallMics = Sides(d) \cap CallMics /\ d.on \cap CallOuts = Sides(d) \cap CallOuts
  BY DEF Sides
<1>3. d.on \cap CallMics = c.on \cap CallMics /\ d.on \cap CallOuts = c.on \cap CallOuts
  BY <1>1, <1>2
<1>4. QED
  BY <1>3 DEF OneDevice

\* The volume of a call keeps the line, the flags and the one device.
LEMMA PhoneVolume ==
  ASSUME NEW c, CodecFields \subseteq DOMAIN c, NEW path, NEW volume,
         NEW d, d = phone_volume(c, path, volume)
  PROVE  /\ CodecFields \subseteq DOMAIN d
         /\ d.line = c.line /\ d.inRecord = c.inRecord /\ d.null = c.null
         /\ OneDevice(c, path) => OneDevice(d, path)
<1>1. ASSUME NEW b, CodecFields \subseteq DOMAIN b PROVE SameCall(b, one_set_phone_volume(b, path, volume))
  BY <1>1, GainSame DEF one_set_phone_volume, SameCall
<1>2. CASE kPlan = "one"
  <2>1. SameCall(c, d)
    BY <1>1, <1>2 DEF phone_volume
  <2>2. OneDevice(c, path) => OneDevice(d, path)
    BY <2>1, SidesJudge DEF SameCall
  <2>3. QED
    BY <2>1, <2>2 DEF SameCall
<1>3. CASE kPlan = "two" /\ Sounded(path) = "speaker"
  <2> DEFINE b == mixer_ctl_set(c, {}, {"speaker_out"})
  <2>1. /\ CodecFields \subseteq DOMAIN b
        /\ b.line = c.line /\ b.inRecord = c.inRecord /\ b.null = c.null
        /\ b.on = c.on \union {"speaker_out"}
    BY ControlsFlags
  <2>2. d = one_set_phone_volume(b, path, volume)
    BY <1>3 DEF phone_volume, two_set_phone_volume
  <2> HIDE DEF b
  <2>3. SameCall(b, d)
    BY <1>1, <2>1, <2>2
  <2>4. ASSUME OneDevice(c, path), NEW x \in {"SPEAKER", "EARPIECE", "HEADSET", "HEADPHONE", "SCO"}, path = {x}
        PROVE  OneDevice(b, path)
    <3>1. Heard(path) = "speaker_out"
      BY <1>3, <2>4 DEF Sounded, Heard, Wired
    <3>2. c.on \cap CallMics = {Spoken(path)} /\ c.on \cap CallOuts \subseteq {Heard(path)}
      BY <2>4 DEF OneDevice
    <3>3. b.on \cap CallMics = c.on \cap CallMics /\ b.on \cap CallOuts \subseteq {"speaker_out"}
      BY <2>1, <3>1, <3>2 DEF CallMics, CallOuts
    <3>4. QED
      BY <3>1, <3>2, <3>3 DEF OneDevice
  <2>5. OneDevice(c, path) => OneDevice(b, path)
    BY <2>4 DEF OneDevice
  <2>6. OneDevice(c, path) => OneDevice(d, path)
    BY <2>3, <2>5, SidesJudge DEF SameCall
  <2>7. QED
    BY <2>1, <2>3, <2>6 DEF SameCall
<1>4. CASE kPlan = "two" /\ Sounded(path) # "speaker"
  <2>1. SameCall(c, d)
    BY <1>1, <1>4 DEF phone_volume, two_set_phone_volume
  <2>2. OneDevice(c, path) => OneDevice(d, path)
    BY <2>1, SidesJudge DEF SameCall
  <2>3. QED
    BY <2>1, <2>2 DEF SameCall
<1>5. CASE kPlan \notin {"one", "two"}
  BY <1>5 DEF phone_volume
<1>6. QED
  BY <1>2, <1>3, <1>4, <1>5

\* The route of a call in plan one: one output and one microphone.
LEMMA OnePhone ==
  ASSUME NEW c, CodecFields \subseteq DOMAIN c, NEW path, ~c.inRecord,
         NEW f, f = one_set_phone_path(c, path)
  PROVE  /\ CodecFields \subseteq DOMAIN f
         /\ f.inRecord = c.inRecord /\ f.null = c.null
         /\ OneDevice(f, path)
<1> DEFINE bt == {"bt_clk_fmt", "bt_mic", "bt_phonein", "bt_out"}
           l == [c EXCEPT !.line = TRUE]
           d == mixer_ctl_set(l, {"linein_in"}, {"phone_out"})
           e == IF "SCO" \in path THEN mixer_ctl_set(d, {"phone_in"}, {})
                ELSE mixer_ctl_set(d, bt, {"phone_in"})
           quiet == mixer_ctl_set(e, {"speaker_out", "headphone_out", "earpiece_out",
                                      "main_mic", "headset_mic"}, {})
<1>1. f = IF Heard(path) = "none" THEN e
          ELSE IF Heard(path) = "bt_out" THEN mixer_ctl_set(quiet, {}, bt)
          ELSE mixer_ctl_set(quiet, {}, {Heard(path), Spoken(path)})
  BY DEF one_set_phone_path
<1>2. CodecFields \subseteq DOMAIN l /\ l.inRecord = c.inRecord /\ l.null = c.null
  BY DEF CodecFields
<1>3. CodecFields \subseteq DOMAIN d /\ d.inRecord = c.inRecord /\ d.null = c.null
  <2> HIDE DEF l
  <2>1. QED
    BY <1>2, ControlsFlags
<1>4. /\ CodecFields \subseteq DOMAIN e /\ e.inRecord = c.inRecord /\ e.null = c.null
      /\ "SCO" \notin path => e.on \cap bt = {}
  <2> HIDE DEF d
  <2>1. CASE "SCO" \in path
    BY <1>3, <2>1, ControlsFlags
  <2>2. CASE "SCO" \notin path
    <3>1. /\ CodecFields \subseteq DOMAIN e /\ e.inRecord = c.inRecord /\ e.null = c.null
          /\ e.on = (d.on \ bt) \union {"phone_in"}
      BY <1>3, <2>2, ControlsFlags
    <3>2. QED
      BY <3>1
  <2>3. QED
    BY <2>1, <2>2
<1>5. /\ CodecFields \subseteq DOMAIN quiet /\ quiet.inRecord = c.inRecord /\ quiet.null = c.null
      /\ quiet.on = e.on \ {"speaker_out", "headphone_out", "earpiece_out", "main_mic", "headset_mic"}
  <2> HIDE DEF e
  <2>1. QED
    BY <1>4, ControlsFlags
<1>6. /\ CodecFields \subseteq DOMAIN f /\ f.inRecord = c.inRecord /\ f.null = c.null
      /\ Heard(path) = "bt_out" => f.on = quiet.on \union bt
      /\ Heard(path) \notin {"none", "bt_out"} => f.on = quiet.on \union {Heard(path), Spoken(path)}
  <2> HIDE DEF quiet, e
  <2>1. CASE Heard(path) = "none"
    BY <1>1, <1>4, <2>1
  <2>2. CASE Heard(path) = "bt_out"
    BY <1>1, <1>5, <2>2, ControlsFlags
  <2>3. CASE Heard(path) \notin {"none", "bt_out"}
    <3>1. f = mixer_ctl_set(quiet, {}, {Heard(path), Spoken(path)})
      BY <1>1, <2>3
    <3>2. QED
      BY <1>5, <2>3, <3>1, ControlsFlags
  <2>4. QED
    BY <2>1, <2>2, <2>3
<1>7. OneDevice(f, path)
  <2> HIDE DEF quiet, e
  <2>1. SUFFICES ASSUME NEW x \in {"SPEAKER", "EARPIECE", "HEADSET", "HEADPHONE", "SCO"}, path = {x}
                 PROVE  /\ f.on \cap CallMics = {Spoken(path)}
                        /\ f.on \cap CallOuts \subseteq {Heard(path)}
    BY DEF OneDevice
  <2>2. CASE x = "SCO"
    <3>1. Heard(path) = "bt_out" /\ Spoken(path) = "bt_mic"
      BY <2>1, <2>2 DEF Heard, Spoken, Wired
    <3>2. f.on = (e.on \ {"speaker_out", "headphone_out", "earpiece_out", "main_mic", "headset_mic"}) \union bt
      BY <1>5, <1>6, <3>1
    <3>3. QED
      BY <3>1, <3>2 DEF CallMics, CallOuts
  <2>3. CASE x # "SCO"
    <3>1. /\ Heard(path) \in {"speaker_out", "headphone_out", "earpiece_out"}
          /\ Spoken(path) \in {"main_mic", "headset_mic"}
      BY <2>1, <2>3 DEF Heard, Spoken, Wired
    <3>2. f.on = (e.on \ {"speaker_out", "headphone_out", "earpiece_out", "main_mic", "headset_mic"})
                 \union {Heard(path), Spoken(path)}
      BY <1>5, <1>6, <3>1
    <3>3. e.on \cap bt = {}
      BY <1>4, <2>1, <2>3
    <3>4. QED
      BY <3>1, <3>2, <3>3 DEF CallMics, CallOuts
  <2>4. QED
    BY <2>2, <2>3
<1>8. QED
  BY <1>6, <1>7

\* The same in plan two, where the volume turns the speaker on.
LEMMA TwoPhone ==
  ASSUME NEW c, CodecFields \subseteq DOMAIN c, NEW path, NEW f, f = two_set_phone_path(c, path)
  PROVE  /\ CodecFields \subseteq DOMAIN f
         /\ f.inRecord = c.inRecord /\ f.null = c.null
         /\ OneDevice(f, path)
<1> DEFINE bt == {"bt_mic", "bt_phonein", "bt_out"}
           off == IF "SCO" \in path THEN {} ELSE bt
           l == [c EXCEPT !.line = TRUE]
           d == mixer_ctl_set(l, off \union {"speaker_out", "linein_in", "bt_clk_fmt"},
                              {"clk_fmt_status", "phonein", "phone_out"})
           silent == {"headphone_out", "earpiece_out", "main_mic", "headset_mic"}
           quiet == mixer_ctl_set(d, silent, {})
           airOn == bt \union {"bt_clk_fmt"}
           air == mixer_ctl_set(quiet, {"phonein"}, airOn)
           nearOn == ({Heard(path)} \ {"speaker_out"}) \union {Spoken(path)}
           near == mixer_ctl_set(quiet, {}, nearOn)
<1>1. f = IF Heard(path) = "none" THEN d
          ELSE IF Heard(path) = "bt_out"
          THEN IF c.inRecord THEN mixer_ctl_set(air, {"capture_mic"}, {"capture_bt"}) ELSE air
          ELSE IF c.inRecord THEN mixer_ctl_set(near, {"capture_bt"}, {"capture_mic"}) ELSE near
  BY DEF two_set_phone_path
<1>2. CodecFields \subseteq DOMAIN l /\ l.inRecord = c.inRecord /\ l.null = c.null
  BY DEF CodecFields
<1>3. /\ CodecFields \subseteq DOMAIN d /\ d.inRecord = c.inRecord /\ d.null = c.null
      /\ d.on = (l.on \ (off \union {"speaker_out", "linein_in", "bt_clk_fmt"}))
                \union {"clk_fmt_status", "phonein", "phone_out"}
  <2> HIDE DEF l, off
  <2>1. QED
    BY <1>2, ControlsFlags
<1>4. /\ CodecFields \subseteq DOMAIN quiet /\ quiet.inRecord = c.inRecord /\ quiet.null = c.null
      /\ quiet.on = d.on \ silent
  <2> HIDE DEF d, silent
  <2>1. QED
    BY <1>3, ControlsFlags
<1>5. /\ CodecFields \subseteq DOMAIN air /\ air.inRecord = c.inRecord /\ air.null = c.null
      /\ air.on = (quiet.on \ {"phonein"}) \union airOn
  <2> HIDE DEF quiet, airOn
  <2>1. CodecFields \subseteq DOMAIN quiet /\ quiet.inRecord = c.inRecord /\ quiet.null = c.null
    BY <1>4
  <2>2. QED
    BY <2>1, ControlsFlags
<1>6. /\ CodecFields \subseteq DOMAIN near /\ near.inRecord = c.inRecord /\ near.null = c.null
      /\ near.on = quiet.on \union nearOn
  <2> HIDE DEF quiet, nearOn
  <2>1. CodecFields \subseteq DOMAIN quiet /\ quiet.inRecord = c.inRecord /\ quiet.null = c.null
    BY <1>4
  <2>2. QED
    BY <2>1, ControlsFlags
<1> HIDE DEF l, d, quiet, air, near
<1>7. ASSUME NEW g, CodecFields \subseteq DOMAIN g, NEW x, NEW y,
             {x, y} \cap (CallMics \union CallOuts) = {}
      PROVE  SameCall(g, IF c.inRecord THEN mixer_ctl_set(g, {x}, {y}) ELSE g)
  <2>1. SameCall(g, mixer_ctl_set(g, {x}, {y}))
    BY <1>7, ControlsSame
  <2>2. SameCall(g, g)
    BY <1>7 DEF SameCall
  <2>3. QED
    BY <2>1, <2>2
<1>8. {"capture_mic", "capture_bt"} \cap (CallMics \union CallOuts) = {}
  BY DEF CallMics, CallOuts
<1>9. Heard(path) = "bt_out" => SameCall(air, f)
  <2>1. SameCall(air, IF c.inRecord THEN mixer_ctl_set(air, {"capture_mic"}, {"capture_bt"}) ELSE air)
    BY <1>5, <1>7, <1>8
  <2>2. QED
    BY <1>1, <2>1
<1>10. Heard(path) \notin {"none", "bt_out"} => SameCall(near, f)
  <2>1. SameCall(near, IF c.inRecord THEN mixer_ctl_set(near, {"capture_bt"}, {"capture_mic"}) ELSE near)
    BY <1>6, <1>7, <1>8
  <2>2. QED
    BY <1>1, <2>1
<1>11. CodecFields \subseteq DOMAIN f /\ f.inRecord = c.inRecord /\ f.null = c.null
  <2>1. CASE Heard(path) = "none"
    BY <1>1, <1>3, <2>1
  <2>2. CASE Heard(path) = "bt_out"
    BY <1>5, <1>9, <2>2 DEF SameCall
  <2>3. CASE Heard(path) \notin {"none", "bt_out"}
    BY <1>6, <1>10, <2>3 DEF SameCall
  <2>4. QED
    BY <2>1, <2>2, <2>3
<1>12. OneDevice(f, path)
  <2>1. SUFFICES ASSUME NEW x \in {"SPEAKER", "EARPIECE", "HEADSET", "HEADPHONE", "SCO"}, path = {x}
                 PROVE  OneDevice(f, path)
    BY DEF OneDevice
  <2>2. CASE x = "SCO"
    <3>1. Heard(path) = "bt_out" /\ Spoken(path) = "bt_mic"
      BY <2>1, <2>2 DEF Heard, Spoken, Wired
    <3>2. air.on \cap CallMics = {"bt_mic"} /\ air.on \cap CallOuts \subseteq {"bt_out"}
      BY <1>3, <1>4, <1>5 DEF CallMics, CallOuts
    <3>3. OneDevice(air, path)
      BY <3>1, <3>2 DEF OneDevice
    <3>4. QED
      BY <1>9, <3>1, <3>3, SidesJudge DEF SameCall
  <2>3. CASE x # "SCO"
    <3>1. /\ Heard(path) \in {"speaker_out", "headphone_out", "earpiece_out"}
          /\ Spoken(path) \in {"main_mic", "headset_mic"}
      BY <2>1, <2>3 DEF Heard, Spoken, Wired
    <3>2. off = bt
      BY <2>1, <2>3
    <3>3. near.on \cap CallMics = {Spoken(path)}
      BY <1>3, <1>4, <1>6, <3>1, <3>2 DEF CallMics
    <3>4. near.on \cap CallOuts \subseteq {Heard(path)}
      BY <1>3, <1>4, <1>6, <3>1, <3>2 DEF CallOuts
    <3>5. OneDevice(near, path)
      BY <3>3, <3>4 DEF OneDevice
    <3>6. QED
      BY <1>10, <3>1, <3>5, SidesJudge DEF SameCall
  <2>4. QED
    BY <2>2, <2>3
<1>13. QED
  BY <1>11, <1>12

\* The route of a call, whatever the plan.
LEMMA PhoneRoute ==
  ASSUME NEW c, CodecFields \subseteq DOMAIN c, NEW path, NEW d, d = phone_play_route(c, path),
         kPlan = "one" => ~c.inRecord
  PROVE  /\ CodecFields \subseteq DOMAIN d
         /\ d.inRecord = c.inRecord /\ d.null = c.null
         /\ kPlan \notin {"one", "two"} => d = c
         /\ kPlan \in {"one", "two"} => OneDevice(d, path)
<1>1. CASE kPlan = "one"
  BY <1>1, OnePhone DEF phone_play_route
<1>2. CASE kPlan = "two"
  BY <1>2, TwoPhone DEF phone_play_route
<1>3. CASE kPlan \notin {"one", "two"}
  BY <1>3 DEF phone_play_route
<1>4. QED
  BY <1>1, <1>2, <1>3

\* The factory route keeps the flags of the recording; only the plans with a modem have it.
LEMMA FactoryRoute ==
  ASSUME NEW c, CodecFields \subseteq DOMAIN c, NEW d, d = factory_route(c)
  PROVE  /\ CodecFields \subseteq DOMAIN d
         /\ d.inRecord = c.inRecord /\ d.null = c.null
         /\ kPlan \notin {"one", "two"} => d = c
<1>1. CASE kPlan = "one"
  BY <1>1 DEF factory_route, one_set_factory_path, mixer_ctl_set, HangUp, Gain, CodecFields
<1>2. CASE kPlan = "two"
  BY <1>2 DEF factory_route, two_set_factory_path, mixer_ctl_set, HangUp, Gain, CodecFields
<1>3. CASE kPlan \notin {"one", "two"}
  BY <1>3 DEF factory_route
<1>4. QED
  BY <1>1, <1>2, <1>3

\* In plan one a recording in a call is fatal.
RecordOk(c) == kPlan = "one" /\ c.inRecord => c.null

\* What the route of a mode does to the line, the flags and the sides.
RouteOk(c, d, mode, path) ==
  /\ CodecFields \subseteq DOMAIN d
  /\ d.inRecord = c.inRecord /\ d.null = c.null
  /\ mode \notin {"IN_CALL", "FACTORY_TEST"} => Ends(c, d)
  /\ kPlan \notin {"one", "two"} => (d.line => c.line)
  /\ mode = "IN_CALL" /\ kPlan \in {"one", "two"} => OneDevice(d, path)

\* Every mode's route does so: select_output_device.
LEMMA OutputDevice ==
  ASSUME NEW c, CodecFields \subseteq DOMAIN c, RecordOk(c), ~c.null, NEW mode \in Modes, NEW path, NEW h2w
  PROVE  RouteOk(c, select_output_device(c, mode, path, h2w), mode, path)
<1> DEFINE d == select_output_device(c, mode, path, h2w)
<1>1. CASE mode = "RINGTONE"
  <2> DEFINE r == normal_play_route(c, path, h2w)
             q == normal_play_volume(r, {"HEADSET"}, 60)
  <2>1. Ends(c, r)
    BY NormalEnds
  <2>2. d = normal_play_volume(q, {"SPEAKER"}, 30)
    BY <1>1 DEF select_output_device
  <2> HIDE DEF r, d
  <2>3. SameCall(r, q)
    BY <2>1, PlayVolume DEF Ends
  <2> HIDE DEF q
  <2>4. SameCall(q, d)
    BY <2>2, <2>3, PlayVolume DEF SameCall
  <2>5. Ends(c, d)
    BY <2>1, <2>3, <2>4 DEF Ends, SameCall
  <2>6. RouteOk(c, d, mode, path)
    BY <1>1, <2>5 DEF RouteOk, Ends
  <2>7. QED
    BY <2>6 DEF d
<1>2. CASE mode = "FM"
  <2>1. Ends(c, d)
    BY <1>2, FmEnds DEF select_output_device
  <2> HIDE DEF d
  <2>2. RouteOk(c, d, mode, path)
    BY <1>2, <2>1 DEF RouteOk, Ends
  <2>3. QED
    BY <2>2 DEF d
<1>3. CASE mode = "FACTORY_TEST"
  <2>1. d = factory_route(c)
    BY <1>3 DEF select_output_device
  <2> HIDE DEF d
  <2>2. RouteOk(c, d, mode, path)
    BY <1>3, <2>1, FactoryRoute DEF RouteOk
  <2>3. QED
    BY <2>2 DEF d
<1>4. CASE mode = "IN_CALL"
  <2>1. d = phone_play_route(c, path)
    BY <1>4 DEF select_output_device
  <2> HIDE DEF d
  <2>2. kPlan = "one" => ~c.inRecord
    BY DEF RecordOk
  <2>3. RouteOk(c, d, mode, path)
    BY <1>4, <2>1, <2>2, PhoneRoute DEF RouteOk
  <2>4. QED
    BY <2>3 DEF d
<1>5. CASE mode \in {"NORMAL", "IN_COMMUNICATION"}
  <2>1. d = normal_play_route(c, path, h2w)
    BY <1>5 DEF select_output_device
  <2> HIDE DEF d
  <2>2. Ends(c, d)
    BY <2>1, NormalEnds
  <2>3. RouteOk(c, d, mode, path)
    BY <1>5, <2>2 DEF RouteOk, Ends
  <2>4. QED
    BY <2>3 DEF d
<1>6. QED
  BY <1>1, <1>2, <1>3, <1>4, <1>5 DEF Modes

\* The volume that is set with a route takes nothing of it back.
LEMMA VoiceVolume ==
  ASSUME NEW c, CodecFields \subseteq DOMAIN c, NEW mode, NEW path, NEW volume,
         NEW d, d = adev_set_voice_volume(c, mode, path, volume)
  PROVE  /\ CodecFields \subseteq DOMAIN d
         /\ d.line = c.line /\ d.inRecord = c.inRecord /\ d.null = c.null
         /\ mode = "IN_CALL" /\ OneDevice(c, path) => OneDevice(d, path)
<1>1. CASE mode = "FM"
  <2>1. SameCall(c, d)
    BY <1>1, FmVolume DEF adev_set_voice_volume
  <2>2. QED
    BY <1>1, <2>1 DEF SameCall
<1>2. CASE mode = "IN_CALL"
  <2>1. d = phone_volume(c, path, volume)
    BY <1>2 DEF adev_set_voice_volume
  <2>2. QED
    BY <2>1, PhoneVolume
<1>3. CASE mode \notin {"FM", "IN_CALL"}
  BY <1>3 DEF adev_set_voice_volume
<1>4. QED
  BY <1>1, <1>2, <1>3

\* What a step that sets the route leaves in the codec.
LEMMA RoutedCodec ==
  ASSUME NEW c, CodecFields \subseteq DOMAIN c, RecordOk(c), ~c.null, NEW mode \in Modes, NEW path, NEW h2w,
         NEW withVolume, Routed(c, mode, path, h2w, withVolume)
  PROVE  /\ CodecFields \subseteq DOMAIN kCodec'
         /\ kCodec'.inRecord = c.inRecord /\ kCodec'.null = c.null
         /\ mode \notin {"IN_CALL", "FACTORY_TEST"} \/ kPlan \notin {"one", "two"} => (kCodec'.line => c.line)
         /\ mode = "IN_CALL" /\ kPlan \in {"one", "two"} => OneDevice(kCodec', path)
         /\ kRoute' = "phone" <=> mode = "IN_CALL"
         /\ kPath' = path
<1> DEFINE d == select_output_device(c, mode, path, h2w)
           e == adev_set_voice_volume(d, mode, path, MaxVolume)
<1>1. RouteOk(c, d, mode, path)
  BY OutputDevice
<1>2. kCodec' = IF withVolume THEN e ELSE d
  BY DEF Routed
<1>3. kPath' = path /\ kRoute' = RouteName(mode)
  BY DEF Routed
<1>4. kRoute' = "phone" <=> mode = "IN_CALL"
  BY <1>3 DEF RouteName, Modes
<1> HIDE DEF d
<1>5. /\ CodecFields \subseteq DOMAIN d /\ d.inRecord = c.inRecord /\ d.null = c.null
      /\ mode \notin {"IN_CALL", "FACTORY_TEST"} \/ kPlan \notin {"one", "two"} => (d.line => c.line)
      /\ mode = "IN_CALL" /\ kPlan \in {"one", "two"} => OneDevice(d, path)
  BY <1>1 DEF RouteOk, Ends
<1>6. /\ CodecFields \subseteq DOMAIN e
      /\ e.line = d.line /\ e.inRecord = d.inRecord /\ e.null = d.null
      /\ mode = "IN_CALL" /\ OneDevice(d, path) => OneDevice(e, path)
  BY <1>5, VoiceVolume
<1> HIDE DEF e
<1>7. CASE kCodec' = d
  BY <1>3, <1>4, <1>5, <1>7
<1>8. CASE kCodec' = e
  BY <1>3, <1>4, <1>5, <1>6, <1>8
<1>9. QED
  BY <1>2, <1>7, <1>8

\* Selecting or closing an input touches neither the line nor a call's devices.
InputOk(c, d) ==
  /\ CodecFields \subseteq DOMAIN d
  /\ d.line = c.line /\ Sides(d) = Sides(c)
  /\ RecordOk(c) => RecordOk(d)

\* Two such steps are one.
LEMMA InputTwice ==
  ASSUME NEW a, NEW b, NEW c, InputOk(a, b), InputOk(b, c)
  PROVE  InputOk(a, c)
BY DEF InputOk

\* The recording switches are none of a call's devices.
LEMMA RecordControls ==
  ASSUME NEW c, CodecFields \subseteq DOMAIN c, NEW off, NEW on,
         off \subseteq {"linein_record", "voice_record"}, on \subseteq {"linein_record", "voice_record"},
         NEW d, d = mixer_ctl_set(c, off, on)
  PROVE  InputOk(c, d) /\ d.inRecord = c.inRecord /\ d.null = c.null
<1>1. off \cap (CallMics \union CallOuts) = {} /\ on \cap (CallMics \union CallOuts) = {}
  BY DEF CallMics, CallOuts
<1>2. SameCall(c, d)
  BY <1>1, ControlsSame
<1>3. QED
  BY <1>2 DEF SameCall, InputOk, RecordOk

\* Each operation of the record path.
LEMMA RecordEnable ==
  ASSUME NEW c, CodecFields \subseteq DOMAIN c, NEW enable \in BOOLEAN
  PROVE  /\ InputOk(c, normal_record_enable(c))
         /\ InputOk(c, fm_record_enable(c, enable))
         /\ InputOk(c, phone_record_enable(c, FALSE))
         /\ InputOk(c, phone_record_route(phone_record_enable(c, TRUE)))
<1>1. InputOk(c, c)
  BY DEF InputOk
<1>2. InputOk(c, normal_record_enable(c))
  BY <1>1, RecordControls DEF normal_record_enable
<1>3. InputOk(c, fm_record_enable(c, enable))
  <2>1. (IF enable THEN {"linein_record"} ELSE {}) \subseteq {"linein_record", "voice_record"}
    OBVIOUS
  <2>2. QED
    BY <1>1, <2>1, RecordControls DEF fm_record_enable
<1> DEFINE d == mixer_ctl_set(c, {"linein_record"}, {})
           on == mixer_ctl_set(d, {}, {"voice_record"})
           off == mixer_ctl_set(d, {"voice_record"}, {})
<1>4. InputOk(c, d) /\ d.inRecord = c.inRecord /\ d.null = c.null
  BY RecordControls
<1> HIDE DEF d
<1>5. InputOk(d, on) /\ InputOk(d, off) /\ off.inRecord = c.inRecord /\ off.null = c.null
  BY <1>4, RecordControls DEF InputOk
<1>6. InputOk(c, on) /\ InputOk(c, off)
  BY <1>4, <1>5, InputTwice
<1> HIDE DEF on, off
<1>7. InputOk(c, phone_record_enable(c, FALSE))
  <2>1. CASE kPlan = "one"
    <3>1. phone_record_enable(c, FALSE) = IF c.inRecord THEN [off EXCEPT !.null = TRUE] ELSE d
      BY <2>1 DEF phone_record_enable, one_set_phone_record_enable, d, off
    <3>2. InputOk(c, [off EXCEPT !.null = TRUE])
      BY <1>6 DEF InputOk, RecordOk, Sides, CodecFields
    <3>3. QED
      BY <1>4, <3>1, <3>2
  <2>2. CASE kPlan = "two"
    <3>1. phone_record_enable(c, FALSE) = IF c.inRecord THEN [off EXCEPT !.inRecord = FALSE] ELSE d
      BY <2>2 DEF phone_record_enable, two_set_phone_record_enable, d, off
    <3>2. InputOk(c, [off EXCEPT !.inRecord = FALSE])
      BY <1>6, <2>2 DEF InputOk, RecordOk, Sides, CodecFields
    <3>3. QED
      BY <1>4, <3>1, <3>2
  <2>3. CASE kPlan \notin {"one", "two"}
    BY <1>1, <2>3 DEF phone_record_enable
  <2>4. QED
    BY <2>1, <2>2, <2>3
<1>8. InputOk(c, phone_record_route(phone_record_enable(c, TRUE)))
  <2>1. CASE kPlan = "one"
    <3>1. phone_record_route(phone_record_enable(c, TRUE)) = [[on EXCEPT !.inRecord = TRUE] EXCEPT !.null = TRUE]
      BY <2>1 DEF phone_record_route, one_set_phone_record, phone_record_enable, one_set_phone_record_enable,
                  d, on
    <3>2. InputOk(c, [[on EXCEPT !.inRecord = TRUE] EXCEPT !.null = TRUE])
      BY <1>6 DEF InputOk, RecordOk, Sides, CodecFields
    <3>3. QED
      BY <3>1, <3>2
  <2>2. CASE kPlan = "two"
    <3>1. phone_record_route(phone_record_enable(c, TRUE)) = [on EXCEPT !.inRecord = TRUE]
      BY <2>2 DEF phone_record_route, phone_record_enable, two_set_phone_record_enable, d, on
    <3>2. InputOk(c, [on EXCEPT !.inRecord = TRUE])
      BY <1>6, <2>2 DEF InputOk, RecordOk, Sides, CodecFields
    <3>3. QED
      BY <3>1, <3>2
  <2>3. CASE kPlan \notin {"one", "two"}
    BY <1>1, <2>3 DEF phone_record_route, phone_record_enable
  <2>4. QED
    BY <2>1, <2>2, <2>3
<1>9. QED
  BY <1>2, <1>3, <1>7, <1>8

\* Together, by the mode.
LEMMA SelectInput ==
  ASSUME NEW c, CodecFields \subseteq DOMAIN c, NEW mode \in Modes
  PROVE  InputOk(c, select_input_device(c, mode))
<1>1. InputOk(c, c)
  BY DEF InputOk
<1>2. CASE mode = "IN_CALL"
  BY <1>2, RecordEnable DEF select_input_device
<1>3. CASE mode = "FM"
  BY <1>3, RecordEnable DEF select_input_device
<1>4. CASE mode = "NORMAL"
  BY <1>4, RecordEnable DEF select_input_device
<1>5. CASE mode \notin {"IN_CALL", "FM", "NORMAL"}
  BY <1>1, <1>5 DEF select_input_device
<1>6. QED
  BY <1>2, <1>3, <1>4, <1>5

\* Outside a call it leaves the flags.
LEMMA SelectFlags ==
  ASSUME NEW c, CodecFields \subseteq DOMAIN c, NEW mode \in Modes, mode # "IN_CALL",
         NEW d, d = select_input_device(c, mode)
  PROVE  d.inRecord = c.inRecord /\ d.null = c.null
<1>1. CASE mode = "FM"
  <2>1. d = c \/ d = mixer_ctl_set(c, {"voice_record", "linein_record"}, {"linein_record"})
    BY <1>1 DEF select_input_device, fm_record_enable
  <2>2. QED
    BY <2>1, ControlsFlags
<1>2. CASE mode = "NORMAL"
  <2>1. d = c \/ d = mixer_ctl_set(c, {"linein_record", "voice_record"}, {})
    BY <1>2 DEF select_input_device, normal_record_enable
  <2>2. QED
    BY <2>1, ControlsFlags
<1>3. CASE mode \notin {"FM", "NORMAL"}
  BY <1>3 DEF select_input_device
<1>4. QED
  BY <1>1, <1>2, <1>3

\* An input changes nothing that the invariant is about.
LEMMA InputStep ==
  ASSUME RoutesInv, InputOk(kCodec, kCodec'), Call,
         UNCHANGED <<kBootVars, kMode, kDev, kInCall, kModem, kRoute, kPath, kVolume, kStale>>
  PROVE  RoutesInv'
<1>1. OneDevice(kCodec, kPath) => OneDevice(kCodec', kPath)
  BY SidesJudge DEF InputOk
<1>2. OneDevice(kCodec, kPath) => OneDevice(kCodec, kPath)'
  BY <1>1 DEF OneDevice, Heard, Spoken, kBootVars
<1>3. QED
  BY <1>2 DEF RoutesInv, InputOk, RecordOk, kBootVars, Call

\* A step that routes keeps the invariant, if the codec it starts from has no line
\* unless one may stay.
LEMMA RouteStep ==
  ASSUME RoutesInv, Call, NEW c, CodecFields \subseteq DOMAIN c, RecordOk(c), ~c.null,
         NEW mode \in Modes, NEW path, NEW h2w, NEW withVolume, Routed(c, mode, path, h2w, withVolume),
         c.line => kPlan \in {"one", "two"} /\ (mode \in {"IN_CALL", "FACTORY_TEST"} \/ kDied),
         kMode' = mode, kInCall' <=> mode \in {"IN_CALL", "FACTORY_TEST"}, kDev' = path, UNCHANGED kBootVars
  PROVE  RoutesInv'
<1>1. /\ CodecFields \subseteq DOMAIN kCodec'
      /\ kCodec'.inRecord = c.inRecord /\ kCodec'.null = c.null
      /\ mode \notin {"IN_CALL", "FACTORY_TEST"} \/ kPlan \notin {"one", "two"} => (kCodec'.line => c.line)
      /\ mode = "IN_CALL" /\ kPlan \in {"one", "two"} => OneDevice(kCodec', path)
      /\ kRoute' = "phone" <=> mode = "IN_CALL"
      /\ kPath' = path
  BY RoutedCodec
<1>2. UNCHANGED <<kPc, kPlan, kNoEar, kDied>> /\ kPc = "open"
  BY DEF kBootVars, Call
<1>3. OneDevice(kCodec', path) => OneDevice(kCodec, kPath)'
  BY <1>1, <1>2 DEF OneDevice, Heard, Spoken
<1>4. kCodec'.line => kPlan \in {"one", "two"} /\ (mode \in {"IN_CALL", "FACTORY_TEST"} \/ kDied)
  BY <1>1
<1>5. QED
  BY <1>1, <1>2, <1>3, <1>4 DEF RoutesInv, RecordOk

\* The end of a call hangs up, whatever mode follows.
LEMMA EndedCall ==
  ASSUME RoutesInv, ~kCodec.null, NEW mode \in Modes, mode \notin {"IN_CALL", "FACTORY_TEST"}, NEW path, NEW h2w,
         NEW d, d = select_input_device(select_output_device(clear_phone_route(kCodec), mode, path, h2w), mode)
  PROVE  CodecFields \subseteq DOMAIN d /\ RecordOk(d) /\ ~d.null /\ ~d.line
<1> DEFINE c == clear_phone_route(kCodec)
           e == select_output_device(c, mode, path, h2w)
<1>1. /\ CodecFields \subseteq DOMAIN c /\ c.inRecord = kCodec.inRecord /\ c.null = kCodec.null
      /\ c.line = kCodec.line
      /\ kPlan \in {"one", "two"} => c.endCall
  BY DEF RoutesInv, CodecFields, clear_phone_route, clean_phone_path
<1>2. RecordOk(c) /\ ~c.null
  BY <1>1 DEF RoutesInv, RecordOk
<1> HIDE DEF c
<1>3. RouteOk(c, e, mode, path)
  BY <1>1, <1>2, OutputDevice
<1> HIDE DEF e
<1>4. Ends(c, e) /\ CodecFields \subseteq DOMAIN e /\ e.inRecord = c.inRecord /\ e.null = c.null
  BY <1>3 DEF RouteOk
<1>5. ~e.line
  BY <1>1, <1>4 DEF Ends, RoutesInv
<1>6. d = select_input_device(e, mode)
  BY DEF e, c
<1>7. InputOk(e, d) /\ d.inRecord = e.inRecord /\ d.null = e.null
  BY <1>4, <1>6, SelectInput, SelectFlags
<1>8. QED
  BY <1>1, <1>2, <1>4, <1>5, <1>7 DEF InputOk, RecordOk

\* Every change of the mode keeps it.
LEMMA RoutesMode == ASSUME RoutesInv, NEW mode \in Modes, select_mode(mode) PROVE RoutesInv'
<1>1. Call /\ ~kCodec.null /\ mode # kMode /\ kMode' = mode /\ UNCHANGED <<kBootVars, kVolume>>
  BY DEF select_mode, Call
<1>2. CodecFields \subseteq DOMAIN kCodec /\ RecordOk(kCodec)
  BY DEF RoutesInv, RecordOk
<1>3. CASE mode \in {"IN_CALL", "FACTORY_TEST"} /\ kInCall
  <2>1. kInCall' /\ UNCHANGED <<kDev, kCodec, kModem, kRoute, kPath, kStale>>
    BY <1>3 DEF select_mode
  <2>2. UNCHANGED <<kPc, kPlan, kNoEar, kDied>>
    BY <1>1 DEF kBootVars
  <2>3. OneDevice(kCodec, kPath) => OneDevice(kCodec, kPath)'
    BY <2>1, <2>2 DEF OneDevice, Heard, Spoken
  <2>4. QED
    BY <1>1, <1>3, <2>1, <2>2, <2>3 DEF RoutesInv, Call
<1>4. CASE mode \in {"IN_CALL", "FACTORY_TEST"} /\ ~kInCall
  <2>1. kInCall' /\ \E h2w \in BOOLEAN : Routed(kCodec, mode, kDev', h2w, TRUE)
    BY <1>4 DEF select_mode
  <2>2. kCodec.line => kPlan \in {"one", "two"} /\ (mode \in {"IN_CALL", "FACTORY_TEST"} \/ kDied)
    BY <1>4 DEF RoutesInv
  <2>3. PICK h2w \in BOOLEAN : Routed(kCodec, mode, kDev', h2w, TRUE)
    BY <2>1
  <2>4. QED
    BY <1>1, <1>2, <1>4, <2>1, <2>2, <2>3, RouteStep
<1>5. CASE mode \notin {"IN_CALL", "FACTORY_TEST"}
  <2> DEFINE ended(h) == select_input_device(select_output_device(clear_phone_route(kCodec), mode, kDev, h), mode)
             again == mode \in {"IN_COMMUNICATION", "FM"}
  <2>1. PICK h2w \in BOOLEAN :
          /\ kInCall' = FALSE /\ kDev' = kDev
          /\ CASE again -> Routed(IF kInCall THEN ended(h2w) ELSE kCodec, mode, kDev, h2w, mode = "FM")
               [] ~again /\ kInCall ->
                    /\ kCodec' = ended(h2w) /\ UNCHANGED kModem
                    /\ kRoute' = RouteName(mode) /\ kPath' = kDev /\ kStale' = FALSE
               [] OTHER -> UNCHANGED <<kCodec, kModem, kRoute, kPath, kStale>>
    BY <1>5 DEF select_mode
  <2>2. /\ CodecFields \subseteq DOMAIN ended(h2w) /\ RecordOk(ended(h2w))
        /\ ~ended(h2w).null /\ ~ended(h2w).line
    BY <1>1, <1>5, EndedCall
  <2> HIDE DEF ended
  <2>3. CASE again /\ kInCall
    <3>1. Routed(ended(h2w), mode, kDev, h2w, mode = "FM")
      BY <2>1, <2>3
    <3>2. QED
      BY <1>1, <1>5, <2>1, <2>2, <3>1, RouteStep
  <2>4. CASE again /\ ~kInCall
    <3>1. Routed(kCodec, mode, kDev, h2w, mode = "FM")
      BY <2>1, <2>4
    <3>2. kCodec.line => kPlan \in {"one", "two"} /\ (mode \in {"IN_CALL", "FACTORY_TEST"} \/ kDied)
      BY <2>4 DEF RoutesInv
    <3>3. QED
      BY <1>1, <1>2, <1>5, <2>1, <3>1, <3>2, RouteStep
  <2>5. CASE ~again /\ kInCall
    <3>1. kCodec' = ended(h2w)
      BY <2>1, <2>5
    <3>2. QED
      BY <1>1, <1>5, <2>1, <2>2, <3>1 DEF RoutesInv, RecordOk, kBootVars, Call
  <2>6. CASE ~again /\ ~kInCall
    <3>1. UNCHANGED <<kCodec, kModem, kRoute, kPath, kStale>>
      BY <2>1, <2>6
    <3>2. QED
      BY <1>1, <1>5, <2>1, <2>6, <3>1 DEF RoutesInv, kBootVars, Call
  <2>7. QED
    BY <2>3, <2>4, <2>5, <2>6
<1>6. QED
  BY <1>3, <1>4, <1>5

\* Every other step of the part does too.
LEMMA RoutesStep == RoutesInv /\ [KNext]_kVars => RoutesInv'
<1> SUFFICES ASSUME RoutesInv, [KNext]_kVars PROVE RoutesInv'
  OBVIOUS
<1>1. CodecFields \subseteq DOMAIN kCodec /\ RecordOk(kCodec) /\ kMode \in Modes
  BY DEF RoutesInv, RecordOk
<1>2. CASE adev_open
  BY <1>2 DEF adev_open, RoutesInv
<1>3. ASSUME NEW mode \in Modes, select_mode(mode) PROVE RoutesInv'
  BY <1>3, RoutesMode
<1>4. kCodec.line => kPlan \in {"one", "two"} /\ (kMode \in {"IN_CALL", "FACTORY_TEST"} \/ kDied)
  BY DEF RoutesInv
<1>5. kInCall <=> kMode \in {"IN_CALL", "FACTORY_TEST"}
  BY DEF RoutesInv
<1>6. ASSUME NEW path \in Paths, out_set_parameters(path) PROVE RoutesInv'
  <2>1. PICK h2w \in BOOLEAN : Routed(kCodec, kMode, path, h2w, kMode \in VoiceModes)
    BY <1>6 DEF out_set_parameters
  <2>2. Call /\ ~kCodec.null /\ kDev' = path /\ UNCHANGED <<kBootVars, kMode, kInCall>>
    BY <1>6 DEF out_set_parameters, Call
  <2>3. QED
    BY <1>1, <1>4, <1>5, <2>1, <2>2, RouteStep
<1>7. CASE Reroute
  <2>1. PICK h2w \in BOOLEAN, tty \in BOOLEAN : Routed(kCodec, kMode, kDev, h2w, tty)
    BY <1>7 DEF Reroute
  <2>2. Call /\ ~kCodec.null /\ UNCHANGED <<kBootVars, kDev, kMode, kInCall>>
    BY <1>7 DEF Reroute, Call
  <2>3. QED
    BY <1>1, <1>4, <1>5, <2>1, <2>2, RouteStep
<1>8. ASSUME NEW volume \in KVolumes, VolumeRead(volume) PROVE RoutesInv'
  BY <1>8 DEF VolumeRead, RoutesInv, OneDevice, Heard, Spoken, kBootVars
<1>9. CASE VolumeWrite
  <2>1. /\ kCodec' = adev_set_voice_volume(kCodec, kVolume.mode, kVolume.path, kVolume.volume)
        /\ kStale' = (kStale \/ kVolume.path # kDev \/ kVolume.mode # kMode)
        /\ UNCHANGED <<kPc, kPlan, kNoEar, kDied, kMode, kDev, kInCall, kRoute, kPath>>
    BY <1>9 DEF VolumeWrite, kBootVars
  <2>2. /\ CodecFields \subseteq DOMAIN kCodec'
        /\ kCodec'.line = kCodec.line /\ kCodec'.inRecord = kCodec.inRecord /\ kCodec'.null = kCodec.null
        /\ kVolume.mode = "IN_CALL" /\ OneDevice(kCodec, kVolume.path) => OneDevice(kCodec', kVolume.path)
    BY <1>1, <2>1, VoiceVolume
  <2>3. ASSUME kPlan \in {"one", "two"}, kInCall, kRoute = "phone", ~kStale' PROVE OneDevice(kCodec, kPath)'
    <3>1. ~kStale /\ kVolume.path = kDev /\ kVolume.mode = kMode /\ kPath = kDev /\ OneDevice(kCodec, kPath)
      BY <2>1, <2>3 DEF RoutesInv
    <3>2. OneDevice(kCodec', kPath)
      <4>1. CASE kMode = "IN_CALL"
        BY <2>2, <3>1, <4>1
      <4>2. CASE kMode = "FACTORY_TEST"
        BY <2>1, <3>1, <4>2 DEF adev_set_voice_volume
      <4>3. QED
        BY <1>5, <2>3, <4>1, <4>2
    <3>3. QED
      BY <2>1, <3>2 DEF OneDevice, Heard, Spoken
  <2>4. QED
    BY <2>1, <2>2, <2>3 DEF RoutesInv
<1>10. CASE in_set_parameters
  BY <1>1, <1>10, SelectInput, InputStep DEF in_set_parameters
<1>11. CASE adev_close_input_stream
  <2> DEFINE a == normal_record_enable(kCodec)
             b == fm_record_enable(a, FALSE)
  <2>1. InputOk(kCodec, a)
    BY <1>1, RecordEnable
  <2> HIDE DEF a
  <2>2. InputOk(a, b)
    BY <2>1, RecordEnable DEF InputOk
  <2> HIDE DEF b
  <2>3. InputOk(b, phone_record_enable(b, FALSE))
    BY <2>2, RecordEnable DEF InputOk
  <2>4. InputOk(kCodec, phone_record_enable(b, FALSE))
    BY <2>1, <2>2, <2>3, InputTwice
  <2>5. InputOk(kCodec, kCodec')
    BY <1>11, <2>4 DEF adev_close_input_stream, a, b
  <2>6. QED
    BY <1>11, <2>5, InputStep DEF adev_close_input_stream
<1>12. CASE Restart
  <2>1. /\ CodecFields \subseteq DOMAIN kCodec' /\ ~kCodec'.inRecord /\ kCodec'.line = kCodec.line
        /\ kMode' = "NORMAL" /\ kInCall' = FALSE /\ kDied' = TRUE /\ UNCHANGED <<kPc, kPlan>>
    BY <1>1, <1>12 DEF Restart, CodecFields
  <2>2. QED
    BY <2>1 DEF RoutesInv, Modes
<1>13. CASE UNCHANGED kVars
  BY <1>13 DEF kVars, RoutesInv, OneDevice, Heard, Spoken
<1>14. QED
  BY <1>2, <1>3, <1>6, <1>7, <1>8, <1>9, <1>10, <1>11, <1>12, <1>13 DEF KNext

\* The invariant holds in every reachable state.
LEMMA RoutesAlways == Spec => []RoutesInv
<1>1. Init => RoutesInv
  BY DEF Init, KInit, FreshCodec, RoutesInv, CodecFields, Modes
<1>2. RoutesInv /\ [Next]_vars => RoutesInv'
  BY RoutesStep, OwnSteps
<1>3. QED
  BY <1>1, <1>2, PTL DEF Spec

\* The modem's line is connected only in a call or a factory test, in every plan and
\* for every sequence of modes, routes, volumes and inputs in which mediaserver lives.
THEOREM LineSafe == Spec => []LineOnlyInCall
<1>1. RoutesInv => LineOnlyInCall
  BY DEF RoutesInv, LineOnlyInCall
<1>2. QED
  BY <1>1, RoutesAlways, PTL

\* In a call routed to one device its microphone alone is on and no other output,
\* for every sequence of calls, unless a late volume wrote for another route.
THEOREM CallSides == Spec => []CallOneDevice
<1>1. RoutesInv => CallOneDevice
  <2>1. SUFFICES ASSUME RoutesInv, kPlan \in {"one", "two"}, kMode = "IN_CALL", kRoute = "phone", ~kStale,
                        \E d \in {"SPEAKER", "EARPIECE", "HEADSET", "HEADPHONE", "SCO"} : kPath = {d}
                 PROVE  /\ kCodec.on \cap {"main_mic", "headset_mic", "bt_mic"} = {Spoken(kPath)}
                        /\ kCodec.on \cap {"speaker_out", "headphone_out", "earpiece_out", "bt_out"}
                           \subseteq {Heard(kPath)}
    BY DEF CallOneDevice
  <2>2. OneDevice(kCodec, kPath)
    BY <2>1 DEF RoutesInv
  <2>3. QED
    BY <2>1, <2>2 DEF OneDevice, CallMics, CallOuts
<1>2. QED
  BY <1>1, RoutesAlways, PTL

-----------------------------------------------------------------------------
(* The ring of what is played. *)

\* The offset i places after from in a ring of n.
At(from, i, n) == IF from + i < n THEN from + i ELSE from + i - n

\* It is the remainder, for an offset in the ring and less than one round.
LEMMA AtIsMod ==
  ASSUME NEW n \in Nat \ {0}, NEW from \in 0 .. n - 1, NEW i \in 0 .. n - 1
  PROVE  At(from, i, n) = (from + i) % n /\ At(from, i, n) \in 0 .. n - 1
<1>1. CASE from + i < n
  BY <1>1 DEF At
<1>2. CASE from + i >= n
  <2>1. from + i - n \in 0 .. n - 1 /\ from + i = n + (from + i - n)
    BY <1>2
  <2>2. (from + i) % n = from + i - n
    BY <2>1
  <2>3. QED
    BY <1>2, <2>1, <2>2 DEF At
<1>3. QED
  BY <1>1, <1>2

\* The samples a ring holds: data of them from the offset rd, the first after got.
Holds(buf, rd, data, got) == \A i \in 1 .. data : buf[At(rd, i - 1, QTotal) + 1] = got + i

\* The ring while the input is open.  The write offset may stand at the end instead
\* of the start; the write that has passed its check still fits.
RingOk ==
  /\ DOMAIN qBuf = 1 .. QTotal /\ qRd \in 0 .. QTotal - 1 /\ qWr \in 0 .. QTotal /\ qData \in 0 .. QTotal
  /\ qValid = QTotal - qData /\ qGot \in Nat /\ qPut = qGot + qData
  /\ qWr \in {qRd + qData, qRd + qData - QTotal, qRd + qData + QTotal}
  /\ qWant <= qValid
  /\ qPc = "advance" => qLen <= qData

PcmInv ==
  /\ (qFlag <=> qInput = "af") /\ (qBuf # <<>> => qInput = "af") /\ (qPc # "idle" => qInput = "af")
  /\ qWant \in 0 .. QTotal /\ qPut \in Nat /\ qLen \in Nat
  /\ qInput = "af" /\ ~qFault =>
       /\ RingOk
       /\ Holds(qBuf, qRd, qData, qGot)
       /\ qPc = "advance" => DOMAIN qOut = 1 .. qLen /\ \A i \in 1 .. qLen : qOut[i] = qGot + i

\* A write of want samples at the offset wr to a ring that holds data of them leaves
\* the place k of a sample i that is held, and is at k with a later one.
Placed(n, wr, data, want, i, k) ==
  /\ k \in 0 .. n - 1
  /\ i <= data => k \notin wr .. wr + want - 1 /\ k + n \notin wr .. wr + want - 1
  /\ i > data => \/ k \in wr .. wr + want - 1 /\ k - wr = i - data - 1
                 \/ /\ k \notin wr .. wr + want - 1
                    /\ k + n \in wr .. wr + want - 1 /\ k + n - wr = i - data - 1

\* That is so when the write offset is data places after the read offset.
LEMMA WritePlace ==
  ASSUME NEW n \in Nat \ {0}, NEW rd \in 0 .. n - 1, NEW wr \in 0 .. n, NEW data \in 0 .. n, NEW want \in 0 .. n,
         want <= n - data, wr \in {rd + data, rd + data - n, rd + data + n},
         NEW i \in 1 .. data + want, NEW k, k = At(rd, i - 1, n)
  PROVE  Placed(n, wr, data, want, i, k)
<1> USE DEF Placed
<1>1. CASE rd + (i - 1) < n
  <2>1. k = rd + (i - 1)
    BY <1>1 DEF At
  <2>2. CASE wr = rd + data
    BY <1>1, <2>1, <2>2
  <2>3. CASE wr = rd + data - n
    BY <1>1, <2>1, <2>3
  <2>4. CASE wr = rd + data + n
    BY <1>1, <2>1, <2>4
  <2>5. QED
    BY <2>2, <2>3, <2>4
<1>2. CASE rd + (i - 1) >= n
  <2>1. k = rd + (i - 1) - n
    BY <1>2 DEF At
  <2>2. CASE wr = rd + data
    BY <1>2, <2>1, <2>2
  <2>3. CASE wr = rd + data - n
    BY <1>2, <2>1, <2>3
  <2>4. CASE wr = rd + data + n
    BY <1>2, <2>1, <2>4
  <2>5. QED
    BY <2>2, <2>3, <2>4
<1>3. QED
  BY <1>1, <1>2

\* So a write adds its samples after those held.
LEMMA CopiedHolds ==
  ASSUME RingOk, qWant \in 0 .. QTotal, Holds(qBuf, qRd, qData, qGot)
  PROVE  Holds(Copied(qBuf, qWr, qWant), qRd, qData + qWant, qGot)
<1> DEFINE b == Copied(qBuf, qWr, qWant)
<1>0. QTotal \in Nat \ {0}
  BY PcmAssumption
<1>1. SUFFICES ASSUME NEW i \in 1 .. qData + qWant PROVE b[At(qRd, i - 1, QTotal) + 1] = qGot + i
  BY DEF Holds
<1> DEFINE k == At(qRd, i - 1, QTotal)
<1> HIDE DEF k
<1>2. Placed(QTotal, qWr, qData, qWant, i, k)
  <2>1. /\ qRd \in 0 .. QTotal - 1 /\ qWr \in 0 .. QTotal /\ qData \in 0 .. QTotal
        /\ qWr \in {qRd + qData, qRd + qData - QTotal, qRd + qData + QTotal}
        /\ qWant <= QTotal - qData
    BY DEF RingOk
  <2>2. qWant \in 0 .. QTotal /\ i \in 1 .. qData + qWant /\ k = At(qRd, i - 1, QTotal)
    BY <1>1 DEF k
  <2>3. QED
    BY <1>0, <2>1, <2>2, WritePlace
<1>3. k + 1 \in DOMAIN qBuf /\ (k + 1) - 1 = k
  BY <1>0, <1>2 DEF RingOk, Placed
<1>4. b[k + 1] = IF k \in qWr .. qWr + qWant - 1 THEN qPut + (k + 1) - qWr
                 ELSE IF k + QTotal \in qWr .. qWr + qWant - 1 THEN qPut + (k + 1) + QTotal - qWr
                 ELSE qBuf[k + 1]
  BY <1>3 DEF Copied
<1>5. CASE i <= qData
  <2>1. b[k + 1] = qBuf[k + 1]
    BY <1>2, <1>4, <1>5 DEF Placed
  <2>2. i \in 1 .. qData
    BY <1>0, <1>5 DEF RingOk
  <2>3. qBuf[k + 1] = qGot + i
    BY <2>2 DEF Holds, k
  <2>4. QED
    BY <2>1, <2>3 DEF k
<1>6. CASE i > qData
  <2>1. \/ b[k + 1] = qPut + (k + 1) - qWr /\ k - qWr = i - qData - 1
        \/ b[k + 1] = qPut + (k + 1) + QTotal - qWr /\ k + QTotal - qWr = i - qData - 1
    BY <1>2, <1>4, <1>6 DEF Placed
  <2>2. qPut = qGot + qData /\ qGot \in Nat /\ qData \in Nat /\ qWr \in Nat /\ k \in Nat
    BY <1>0, <1>2 DEF RingOk, Placed
  <2>3. b[k + 1] = qGot + i
    BY <1>0, <2>1, <2>2
  <2>4. QED
    BY <2>3 DEF k
<1>7. QED
  BY <1>0, <1>5, <1>6 DEF RingOk

\* A read takes the samples off the front.
LEMMA TakenHolds ==
  ASSUME RingOk, NEW len \in 0 .. qData, Holds(qBuf, qRd, qData, qGot),
         NEW rd, rd = IF qRd + len >= QTotal THEN qRd + len - QTotal ELSE qRd + len
  PROVE  rd \in 0 .. QTotal - 1 /\ Holds(qBuf, rd, qData - len, qGot + len)
<1>0. QTotal \in Nat \ {0}
  BY PcmAssumption
<1>1. rd \in 0 .. QTotal - 1
  BY <1>0 DEF RingOk
<1>2. SUFFICES ASSUME NEW i \in 1 .. qData - len PROVE qBuf[At(rd, i - 1, QTotal) + 1] = (qGot + len) + i
  BY <1>1 DEF Holds
<1>3. len + i \in 1 .. qData
  BY <1>0 DEF RingOk
<1>4. At(rd, i - 1, QTotal) = At(qRd, (len + i) - 1, QTotal)
  BY <1>0 DEF RingOk, At
<1>5. qBuf[At(qRd, (len + i) - 1, QTotal) + 1] = qGot + (len + i)
  BY <1>3 DEF Holds
<1>6. QED
  BY <1>0, <1>4, <1>5 DEF RingOk

\* What ReadPcmData copies without the lock.
LEMMA ReadHolds ==
  ASSUME RingOk, NEW len \in 0 .. qData, Holds(qBuf, qRd, qData, qGot), NEW i \in 1 .. len
  PROVE  qBuf[((qRd + i - 1) % QTotal) + 1] = qGot + i
<1>0. QTotal \in Nat \ {0}
  BY PcmAssumption
<1>1. i \in 1 .. qData /\ i - 1 \in 0 .. QTotal - 1 /\ qRd + (i - 1) = qRd + i - 1
  BY <1>0 DEF RingOk
<1>2. At(qRd, i - 1, QTotal) = (qRd + (i - 1)) % QTotal
  BY <1>0, <1>1, AtIsMod DEF RingOk
<1>3. QED
  BY <1>1, <1>2 DEF Holds

\* Opening and closing an input, and the steps that leave the ring alone.
LEMMA PcmInputs ==
  ASSUME PcmInv,
         \/ \E device \in {"af", "mic"} : OpenInput(device)
         \/ CloseInput \/ SetActive
         \/ \E n \in QSizes : WriteCheck(n) \/ ReadStart(n)
  PROVE  PcmInv'
<1>0. QTotal \in Nat \ {0} /\ QSizes \subseteq Nat
  BY PcmAssumption
<1>1. CASE OpenInput("af")
  <2>1. /\ qBuf' = [i \in 1 .. QTotal |-> 0] /\ qInput' = "af" /\ qFlag' = TRUE
        /\ qWr' = 0 /\ qRd' = 0 /\ qValid' = QTotal /\ qData' = 0 /\ qGot' = qPut
        /\ UNCHANGED <<qPut, qOut, qWant, qPc, qLen, qFault>>
    BY <1>1 DEF OpenInput
  <2>2. qPc = "idle"
    BY <1>1 DEF OpenInput, PcmInv
  <2>3. RingOk'
    BY <1>0, <2>1, <2>2 DEF RingOk, PcmInv
  <2>4. Holds(qBuf, qRd, qData, qGot)'
    BY <2>1 DEF Holds
  <2>5. QED
    BY <2>1, <2>2, <2>3, <2>4 DEF PcmInv
<1>2. CASE OpenInput("mic")
  BY <1>2 DEF OpenInput, PcmInv
<1>3. CASE CloseInput
  BY <1>3 DEF CloseInput, PcmInv
<1>4. CASE SetActive
  BY <1>4 DEF SetActive, PcmInv, RingOk, Holds
<1>5. ASSUME NEW n \in QSizes, WriteCheck(n) PROVE PcmInv'
  <2>1. /\ qInput = "af" /\ ~qFault /\ qWant' = n /\ n <= qValid
        /\ UNCHANGED <<qFlag, qBuf, qWr, qRd, qValid, qData, qPut, qGot, qOut, qPc, qLen, qInput, qFault>>
    BY <1>0, <1>5 DEF WriteCheck, CapturesOutput, PcmInv, RingOk
  <2>2. RingOk /\ n \in 0 .. QTotal
    BY <1>0, <2>1 DEF PcmInv, RingOk
  <2>3. RingOk'
    BY <2>1, <2>2 DEF RingOk
  <2>4. QED
    BY <2>1, <2>2, <2>3 DEF PcmInv, Holds
<1>6. ASSUME NEW n \in QSizes, ReadStart(n) PROVE PcmInv'
  BY <1>0, <1>6 DEF ReadStart, PcmInv, RingOk, Holds
<1>7. QED
  BY <1>1, <1>2, <1>3, <1>4, <1>5, <1>6

\* The write and the two halves of the read.
LEMMA PcmTransfer ==
  ASSUME PcmInv, WritePcmData \/ ReadCopy \/ ReadPcmData
  PROVE  PcmInv'
<1>0. QTotal \in Nat \ {0}
  BY PcmAssumption
<1>1. CASE WritePcmData /\ qBuf = <<>>
  BY <1>0, <1>1 DEF WritePcmData, PcmInv, qReadVars
<1>2. CASE WritePcmData /\ qBuf # <<>> /\ qFault
  BY <1>0, <1>2 DEF WritePcmData, PcmInv, qReadVars
<1>3. CASE WritePcmData /\ qBuf # <<>> /\ ~qFault
  <2>1. /\ qBuf' = Copied(qBuf, qWr, qWant)
        /\ qWr' = IF qWr + qWant > QTotal THEN qWr + qWant - QTotal ELSE qWr + qWant
        /\ qValid' = qValid - qWant /\ qData' = qData + qWant /\ qPut' = qPut + qWant /\ qWant' = 0
        /\ UNCHANGED <<qFlag, qRd, qGot, qOut, qPc, qLen, qInput, qFault>>
    BY <1>3 DEF WritePcmData, qReadVars
  <2>2. /\ qInput = "af" /\ RingOk /\ Holds(qBuf, qRd, qData, qGot) /\ qWant \in 0 .. QTotal /\ qLen \in Nat
        /\ qPc = "advance" => DOMAIN qOut = 1 .. qLen /\ \A i \in 1 .. qLen : qOut[i] = qGot + i
    BY <1>3 DEF PcmInv
  <2>3. Holds(qBuf, qRd, qData, qGot)'
    BY <2>1, <2>2, CopiedHolds DEF Holds
  <2>4. DOMAIN qBuf' = 1 .. QTotal
    BY <2>1, <2>2 DEF Copied, RingOk
  <2>5. /\ qRd \in 0 .. QTotal - 1 /\ qWr \in 0 .. QTotal /\ qData \in 0 .. QTotal
        /\ qValid = QTotal - qData /\ qGot \in Nat /\ qPut = qGot + qData
        /\ qWr \in {qRd + qData, qRd + qData - QTotal, qRd + qData + QTotal}
        /\ qWant <= qValid /\ (qPc = "advance" => qLen <= qData)
    BY <2>2 DEF RingOk
  <2>6. /\ qWr' \in 0 .. QTotal /\ qData' \in 0 .. QTotal
        /\ qWr' \in {qRd + qData', qRd + qData' - QTotal, qRd + qData' + QTotal}
        /\ qPc = "advance" => qLen <= qData'
    BY <1>0, <2>1, <2>2, <2>5
  <2>7. qValid' = QTotal - qData' /\ qPut' = qGot + qData' /\ qWant' <= qValid' /\ qPut' \in Nat
    BY <1>0, <2>1, <2>2, <2>5, <2>6
  <2>8. RingOk'
    BY <2>1, <2>4, <2>5, <2>6, <2>7 DEF RingOk
  <2>9. QED
    BY <1>0, <2>1, <2>2, <2>3, <2>7, <2>8 DEF PcmInv
<1>4. CASE ReadCopy
  <2>1. /\ qInput = "af" /\ ~qFault /\ RingOk /\ Holds(qBuf, qRd, qData, qGot) /\ qLen \in Nat
        /\ qData \in 0 .. QTotal
    BY <1>4 DEF ReadCopy, PcmInv, RingOk
  <2>2. /\ qLen' = IF qData < qLen THEN qData ELSE qLen
        /\ qOut' = [i \in 1 .. qLen' |-> qBuf[((qRd + i - 1) % QTotal) + 1]] /\ qPc' = "advance"
        /\ UNCHANGED <<qFlag, qBuf, qWr, qRd, qValid, qData, qPut, qGot, qWant, qInput, qFault>>
    BY <1>4 DEF ReadCopy
  <2>3. qLen' \in 0 .. qData
    BY <1>0, <2>1, <2>2
  <2>4. \A i \in 1 .. qLen' : qOut'[i] = qGot + i
    BY <2>1, <2>2, <2>3, ReadHolds
  <2>5. RingOk' /\ Holds(qBuf, qRd, qData, qGot)'
    BY <2>1, <2>2, <2>3 DEF RingOk, Holds
  <2>6. DOMAIN qOut' = 1 .. qLen' /\ qLen' \in Nat
    BY <1>0, <2>1, <2>2
  <2>7. /\ (qFlag' <=> qInput' = "af") /\ qWant' \in 0 .. QTotal /\ qPut' \in Nat
        /\ qInput' = "af" /\ qGot' = qGot
    BY <2>1, <2>2 DEF PcmInv
  <2>8. QED
    BY <2>4, <2>5, <2>6, <2>7 DEF PcmInv
<1>5. CASE ReadPcmData
  <2>1. /\ qInput = "af" /\ ~qFault /\ RingOk /\ Holds(qBuf, qRd, qData, qGot) /\ qLen \in Nat
        /\ qLen <= qData /\ qWant \in 0 .. QTotal
    BY <1>5 DEF ReadPcmData, PcmInv, RingOk
  <2>2. /\ qRd' = IF qRd + qLen >= QTotal THEN qRd + qLen - QTotal ELSE qRd + qLen
        /\ qData' = qData - qLen /\ qValid' = qValid + qLen /\ qGot' = qGot + qLen
        /\ qPc' = "idle" /\ qLen' = 0
        /\ UNCHANGED <<qFlag, qBuf, qWr, qPut, qOut, qWant, qInput, qFault>>
    BY <1>5 DEF ReadPcmData
  <2>3. /\ qRd \in 0 .. QTotal - 1 /\ qWr \in 0 .. QTotal /\ qData \in 0 .. QTotal
        /\ qValid = QTotal - qData /\ qGot \in Nat /\ qPut = qGot + qData
        /\ qWr \in {qRd + qData, qRd + qData - QTotal, qRd + qData + QTotal}
        /\ qWant <= qValid
    BY <2>1 DEF RingOk
  <2>4. qLen \in 0 .. qData
    BY <1>0, <2>1, <2>3
  <2>5. qRd' \in 0 .. QTotal - 1 /\ Holds(qBuf, qRd', qData - qLen, qGot + qLen)
    BY <2>1, <2>2, <2>4, TakenHolds
  <2>6. Holds(qBuf, qRd, qData, qGot)'
    BY <2>2, <2>5 DEF Holds
  <2>7. /\ qData' \in 0 .. QTotal /\ qGot' \in Nat /\ qPut' = qGot' + qData' /\ qValid' = QTotal - qData'
        /\ qWant' <= qValid'
    BY <1>0, <2>1, <2>2, <2>3, <2>4
  <2>8. qWr' \in {qRd' + qData', qRd' + qData' - QTotal, qRd' + qData' + QTotal}
    BY <1>0, <2>1, <2>2, <2>3, <2>4
  <2>9. RingOk'
    BY <2>1, <2>2, <2>3, <2>5, <2>7, <2>8 DEF RingOk
  <2>10. QED
    BY <2>1, <2>2, <2>6, <2>9 DEF PcmInv
<1>6. QED
  BY <1>1, <1>2, <1>3, <1>4, <1>5

\* The capture of what is played gets every accepted sample once and in order, for
\* every ring size, every size of a write or read and every interleaving of the
\* player, the recorder, the opens and the closes, until a freed ring is written.
THEOREM PcmSafe == Spec => []PcmInOrder
<1>0. QTotal \in Nat \ {0}
  BY PcmAssumption
<1>1. Init => PcmInv
  BY <1>0 DEF Init, QInit, PcmInv
<1>2. PcmInv /\ [Next]_vars => PcmInv'
  <2>1. SUFFICES ASSUME PcmInv, [QNext]_qVars PROVE PcmInv'
    BY OwnSteps
  <2>2. CASE UNCHANGED qVars
    BY <2>1, <2>2 DEF qVars, PcmInv, RingOk, Holds
  <2>3. QED
    BY <2>1, <2>2, PcmInputs, PcmTransfer DEF QNext
<1>3. PcmInv => PcmInOrder
  <2>1. SUFFICES ASSUME PcmInv, qInput = "af", ~qFault
                 PROVE  /\ qPut - qGot = qData /\ qData + qValid = QTotal
                        /\ \A i \in 1 .. qData : qBuf[((qRd + i - 1) % QTotal) + 1] = qGot + i
                        /\ qPc = "advance" => \A i \in DOMAIN qOut : qOut[i] = qGot + i
    BY DEF PcmInOrder
  <2>2. RingOk /\ Holds(qBuf, qRd, qData, qGot)
    BY <2>1 DEF PcmInv
  <2>3. qPut - qGot = qData /\ qData + qValid = QTotal /\ qData \in 0 .. qData
    BY <1>0, <2>2 DEF RingOk
  <2>4. \A i \in 1 .. qData : qBuf[((qRd + i - 1) % QTotal) + 1] = qGot + i
    BY <2>2, <2>3, ReadHolds
  <2>5. qPc = "advance" => \A i \in DOMAIN qOut : qOut[i] = qGot + i
    BY <2>1 DEF PcmInv
  <2>6. QED
    BY <2>3, <2>4, <2>5
<1>4. QED
  BY <1>1, <1>2, <1>3, PTL DEF Spec

-----------------------------------------------------------------------------
(* The sensors: who uses a driver. *)

InputNames == gsensorList \union magSensorList \union gyrSensorList \union ligSensorList \union proSensorList
              \union tempSensorList \union PanelDevices \union OtherDevices
PlainNames == InputNames \ {"FreescaleMagnetometer"}
Uses(h) == IF h \in zActive THEN 1 ELSE 0

\* A driver that the counts say is in use.
InUse(o) ==
  IF o = "A" THEN zUser > 0
  ELSE IF o = "M" THEN zEn["M"] > 0 \/ (zFxos /\ zEn["O"] > 0)
  ELSE zEn[o] > 0

\* The accelerometer has at least the users the service knows of, an active sensor
\* is counted, and a driver in use is on.  Only the FXOS8700 build lists the
\* orientation, for which a plain magnetometer would not be turned on.
UseInv ==
  /\ zUser \in Nat /\ zEn \in [Handles -> Nat] /\ zActive \subseteq Handles
  /\ ~zFxos => zInputs \in Seq(PlainNames) /\ zList \in Seq(ObjectKinds) /\ "O" \notin zActive
  /\ zPc = "boot" => zActive = {} /\ zUser = 0 /\ zEn = [h \in Handles |-> 0] /\ zList = <<>>
  /\ zUser >= Uses("A") + Uses("M") + Uses("O")
  /\ \A h \in zActive : zEn[h] > 0
  /\ \A o \in ObjectKinds : InUse(o) => zOn[o] \/ o \in zFailed

\* An attribute that was written has the value, or has failed.
LEMMA AttrWritten ==
  ASSUME NEW writes, NEW failed, set_sysfs_input_attr(writes, failed), NEW o \in ObjectKinds,
         <<o, TRUE>> \in writes
  PROVE  zOn'[o] \/ o \in zFailed'
<1>1. o \in {w[1] : w \in writes}
  OBVIOUS
<1>2. CASE o \in failed
  BY <1>1, <1>2 DEF set_sysfs_input_attr
<1>3. CASE o \notin failed
  BY <1>1, <1>3 DEF set_sysfs_input_attr
<1>4. QED
  BY <1>2, <1>3

\* Any other is as before.
LEMMA AttrKept ==
  ASSUME NEW writes, NEW failed, set_sysfs_input_attr(writes, failed), NEW o \in ObjectKinds,
         \A w \in writes : w[1] # o
  PROVE  zOn'[o] = zOn[o] /\ (o \in zFailed' <=> o \in zFailed)
<1>1. o \notin {w[1] : w \in writes}
  OBVIOUS
<1>2. QED
  BY <1>1 DEF set_sysfs_input_attr

\* A board with a device missing still lists known names.
LEMMA Removed ==
  ASSUME NEW S, NEW s \in Seq(S), NEW i \in DOMAIN s
  PROVE  RemoveAt(s, i) \in Seq(S)
<1>1. i \in 1 .. Len(s)
  OBVIOUS
<1>2. SubSeq(s, 1, i - 1) \in Seq(S) /\ SubSeq(s, i + 1, Len(s)) \in Seq(S)
  BY <1>1
<1>3. QED
  BY <1>2 DEF RemoveAt

\* Loading the drivers and listing the sensors.
LEMMA UseDetect == UseInv /\ (insmodDevice \/ sensorsDetect \/ open_sensors) => UseInv'
<1> SUFFICES ASSUME UseInv, insmodDevice \/ sensorsDetect \/ open_sensors PROVE UseInv'
  OBVIOUS
<1>1. CASE insmodDevice
  <2>1. PICK board \in Boards :
          /\ zInputs' \in {board} \union {RemoveAt(board, i) : i \in Loadable(board)}
          /\ zFxos' = ("FreescaleMagnetometer" \in Range(board))
    BY <1>1 DEF insmodDevice
  <2>0. Loadable(board) \subseteq DOMAIN board
    BY DEF Loadable
  <2>2. zPc = "boot" /\ zPc' = "detect" /\ UNCHANGED <<zList, zActive, zUser, zEn, zOn, zFailed>>
    BY <1>1 DEF insmodDevice, zCallVars
  <2>3. ASSUME ~zFxos' PROVE zInputs' \in Seq(PlainNames)
    <3>1. CASE board = <<"axp", "bma250", "lightsensor", "proximity", "Virtual.Acc", "gt">>
      <4>1. board \in Seq(PlainNames)
        BY <3>1 DEF PlainNames, InputNames, gsensorList, ligSensorList, proSensorList, PanelDevices, OtherDevices
      <4>2. QED
        BY <2>0, <2>1, <4>1, Removed
    <3>2. CASE board = <<"Virtual.Acc", "FreescaleMagnetometer", "gsl">>
      <4>1. 2 \in DOMAIN board /\ board[2] = "FreescaleMagnetometer"
        BY <3>2
      <4>2. QED
        BY <2>1, <2>3, <4>1 DEF Range
    <3>3. CASE board = <<"sw-", "gt", "lsm303d_mag", "axp", "bmg160", "Virtual.Acc", "ft5x", "sunxi-temp">>
      <4>1. board \in Seq(PlainNames)
        BY <3>3 DEF PlainNames, InputNames, gsensorList, magSensorList, gyrSensorList, tempSensorList, PanelDevices,
                    OtherDevices
      <4>2. QED
        BY <2>0, <2>1, <4>1, Removed
    <3>4. QED
      BY <3>1, <3>2, <3>3 DEF Boards
  <2>4. \A h \in Handles : zEn[h] = 0
    BY <2>2 DEF UseInv
  <2>5. \A o \in ObjectKinds : ~InUse(o)'
    BY <2>2, <2>4 DEF UseInv, InUse, Handles, ObjectKinds
  <2>6. <<>> \in Seq(ObjectKinds)
    OBVIOUS
  <2>7. QED
    BY <2>2, <2>3, <2>5, <2>6 DEF UseInv, Uses
<1>2. CASE sensorsDetect
  <2>1. zInputs # <<>> /\ zInputs' = Tail(zInputs) /\ searchDevice(Head(zInputs)) /\ zPc = "detect"
        /\ UNCHANGED <<zPc, zFxos, zActive, zUser, zEn, zOn, zFailed>>
    BY <1>2 DEF sensorsDetect, zCallVars
  <2>2. ASSUME ~zFxos PROVE zInputs' \in Seq(PlainNames) /\ zList' \in Seq(ObjectKinds)
    <3>1. zInputs \in Seq(PlainNames) /\ zList \in Seq(ObjectKinds)
      BY <2>2 DEF UseInv
    <3>2. zInputs' \in Seq(PlainNames) /\ Head(zInputs) \in PlainNames
      BY <2>1, <3>1
    <3>3. SensorOf(Head(zInputs)) \in ObjectKinds \union {"none"}
      BY DEF SensorOf, ObjectKinds, Handles
    <3>4. Head(zInputs) # "FreescaleMagnetometer"
      BY <3>2 DEF PlainNames
    <3>5. getDevice(Head(zInputs)) \in Seq(ObjectKinds)
      BY <3>3, <3>4 DEF getDevice
    <3>6. zList' = zList \/ zList' = zList \o getDevice(Head(zInputs))
      BY <2>1 DEF searchDevice
    <3>7. zList \o getDevice(Head(zInputs)) \in Seq(ObjectKinds)
      BY <3>1, <3>5
    <3>8. QED
      BY <3>1, <3>2, <3>6, <3>7
  <2>3. QED
    BY <2>1, <2>2 DEF UseInv, Uses, InUse
<1>3. CASE open_sensors
  BY <1>3 DEF open_sensors, zDetectVars, zCallVars, UseInv, Uses, InUse
<1>4. QED
  BY <1>1, <1>2, <1>3

\* What the classes write: the accelerometer's attribute for its three users, the
\* magnetometer's, and the flag of each other sensor when it changes.
LEMMA WritesMag ==
  ASSUME NEW h \in {"M", "O"}, NEW en \in BOOLEAN, zFxos
  PROVE  Writes(h, en) = {<<"A", AccelUsers(h, en) > 0>>, 
                          <<"M", Bump(zEn[h], en) > 0 \/ zEn[IF h = "M" THEN "O" ELSE "M"] > 0>>}
<1>1. AccelWrites(h, en) = {<<"A", AccelUsers(h, en) > 0>>}
  BY DEF AccelWrites
<1>2. Writes(h, en) = AccelWrites(h, en) \union MagWrites(h, en)
  BY DEF Writes
<1>3. QED
  BY <1>1, <1>2 DEF MagWrites

\* MagnetoSensor writes the switch of the magnetometer only when its use count
\* becomes or stops being zero.
LEMMA WritesMagneto ==
  ASSUME NEW en \in BOOLEAN, ~zFxos, NEW n, n = Bump(zEn["M"], en)
  PROVE  Writes("M", en) = {<<"A", AccelUsers("M", en) > 0>>} \union
                           (IF (zEn["M"] = 0) = (n = 0) THEN {} ELSE {<<"M", n > 0>>})
<1>1. AccelWrites("M", en) = {<<"A", AccelUsers("M", en) > 0>>}
  BY DEF AccelWrites
<1>2. Writes("M", en) = AccelWrites("M", en) \union MagnetoWrites("M", en)
  BY DEF Writes
<1>3. QED
  BY <1>1, <1>2 DEF MagnetoWrites

\* The drivers of a single sensor write when the sensor changes.
LEMMA WritesOther ==
  ASSUME NEW h \in {"GY", "L", "PX", "T"}, NEW en \in BOOLEAN
  PROVE  Writes(h, en) = IF (zEn[h] > 0) = en THEN {} ELSE {<<h, en>>}
<1>1. AccelWrites(h, en) = {}
  BY DEF AccelWrites
<1>2. CASE h = "GY"
  BY <1>1, <1>2 DEF Writes, GyroWrites
<1>3. CASE h = "L"
  BY <1>1, <1>3 DEF Writes, LightWrites
<1>4. CASE h = "PX"
  BY <1>1, <1>4 DEF Writes, ProximityWrites
<1>5. CASE h = "T"
  BY <1>1, <1>5 DEF Writes, TempWrites
<1>6. QED
  BY <1>2, <1>3, <1>4, <1>5

\* AccelSensor writes its switch at every call.
LEMMA WritesAccel ==
  ASSUME NEW en \in BOOLEAN
  PROVE  Writes("A", en) = {<<"A", AccelUsers("A", en) > 0>>}
BY DEF Writes, AccelWrites

\* The counts after a call.
LEMMA Counts ==
  ASSUME UseInv, NEW h \in Handles, NEW en \in BOOLEAN, activate(h, en)
  PROVE  /\ zUser' = AccelUsers(h, en) /\ zUser' \in Nat
         /\ zEn' = [zEn EXCEPT ![h] = Enabled(h, en)] /\ zEn' \in [Handles -> Nat]
         /\ en => zEn'[h] > 0
         /\ h \in {"A", "M", "O"} => zEn'[h] = Bump(zEn[h], en)
         /\ h \notin {"A", "M", "O"} => zEn'[h] = (IF en THEN 1 ELSE 0)
         /\ zActive' \subseteq Handles
         /\ zUser' >= (Uses("A") + Uses("M") + Uses("O"))'
         /\ \A g \in zActive' : zEn'[g] > 0
<1>1. /\ zUser' = AccelUsers(h, en) /\ zEn' = [zEn EXCEPT ![h] = Enabled(h, en)]
      /\ IF en THEN h \notin zActive ELSE h \in zActive \/ zActive = {}
      /\ IF en THEN zActive' \in {zActive, zActive \union {h}} ELSE zActive' = zActive \ {h}
  BY DEF activate
<1>2. /\ zUser \in Nat /\ zEn \in [Handles -> Nat] /\ zActive \subseteq Handles /\ zEn[h] \in Nat
      /\ \A g \in zActive : zEn[g] > 0
  BY DEF UseInv
<1>3. Enabled(h, en) \in Nat /\ zUser' \in Nat /\ (en => Enabled(h, en) > 0)
  BY <1>1, <1>2 DEF Enabled, AccelUsers, Bump
<1>4. zEn'[h] = Enabled(h, en) /\ zEn' \in [Handles -> Nat] /\ \A g \in Handles \ {h} : zEn'[g] = zEn[g]
  BY <1>1, <1>2, <1>3
<1>5. \A g \in zActive' : zEn'[g] > 0
  <2>1. CASE en
    BY <1>1, <1>2, <1>3, <1>4, <2>1
  <2>2. CASE ~en
    BY <1>1, <1>2, <1>4, <2>2
  <2>3. QED
    BY <2>1, <2>2
<1>6. zUser' >= (Uses("A") + Uses("M") + Uses("O"))'
  <2>1. zUser >= Uses("A") + Uses("M") + Uses("O")
    BY DEF UseInv
  <2>2. \A g \in Handles : Uses(g) \in {0, 1} /\ Uses(g)' \in {0, 1}
    BY DEF Uses
  <2>3. \A g \in Handles \ {h} : Uses(g)' = Uses(g)
    BY <1>1 DEF Uses
  <2>4. CASE h \notin {"A", "M", "O"}
    BY <1>1, <2>1, <2>3, <2>4 DEF AccelUsers, Handles
  <2>5. CASE h \in {"A", "M", "O"} /\ en
    <3>1. zUser' = zUser + 1
      BY <1>1, <2>5 DEF AccelUsers, Bump
    <3>2. (Uses("A") + Uses("M") + Uses("O"))' <= Uses("A") + Uses("M") + Uses("O") + 1
      <4>1. Uses(h) = 0
        BY <1>1, <2>5 DEF Uses
      <4>2. QED
        BY <2>2, <2>3, <2>5, <4>1 DEF Handles
    <3>3. QED
      BY <1>2, <1>3, <2>1, <2>2, <3>1, <3>2 DEF Handles
  <2>6. CASE h \in {"A", "M", "O"} /\ ~en /\ h \in zActive
    <3>1. Uses(h) = 1 /\ Uses(h)' = 0
      BY <1>1, <2>6 DEF Uses
    <3>2. (Uses("A") + Uses("M") + Uses("O"))' = Uses("A") + Uses("M") + Uses("O") - 1
      BY <2>2, <2>3, <2>6, <3>1 DEF Handles
    <3>3. Uses("A") + Uses("M") + Uses("O") >= 1
      BY <2>2, <2>6, <3>1 DEF Handles
    <3>4. zUser' = zUser - 1
      BY <1>1, <1>2, <2>1, <2>2, <2>6, <3>3 DEF AccelUsers, Bump, Handles
    <3>5. QED
      BY <1>2, <2>1, <2>2, <3>2, <3>4 DEF Handles
  <2>7. CASE h \in {"A", "M", "O"} /\ ~en /\ zActive = {}
    <3>1. \A g \in Handles : Uses(g)' = 0
      BY <1>1, <2>7 DEF Uses
    <3>2. QED
      BY <1>3, <3>1 DEF Handles
  <2>8. QED
    BY <1>1, <2>4, <2>5, <2>6, <2>7
<1>7. QED
  BY <1>1, <1>2, <1>3, <1>4, <1>5, <1>6 DEF Enabled

\* A driver in use after a call is on, or its last write has failed.
LEMMA DriversOn ==
  ASSUME UseInv, NEW h \in Handles, NEW en \in BOOLEAN, activate(h, en)
  PROVE  \A o \in ObjectKinds : InUse(o)' => zOn'[o] \/ o \in zFailed'
<1>1. /\ zUser' = AccelUsers(h, en)
      /\ zEn' = [zEn EXCEPT ![h] = Enabled(h, en)] /\ zEn' \in [Handles -> Nat]
      /\ h \in {"A", "M", "O"} => zEn'[h] = Bump(zEn[h], en)
      /\ h \notin {"A", "M", "O"} => zEn'[h] = (IF en THEN 1 ELSE 0)
  BY Counts
<1>2. zEn \in [Handles -> Nat] /\ zFxos' = zFxos
  BY DEF UseInv, activate, zDetectVars
<1>3. \A g \in Handles \ {h} : zEn'[g] = zEn[g]
  BY <1>1, <1>2
<1>4. \A o \in ObjectKinds : InUse(o) => zOn[o] \/ o \in zFailed
  BY DEF UseInv
<1>5. PICK failed : set_sysfs_input_attr(Writes(h, en), failed)
  BY DEF activate
<1>6. ASSUME NEW o \in ObjectKinds, InUse(o)' => InUse(o), \A w \in Writes(h, en) : w[1] # o, InUse(o)'
      PROVE  zOn'[o] \/ o \in zFailed'
  BY <1>4, <1>5, <1>6, AttrKept
<1>7. ASSUME NEW o \in ObjectKinds, <<o, TRUE>> \in Writes(h, en) PROVE zOn'[o] \/ o \in zFailed'
  BY <1>5, <1>7, AttrWritten
<1>8. SUFFICES ASSUME NEW o \in ObjectKinds, InUse(o)' PROVE zOn'[o] \/ o \in zFailed'
  OBVIOUS
<1>9. h = "O" => zFxos
  <2>1. SUFFICES ASSUME h = "O", ~zFxos PROVE FALSE
    OBVIOUS
  <2>2. zList \in Seq(ObjectKinds) /\ "O" \in Range(zList)
    BY <2>1 DEF UseInv, activate
  <2>3. PICK i \in DOMAIN zList : zList[i] = "O"
    BY <2>2 DEF Range
  <2>4. zList[i] \in ObjectKinds
    BY <2>2, <2>3
  <2>5. QED
    BY <2>3, <2>4 DEF ObjectKinds
<1>10. CASE o = "A" /\ h \in {"A", "M", "O"}
  <2>1. AccelUsers(h, en) > 0
    BY <1>1, <1>8, <1>10 DEF InUse
  <2>2. <<"A", AccelUsers(h, en) > 0>> \in Writes(h, en)
    BY <1>10 DEF Writes, AccelWrites
  <2>3. <<"A", TRUE>> \in Writes(h, en)
    BY <2>1, <2>2
  <2>4. QED
    BY <1>7, <1>10, <2>3
<1>11. CASE o = "M" /\ h \in {"M", "O"} /\ zFxos
  <2>1. Bump(zEn[h], en) > 0 \/ zEn[IF h = "M" THEN "O" ELSE "M"] > 0
    BY <1>1, <1>2, <1>3, <1>8, <1>11 DEF InUse, Handles
  <2>2. <<"M", Bump(zEn[h], en) > 0 \/ zEn[IF h = "M" THEN "O" ELSE "M"] > 0>> \in Writes(h, en)
    BY <1>11, WritesMag
  <2>3. <<"M", TRUE>> \in Writes(h, en)
    BY <2>1, <2>2
  <2>4. QED
    BY <1>7, <1>11, <2>3
<1>12. CASE o = "M" /\ h = "M" /\ ~zFxos
  <2> DEFINE n == Bump(zEn["M"], en)
  <2>1. n > 0 /\ n # 0
    BY <1>1, <1>2, <1>8, <1>12 DEF InUse, Handles
  <2>2. Writes(h, en) = {<<"A", AccelUsers("M", en) > 0>>} \union
                        (IF (zEn["M"] = 0) = (n = 0) THEN {} ELSE {<<"M", n > 0>>})
    BY <1>12, WritesMagneto
  <2>3. CASE zEn["M"] = 0
    <3>1. <<"M", n > 0>> \in Writes(h, en)
      BY <2>1, <2>2, <2>3
    <3>2. <<"M", TRUE>> \in Writes(h, en)
      BY <2>1, <3>1
    <3>3. QED
      BY <1>7, <1>12, <3>2
  <2>4. CASE zEn["M"] # 0
    <3>1. Writes(h, en) = {<<"A", AccelUsers("M", en) > 0>>}
      BY <2>1, <2>2, <2>4
    <3>2. \A w \in Writes(h, en) : w[1] # "M"
      BY <3>1
    <3>3. InUse("M")
      BY <1>2, <2>4 DEF InUse, Handles
    <3>4. QED
      BY <1>6, <1>8, <1>12, <3>2, <3>3
  <2>5. QED
    BY <2>3, <2>4
<1>13. CASE o = h /\ h \in {"GY", "L", "PX", "T"}
  <2>1. en
    BY <1>1, <1>8, <1>13 DEF InUse
  <2>2. Writes(h, en) = IF (zEn[h] > 0) = en THEN {} ELSE {<<h, en>>}
    BY <1>13, WritesOther
  <2>3. CASE zEn[h] > 0
    <3>1. Writes(h, en) = {}
      BY <2>1, <2>2, <2>3
    <3>2. InUse(o)
      BY <1>13, <2>3 DEF InUse
    <3>3. QED
      BY <1>6, <1>8, <3>1, <3>2
  <2>4. CASE ~(zEn[h] > 0)
    <3>1. <<h, en>> \in Writes(h, en)
      BY <2>1, <2>2, <2>4
    <3>2. <<h, TRUE>> \in Writes(h, en)
      BY <2>1, <3>1
    <3>3. QED
      BY <1>7, <1>13, <3>2
  <2>5. QED
    BY <2>3, <2>4
<1>14. CASE o = "A" /\ h \notin {"A", "M", "O"}
  <2>1. Writes(h, en) \subseteq {<<h, en>>}
    BY <1>14, WritesOther DEF Handles
  <2>2. \A w \in Writes(h, en) : w[1] # "A"
    BY <1>14, <2>1
  <2>3. InUse("A")' => InUse("A")
    BY <1>1, <1>14 DEF InUse, AccelUsers
  <2>4. QED
    BY <1>6, <1>8, <1>14, <2>2, <2>3
<1>15. CASE o = "M" /\ h \notin {"M", "O"}
  <2>1. Writes(h, en) \subseteq {<<h, en>>} \/ Writes(h, en) = {<<"A", AccelUsers("A", en) > 0>>}
    BY <1>15, WritesOther, WritesAccel DEF Handles
  <2>2. \A w \in Writes(h, en) : w[1] # "M"
    BY <1>15, <2>1
  <2>3. InUse("M")' => InUse("M")
    BY <1>2, <1>3, <1>15 DEF InUse, Handles
  <2>4. QED
    BY <1>6, <1>8, <1>15, <2>2, <2>3
<1>16. CASE o \in {"GY", "L", "PX", "T"} /\ o # h
  <2>1. \A w \in Writes(h, en) : w[1] # o
    <3>1. CASE h \in {"GY", "L", "PX", "T"}
      <4>1. Writes(h, en) \subseteq {<<h, en>>}
        BY <3>1, WritesOther
      <4>2. QED
        BY <1>16, <4>1
    <3>2. CASE h = "A"
      <4>1. Writes(h, en) = {<<"A", AccelUsers("A", en) > 0>>}
        BY <3>2, WritesAccel
      <4>2. QED
        BY <1>16, <4>1
    <3>3. CASE h \in {"M", "O"} /\ zFxos
      <4>1. Writes(h, en) = {<<"A", AccelUsers(h, en) > 0>>, 
                             <<"M", Bump(zEn[h], en) > 0 \/ zEn[IF h = "M" THEN "O" ELSE "M"] > 0>>}
        BY <3>3, WritesMag
      <4>2. QED
        BY <1>16, <4>1
    <3>4. CASE h = "M" /\ ~zFxos
      <4>1. Writes(h, en) = {<<"A", AccelUsers("M", en) > 0>>} \union
                            (IF (zEn["M"] = 0) = (Bump(zEn["M"], en) = 0) THEN {}
                             ELSE {<<"M", Bump(zEn["M"], en) > 0>>})
        BY <3>4, WritesMagneto
      <4>2. QED
        BY <1>16, <4>1
    <3>5. QED
      BY <1>9, <3>1, <3>2, <3>3, <3>4 DEF Handles
  <2>2. InUse(o)' => InUse(o)
    BY <1>3, <1>16 DEF InUse, Handles
  <2>3. QED
    BY <1>6, <1>8, <2>1, <2>2
<1>17. QED
  BY <1>9, <1>10, <1>11, <1>12, <1>13, <1>14, <1>15, <1>16 DEF ObjectKinds, Handles

\* The rest of the part does not touch the counts or the attributes.
LEMMA UseStep == UseInv /\ [ZNext]_zVars => UseInv'
<1> SUFFICES ASSUME UseInv, [ZNext]_zVars PROVE UseInv'
  OBVIOUS
<1>1. ASSUME NEW h \in Handles, NEW en \in BOOLEAN, activate(h, en) PROVE UseInv'
  <2>1. UNCHANGED <<zInputs, zFxos, zList, zPc>> /\ zPc = "open"
    BY <1>1 DEF activate, zDetectVars
  <2>2. ~zFxos => "O" \notin zActive'
    <3>1. SUFFICES ASSUME ~zFxos, "O" \in zActive' PROVE FALSE
      OBVIOUS
    <3>2. h = "O" /\ zList \in Seq(ObjectKinds) /\ "O" \in Range(zList)
      BY <1>1, <3>1 DEF activate, UseInv
    <3>3. PICK i \in DOMAIN zList : zList[i] = "O"
      BY <3>2 DEF Range
    <3>4. zList[i] \in ObjectKinds
      BY <3>2, <3>3
    <3>5. QED
      BY <3>3, <3>4 DEF ObjectKinds
  <2>3. \A o \in ObjectKinds : (InUse(o) => zOn[o] \/ o \in zFailed)'
    BY <1>1, DriversOn
  <2>4. /\ zUser' \in Nat /\ zEn' \in [Handles -> Nat] /\ zActive' \subseteq Handles
        /\ zUser' >= (Uses("A") + Uses("M") + Uses("O"))' /\ \A g \in zActive' : zEn'[g] > 0
    BY <1>1, Counts
  <2>5. QED
    BY <2>1, <2>2, <2>3, <2>4 DEF UseInv
<1>2. CASE insmodDevice \/ sensorsDetect \/ open_sensors
  BY <1>2, UseDetect
<1>3. CASE UNCHANGED <<zPc, zInputs, zFxos, zList, zUser, zEn, zOn, zFailed, zActive>>
  BY <1>3 DEF UseInv, Uses, InUse
<1>4. ASSUME NEW h \in Handles, NEW ns \in ZDelays, setDelay(h, ns) PROVE UseInv'
  BY <1>3, <1>4 DEF setDelay, zDetectVars
<1>5. ASSUME NEW o \in ObjectKinds, Sample(o) PROVE UseInv'
  BY <1>3, <1>5 DEF Sample, zDetectVars, zCallVars
<1>6. CASE pollEvents
  BY <1>3, <1>6 DEF pollEvents, zDetectVars, zCallVars
<1>7. CASE ScanObject
  BY <1>3, <1>7 DEF ScanObject, zDetectVars, zCallVars
<1>8. CASE fill
  BY <1>3, <1>8 DEF fill, zDetectVars, zCallVars
<1>9. CASE readEvents
  BY <1>3, <1>9 DEF readEvents, zDetectVars, zCallVars
<1>10. CASE ReadDone
  BY <1>3, <1>10 DEF ReadDone, zDetectVars, zCallVars
<1>11. CASE Poll
  BY <1>3, <1>11 DEF Poll, zDetectVars, zCallVars
<1>12. CASE UNCHANGED zVars
  BY <1>3, <1>12 DEF zVars
<1>13. QED
  BY <1>1, <1>2, <1>4, <1>5, <1>6, <1>7, <1>8, <1>9, <1>10, <1>11, <1>12 DEF ZNext

\* A sensor the service has activated is on in its driver, and with a compass the
\* accelerometer, for every sequence of activations and whichever writes fail,
\* unless the last write of the attribute itself failed.
THEOREM SensorSafe == Spec => []UsedSensorOn
<1>1. Init => UseInv
  BY DEF Init, ZInit, UseInv, Uses, InUse, Handles, ObjectKinds
<1>2. UseInv /\ [Next]_vars => UseInv'
  BY UseStep, OwnSteps
<1>3. UseInv => UsedSensorOn
  <2>1. SUFFICES ASSUME UseInv, NEW h \in zActive,
                        NEW o \in {handleToDriver(h)} \union (IF h \in {"M", "O"} THEN {"A"} ELSE {})
                 PROVE  zOn[o] \/ o \in zFailed
    BY DEF UsedSensorOn
  <2>2. h \in Handles /\ zEn[h] > 0 /\ (h = "O" => zFxos)
    BY <2>1 DEF UseInv
  <2>3. o \in ObjectKinds
    BY <2>1, <2>2 DEF handleToDriver, ObjectKinds, Handles
  <2>4. ASSUME o = "A" PROVE InUse(o)
    <3>1. h \in {"A", "M", "O"}
      BY <2>1, <2>4 DEF handleToDriver
    <3>2. Uses(h) = 1 /\ Uses("A") \in {0, 1} /\ Uses("M") \in {0, 1} /\ Uses("O") \in {0, 1}
      BY <2>1 DEF Uses
    <3>3. zUser \in Nat /\ zUser >= Uses("A") + Uses("M") + Uses("O")
      BY <2>1 DEF UseInv
    <3>4. zUser > 0
      BY <3>1, <3>2, <3>3
    <3>5. QED
      BY <2>4, <3>4 DEF InUse
  <2>5. ASSUME o = "M" PROVE InUse(o)
    <3>1. h \in {"M", "O"}
      BY <2>1, <2>5 DEF handleToDriver
    <3>2. QED
      BY <2>2, <2>5, <3>1 DEF InUse
  <2>6. ASSUME o \notin {"A", "M"} PROVE InUse(o)
    <3>1. h = o
      BY <2>1, <2>6 DEF handleToDriver
    <3>2. QED
      BY <2>2, <2>6, <3>1 DEF InUse
  <2>7. QED
    BY <2>1, <2>3, <2>4, <2>5, <2>6 DEF UseInv
<1>4. QED
  BY <1>1, <1>2, <1>3, PTL DEF Spec

-----------------------------------------------------------------------------
(* The sensors: the ring of an input reader. *)

\* A reader that has taken read events: its free places, its two offsets, and the
\* last events in the places that are not free.  mHead may stand at the end.
ReaderShape(r) ==
  /\ r = [slot |-> r.slot, head |-> r.head, curr |-> r.curr, free |-> r.free]
  /\ DOMAIN r.slot = 0 .. (2 * ZReader - 1)
  /\ r.head \in 0 .. ZReader /\ r.curr \in 0 .. ZReader - 1 /\ r.free \in 0 .. ZReader
  /\ r.head \in {r.curr + (ZReader - r.free), r.curr + (ZReader - r.free) - ZReader,
                 r.curr + (ZReader - r.free) + ZReader}
LastEvents(r, read) ==
  \A i \in 0 .. (ZReader - r.free - 1) : r.slot[At(r.curr, i, ZReader)] = read - (ZReader - r.free) + i + 1

\* fill() adds the events after those the ring holds.
LEMMA FillKeeps ==
  ASSUME NEW r, NEW read \in Nat, NEW n \in Nat, n <= r.free, ReaderShape(r), LastEvents(r, read),
         NEW q, q = Filled(r, read + 1, n)
  PROVE  ReaderShape(q) /\ LastEvents(q, read + n)
<1>0. ZReader \in Nat \ {0}
  BY ReaderAssumption
<1> DEFINE put == [i \in DOMAIN r.slot |->
                     IF i \in r.head .. (r.head + n - 1) THEN (read + 1) + i - r.head ELSE r.slot[i]]
           over == r.head + n - ZReader
<1>1. q = [slot |-> IF over > 0
                    THEN [i \in DOMAIN put |-> IF i < over THEN put[ZReader + i] ELSE put[i]]
                    ELSE put,
           head |-> IF over > 0 THEN over ELSE r.head + n,
           curr |-> r.curr,
           free |-> r.free - n]
  BY DEF Filled
<1>2. /\ DOMAIN r.slot = 0 .. (2 * ZReader - 1)
      /\ r.head \in 0 .. ZReader /\ r.curr \in 0 .. ZReader - 1 /\ r.free \in 0 .. ZReader
      /\ r.head \in {r.curr + (ZReader - r.free), r.curr + (ZReader - r.free) - ZReader,
                     r.curr + (ZReader - r.free) + ZReader}
  BY DEF ReaderShape
<1>3. /\ q = [slot |-> q.slot, head |-> q.head, curr |-> q.curr, free |-> q.free]
      /\ q.curr = r.curr /\ q.free = r.free - n /\ q.head = IF over > 0 THEN over ELSE r.head + n
      /\ q.slot = IF over > 0
                  THEN [i \in DOMAIN put |-> IF i < over THEN put[ZReader + i] ELSE put[i]]
                  ELSE put
  <2> HIDE DEF put, over
  <2>1. QED
    BY <1>1
<1>n. /\ r.head \in Int /\ r.curr \in Int /\ r.free \in Int /\ n \in Int /\ read \in Int /\ ZReader \in Int
      /\ 0 <= r.head /\ r.head <= ZReader /\ 0 <= r.curr /\ r.curr < ZReader /\ 0 <= r.free /\ r.free <= ZReader
      /\ 0 <= n /\ n <= r.free /\ 0 < ZReader
      /\ \/ r.head = r.curr + (ZReader - r.free) \/ r.head = r.curr + (ZReader - r.free) - ZReader
         \/ r.head = r.curr + (ZReader - r.free) + ZReader
  BY <1>0, <1>2
<1>q. q.curr = r.curr /\ q.free = r.free - n /\ q.head = IF r.head + n - ZReader > 0 THEN r.head + n - ZReader ELSE r.head + n
  BY <1>3
<1>4. DOMAIN put = 0 .. (2 * ZReader - 1) /\ DOMAIN q.slot = 0 .. (2 * ZReader - 1)
  BY <1>2, <1>3
<1>5. \A j \in 0 .. (2 * ZReader - 1) :
        put[j] = IF j \in r.head .. (r.head + n - 1) THEN (read + 1) + j - r.head ELSE r.slot[j]
  BY <1>2
<1> HIDE DEF put
<1>6. \A k \in 0 .. ZReader - 1 :
        q.slot[k] = IF k + ZReader \in r.head .. (r.head + n - 1) THEN (read + 1) + (k + ZReader) - r.head
                    ELSE IF k \in r.head .. (r.head + n - 1) THEN (read + 1) + k - r.head ELSE r.slot[k]
  <2>1. SUFFICES ASSUME NEW k \in 0 .. ZReader - 1
                 PROVE  q.slot[k] = IF k + ZReader \in r.head .. (r.head + n - 1)
                                    THEN (read + 1) + (k + ZReader) - r.head
                                    ELSE IF k \in r.head .. (r.head + n - 1) THEN (read + 1) + k - r.head
                                    ELSE r.slot[k]
    OBVIOUS
  <2>2. k \in 0 .. (2 * ZReader - 1) /\ ZReader + k \in 0 .. (2 * ZReader - 1) /\ ZReader + k = k + ZReader
    BY <1>0, <2>1
  <2>3. k < over <=> k + ZReader \in r.head .. (r.head + n - 1)
    BY <1>n, <2>1
  <2>4. k < over => over > 0
    BY <1>n, <2>1
  <2>5. q.slot[k] = IF k < over THEN put[ZReader + k] ELSE put[k]
    <3> HIDE DEF over
    <3>1. QED
      BY <1>3, <1>4, <2>2, <2>4
  <2>6. QED
    BY <1>5, <2>2, <2>3, <2>5
<1>7. ReaderShape(q)
  <2>1. q.free \in 0 .. ZReader /\ q.head \in 0 .. ZReader
    BY <1>n, <1>q
  <2>2. q.head \in {q.curr + (ZReader - q.free), q.curr + (ZReader - q.free) - ZReader,
                    q.curr + (ZReader - q.free) + ZReader}
    BY <1>n, <1>q
  <2>3. QED
    BY <1>2, <1>3, <1>4, <2>1, <2>2 DEF ReaderShape
<1>8. ASSUME NEW i \in 0 .. (ZReader - q.free - 1)
      PROVE  q.slot[At(q.curr, i, ZReader)] = (read + n) - (ZReader - q.free) + i + 1
  <2> DEFINE data == ZReader - r.free
             k == At(r.curr, i, ZReader)
  <2>1. data \in 0 .. ZReader /\ n \in 0 .. ZReader /\ n <= ZReader - data /\ i + 1 \in 1 .. data + n
        /\ (i + 1) - 1 = i
    BY <1>n, <1>q, <1>8
  <2>2. r.head \in {r.curr + data, r.curr + data - ZReader, r.curr + data + ZReader}
    BY <1>2
  <2> HIDE DEF k
  <2>3. Placed(ZReader, r.head, data, n, i + 1, k)
    <3>1. k = At(r.curr, (i + 1) - 1, ZReader)
      BY <2>1 DEF k
    <3> HIDE DEF data
    <3>2. QED
      BY <1>0, <1>2, <2>1, <2>2, <3>1, WritePlace
  <2>4. k \in 0 .. ZReader - 1
    BY <2>3 DEF Placed
  <2>5. q.slot[k] = IF k + ZReader \in r.head .. (r.head + n - 1) THEN (read + 1) + (k + ZReader) - r.head
                    ELSE IF k \in r.head .. (r.head + n - 1) THEN (read + 1) + k - r.head ELSE r.slot[k]
    BY <1>6, <2>4
  <2>6. CASE i < data
    <3>1. q.slot[k] = r.slot[k]
      BY <1>2, <1>8, <2>1, <2>3, <2>5, <2>6 DEF Placed
    <3>2. i \in 0 .. (ZReader - r.free - 1)
      BY <1>n, <1>q, <1>8, <2>6
    <3>3. r.slot[k] = read - (ZReader - r.free) + i + 1
      BY <3>2 DEF LastEvents, k
    <3>4. (read + n) - (ZReader - q.free) = read - (ZReader - r.free)
      BY <1>n, <1>q
    <3>5. q.slot[k] = (read + n) - (ZReader - q.free) + i + 1
      BY <3>1, <3>3, <3>4
    <3>6. QED
      BY <1>3, <3>5 DEF k
  <2>7. CASE i >= data
    <3>1. \/ k \in r.head .. r.head + n - 1 /\ k - r.head = (i + 1) - data - 1
          \/ /\ k \notin r.head .. r.head + n - 1
             /\ k + ZReader \in r.head .. r.head + n - 1 /\ k + ZReader - r.head = (i + 1) - data - 1
      BY <1>n, <1>q, <1>8, <2>3, <2>7 DEF Placed
    <3>2. ~(k \in r.head .. r.head + n - 1 /\ k + ZReader \in r.head .. r.head + n - 1)
      BY <1>n, <2>4
    <3>3. \/ q.slot[k] = (read + 1) + k - r.head /\ k - r.head = (i + 1) - data - 1
          \/ q.slot[k] = (read + 1) + (k + ZReader) - r.head /\ k + ZReader - r.head = (i + 1) - data - 1
      BY <2>5, <3>1, <3>2
    <3>4. k \in Int /\ i \in Int
      BY <1>8, <2>4
    <3>5. q.slot[k] = (read + 1) + i - data
      BY <1>n, <3>3, <3>4
    <3>6. (read + n) - (ZReader - q.free) + i + 1 = (read + 1) + i - data
      BY <1>n, <1>q, <3>4
    <3>7. QED
      BY <1>3, <3>5, <3>6 DEF k
  <2>8. QED
    BY <1>n, <1>8, <2>6, <2>7
<1>9. QED
  BY <1>7, <1>8 DEF LastEvents

\* next() drops the oldest one.
LEMMA NextKeeps ==
  ASSUME NEW r, NEW read \in Nat, r.free < ZReader, ReaderShape(r), LastEvents(r, read), NEW q, q = next(r)
  PROVE  ReaderShape(q) /\ LastEvents(q, read)
<1>0. ZReader \in Nat \ {0}
  BY ReaderAssumption
<1>1. /\ DOMAIN r.slot = 0 .. (2 * ZReader - 1)
      /\ r.head \in 0 .. ZReader /\ r.curr \in 0 .. ZReader - 1 /\ r.free \in 0 .. ZReader
      /\ r.head \in {r.curr + (ZReader - r.free), r.curr + (ZReader - r.free) - ZReader,
                     r.curr + (ZReader - r.free) + ZReader}
  BY DEF ReaderShape
<1>2. /\ q = [slot |-> q.slot, head |-> q.head, curr |-> q.curr, free |-> q.free]
      /\ q.slot = r.slot /\ q.head = r.head /\ q.free = r.free + 1
      /\ q.curr = IF r.curr + 1 >= ZReader THEN 0 ELSE r.curr + 1
  <2>1. r = [slot |-> r.slot, head |-> r.head, curr |-> r.curr, free |-> r.free]
    BY DEF ReaderShape
  <2>2. QED
    BY <2>1 DEF next
<1>n. /\ r.head \in Int /\ r.curr \in Int /\ r.free \in Int /\ read \in Int /\ ZReader \in Int
      /\ 0 <= r.head /\ r.head <= ZReader /\ 0 <= r.curr /\ r.curr < ZReader /\ 0 <= r.free /\ r.free < ZReader
      /\ \/ r.head = r.curr + (ZReader - r.free) \/ r.head = r.curr + (ZReader - r.free) - ZReader
         \/ r.head = r.curr + (ZReader - r.free) + ZReader
  BY <1>0, <1>1
<1>q. q.head = r.head /\ q.free = r.free + 1 /\ q.curr = IF r.curr + 1 >= ZReader THEN 0 ELSE r.curr + 1
  BY <1>2
<1>3. q.curr \in 0 .. ZReader - 1 /\ q.free \in 0 .. ZReader
  BY <1>n, <1>q
<1>4. q.head \in {q.curr + (ZReader - q.free), q.curr + (ZReader - q.free) - ZReader,
                  q.curr + (ZReader - q.free) + ZReader}
  <2>1. CASE r.curr + 1 >= ZReader
    <3>1. r.curr = ZReader - 1 /\ q.curr = 0
      BY <1>n, <1>q, <2>1
    <3>2. QED
      BY <1>n, <1>q, <3>1
  <2>2. CASE ~(r.curr + 1 >= ZReader)
    <3>1. q.curr = r.curr + 1
      BY <1>q, <2>2
    <3>2. QED
      BY <1>n, <1>q, <3>1
  <2>3. QED
    BY <2>1, <2>2
<1>5. ASSUME NEW i \in 0 .. (ZReader - q.free - 1)
      PROVE  q.slot[At(q.curr, i, ZReader)] = read - (ZReader - q.free) + i + 1
  <2>1. i + 1 \in 0 .. (ZReader - r.free - 1)
    BY <1>n, <1>q, <1>5
  <2>2. At(q.curr, i, ZReader) = At(r.curr, i + 1, ZReader)
    BY <1>n, <1>q, <1>5 DEF At
  <2>3. r.slot[At(r.curr, i + 1, ZReader)] = read - (ZReader - r.free) + (i + 1) + 1
    BY <2>1 DEF LastEvents
  <2>4. read - (ZReader - r.free) + (i + 1) + 1 = read - (ZReader - q.free) + i + 1
    <3>1. i \in Int /\ q.free = r.free + 1
      BY <1>q, <1>5
    <3>2. QED
      BY <1>n, <3>1
  <2>5. QED
    BY <1>2, <2>2, <2>3, <2>4
<1>6. QED
  BY <1>1, <1>2, <1>3, <1>4, <1>5 DEF ReaderShape, LastEvents

\* Every reader is in order, and has not read more than the device has queued.
ReaderInv ==
  /\ DOMAIN zRing = ObjectKinds /\ zRead \in [ObjectKinds -> Nat] /\ zDev \in [ObjectKinds -> Nat]
  /\ \A o \in ObjectKinds : /\ zRead[o] <= zDev[o]
                            /\ ReaderShape(zRing[o]) /\ LastEvents(zRing[o], zRead[o])

\* It is about the readers of the objects alone.
LEMMA SameReaders ==
  ASSUME ReaderInv, DOMAIN zRing' = ObjectKinds, \A p \in ObjectKinds : zRing'[p] = zRing[p],
         zRead' = zRead, zDev' = zDev
  PROVE  ReaderInv'
<1>1. ASSUME NEW p \in ObjectKinds
      PROVE  zRead'[p] <= zDev'[p] /\ ReaderShape(zRing'[p]) /\ LastEvents(zRing'[p], zRead'[p])
  BY <1>1 DEF ReaderInv
<1>2. QED
  BY <1>1 DEF ReaderInv, ReaderShape, LastEvents

\* fill() keeps it.
LEMMA ReaderFill == ReaderInv /\ fill => ReaderInv'
<1> SUFFICES ASSUME ReaderInv, fill PROVE ReaderInv'
  OBVIOUS
<1> DEFINE o == Objects[zI]
           queued == zDev[o] - zRead[o]
           n == IF queued < zRing[o].free THEN queued ELSE zRing[o].free
<1>1. /\ zRing' = [zRing EXCEPT ![o] = Filled(zRing[o], zRead[o] + 1, n)]
      /\ zRead' = [zRead EXCEPT ![o] = zRead[o] + n] /\ zDev' = zDev
  BY DEF fill
<1>2. CASE o \notin ObjectKinds
  <2> HIDE DEF o, n
  <2>1. DOMAIN zRing' = ObjectKinds /\ \A p \in ObjectKinds : zRing'[p] = zRing[p]
    BY <1>1, <1>2 DEF ReaderInv
  <2>2. zRead' = zRead
    BY <1>1, <1>2 DEF ReaderInv
  <2>3. QED
    BY <1>1, <2>1, <2>2, SameReaders
<1>3. CASE o \in ObjectKinds
  <2> HIDE DEF o
  <2>1. /\ ReaderShape(zRing[o]) /\ LastEvents(zRing[o], zRead[o])
        /\ zRead[o] \in Nat /\ zDev[o] \in Nat /\ zRead[o] <= zDev[o]
    BY <1>3 DEF ReaderInv
  <2>2. zRing[o].free \in Nat
    BY <2>1, ReaderAssumption DEF ReaderShape
  <2>3. n \in Nat /\ n <= zRing[o].free /\ zRead[o] + n \in Nat /\ zRead[o] + n <= zDev[o]
    BY <2>1, <2>2
  <2> HIDE DEF n
  <2> DEFINE q == Filled(zRing[o], zRead[o] + 1, n)
  <2>4. ReaderShape(q) /\ LastEvents(q, zRead[o] + n)
    BY <2>1, <2>3, FillKeeps
  <2> HIDE DEF q
  <2>5. zRing' = [zRing EXCEPT ![o] = q]
    BY <1>1 DEF q
  <2>6. /\ DOMAIN zRing' = ObjectKinds /\ zRing'[o] = q /\ zRead' \in [ObjectKinds -> Nat]
        /\ zRead'[o] = zRead[o] + n
        /\ \A p \in ObjectKinds \ {o} : zRing'[p] = zRing[p] /\ zRead'[p] = zRead[p]
    BY <1>1, <1>3, <2>3, <2>5 DEF ReaderInv
  <2>7. ASSUME NEW p \in ObjectKinds
        PROVE  zRead'[p] <= zDev'[p] /\ ReaderShape(zRing'[p]) /\ LastEvents(zRing'[p], zRead'[p])
    <3>1. CASE p = o
      BY <1>1, <2>3, <2>4, <2>6, <3>1
    <3>2. CASE p # o
      BY <1>1, <2>6, <3>2 DEF ReaderInv
    <3>3. QED
      BY <3>1, <3>2
  <2>8. QED
    BY <1>1, <2>6, <2>7 DEF ReaderInv, ReaderShape, LastEvents
<1>4. QED
  BY <1>2, <1>3

\* So does a round of readEvents.
LEMMA ReaderRead == ReaderInv /\ readEvents => ReaderInv'
<1> SUFFICES ASSUME ReaderInv, readEvents PROVE ReaderInv'
  OBVIOUS
<1> DEFINE o == Objects[zI]
<1>1. /\ zRing' = zRing \/ zRing' = [zRing EXCEPT ![o] = next(zRing[o])]
      /\ UNCHANGED <<zRead, zDev>> /\ Available(o) > 0
  BY DEF readEvents
<1> HIDE DEF o
<1>2. CASE zRing' = zRing \/ o \notin ObjectKinds
  <2>1. DOMAIN zRing' = ObjectKinds /\ \A p \in ObjectKinds : zRing'[p] = zRing[p]
    BY <1>1, <1>2 DEF ReaderInv
  <2>2. QED
    BY <1>1, <2>1, SameReaders
<1>3. CASE zRing' = [zRing EXCEPT ![o] = next(zRing[o])] /\ o \in ObjectKinds
  <2>1. ReaderShape(zRing[o]) /\ LastEvents(zRing[o], zRead[o]) /\ zRead[o] \in Nat
    BY <1>3 DEF ReaderInv
  <2>2. zRing[o].free < ZReader
    <3>1. zRing[o].free \in Nat
      BY <2>1, ReaderAssumption DEF ReaderShape
    <3>2. QED
      BY <1>1, <3>1, ReaderAssumption DEF Available
  <2> DEFINE q == next(zRing[o])
  <2>3. ReaderShape(q) /\ LastEvents(q, zRead[o])
    BY <2>1, <2>2, NextKeeps
  <2>4. zRing' = [zRing EXCEPT ![o] = q]
    BY <1>3
  <2> HIDE DEF q
  <2>5. DOMAIN zRing' = ObjectKinds /\ zRing'[o] = q /\ \A p \in ObjectKinds \ {o} : zRing'[p] = zRing[p]
    BY <1>3, <2>4 DEF ReaderInv
  <2>6. ASSUME NEW p \in ObjectKinds
        PROVE  zRead'[p] <= zDev'[p] /\ ReaderShape(zRing'[p]) /\ LastEvents(zRing'[p], zRead'[p])
    <3>1. CASE p = o
      BY <1>1, <2>3, <2>5, <3>1 DEF ReaderInv
    <3>2. CASE p # o
      BY <1>1, <2>5, <3>2 DEF ReaderInv
    <3>3. QED
      BY <3>1, <3>2
  <2>7. QED
    BY <1>1, <2>5, <2>6 DEF ReaderInv, ReaderShape, LastEvents
<1>4. QED
  BY <1>1, <1>2, <1>3

\* No other step touches a ring.
LEMMA ReaderStep == ReaderInv /\ [ZNext]_zVars => ReaderInv'
<1> SUFFICES ASSUME ReaderInv, [ZNext]_zVars PROVE ReaderInv'
  OBVIOUS
<1>1. CASE UNCHANGED <<zRing, zRead, zDev>>
  BY <1>1, SameReaders DEF ReaderInv
<1>2. CASE insmodDevice \/ sensorsDetect \/ open_sensors
  BY <1>1, <1>2 DEF insmodDevice, sensorsDetect, open_sensors, zPollVars
<1>3. ASSUME NEW h \in Handles, NEW en \in BOOLEAN, activate(h, en) PROVE ReaderInv'
  BY <1>1, <1>3 DEF activate, zPollVars
<1>4. ASSUME NEW h \in Handles, NEW ns \in ZDelays, setDelay(h, ns) PROVE ReaderInv'
  BY <1>1, <1>4 DEF setDelay, zPollVars
<1>5. ASSUME NEW o \in ObjectKinds, Sample(o) PROVE ReaderInv'
  <2>1. zDev' = [zDev EXCEPT ![o] = zDev[o] + 2] /\ UNCHANGED <<zRing, zRead>>
    BY <1>5 DEF Sample
  <2>2. zDev \in [ObjectKinds -> Nat] /\ zRead \in [ObjectKinds -> Nat]
        /\ \A p \in ObjectKinds : zRead[p] <= zDev[p]
    BY DEF ReaderInv
  <2>3. zDev' \in [ObjectKinds -> Nat] /\ \A p \in ObjectKinds : zRead[p] <= zDev'[p]
    BY <2>1, <2>2
  <2>4. QED
    BY <2>1, <2>3 DEF ReaderInv, ReaderShape, LastEvents
<1>6. CASE pollEvents \/ ScanObject \/ ReadDone \/ Poll
  BY <1>1, <1>6 DEF pollEvents, ScanObject, ReadDone, Poll
<1>7. CASE fill
  BY <1>7, ReaderFill
<1>8. CASE readEvents
  BY <1>8, ReaderRead
<1>9. CASE UNCHANGED zVars
  BY <1>1, <1>9 DEF zVars
<1>10. QED
  BY <1>2, <1>3, <1>4, <1>5, <1>6, <1>7, <1>8, <1>9 DEF ZNext

\* The events in a reader's ring are those read last, in order, for every size of
\* the ring and every sequence of samples, fills and calls that run out of room.
THEOREM ReaderSafe == Spec => []ReaderInOrder
<1>0. ZReader \in Nat \ {0}
  BY ReaderAssumption
<1>1. Init => ReaderInv
  <2>1. SUFFICES ASSUME ZInit PROVE ReaderInv
    BY DEF Init
  <2>2. ReaderShape(EmptyRing)
    BY <1>0 DEF ReaderShape, EmptyRing
  <2>3. EmptyRing.free = ZReader
    BY DEF EmptyRing
  <2>4. LastEvents(EmptyRing, 0)
    BY <1>0, <2>3 DEF LastEvents
  <2>5. QED
    BY <2>1, <2>2, <2>4 DEF ZInit, ReaderInv
<1>2. ReaderInv /\ [Next]_vars => ReaderInv'
  BY ReaderStep, OwnSteps
<1>3. ReaderInv => ReaderInOrder
  <2>1. SUFFICES ASSUME ReaderInv, NEW o \in ObjectKinds, NEW i \in 0 .. (Available(o) - 1)
                 PROVE  zRing[o].slot[(zRing[o].curr + i) % ZReader] = zRead[o] - Available(o) + i + 1
    BY DEF ReaderInOrder
  <2>2. ReaderShape(zRing[o]) /\ LastEvents(zRing[o], zRead[o])
    BY <2>1 DEF ReaderInv
  <2>3. zRing[o].curr \in 0 .. ZReader - 1 /\ zRing[o].free \in 0 .. ZReader
    BY <2>2 DEF ReaderShape
  <2>4. Available(o) = ZReader - zRing[o].free
    BY DEF Available
  <2>5. i \in 0 .. ZReader - 1 /\ i \in 0 .. (ZReader - zRing[o].free - 1)
    BY <1>0, <2>1, <2>3, <2>4
  <2>6. At(zRing[o].curr, i, ZReader) = (zRing[o].curr + i) % ZReader
    BY <1>0, <2>3, <2>5, AtIsMod
  <2>7. QED
    BY <2>2, <2>4, <2>5, <2>6 DEF LastEvents
<1>4. QED
  BY <1>1, <1>2, <1>3, PTL DEF Spec
=============================================================================
