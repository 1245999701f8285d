----------------------------- MODULE AudioDevices -----------------------------
(***************************************************************************)
(* The sound cards of the audio HAL (audio_hw.c): dev_manager lists the    *)
(* cards that exist and marks those active for capture and playback.  The  *)
(* marks come from two persistent properties, from the framework and from  *)
(* defaults; cards are plugged and unplugged, which is noticed only when   *)
(* the list is asked for.                                                  *)
(***************************************************************************)
EXTENDS Integers, Sequences, FiniteSets

CONSTANTS DCards,     \* MAX_AUDIO_DEVICES
          DNames,     \* free entries of audio_name_map
          DSteps      \* bound: plugs and calls

VARIABLES dPc,       \* "boot" or "open"
          dPlug,     \* the id of the card in each slot, or "none"
          dMgr,      \* dev_manager
          dMap,      \* the names added to audio_name_map
          dPropIn, dPropOut,   \* the names in the two properties
          dDev,      \* the devices init_audio_devices_active adds to out_device
          dSteps

dVars == <<dPc, dPlug, dMgr, dMap, dPropIn, dPropOut, dDev, dSteps>>

Slots == 0..(DCards - 1)
\* audio_name_map: the known cards; any other is a USB card.
KnownCards == {"audiocodec", "sndhdmi", "sndspdif"}
UsbCards == {"mic", "dac"}
CaptureCards == {"audiocodec", "mic"}
PlaybackCards == KnownCards \union {"dac"}
KnownName(id) ==
  CASE id = "audiocodec" -> "AUDIO_CODEC"
    [] id = "sndhdmi" -> "AUDIO_HDMI"
    [] id = "sndspdif" -> "AUDIO_SPDIF"
    [] id = "mic" -> "AUDIO_USB_mic"
    [] id = "dac" -> "AUDIO_USB_dac"
NoCard == [exist |-> FALSE, name |-> "", in |-> FALSE, out |-> FALSE, inActive |-> FALSE,
           outActive |-> FALSE]
NameLists == {<<"AUDIO_CODEC">>, <<"AUDIO_USB_mic">>, <<"AUDIO_HDMI", "AUDIO_USB_dac">>,
              <<"AUDIO_USB_dac", "AUDIO_CODEC">>}
Asked(names) == \E i \in DOMAIN names : TRUE

DInit ==
  /\ dPc = "boot"
  /\ dPlug \in {[s \in Slots |-> IF s = 0 THEN "audiocodec" ELSE "none"],
                [s \in Slots |-> IF s = 0 THEN "sndhdmi" ELSE IF s = 1 THEN "mic" ELSE "none"]}
  /\ dMgr = [s \in Slots |-> NoCard] /\ dMap = {}
  /\ dPropIn \in {<<>>, <<"AUDIO_USB_mic">>}
  /\ dPropOut \in {<<>>, <<"AUDIO_USB_dac", "AUDIO_CODEC">>}
  /\ dDev = {} /\ dSteps = 0

-----------------------------------------------------------------------------
\* find_name_map for the cards of slots, taken in order: a USB card's name is
\* added to the table while there is room, and left empty when there is none.
NewNames(slots) == {dPlug[s] : s \in slots} \cap UsbCards
find_name_map(s, slots) ==
  IF dPlug[s] \in dMap \/ dPlug[s] \notin UsbCards
     \/ Cardinality(dMap \union NewNames({t \in slots : t <= s})) <= DNames
  THEN KnownName(dPlug[s]) ELSE ""

\* The flag of a direction that the card lacks is left as it was.
do_init_audio_card(card, s, slots) ==
  [exist |-> TRUE, name |-> find_name_map(s, slots),
   in |-> card.in \/ dPlug[s] \in CaptureCards,
   out |-> card.out \/ dPlug[s] \in PlaybackCards,
   inActive |-> card.inActive /\ dPlug[s] \notin CaptureCards,
   outActive |-> card.outActive /\ dPlug[s] \notin PlaybackCards]
MapAfter(slots) ==
  dMap \union {dPlug[s] : s \in {t \in slots : dPlug[t] \in UsbCards /\ find_name_map(t, slots) # ""}}

Plugged == {s \in Slots : dPlug[s] # "none"}
init_audio_devices ==
  [s \in Slots |-> IF s \in Plugged THEN do_init_audio_card(NoCard, s, Plugged) ELSE NoCard]

Named(mgr, dir, name) == {s \in Slots : mgr[s][dir] /\ mgr[s].name = name}
First(slots) == CHOOSE s \in slots : \A t \in slots : s <= t

\* Mutant: the card that was active before stays active.
SetInActiveKept(mgr, names) ==
  LET chosen == IF Named(mgr, "in", names[1]) # {} THEN First(Named(mgr, "in", names[1])) ELSE 0
  IN [s \in Slots |-> [mgr[s] EXCEPT !.inActive = @ \/ (Asked(names) /\ s = chosen)]]
\* set_audio_devices_active for the input: only the first name is looked at; an
\* unknown one activates card 0, whatever that is.
SetInActive(mgr, names) ==
  LET chosen == IF Named(mgr, "in", names[1]) # {} THEN First(Named(mgr, "in", names[1])) ELSE 0
  IN [s \in Slots |-> [mgr[s] EXCEPT !.inActive = Asked(names) /\ s = chosen]]

\* For the output: the names up to the first unknown one, which ends the call
\* with an error after cards 0 and 1 were activated.
OutKnown(mgr, names) == \A i \in DOMAIN names : Named(mgr, "out", names[i]) # {}
SetOutActive(mgr, names) ==
  LET known == {i \in DOMAIN names : \A j \in 1..i : Named(mgr, "out", names[j]) # {}}
      chosen == {First(Named(mgr, "out", names[i])) : i \in known}
                \union (IF OutKnown(mgr, names) THEN {} ELSE {0, 1})
  IN [s \in Slots |-> [mgr[s] EXCEPT !.outActive = s \in chosen]]

\* init_audio_devices_active: the properties, else the codec, else the first
\* card of the direction before the first gap.
ActiveFromProperties(mgr) ==
  LET m == IF Asked(dPropIn) THEN SetInActive(mgr, dPropIn) ELSE mgr
  IN IF Asked(dPropOut) THEN SetOutActive(m, dPropOut) ELSE m
DefaultCards(mgr, dir) ==
  LET codecs == {s \in Slots : mgr[s].exist /\ mgr[s].name = "AUDIO_CODEC"}
      before == {s \in Slots : mgr[s][dir] /\ \A t \in 0..s : mgr[t].exist}
  IN IF codecs # {} /\ mgr[First(codecs)][dir] THEN {First(codecs)}
     ELSE IF before # {} THEN {First(before)} ELSE {}
init_audio_devices_active(mgr) ==
  LET m == ActiveFromProperties(mgr)
      ins == IF Asked(dPropIn) THEN {} ELSE DefaultCards(m, "in")
      outs == IF Asked(dPropOut) /\ OutKnown(mgr, dPropOut) THEN {} ELSE DefaultCards(m, "out")
  IN [s \in Slots |-> [m[s] EXCEPT !.inActive = @ \/ s \in ins, !.outActive = @ \/ s \in outs]]

\* The devices of the names that were chosen.
DefaultDevices(mgr) ==
  LET names == IF Asked(dPropOut) /\ OutKnown(mgr, dPropOut) THEN {dPropOut[i] : i \in DOMAIN dPropOut}
               ELSE {mgr[s].name : s \in DefaultCards(mgr, "out")}
  IN {n \in names : n \in {"AUDIO_CODEC", "AUDIO_SPDIF", "AUDIO_HDMI"}}

OpenDevice ==
  /\ dPc = "boot" /\ dPc' = "open"
  /\ dMgr' = init_audio_devices_active(init_audio_devices)
  /\ dMap' = MapAfter(Plugged) /\ dDev' = DefaultDevices(init_audio_devices)
  /\ UNCHANGED <<dPlug, dPropIn, dPropOut, dSteps>>

-----------------------------------------------------------------------------
Plug(s, id) ==
  /\ dSteps < DSteps /\ dSteps' = dSteps + 1
  /\ dPlug[s] = "none" /\ \A t \in Slots : dPlug[t] # id
  /\ dPlug' = [dPlug EXCEPT ![s] = id]
  /\ UNCHANGED <<dPc, dMgr, dMap, dPropIn, dPropOut, dDev>>
Unplug(s) ==
  /\ dSteps < DSteps /\ dSteps' = dSteps + 1
  /\ dPlug[s] # "none" /\ dPlug' = [dPlug EXCEPT ![s] = "none"]
  /\ UNCHANGED <<dPc, dMgr, dMap, dPropIn, dPropOut, dDev>>

\* updata_audio_devices: a new card is initialised; one that is gone keeps its
\* name and its marks.
updata_audio_devices ==
  LET new == {s \in Plugged : ~dMgr[s].exist}
  IN /\ dMgr' = [s \in Slots |->
                   IF s \in new THEN do_init_audio_card(dMgr[s], s, new)
                   ELSE IF s \in Plugged THEN dMgr[s]
                   ELSE [dMgr[s] EXCEPT !.exist = FALSE, !.in = FALSE, !.out = FALSE]]
     /\ dMap' = MapAfter(new)

\* adev_get_parameters for the list of devices.
get_audio_devices ==
  /\ dPc = "open" /\ dSteps < DSteps /\ dSteps' = dSteps + 1
  /\ updata_audio_devices
  /\ UNCHANGED <<dPc, dPlug, dPropIn, dPropOut, dDev>>

\* adev_set_parameters and out_set_parameters: the property is set first.
SetInDevices(names) ==
  /\ dPc = "open" /\ dSteps < DSteps /\ dSteps' = dSteps + 1
  /\ dPropIn' = names /\ dMgr' = SetInActive(dMgr, names)
  /\ UNCHANGED <<dPc, dPlug, dMap, dPropOut, dDev>>
SetOutDevices(names) ==
  /\ dPc = "open" /\ dSteps < DSteps /\ dSteps' = dSteps + 1
  /\ dPropOut' = names /\ dMgr' = SetOutActive(dMgr, names)
  /\ UNCHANGED <<dPc, dPlug, dMap, dPropIn, dDev>>

\* mediaserver is started again: only the properties are left.
RestartServer ==
  /\ dPc = "open" /\ dSteps < DSteps /\ dSteps' = dSteps + 1
  /\ dPc' = "boot" /\ dMap' = {} /\ dMgr' = [s \in Slots |-> NoCard] /\ dDev' = {}
  /\ UNCHANGED <<dPlug, dPropIn, dPropOut>>

DNext ==
  \/ OpenDevice \/ get_audio_devices \/ RestartServer
  \/ \E s \in Slots : Unplug(s) \/ \E id \in KnownCards \union UsbCards : Plug(s, id)
  \/ \E names \in NameLists : SetInDevices(names) \/ SetOutDevices(names)

=============================================================================
