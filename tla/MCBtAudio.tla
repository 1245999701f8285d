------------------------------ MODULE MCBtAudio ------------------------------
(***************************************************************************)
(* The Bluetooth vendor library and the audio HAL share nothing but the    *)
(* question asked of them: several callers, no common lock, and callbacks  *)
(* or calls that must come to an end.  One run checks both; a behaviour    *)
(* exercises one of them and leaves the other in its initial state.        *)
(***************************************************************************)
EXTENDS BtVendor, AudioHal

VARIABLE part   \* the library this behaviour exercises

\* One controller with one set of files is enough where Bluetooth is not used.
AnyChip == CHOOSE chip \in Chips : chip.lmp = "8723b" /\ chip.readable
AnyFiles == CHOOSE files \in [fw : FirmwareFiles, config : ConfigFiles] : TRUE

Init ==
  /\ part \in {"bluetooth", "audio"}
  /\ BInit /\ AInit
  /\ part = "audio" => bChip = AnyChip /\ bFiles = AnyFiles

Next ==
  \/ part = "bluetooth" /\ BNext /\ UNCHANGED <<part, aVars>>
  \/ part = "audio" /\ ANext /\ UNCHANGED <<part, bVars>>

Spec == Init /\ [][Next]_<<part, aVars, bVars>> /\ BFair /\ AFairness

=============================================================================
