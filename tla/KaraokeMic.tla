----------------------------- MODULE KaraokeMic -----------------------------
(***************************************************************************)
(* The karaoke microphone: the native methods of com.karaokeimpl.kMicphone *)
(* (com_karaoke_micphone.cpp) over the microphone HAL (micphone.c), which  *)
(* turns mixer switches on and off.  The application calls from one        *)
(* thread, so a method is one step, with the HAL call it makes.            *)
(***************************************************************************)
EXTENDS Integers

CONSTANTS MicVolumes,  \* volumes the application sets
          MicCalls     \* bound: calls of the application

\* The switches of the HAL; the codec need not have all of them.
Switches == {"hdmi", "cvbs", "hdmi_duplicate", "cvbs_duplicate", "single"}

VARIABLES mModule,   \* gMicModule is set
          mStarted,  \* gStarted
          mCtls,     \* switches that mixer_get_ctl_by_name finds on this codec
          mOn,       \* switches that are on
          mVolume,   \* "ADC volume", both channels; -1 as the driver left it
          mAgain,    \* history: init was called while a device was open
          mCalls     \* calls so far

mVars == <<mModule, mStarted, mCtls, mOn, mVolume, mAgain, mCalls>>

MInit ==
  /\ mModule = FALSE /\ mStarted = FALSE /\ mCtls \in SUBSET Switches
  /\ mOn = {} /\ mVolume = -1 /\ mAgain = FALSE /\ mCalls = 0

MicCall == mCalls < MicCalls /\ mCalls' = mCalls + 1 /\ UNCHANGED mCtls

-----------------------------------------------------------------------------
(* The HAL.  A switch the codec does not have is a NULL control and ignored. *)

mic_start == mOn' = mOn \union mCtls

mic_stop == mOn' = {}

\* mic_close turns the plain switches off twice and the duplicates never.
Closed(on) == on \ {"hdmi", "cvbs", "single"}

\* The limits that are tested first are overwritten.
MicGain(volume) == volume \div 2 + 130

\* mic_dev_open turns one switch off.
Opened(on) == on \ {"hdmi"}

-----------------------------------------------------------------------------
(* The native methods. *)

\* No module: nothing happens.  A failed open has set gMicModule to NULL and leaves
\* gStarted.  A device that was open before is never closed.
com_karaoke_micphone_init(result) ==
  /\ MicCall /\ UNCHANGED mVolume
  /\ mModule' = CASE result = "ok" -> TRUE
                  [] result = "no device" -> FALSE
                  [] result = "no module" -> mModule
  /\ mAgain' = (mAgain \/ (mModule /\ result # "no module"))
  /\ IF result = "ok" THEN mStarted' = FALSE /\ mOn' = Opened(mOn) ELSE UNCHANGED <<mStarted, mOn>>

\* resume is the same.
com_karaoke_micphone_start ==
  /\ MicCall /\ ~mStarted /\ mModule
  /\ mic_start /\ mStarted' = TRUE
  /\ UNCHANGED <<mModule, mVolume, mAgain>>

\* pause is the same.
com_karaoke_micphone_stop ==
  /\ MicCall /\ mStarted /\ mModule
  /\ mic_stop /\ mStarted' = FALSE
  /\ UNCHANGED <<mModule, mVolume, mAgain>>

\* Mutant: the device is closed without a stop.
ReleaseOnlyCloses ==
  /\ MicCall /\ mModule
  /\ mOn' = Closed(mOn) /\ mModule' = FALSE /\ mStarted' = FALSE
  /\ UNCHANGED <<mVolume, mAgain>>

com_karaoke_micphone_release ==
  /\ MicCall /\ mModule
  /\ mOn' = IF mStarted THEN {} ELSE Closed(mOn)
  /\ mModule' = FALSE /\ mStarted' = FALSE
  /\ UNCHANGED <<mVolume, mAgain>>

com_karaoke_micphone_setVolume(volume) ==
  /\ MicCall /\ mModule
  /\ mVolume' = MicGain(IF volume < 0 THEN 0 ELSE IF volume > 100 THEN 100 ELSE volume)
  /\ UNCHANGED <<mModule, mStarted, mOn, mAgain>>

MNext ==
  \/ \E result \in {"ok", "no device", "no module"} : com_karaoke_micphone_init(result)
  \/ com_karaoke_micphone_start \/ com_karaoke_micphone_stop \/ com_karaoke_micphone_release
  \/ \E volume \in MicVolumes : com_karaoke_micphone_setVolume(volume)

=============================================================================
