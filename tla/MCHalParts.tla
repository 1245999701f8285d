------------------------------ MODULE MCHalParts ------------------------------
(***************************************************************************)
(* The parts of the HALs that share no state with each other, checked one  *)
(* at a time: a behaviour chooses one part and takes only its steps.  The  *)
(* camera parts are the smaller ones; CameraHardware and V4L2CameraDevice  *)
(* model what they share.                                                  *)
(***************************************************************************)
EXTENDS CameraFocus, CameraParameters, FaceDetection, CallbackNotifier, PreviewWindow,
        HALCameraFactory, Sensors, CodecRoutes, PcmManager, AudioDevices, KaraokeMic

VARIABLE part   \* the part whose steps the behaviour takes

vars == <<part, fVars, pVars, sVars, nVars, wVars, gVars, zVars, kVars, qVars, dVars, mVars>>

Parts == {"focus", "parameters", "face", "notifier", "window", "factory", "sensors", "codec",
          "capture", "cards", "karaoke"}

Init ==
  /\ part \in Parts
  /\ FInit /\ PInit /\ SInit /\ NInit /\ WInit /\ ZInit /\ KInit /\ QInit
  /\ GInit /\ (part # "factory" => gConfig = <<>>)
  /\ DInit /\ (part # "cards" => dPlug[0] = "audiocodec" /\ dPropIn = <<>> /\ dPropOut = <<>>)
  /\ MInit /\ (part # "karaoke" => mCtls = {})

Next ==
  /\ UNCHANGED part
  /\ \/ /\ part = "focus" /\ FNext
        /\ UNCHANGED <<pVars, sVars, nVars, wVars, gVars, zVars, kVars, qVars, dVars, mVars>>
     \/ /\ part = "parameters" /\ PNext
        /\ UNCHANGED <<fVars, sVars, nVars, wVars, gVars, zVars, kVars, qVars, dVars, mVars>>
     \/ /\ part = "face" /\ SNext
        /\ UNCHANGED <<fVars, pVars, nVars, wVars, gVars, zVars, kVars, qVars, dVars, mVars>>
     \/ /\ part = "notifier" /\ NNext
        /\ UNCHANGED <<fVars, pVars, sVars, wVars, gVars, zVars, kVars, qVars, dVars, mVars>>
     \/ /\ part = "window" /\ WNext
        /\ UNCHANGED <<fVars, pVars, sVars, nVars, gVars, zVars, kVars, qVars, dVars, mVars>>
     \/ /\ part = "factory" /\ GNext
        /\ UNCHANGED <<fVars, pVars, sVars, nVars, wVars, zVars, kVars, qVars, dVars, mVars>>
     \/ /\ part = "sensors" /\ ZNext
        /\ UNCHANGED <<fVars, pVars, sVars, nVars, wVars, gVars, kVars, qVars, dVars, mVars>>
     \/ /\ part = "codec" /\ KNext
        /\ UNCHANGED <<fVars, pVars, sVars, nVars, wVars, gVars, zVars, qVars, dVars, mVars>>
     \/ /\ part = "capture" /\ QNext
        /\ UNCHANGED <<fVars, pVars, sVars, nVars, wVars, gVars, zVars, kVars, dVars, mVars>>
     \/ /\ part = "cards" /\ DNext
        /\ UNCHANGED <<fVars, pVars, sVars, nVars, wVars, gVars, zVars, kVars, qVars, mVars>>
     \/ /\ part = "karaoke" /\ MNext
        /\ UNCHANGED <<fVars, pVars, sVars, nVars, wVars, gVars, zVars, kVars, qVars, dVars>>

Spec == Init /\ [][Next]_vars

-----------------------------------------------------------------------------
\* The focus thread asks the driver only while the device is open: cleanupCamera
\* does not disconnect a device whose focus thread is still polling, unless its
\* single wait ended without a signal (fWoke), after which it does: the poll of a
\* focus that was asked for lasts up to two seconds, the sleep after the wait 100 ms
\* (CameraHardware2.cpp:3165-3174).  And the wait is never one that nobody ends:
\* the thread still has its signal to send.
FocusDeviceOpen ==
  /\ fPc \in {"mode", "poll", "status"} /\ ~fWoke => fConn
  /\ fApi = "waiting" => fPc # "gone"

\* Once a call of setParameters has gone through, the driver has every control
\* that mParameters reports, or its command is still queued or being executed.
\* Not so for a command that met a full queue, for an unknown flash mode, which
\* is stored but never sent, and for an effect that was unknown in the first
\* call of the session: a command of the last session may still be applied.
ControlsFollow ==
  ~pFirst /\ pPc = "idle" =>
    \A c \in Controls :
      \/ pDev[c] = pCur[c]
      \/ \E k \in DOMAIN pQueue : pQueue[k] = c
      \/ pCmd # <<>> /\ pCmd[1] = c
      \/ c \in pLost
      \/ c = "flash" /\ pCur[c] = "bad"

\* A smart picture is taken on a smile or blink of its own run of the detector;
\* a result stored for an earlier picture is gone when the next is asked for.
\* One hole is left: a callback that comes while its detector is stopped stores
\* its result all the same, and the next smart picture may be taken on it.
SmartOnOwnResult == sPic \in Kinds => sPic \in sOwn \/ sPic \in sLate

\* Every picture is written to the file the application opened for it.
RightFile == \A w \in nFiles : w[1] = w[2]

\* When cleanupCBNotifier has returned, the save thread has left its loop and
\* does not touch the deleted picture list; and a cleanup that waits has a thread
\* on its way to the exit, which will signal.  Two holes are left: a wait that
\* ends without a signal, and a signal that falls between the thread's test of
\* its status and its wait, after which the two wait for one another.
SaveThreadGone ==
  /\ nApi = "off" /\ ~nWoke => nPc \in {"signal", "gone"}
  /\ nApi = "waiting" /\ ~nMissed => nPc \notin {"waiting", "gone"}

\* A displayed frame fits the buffers of its window, unless the window has
\* refused a geometry, which is not tried again for the same dimensions.
GeometryFits == wShown # "none" => wShown = wGeometry \/ wRefused

\* Two open cameras are different devices, whatever was plugged and unplugged
\* before the cameras were listed.
OpenCamerasDiffer ==
  \A i, j \in Ids : i # j /\ gOpen[i] # None => gOpen[i] # gOpen[j]

\* A sensor that the service has activated is on in its driver, and with a
\* magnetometer the accelerometer too, whoever else activated and deactivated
\* them: unless the last write of the driver's attribute failed.
UsedSensorOn ==
  \A h \in zActive :
    \A o \in {handleToDriver(h)} \union (IF h \in {"M", "O"} THEN {"A"} ELSE {}) :
      zOn[o] \/ o \in zFailed

\* The events in the ring of an input reader are those read last from the device,
\* in order, however often the ring wrapped and a call ran out of room.
ReaderInOrder ==
  \A o \in ObjectKinds : \A i \in 0..(Available(o) - 1) :
    zRing[o].slot[(zRing[o].curr + i) % ZReader] = zRead[o] - Available(o) + i + 1

\* In a call routed to one device, that device's microphone is the only one on and
\* no other output is, whatever routes, tests and radio came before: unless a
\* set_voice_volume wrote for the devices of an earlier route.
CallOneDevice ==
  /\ kPlan \in {"one", "two"} /\ kMode = "IN_CALL" /\ kRoute = "phone" /\ ~kStale
  /\ \E d \in {"SPEAKER", "EARPIECE", "HEADSET", "HEADPHONE", "SCO"} : kPath = {d}
  => /\ kCodec.on \cap {"main_mic", "headset_mic", "bt_mic"} = {Spoken(kPath)}
     /\ kCodec.on \cap {"speaker_out", "headphone_out", "earpiece_out", "bt_out"} \subseteq {Heard(kPath)}

\* The modem's line is connected only in a call or a factory test: every way out of
\* them hangs up.  Not so when mediaserver died in the call.
LineOnlyInCall == kCodec.line => kInCall \/ kDied

\* The capture of what is played gets every sample that was accepted, once and in
\* order, although the counts are read and the samples copied without the lock:
\* until a write finds the ring freed by a close.
PcmInOrder ==
  qInput = "af" /\ ~qFault =>
    /\ qPut - qGot = qData /\ qData + qValid = QTotal
    /\ \A i \in 1..qData : qBuf[((qRd + i - 1) % QTotal) + 1] = qGot + i
    /\ qPc = "advance" => \A i \in DOMAIN qOut : qOut[i] = qGot + i

\* At most one capture card is active, whatever was plugged, asked for and
\* restored from the properties ("only one capture device can be active").
OneCapture == \A s, t \in Slots : dMgr[s].inActive /\ dMgr[t].inActive => s = t

\* The karaoke microphone is on in the mixer exactly while it is started: closing
\* the device leaves two switches on, and only the stop before it turns them off.
\* An application that calls init again before release loses track of them.
MicFollows == ~mAgain => mOn = IF mStarted THEN mCtls ELSE {}

=============================================================================
