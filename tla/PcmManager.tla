------------------------------ MODULE PcmManager ------------------------------
(***************************************************************************)
(* The ring in which out_write leaves what is played for an input stream   *)
(* of the device AUDIO_DEVICE_IN_AF (audio_hw.c).  One playback thread     *)
(* writes, one record thread reads; both look at the counts before they    *)
(* take the ring's lock.  An input is opened and closed without any lock.  *)
(* One input is open at a time: with a second one, opening it would clear  *)
(* the flag of the first and closing either would free the ring.           *)
(***************************************************************************)
EXTENDS Integers, Sequences

CONSTANTS QTotal,     \* BufTotalLen, in samples
          QSizes,     \* sizes of a write or a read
          QOpens,     \* bound: inputs opened
          QSamples    \* bound: samples played

ASSUME PcmAssumption == QTotal \in Nat \ {0} /\ QSizes \subseteq Nat

VARIABLES qFlag,    \* af_capture_flag
          qBuf,     \* BufStart: the samples, or <<>> when it is NULL
          qWr, qRd, \* BufWritPtr and BufReadPtr, as offsets
          qValid,   \* BufValideLen
          qData,    \* DataLen
          qPut,     \* history: samples written so far
          qGot,     \* history: samples read so far, without those dropped on close
          qOut,     \* history: the samples the last read returned
          qWant,    \* the write that has passed its check, or 0
          qPc, qLen,   \* the reader: its step, and uGetLen or size_read
          qInput,   \* the input open: "none", "af" or "mic"
          qFault,   \* a freed ring was written
          qOpens, qActive   \* active_output is not NULL

qVars == <<qFlag, qBuf, qWr, qRd, qValid, qData, qPut, qGot, qOut, qWant, qPc, qLen, qInput, qFault,
           qOpens, qActive>>
qReadVars == <<qRd, qGot, qOut, qPc, qLen>>

QInit ==
  /\ qFlag = FALSE /\ qBuf = <<>> /\ qWr = 0 /\ qRd = 0 /\ qValid = 0 /\ qData = 0
  /\ qPut = 0 /\ qGot = 0 /\ qOut = <<>> /\ qWant = 0 /\ qPc = "idle" /\ qLen = 0
  /\ qInput = "none" /\ qFault = FALSE /\ qOpens = 0 /\ qActive = FALSE

\* adev_open_input_stream: any input clears the flag, the AF device sets it with a new ring.
OpenInput(device) ==
  /\ ~qFault /\ qInput = "none" /\ qOpens < QOpens
  /\ qOpens' = qOpens + 1 /\ qInput' = device
  /\ qFlag' = (device = "af")
  /\ IF device = "af"
     THEN /\ qBuf' = [i \in 1..QTotal |-> 0]
          /\ qWr' = 0 /\ qRd' = 0 /\ qValid' = QTotal /\ qData' = 0 /\ qGot' = qPut
     ELSE UNCHANGED <<qBuf, qWr, qRd, qValid, qData, qGot>>
  /\ UNCHANGED <<qPut, qOut, qWant, qPc, qLen, qFault, qActive>>

\* adev_close_input_stream, when the record thread is done with it.
CloseInput ==
  /\ ~qFault /\ qInput # "none" /\ qPc = "idle" /\ qInput' = "none"
  /\ qFlag' = FALSE /\ qBuf' = <<>>
  /\ UNCHANGED <<qWr, qRd, qValid, qData, qPut, qGot, qOut, qWant, qPc, qLen, qFault, qOpens, qActive>>

\* An output stream leaves or enters standby.
SetActive ==
  /\ ~qFault /\ qWant = 0 /\ qActive' = ~qActive
  /\ UNCHANGED <<qFlag, qBuf, qWr, qRd, qValid, qData, qPut, qGot, qOut, qWant, qPc, qLen, qInput,
                 qFault, qOpens>>

\* out_write hands over RESAMPLER_BUFFER_SIZE from the start of its buffer,
\* whatever the size of the write: a sample is what was copied from there.
CapturesOutput == qActive /\ qFlag /\ qBuf # <<>>
\* WritePcmData: the room is checked before the lock; a write that does not fit is dropped.
WriteCheck(n) ==
  /\ ~qFault /\ CapturesOutput /\ qWant = 0 /\ qPut + n <= QSamples
  /\ qValid >= n /\ qWant' = n
  /\ UNCHANGED <<qFlag, qBuf, qWr, qRd, qValid, qData, qPut, qGot, qOut, qPc, qLen, qInput, qFault,
                 qOpens, qActive>>

\* Mutant: a write that runs past the end starts at the beginning of the ring.
CopiedWhole(buf, at, n) ==
  LET from == IF at + n > QTotal THEN 0 ELSE at
  IN [i \in DOMAIN buf |-> IF i - 1 \in from..(from + n - 1) THEN qPut + i - from ELSE buf[i]]
\* The ring after n samples were copied to the offset at, the rest to the start.
Copied(buf, at, n) ==
  [i \in DOMAIN buf |->
     IF i - 1 \in at..(at + n - 1) THEN qPut + i - at
     ELSE IF i - 1 + QTotal \in at..(at + n - 1) THEN qPut + i + QTotal - at
     ELSE buf[i]]

WritePcmData ==
  /\ qWant > 0 /\ qWant' = 0
  /\ IF qBuf = <<>>
     THEN qFault' = TRUE /\ UNCHANGED <<qBuf, qWr, qValid, qData, qPut>>
     ELSE /\ qBuf' = Copied(qBuf, qWr, qWant)
          /\ qWr' = IF qWr + qWant > QTotal THEN qWr + qWant - QTotal ELSE qWr + qWant
          /\ qValid' = qValid - qWant /\ qData' = qData + qWant /\ qPut' = qPut + qWant
          /\ UNCHANGED qFault
  /\ UNCHANGED <<qFlag, qReadVars, qInput, qOpens, qActive>>

ReadStart(n) ==
  /\ ~qFault /\ qInput = "af" /\ qPc = "idle" /\ qPc' = "wait" /\ qLen' = n
  /\ UNCHANGED <<qFlag, qBuf, qWr, qRd, qValid, qData, qPut, qGot, qOut, qWant, qInput, qFault, qOpens,
                 qActive>>

\* ReadPcmData waits for enough data, with an active output up to its time limit;
\* then it takes what is there, and copies it without the lock.
ReadCopy ==
  /\ ~qFault /\ qPc = "wait" /\ qPc' = "advance"
  /\ qLen' = IF qData < qLen THEN qData ELSE qLen
  /\ qOut' = [i \in 1..qLen' |-> qBuf[((qRd + i - 1) % QTotal) + 1]]
  /\ UNCHANGED <<qFlag, qBuf, qWr, qRd, qValid, qData, qPut, qGot, qWant, qInput, qFault, qOpens,
                 qActive>>

ReadPcmData ==
  /\ ~qFault /\ qPc = "advance" /\ qPc' = "idle" /\ qLen' = 0
  /\ qRd' = IF qRd + qLen >= QTotal THEN qRd + qLen - QTotal ELSE qRd + qLen
  /\ qData' = qData - qLen /\ qValid' = qValid + qLen /\ qGot' = qGot + qLen
  /\ UNCHANGED <<qFlag, qBuf, qWr, qPut, qOut, qWant, qInput, qFault, qOpens, qActive>>

QNext ==
  \/ \E device \in {"af", "mic"} : OpenInput(device)
  \/ CloseInput \/ SetActive
  \/ \E n \in QSizes : WriteCheck(n) \/ ReadStart(n)
  \/ WritePcmData \/ ReadCopy \/ ReadPcmData

=============================================================================
