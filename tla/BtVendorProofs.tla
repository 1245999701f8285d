--------------------------- MODULE BtVendorProofs ---------------------------
(***************************************************************************)
(* For every firmware and configuration file that BtAssumption admits and  *)
(* any number of sessions: both ends of the UART have the speed of the     *)
(* configuration during the download, unless the host fell back to         *)
(* another; the controller gets the image once and in order, its commands  *)
(* in eights but for one that may go uncounted; and nothing is sent to it  *)
(* after the end was reported.                                             *)
(***************************************************************************)
EXTENDS BtVendor, TLAPS

Questions == {"READ_LMP", "READ_EVERSION"}

\* The files and the chip never change.
BFilesInv ==
  /\ bFiles.fw.kind \in {"absent", "refused", "good"}
  /\ bFiles.fw.kind = "good" => bFiles.fw.patch \in [Versions -> PatchLengths]
  /\ bFiles.config.len \in 0..Field
  /\ bFiles.config.flow \in BOOLEAN
  /\ bFiles.config.speed \in Codes \cup {"none", "other"}
  /\ bFiles.config.len = 0 => bFiles.config.speed = "none"
  /\ bChip.lmp \in {"8723a", "8723b"} /\ bChip.ever \in Versions /\ bChip.status \in {0, 1, 2}
  /\ bEver \in Versions

\* Records whose fields the actions update.
Hosts == [open : BOOLEAN, speed : Nat, flow : BOOLEAN]
Controllers == [speed : Nat, cmds : Nat, got : Nat, bad : BOOLEAN, last : BOOLEAN]
Requests ==
  [op : {"none", "H5_INIT", "READ_LMP", "READ_EVERSION", "BAUDRATE", "DOWNLOAD"},
   idx : Nat, len : Nat, off : Nat]

BRecords ==
  /\ bHost \in Hosts /\ bCtl \in Controllers /\ bReq \in Requests
  /\ bReports \in Nat
  /\ bReq.op # "DOWNLOAD" => bReq.len = 0 /\ bReq.idx = 0

\* A link on which nothing was sent yet, at the speed it was opened with.
Fresh == bCtl = FreshCtl

\* The alarm guards the questions only; a report before the answer came from the
\* alarm, which gave up the download.
AlarmInv ==
  /\ bApi \in {"off", "init", "powered", "open"} => bAlarm = "none"
  /\ bReq.op \in {"H5_INIT", "BAUDRATE", "DOWNLOAD"} => bAlarm = "none" /\ bReports = 0
  /\ bReq.op \in Questions /\ bReports > 0 => bNeed = FALSE

\* What the controller has received when a command is on the way.
LinkInv ==
  /\ bApi \in {"off", "init", "powered", "open", "down"} => bReq.op = "none"
  /\ bApi \in {"powered", "open", "down"} => Fresh
  /\ bApi = "open" => bHost.speed = DefaultSpeed
  /\ bReq.op \in {"H5_INIT"} \cup Questions =>
       /\ bHost.speed = DefaultSpeed /\ bCtl.speed = DefaultSpeed
       /\ bCtl.got = 0 /\ ~bCtl.bad /\ ~bCtl.last
       /\ bCtl.cmds = IF bReq.op = "READ_EVERSION" THEN 1 ELSE 0
  /\ bReq.op = "READ_EVERSION" => bChip.lmp # "8723a"

\* The indices of the download: iEndIndex counts the packets with data, of which
\* the last has bLast bytes, and iTotalIndex completes an eight.
Image ==
  /\ bLen \in Nat /\ bEnd \in Nat /\ bLast \in Nat /\ bTot \in Nat
  /\ bEnd <= 110 /\ 1 <= bLast /\ bLast <= Field /\ bLen = Field * bEnd + bLast
  /\ bEnd <= bTot /\ bTot <= bEnd + 7 /\ (bTot + Before) % 8 = 0

\* The controller has the packets before number k, and bufpatch points behind them.
Arrived(k) ==
  /\ k \in Nat /\ k <= bTot /\ bOff \in Nat
  /\ bOff = Field * (IF k <= bEnd THEN k ELSE bEnd)
  /\ bCtl.got = IF k <= bEnd THEN Field * k ELSE bLen
  /\ bCtl.cmds = Before + Uncounted - 1 + k
  /\ ~bCtl.bad /\ ~bCtl.last

\* The values that hci_download_patch_h4 is called with.
Indices(end, tot, last, off) == end = bEnd /\ tot = bTot /\ last = bLast /\ off = bOff

\* Before the first packet: one command less.
BaudInv ==
  bReq.op = "BAUDRATE" =>
    /\ Image /\ bOff = 0 /\ bFiles.config.len # 0
    /\ bCtl.cmds = Before + Uncounted - 2 /\ bCtl.speed = DefaultSpeed
    /\ bCtl.got = 0 /\ ~bCtl.bad /\ ~bCtl.last

\* The host's speed is the controller's, or a fallback.
SpeedOf(host) == host.speed = bCtl.speed \/ bFiles.config.speed \in FallbackCodes

\* The number of the packet on the way, without the mark, and its length.
Number == IF bReq.idx >= Flag THEN bTot ELSE bReq.idx
Length(k) == IF k < bEnd THEN Field ELSE IF k = bEnd THEN bLast ELSE 0

PacketInv ==
  bReq.op = "DOWNLOAD" =>
    /\ Image /\ Arrived(Number)
    /\ bCur = bReq.idx /\ bReq.off = bOff /\ bReq.len = Length(Number)
    /\ bReq.idx >= Flag <=> Number = bTot
    /\ SpeedOf(bHost)

BtInv ==
  /\ BFilesInv /\ BRecords /\ AlarmInv /\ LinkInv /\ BaudInv /\ PacketInv
  /\ FirmwareWhole /\ CommandsInEights

-----------------------------------------------------------------------------
\* The last index of the padding completes an eight.
LEMMA PaddingArithmetic ==
  ASSUME NEW end \in Nat, end <= 110, BFilesInv,
         NEW tot, tot = TotalIndex(end)
  PROVE  /\ tot \in Nat /\ end <= tot /\ tot <= end + 7 /\ (tot + Before) % 8 = 0
         /\ Before \in 2..4
  <1>0. Before \in 2..4 BY DEF Before, BFilesInv
  <1>1. PICK pad \in 0..7 : pad = (8 - ((end + Before) % 8)) % 8 BY <1>0
  <1>2. tot = end + pad
    <2>1. tot = (end + pad) % 256 BY <1>1 DEF TotalIndex, Padding
    <2>2. end + pad < 256 /\ end + pad \in Nat OBVIOUS
    <2> QED BY <2>1, <2>2
  <1>3. (end + Before + pad) % 8 = 0 BY <1>0, <1>1
  <1> QED BY <1>0, <1>1, <1>2, <1>3

\* What ConfigStart computes from the length of the image.
LEMMA LengthArithmetic ==
  ASSUME NEW len \in Nat, 1 <= len, len <= 111 * Field,
         NEW end, end = EndIndex(len), NEW last, last = LastLength(len)
  PROVE  /\ end \in Nat /\ end <= 110 /\ last \in Nat /\ 1 <= last /\ last <= Field
         /\ len = Field * end + last
  <1>1. PICK q \in Int : q = (len - 1) \div 252 /\ len - 1 - 252 * q \in 0..251 OBVIOUS
  <1>2. len >= 1 /\ len <= 27972 /\ len \in Int BY DEF Field
  <1>3. 252 * q <= len - 1 /\ len - 1 <= 252 * q + 251 BY <1>1, <1>2
  <1>4. q >= 0 /\ q <= 110 BY <1>2, <1>3
  <1>5. end = q
    <2>1. q % 256 = q BY <1>4
    <2> QED BY <1>1, <2>1 DEF Field, EndIndex
  <1>6. len % 252 = IF len = 252 * q + 252 THEN 0 ELSE len - 252 * q
    <2>1. CASE len = 252 * q + 252
      <3>1. len = 252 * (q + 1) BY <2>1
      <3> QED BY <3>1, <2>1
    <2>2. CASE len # 252 * q + 252
      <3>1. len - 252 * q \in 0..251 BY <2>2, <1>2, <1>3
      <3> QED BY <3>1, <2>2, <1>2
    <2> QED BY <2>1, <2>2
  <1>7. last = len - 252 * q
    <2>1. last = IF len % 252 = 0 THEN 252 ELSE len % 252 BY DEF Field, LastLength
    <2>2. CASE len = 252 * q + 252 BY <1>6, <2>1, <2>2, <1>2
    <2>3. CASE len # 252 * q + 252 BY <1>6, <2>1, <2>3, <1>2, <1>3
    <2> QED BY <2>2, <2>3
  <1>8. last \in Nat /\ 1 <= last /\ last <= Field /\ len = Field * end + last
    BY <1>2, <1>3, <1>5, <1>7 DEF Field
  <1>9. end \in Nat /\ end <= 110 BY <1>4, <1>5
  <1> QED BY <1>8, <1>9

\* The speeds of baudrates[], which all have a symbol but for 3500000.
LEMMA SpeedCodes ==
  /\ \A s \in Codes : Baudrates[s] \in Nat
  /\ \A s \in Codes : s \notin FallbackCodes => Baudrates[s] \in UserialSpeeds
  <1>1. \A s \in Codes :
          \/ Baudrates[s] \in {921600, 1500000, 2000000, 3000000, 4000000, 115200}
          \/ s \in {"7001", "52A6001"} /\ Baudrates[s] = 3500000
    BY DEF Baudrates
  <1> QED BY <1>1 DEF UserialSpeeds, FallbackCodes

\* The speed of the UART before any change.
LEMMA SpeedIsNat == DefaultSpeed \in Nat
  BY DEF DefaultSpeed

\* What the host's port is set to, and what the controller takes, for a code.
LEMMA SpeedsOfCode ==
  ASSUME BFilesInv, bCtl.speed \in Nat
  PROVE  /\ HostSpeed \in Nat /\ ControllerSpeed(bFiles.config.speed) \in Nat
         /\ bCtl.speed = DefaultSpeed /\ bFiles.config.speed \notin FallbackCodes =>
              ControllerSpeed(bFiles.config.speed) = HostSpeed
  <1> DEFINE code == bFiles.config.speed
             uart == rtk_speed_to_uart_speed(code)
  <1>0. code \in Codes \cup {"none", "other"} BY DEF BFilesInv
  <1>1. DefaultSpeed \in UserialSpeeds /\ UserialSpeeds \subseteq Nat BY DEF DefaultSpeed, UserialSpeeds
  <1>2. HostSpeed = IF uart \in UserialSpeeds THEN uart ELSE DefaultSpeed
    BY <1>1 DEF HostSpeed, userial_to_tcio_baud, line_speed_to_userial_baud
  <1>3. code \notin Codes => uart = DefaultSpeed BY DEF rtk_speed_to_uart_speed
  <1>5. "none" \notin Codes /\ "other" \notin Codes BY DEF Codes
  <1>4. code \in Codes => uart = Baudrates[code] /\ ControllerSpeed(code) = Baudrates[code]
    <2>1. code \in Codes => code # "none" BY <1>5
    <2> QED BY <2>1 DEF rtk_speed_to_uart_speed, ControllerSpeed
  <1>6. code = "none" => ControllerSpeed(code) = bCtl.speed BY <1>5 DEF ControllerSpeed
  <1>7. code = "other" => ControllerSpeed(code) = 0 BY <1>5 DEF ControllerSpeed
  <1>8. "other" \in FallbackCodes BY DEF FallbackCodes
  <1> HIDE DEF code, uart
  <1>9. HostSpeed \in Nat /\ ControllerSpeed(code) \in Nat
    <2>1. code \in Codes \/ code = "none" \/ code = "other" BY <1>0
    <2>2. HostSpeed \in Nat BY <1>1, <1>2
    <2>3. code \in Codes => ControllerSpeed(code) \in Nat BY <1>4, SpeedCodes
    <2>4. 0 \in Nat OBVIOUS
    <2>5. CASE code = "other" BY <1>7, <2>2, <2>4, <2>5
    <2>6. CASE code = "none" BY <1>6, <2>2, <2>6
    <2> QED BY <2>1, <2>2, <2>3, <2>5, <2>6
  <1>10. bCtl.speed = DefaultSpeed /\ code \notin FallbackCodes => ControllerSpeed(code) = HostSpeed
    <2>1. code \in Codes \/ code = "none" \/ code = "other" BY <1>0
    <2>2. CASE code \in Codes
      <3>1. code \notin FallbackCodes => Baudrates[code] \in UserialSpeeds BY <2>2, SpeedCodes
      <3> QED BY <1>2, <1>4, <2>2, <3>1
    <2>3. CASE code = "none"
      <3>1. HostSpeed = DefaultSpeed BY <1>1, <1>2, <1>3, <1>5, <2>3
      <3> QED BY <1>6, <2>3, <3>1
    <2>4. CASE code = "other" BY <1>8, <2>4
    <2> QED BY <2>1, <2>2, <2>3, <2>4
  <1> QED BY <1>9, <1>10 DEF code

\* The invariant holds initially.
LEMMA BtInit == BInit => BtInv
  <1> SUFFICES ASSUME BInit PROVE BtInv OBVIOUS
  <1>1. bFiles.fw \in FirmwareFiles /\ bFiles.config \in ConfigFiles BY DEF BInit
  <1>2. /\ bFiles.config.len \in {0} \cup ConfigLengths
        /\ bFiles.config.flow \in BOOLEAN
        /\ bFiles.config.speed \in {"none"} \cup ConfigSpeeds
        /\ bFiles.config.len = 0 => bFiles.config.speed = "none"
    <2>1. \A c \in ConfigFiles : /\ c.len \in {0} \cup ConfigLengths /\ c.flow \in BOOLEAN
                                 /\ c.speed \in {"none"} \cup ConfigSpeeds
                                 /\ c.len = 0 => c.speed = "none"
      <3>1. ASSUME NEW c \in ConfigData
            PROVE  c.len \in ConfigLengths \ {0} /\ c.flow \in BOOLEAN /\ c.speed \in ConfigSpeeds
        BY DEF ConfigData
      <3>2. ASSUME NEW c \in [len : ConfigLengths \cup {0}, speed : {"none"}, flow : {FALSE}]
            PROVE  c.len \in ConfigLengths \cup {0} /\ c.flow = FALSE /\ c.speed = "none"
        OBVIOUS
      <3>3. \A c \in ConfigFiles :
              \/ c \in ConfigData
              \/ c \in [len : ConfigLengths \cup {0}, speed : {"none"}, flow : {FALSE}]
        BY DEF ConfigFiles
      <3> QED BY <3>1, <3>2, <3>3
    <2> QED BY <1>1, <2>1, Zenon
  <1>3. 0 \in 0..Field BY DEF Field
  <1>4. BFilesInv
    <2>1. bChip.lmp \in {"8723a", "8723b"} /\ bChip.ever \in Versions /\ bChip.status \in {0, 1, 2}
      BY DEF BInit, Chips, Versions
    <2>2. /\ bFiles.fw.kind \in {"absent", "refused", "good"}
          /\ bFiles.fw.kind = "good" => bFiles.fw.patch \in [Versions -> PatchLengths]
      BY <1>1 DEF FirmwareFiles
    <2>3. bEver \in Versions BY DEF BInit, Versions
    <2> QED BY <1>2, <1>3, <2>1, <2>2, <2>3, BtAssumption DEF BFilesInv
  <1>5. BRecords BY SpeedIsNat DEF BInit, BRecords, Hosts, Controllers, Requests, NoReq, FreshCtl
  <1>6. bReq.op = "none" /\ ~bCtl.last BY DEF BInit, NoReq, FreshCtl
  <1>7. AlarmInv /\ BaudInv /\ PacketInv BY <1>6 DEF AlarmInv, BaudInv, PacketInv, BInit, Questions
  <1>8. LinkInv BY <1>6 DEF LinkInv, BInit, Questions
  <1> QED BY <1>4, <1>5, <1>6, <1>7, <1>8 DEF BtInv, FirmwareWhole, CommandsInEights

\* Steps after which no packet and no change of the speed is on the way.
LEMMA Quiet ==
  ASSUME BFilesInv', BRecords', AlarmInv', LinkInv', bReq'.op \notin {"BAUDRATE", "DOWNLOAD"},
         FirmwareWhole', CommandsInEights'
  PROVE  BtInv'
  BY DEF BtInv, BaudInv, PacketInv

\* The calls of the stack, and the timer of the version command.
LEMMA StackSteps ==
  ASSUME BtInv, NEW ok \in BOOLEAN,
         \/ VendorInit \/ PowerOn \/ PowerOff \/ Cleanup \/ UserialOpen(ok) \/ hw_config_start(ok)
         \/ rtk_get_lmp \/ VersionTimeout
  PROVE  BtInv'
  <1> USE SpeedIsNat DEF BtInv
  <1>1. CASE VendorInit
    <2>1. BFilesInv' BY <1>1 DEF VendorInit, BFilesInv
    <2>2. BRecords' BY <1>1 DEF VendorInit, BRecords, Hosts, Controllers, Requests
    <2>3. AlarmInv' BY <1>1 DEF VendorInit, BRecords, Hosts, Controllers, Requests, AlarmInv, LinkInv, Questions
    <2>4. LinkInv' BY <1>1 DEF VendorInit, BRecords, Hosts, Controllers, Requests, AlarmInv, LinkInv, Fresh, FreshCtl, Questions
    <2>5. FirmwareWhole' /\ CommandsInEights'
      BY <1>1 DEF VendorInit, BRecords, Hosts, Controllers, Requests, FirmwareWhole, CommandsInEights, Uncounted, FreshCtl, bIndex
    <2>6. bReq'.op \notin {"BAUDRATE", "DOWNLOAD"} BY <1>1 DEF VendorInit, LinkInv, AlarmInv
    <2> QED BY <2>1, <2>2, <2>3, <2>4, <2>5, <2>6, Quiet
  <1>2. CASE PowerOn
    <2>1. BFilesInv' BY <1>2 DEF PowerOn, BFilesInv
    <2>2. BRecords' BY <1>2 DEF PowerOn, FreshCtl, BRecords, Hosts, Controllers, Requests
    <2>3. AlarmInv' BY <1>2 DEF PowerOn, FreshCtl, BRecords, Hosts, Controllers, Requests, AlarmInv, LinkInv, Questions
    <2>4. LinkInv' BY <1>2 DEF PowerOn, FreshCtl, BRecords, Hosts, Controllers, Requests, AlarmInv, LinkInv, Fresh, FreshCtl, Questions
    <2>5. FirmwareWhole' /\ CommandsInEights'
      BY <1>2 DEF PowerOn, FreshCtl, BRecords, Hosts, Controllers, Requests, FirmwareWhole, CommandsInEights, Uncounted, FreshCtl, bIndex
    <2>6. bReq'.op \notin {"BAUDRATE", "DOWNLOAD"} BY <1>2 DEF PowerOn, FreshCtl, LinkInv, AlarmInv
    <2> QED BY <2>1, <2>2, <2>3, <2>4, <2>5, <2>6, Quiet
  <1>3. CASE PowerOff
    <2>1. BFilesInv' BY <1>3 DEF PowerOff, BFilesInv
    <2>2. BRecords'
      <3>1. bReq' = NoReq /\ bCtl' = FreshCtl /\ bReports' = bReports BY <1>3 DEF PowerOff
      <3>2. bHost' \in Hosts
        BY <1>3 DEF PowerOff, BRecords, Hosts, Controllers, Requests
      <3> QED BY <3>1, <3>2 DEF BRecords, Hosts, Controllers, Requests, NoReq, FreshCtl
    <2>3. AlarmInv' BY <1>3 DEF PowerOff, FreshCtl, NoReq, BRecords, Hosts, Controllers, Requests, AlarmInv, LinkInv, Questions
    <2>4. LinkInv' BY <1>3 DEF PowerOff, FreshCtl, NoReq, BRecords, Hosts, Controllers, Requests, AlarmInv, LinkInv, Fresh, FreshCtl, Questions
    <2>5. FirmwareWhole' /\ CommandsInEights'
      BY <1>3 DEF PowerOff, FreshCtl, NoReq, BRecords, Hosts, Controllers, Requests, FirmwareWhole, CommandsInEights, Uncounted, FreshCtl, bIndex
    <2>6. bReq'.op \notin {"BAUDRATE", "DOWNLOAD"} BY <1>3 DEF PowerOff, FreshCtl, NoReq, LinkInv, AlarmInv
    <2> QED BY <2>1, <2>2, <2>3, <2>4, <2>5, <2>6, Quiet
  <1>4. CASE Cleanup
    <2>1. BFilesInv' BY <1>4 DEF Cleanup, BFilesInv
    <2>2. BRecords' BY <1>4 DEF Cleanup, BRecords, Hosts, Controllers, Requests
    <2>3. AlarmInv' BY <1>4 DEF Cleanup, BRecords, Hosts, Controllers, Requests, AlarmInv, LinkInv, Questions
    <2>4. LinkInv' BY <1>4 DEF Cleanup, BRecords, Hosts, Controllers, Requests, AlarmInv, LinkInv, Fresh, FreshCtl, Questions
    <2>5. FirmwareWhole' /\ CommandsInEights'
      BY <1>4 DEF Cleanup, BRecords, Hosts, Controllers, Requests, FirmwareWhole, CommandsInEights, Uncounted, FreshCtl, bIndex
    <2>6. bReq'.op \notin {"BAUDRATE", "DOWNLOAD"} BY <1>4 DEF Cleanup, LinkInv, AlarmInv
    <2> QED BY <2>1, <2>2, <2>3, <2>4, <2>5, <2>6, Quiet
  <1>5. CASE UserialOpen(ok)
    <2>1. BFilesInv' BY <1>5 DEF UserialOpen, BFilesInv
    <2>2. BRecords' BY <1>5 DEF UserialOpen, BRecords, Hosts, Controllers, Requests
    <2>3. AlarmInv' BY <1>5 DEF UserialOpen, BRecords, Hosts, Controllers, Requests, AlarmInv, LinkInv, Questions
    <2>4. LinkInv' BY <1>5 DEF UserialOpen, BRecords, Hosts, Controllers, Requests, AlarmInv, LinkInv, Fresh, FreshCtl, Questions
    <2>5. FirmwareWhole' /\ CommandsInEights'
      BY <1>5 DEF UserialOpen, BRecords, Hosts, Controllers, Requests, FirmwareWhole, CommandsInEights, Uncounted, FreshCtl, bIndex
    <2>6. bReq'.op \notin {"BAUDRATE", "DOWNLOAD"} BY <1>5 DEF UserialOpen, LinkInv, AlarmInv
    <2> QED BY <2>1, <2>2, <2>3, <2>4, <2>5, <2>6, Quiet
  <1>6. CASE hw_config_start(ok)
    <2>1. BFilesInv' BY <1>6 DEF hw_config_start, BFilesInv
    <2>2. BRecords' BY <1>6 DEF hw_config_start, Cmd, NoReq, BRecords, Hosts, Controllers, Requests
    <2>3. AlarmInv' BY <1>6 DEF hw_config_start, Cmd, NoReq, BRecords, Hosts, Controllers, Requests, AlarmInv, LinkInv, Questions
    <2>4. LinkInv' BY <1>6 DEF hw_config_start, Cmd, NoReq, BRecords, Hosts, Controllers, Requests, AlarmInv, LinkInv, Fresh, FreshCtl, Questions
    <2>5. FirmwareWhole' /\ CommandsInEights'
      BY <1>6 DEF hw_config_start, Cmd, NoReq, BRecords, Hosts, Controllers, Requests, FirmwareWhole, CommandsInEights, Uncounted, FreshCtl, bIndex
    <2>6. bReq'.op \notin {"BAUDRATE", "DOWNLOAD"} BY <1>6 DEF hw_config_start, Cmd, NoReq, LinkInv, AlarmInv
    <2> QED BY <2>1, <2>2, <2>3, <2>4, <2>5, <2>6, Quiet
  <1>7. CASE rtk_get_lmp
    <2>1. BFilesInv' BY <1>7 DEF rtk_get_lmp, BFilesInv
    <2>2. BRecords' BY <1>7 DEF rtk_get_lmp, Cmd, NoReq, BRecords, Hosts, Controllers, Requests
    <2>3. AlarmInv' BY <1>7 DEF rtk_get_lmp, Cmd, NoReq, BRecords, Hosts, Controllers, Requests, AlarmInv, LinkInv, Questions
    <2>4. LinkInv' BY <1>7 DEF rtk_get_lmp, Cmd, NoReq, BRecords, Hosts, Controllers, Requests, AlarmInv, LinkInv, Fresh, FreshCtl, Questions
    <2>5. FirmwareWhole' /\ CommandsInEights'
      BY <1>7 DEF rtk_get_lmp, Cmd, NoReq, BRecords, Hosts, Controllers, Requests, FirmwareWhole, CommandsInEights, Uncounted, FreshCtl, bIndex
    <2>6. bReq'.op \notin {"BAUDRATE", "DOWNLOAD"} BY <1>7 DEF rtk_get_lmp, Cmd, NoReq, LinkInv, AlarmInv
    <2> QED BY <2>1, <2>2, <2>3, <2>4, <2>5, <2>6, Quiet
  <1>8. CASE VersionTimeout
    <2>1. BFilesInv' BY <1>8 DEF VersionTimeout, BFilesInv
    <2>2. BRecords' BY <1>8 DEF VersionTimeout, fwcfg_cb, BRecords, Hosts, Controllers, Requests
    <2>3. AlarmInv' BY <1>8 DEF VersionTimeout, fwcfg_cb, BRecords, Hosts, Controllers, Requests, AlarmInv, LinkInv, Questions
    <2>4. LinkInv' BY <1>8 DEF VersionTimeout, fwcfg_cb, BRecords, Hosts, Controllers, Requests, AlarmInv, LinkInv, Fresh, FreshCtl, Questions
    <2>5. FirmwareWhole' /\ CommandsInEights'
      BY <1>8 DEF VersionTimeout, fwcfg_cb, BRecords, Hosts, Controllers, Requests, FirmwareWhole, CommandsInEights, Uncounted, FreshCtl, bIndex
    <2>6. bReq'.op \notin {"BAUDRATE", "DOWNLOAD"} BY <1>8 DEF VersionTimeout, fwcfg_cb, LinkInv, AlarmInv
    <2> QED BY <2>1, <2>2, <2>3, <2>4, <2>5, <2>6, Quiet
  <1> QED BY <1>1, <1>2, <1>3, <1>4, <1>5, <1>6, <1>7, <1>8

\* Low power mode and stuttering touch nothing that the invariant speaks of.
LEMMA Same ==
  ASSUME BtInv,
         UNCHANGED <<bApi, bChip, bFiles, bNeed, bEver, bAlarm, bLen, bCur, bEnd, bTot, bLast, bOff,
                     bReq, bHost, bCtl, bReports>>
  PROVE  BtInv'
  <1>1. BFilesInv' /\ BRecords' BY DEF BtInv, BFilesInv, BRecords, Hosts, Controllers, Requests
  <1>2. AlarmInv' /\ LinkInv' BY DEF BtInv, AlarmInv, LinkInv, Fresh
  <1>3. BaudInv' BY DEF BtInv, BaudInv, Image, Before, Uncounted
  <1>4. PacketInv'
    BY DEF BtInv, PacketInv, Image, Arrived, Before, Uncounted, Number, Length, SpeedOf
  <1> QED BY <1>1, <1>2, <1>3, <1>4 DEF BtInv, FirmwareWhole, CommandsInEights, Uncounted

\* The first packet or the next one goes out, or the configuration ends there.
LEMMA SendPacketStep ==
  ASSUME BFilesInv', bReports = 0, bAlarm' = "none",
         bApi \notin {"off", "init", "powered", "open", "down"},
         bCtl' \in Controllers,
         Image', NEW k \in Nat, Arrived(k)',
         NEW host \in Hosts, host.speed = bCtl'.speed \/ bFiles'.config.speed \in FallbackCodes,
         NEW end \in Nat, NEW tot \in Nat, NEW last \in Nat, NEW off \in Nat,
         Indices(end, tot, last, off)',
         SendPacket(k, end, tot, last, off, host)
  PROVE  BtInv'
  <1>0. end <= 110 /\ end <= tot /\ tot <= end + 7 /\ k <= tot
    BY DEF Image, Arrived, Indices
  <1> DEFINE p == Packet(k, end, tot, last)
  <1>1. /\ k = tot => p.idx = k + 128
        /\ k < tot => p.idx = k
        /\ k < end => p.len = 252
        /\ k = end => p.len = last
        /\ k > end => p.len = 0
    <2>1. k < 128 /\ end <= tot BY <1>0
    <2>2. Field = 252 BY DEF Field
    <2>3. /\ k = tot => p.idx = k + 128
          /\ k < tot => p.idx = k
          /\ k < end => p.len = Field
          /\ k = end => p.len = last
          /\ k > end => p.len = 0
      BY <2>1, SMTT(20) DEF Packet, Flag
    <2> HIDE DEF p
    <2> QED BY <2>2, <2>3
  <1> HIDE DEF p
  <1>2. p.idx \in Nat /\ p.len \in Nat BY <1>0, <1>1
  <1>4. bHost' \in Hosts /\ SpeedOf(bHost)'
    <2>1. bHost' \in Hosts /\ bHost'.speed = host.speed BY DEF SendPacket, FlowControlOn, Hosts
    <2> QED BY <2>1 DEF SpeedOf
  <1>5. ~bCtl'.last /\ FirmwareWhole' /\ CommandsInEights'
    BY DEF FirmwareWhole, CommandsInEights, Arrived
  <1>6. CASE bReq' = NoReq /\ fwcfg_cb("failed")
    <2>1. BRecords' BY <1>4, <1>6 DEF BRecords, Requests, NoReq, fwcfg_cb
    <2>2. bReq'.op = "none" /\ bApi' \notin {"off", "init", "powered", "open", "down"}
      BY <1>6 DEF NoReq, fwcfg_cb
    <2>3. AlarmInv' /\ LinkInv' BY <2>2 DEF AlarmInv, LinkInv, Questions
    <2> QED BY <1>5, <2>1, <2>2, <2>3, Quiet
  <1>7. CASE /\ bReq' = [op |-> "DOWNLOAD", idx |-> p.idx, len |-> p.len, off |-> off]
             /\ UNCHANGED <<bApi, bReports>>
    <2>1. BRecords' BY <1>2, <1>4, <1>7 DEF BRecords, Requests
    <2>2. bReq'.op = "DOWNLOAD" /\ bReq'.idx = p.idx /\ bReq'.len = p.len /\ bReq'.off = off
      BY <1>7
    <2>3. AlarmInv' /\ LinkInv' /\ BaudInv' BY <1>7, <2>2 DEF AlarmInv, LinkInv, BaudInv, Questions
    <2>4. bCur' = bReq'.idx BY <2>2 DEF SendPacket, p
    <2>5. Number' = k /\ (bReq'.idx >= Flag <=> k = bTot')
      <3>1. CASE k = tot
        <4>1. bReq'.idx = k + 128 BY <1>1, <2>2, <3>1, Zenon
        <4>2. k + 128 >= 128 OBVIOUS
        <4> QED BY <3>1, <4>1, <4>2 DEF Number, Flag, Indices
      <3>2. CASE k < tot
        <4>1. bReq'.idx = k BY <1>1, <2>2, <3>2, Zenon
        <4>2. ~(k >= 128) /\ k # tot BY <1>0, <3>2
        <4> QED BY <3>2, <4>1, <4>2 DEF Number, Flag, Indices
      <3> QED BY <1>0, <3>1, <3>2
    <2>6. bReq'.idx >= Flag <=> Number' = bTot' BY <2>5
    <2>7. bReq'.len = Length(k)' BY <1>0, <1>1, <2>2 DEF Length, Field, Indices
    <2>8. PacketInv'
      <3>1. Arrived(Number)' BY <2>5 DEF Arrived
      <3>2. Length(Number)' = Length(k)' BY <2>5 DEF Length
      <3> QED BY <1>4, <2>2, <2>4, <2>6, <2>7, <3>1, <3>2 DEF PacketInv, Indices
    <2> QED BY <1>5, <2>1, <2>3, <2>8 DEF BtInv
  <1> QED BY <1>6, <1>7 DEF SendPacket, p

\* The controller after a command.
LEMMA ReceiveStep ==
  ASSUME BFilesInv, BRecords, Receive
  PROVE  /\ bCtl' \in Controllers
         /\ bCtl'.cmds = bCtl.cmds + 1 /\ bCtl'.got = bCtl.got + bReq.len
         /\ bReq.op # "BAUDRATE" => bCtl'.speed = bCtl.speed
         /\ bReq.op = "BAUDRATE" => bCtl'.speed = ControllerSpeed(bFiles.config.speed)
         /\ bReq.len = 0 \/ (bReq.off = bCtl.got /\ ~(bReq.off + bReq.len > bLen)) =>
              bCtl'.bad = bCtl.bad
         /\ bReq.idx >= Flag => bCtl'.last = TRUE
         /\ ~(bReq.idx >= Flag) => bCtl'.last = bCtl.last
  <1> DEFINE bad == bReq.len > 0 /\ (bReq.off # bCtl.got \/ bReq.off + bReq.len > bLen)
             last == bReq.idx >= Flag
             speed == IF bReq.op = "BAUDRATE" THEN ControllerSpeed(bFiles.config.speed) ELSE bCtl.speed
  <1>1. /\ bCtl.speed \in Nat /\ bCtl.cmds \in Nat /\ bCtl.got \in Nat /\ bCtl.bad \in BOOLEAN
        /\ bCtl.last \in BOOLEAN /\ bReq.len \in Nat
    BY DEF BRecords, Controllers, Requests
  <1>2. speed \in Nat BY <1>1, SpeedsOfCode
  <1>3. bad \in BOOLEAN /\ last \in BOOLEAN OBVIOUS
  <1>4. bReq.len = 0 \/ (bReq.off = bCtl.got /\ ~(bReq.off + bReq.len > bLen)) => bad = FALSE
    BY <1>1
  <1>5. bCtl' = [bCtl EXCEPT !.cmds = @ + 1, !.speed = speed, !.got = @ + bReq.len,
                            !.bad = @ \/ bad, !.last = @ \/ last]
    BY Zenon DEF Receive
  <1> HIDE DEF bad, last, speed
  <1>6. /\ bCtl'.cmds = bCtl.cmds + 1 /\ bCtl'.got = bCtl.got + bReq.len /\ bCtl'.speed = speed
        /\ bCtl'.bad = (bCtl.bad \/ bad) /\ bCtl'.last = (bCtl.last \/ last)
    BY <1>5 DEF BRecords, Controllers
  <1>7. bCtl' \in Controllers
    <2>1. PICK b \in BOOLEAN, l \in BOOLEAN : b = (bCtl.bad \/ bad) /\ l = (bCtl.last \/ last)
      BY <1>1, <1>3, Zenon
    <2>2. bCtl' = [bCtl EXCEPT !.cmds = bCtl.cmds + 1, !.speed = speed,
                               !.got = bCtl.got + bReq.len, !.bad = b, !.last = l]
      BY <1>5, <2>1, Zenon
    <2>3. bCtl.cmds + 1 \in Nat /\ bCtl.got + bReq.len \in Nat BY <1>1
    <2> QED BY <1>2, <2>2, <2>3 DEF Controllers, BRecords
  <1>8. last = (bReq.idx >= Flag) BY DEF last
  <1> QED BY <1>1, <1>3, <1>4, <1>6, <1>7, <1>8 DEF speed

\* buf_len is at most 111 packets.
LEMMA BufLenRange ==
  ASSUME BFilesInv, NEW ever \in Versions, BufLen(ever) > 0
  PROVE  BufLen(ever) \in Nat /\ 1 <= BufLen(ever) /\ BufLen(ever) <= 111 * Field
  <1>1. Field \in Nat BY DEF Field
  <1>2. PICK v \in Versions : BufLen(ever) = bFiles.config.len + bFiles.fw.patch[v]
    BY DEF BufLen, Versions
  <1>3. bFiles.config.len \in 0..Field BY DEF BFilesInv
  <1>4. bFiles.fw.patch[v] \in 1..(Field * 110)
    <2>1. bFiles.fw.kind = "good" BY DEF BufLen
    <2> QED BY <2>1, BtAssumption DEF BFilesInv
  <1>5. /\ bFiles.config.len \in Nat /\ bFiles.config.len <= Field
        /\ bFiles.fw.patch[v] \in Nat /\ 1 <= bFiles.fw.patch[v]
        /\ bFiles.fw.patch[v] <= Field * 110
    BY <1>1, <1>3, <1>4
  <1>6. \A c, n \in Nat : c <= Field /\ 1 <= n /\ n <= Field * 110
                          => c + n \in Nat /\ 1 <= c + n /\ c + n <= 111 * Field
    BY DEF Field
  <1> QED BY <1>2, <1>5, <1>6

\* HW_CFG_START: the indices fit the image, and the first command of the
\* configuration finds both ends of the UART at the speed of the opening.
LEMMA ConfigStartStep ==
  ASSUME BtInv, NEW ever \in Versions, bReq.op \in Questions, bAlarm' = "none",
         bEver' \in Versions, UNCHANGED <<bChip, bFiles>>,
         bCtl' \in Controllers, bCtl'.speed = DefaultSpeed, bCtl'.got = 0, ~bCtl'.bad, ~bCtl'.last,
         bCtl'.cmds = IF bChip.lmp = "8723a" THEN 1 ELSE 2,
         ConfigStart(ever)
  PROVE  BtInv'
  <1> DEFINE len == BufLen(ever)
             end == EndIndex(len)
             tot == TotalIndex(end)
             last == LastLength(len)
             need == bNeed /\ bFiles.fw.kind # "refused"
             Old == {"off", "init", "powered", "open", "down"}
  <1>1. BFilesInv' BY DEF BtInv, BFilesInv
  <1>2. bApi \notin Old /\ bHost.speed = DefaultSpeed /\ bHost \in Hosts /\ bReports \in Nat
    BY DEF BtInv, LinkInv, BRecords, Questions
  <1>3. FirmwareWhole' /\ CommandsInEights' BY DEF FirmwareWhole, CommandsInEights
  <1>4. ASSUME bReq' = NoReq, bHost' = bHost, fwcfg_cb("up") \/ fwcfg_cb("failed") PROVE BtInv'
    <2>1. BRecords' BY <1>2, <1>4 DEF BRecords, Requests, NoReq, fwcfg_cb
    <2>2. bReq'.op = "none" /\ bApi' \notin Old BY <1>2, <1>4 DEF NoReq, fwcfg_cb
    <2>3. AlarmInv' /\ LinkInv' BY <2>2 DEF AlarmInv, LinkInv, Questions
    <2> QED BY <1>1, <1>3, <2>1, <2>2, <2>3, Quiet
  <1>5. CASE ~(len > 0 /\ need)
    BY <1>4, <1>5 DEF ConfigStart
  <1>6. CASE len > 0 /\ need
    <2>1. bReports = 0 BY <1>2, <1>6 DEF BtInv, AlarmInv
    <2>2. len \in Nat /\ 1 <= len /\ len <= 111 * Field BY <1>6, BufLenRange DEF BtInv
    <2>3. end \in Nat /\ end <= 110 /\ last \in Nat /\ 1 <= last /\ last <= Field /\ len = Field * end + last
      <3> HIDE DEF len
      <3> QED BY <2>2, LengthArithmetic
    <2>4. /\ tot \in Nat /\ end <= tot /\ tot <= end + 7 /\ (tot + Before) % 8 = 0
          /\ Before \in 2..4
      <3> HIDE DEF len, end
      <3> QED BY <2>3, PaddingArithmetic DEF BtInv
    <2>5. bLen' = len /\ bEnd' = end /\ bTot' = tot /\ bLast' = last /\ bOff' = 0
      BY <1>6 DEF ConfigStart
    <2> HIDE DEF len, end, tot, last
    <2>6. Before' = Before /\ Uncounted' = Uncounted /\ Uncounted \in 0..1 BY DEF Before, Uncounted
    <2>7. Image' BY <2>2, <2>3, <2>4, <2>5, <2>6 DEF Image, Field
    <2>8. CASE bFiles.config.len = 0
      <3>0. PICK e \in Nat, t \in Nat, l \in Nat : e = end /\ t = tot /\ l = last BY <2>3, <2>4
      <3>1. SendPacket(0, e, t, l, 0, bHost)
        BY <1>6, <2>8, <3>0 DEF ConfigStart, len, end, tot, last
      <3>2. bCtl'.cmds = Before + Uncounted - 1 BY <2>8 DEF Before, Uncounted, BtInv, BFilesInv
      <3>3. Arrived(0)' BY <2>3, <2>4, <2>5, <2>6, <3>2 DEF Arrived, Field
      <3>4. Indices(e, t, l, 0)' BY <2>5, <3>0 DEF Indices
      <3> QED BY <1>1, <1>2, <2>1, <2>3, <2>4, <2>7, <3>1, <3>3, <3>4, SendPacketStep
    <2>9. CASE bFiles.config.len # 0
      <3>1. SendBaudrate /\ bHost' = bHost BY <1>6, <2>9 DEF ConfigStart, len
      <3>2. CASE bReq' = Cmd("BAUDRATE") /\ UNCHANGED <<bApi, bReports>>
        <4>1. BRecords' BY <1>2, <3>1, <3>2 DEF BRecords, Requests, NoReq, Cmd
        <4>2. bReq'.op = "BAUDRATE" BY <3>2 DEF Cmd, NoReq
        <4>3. AlarmInv' /\ LinkInv' /\ PacketInv'
          BY <1>2, <2>1, <3>2, <4>2 DEF AlarmInv, LinkInv, PacketInv, Questions
        <4>4. bCtl'.cmds = Before + Uncounted - 2 BY <2>9 DEF Before, Uncounted
        <4>5. BaudInv' BY <2>5, <2>6, <2>7, <2>9, <4>4 DEF BaudInv
        <4> QED BY <1>1, <1>3, <4>1, <4>3, <4>5 DEF BtInv
      <3> QED BY <1>4, <3>1, <3>2 DEF SendBaudrate
    <2> QED BY <2>8, <2>9
  <1> QED BY <1>5, <1>6

\* The answers to the version commands.
LEMMA VersionEvents ==
  ASSUME BtInv, rtk_get_lmp_cback \/ EversionEvent
  PROVE  BtInv'
  <1>1. /\ bCtl' \in Controllers /\ bCtl'.speed = DefaultSpeed /\ bCtl'.got = 0
        /\ ~bCtl'.bad /\ ~bCtl'.last
        /\ bCtl'.cmds = IF bReq.op = "READ_EVERSION" THEN 2 ELSE 1
    <2>1. bReq.op \in Questions /\ Receive BY DEF rtk_get_lmp_cback, EversionEvent, Questions
    <2>2. bReq.len = 0 /\ bReq.idx = 0 BY <2>1 DEF BtInv, BRecords, Questions
    <2>3. /\ bCtl.speed = DefaultSpeed /\ bCtl.got = 0 /\ ~bCtl.bad /\ ~bCtl.last
          /\ bCtl.cmds = IF bReq.op = "READ_EVERSION" THEN 1 ELSE 0
      BY <2>1 DEF BtInv, LinkInv
    <2> QED BY <2>1, <2>2, <2>3, ReceiveStep DEF BtInv, Questions, Flag
  <1>2. CASE rtk_get_lmp_cback /\ bChip.lmp = "8723a"
    <2>1. bReq.op = "READ_LMP" /\ bAlarm' = "none" /\ bEver' = bEver /\ ConfigStart(bEver)
      BY <1>2 DEF rtk_get_lmp_cback
    <2>2. UNCHANGED <<bChip, bFiles>> /\ bEver \in Versions
      BY <1>2 DEF rtk_get_lmp_cback, BtInv, BFilesInv
    <2> QED BY <1>1, <1>2, <2>1, <2>2, ConfigStartStep DEF Questions
  <1>3. CASE rtk_get_lmp_cback /\ bChip.lmp # "8723a"
    <2>1. /\ bReq.op = "READ_LMP" /\ bAlarm' = "eversion" /\ bReq' = Cmd("READ_EVERSION")
          /\ UNCHANGED <<bApi, bChip, bFiles, bNeed, bEver, bHost, bReports>>
      BY <1>3 DEF rtk_get_lmp_cback
    <2>2. bReq'.op = "READ_EVERSION" /\ bReq' \in Requests /\ bReq'.len = 0 /\ bReq'.idx = 0
      BY <2>1 DEF Cmd, NoReq, Requests
    <2>3. BFilesInv' /\ BRecords' BY <1>1, <2>1, <2>2 DEF BtInv, BFilesInv, BRecords
    <2>4. AlarmInv' BY <2>1, <2>2 DEF BtInv, AlarmInv, LinkInv, Questions
    <2>5. LinkInv' BY <1>1, <1>3, <2>1, <2>2 DEF BtInv, LinkInv, Questions
    <2> QED BY <1>1, <2>2, <2>3, <2>4, <2>5, Quiet DEF FirmwareWhole, CommandsInEights
  <1>4. CASE EversionEvent
    <2>1. PICK ever \in Versions : bEver' = ever /\ ConfigStart(ever)
      BY <1>4 DEF EversionEvent, BtInv, BFilesInv, Versions
    <2>2. bReq.op = "READ_EVERSION" /\ bAlarm' = "none" /\ UNCHANGED <<bChip, bFiles>>
      BY <1>4 DEF EversionEvent
    <2>3. bChip.lmp # "8723a" BY <2>2 DEF BtInv, LinkInv
    <2> QED BY <1>1, <2>1, <2>2, <2>3, ConfigStartStep DEF Questions
  <1> QED BY <1>2, <1>3, <1>4

\* HW_CFG_SET_UART_BAUD_HOST: both ends now have the speed of the file.
LEMMA BaudrateStep ==
  ASSUME BtInv, BaudrateEvent
  PROVE  BtInv'
  <1>1. /\ bReq.op = "BAUDRATE" /\ Receive
        /\ SendPacket(0, bEnd, bTot, bLast, bOff, SetBaud(HostSpeed))
        /\ UNCHANGED <<bChip, bFiles, bNeed, bEver, bAlarm, bLen, bEnd, bTot, bLast, bOff>>
    BY DEF BaudrateEvent
  <1>2. /\ Image /\ bOff = 0 /\ bFiles.config.len # 0 /\ bCtl.cmds = Before + Uncounted - 2
        /\ bCtl.speed = DefaultSpeed /\ bCtl.got = 0 /\ ~bCtl.bad /\ ~bCtl.last
    BY <1>1 DEF BtInv, BaudInv
  <1>3. /\ bCtl' \in Controllers /\ bCtl'.got = 0
        /\ bFiles.config.speed \notin FallbackCodes => bCtl'.speed = HostSpeed
        /\ ~bCtl'.bad /\ ~bCtl'.last /\ bCtl'.cmds = Before + Uncounted - 2 + 1
    <2>1. bReq.len = 0 /\ bReq.idx = 0 BY <1>1 DEF BtInv, BRecords
    <2>2. bCtl.speed \in Nat BY DEF BtInv, BRecords, Controllers
    <2> QED BY <1>1, <1>2, <2>1, <2>2, ReceiveStep, SpeedsOfCode DEF BtInv, Flag
  <1>4. BFilesInv' BY <1>1 DEF BtInv, BFilesInv
  <1>5. /\ Before' = Before /\ Before \in Nat
        /\ Uncounted' = Uncounted /\ Uncounted \in Nat
    BY <1>1 DEF Before, Uncounted
  <1>6. Image' BY <1>1, <1>2, <1>5 DEF Image
  <1>7. Arrived(0)' BY <1>1, <1>2, <1>3, <1>5, <1>6 DEF Arrived, Image, Field
  <1>8. SetBaud(HostSpeed) \in Hosts /\ SetBaud(HostSpeed).speed = HostSpeed
    <2>1. HostSpeed \in Nat BY SpeedsOfCode DEF BtInv, BRecords, Controllers
    <2> QED BY <2>1 DEF SetBaud, Hosts, BtInv, BRecords
  <1>9. /\ bReports = 0 /\ bAlarm' = "none"
        /\ bApi \notin {"off", "init", "powered", "open", "down"}
    BY <1>1 DEF BtInv, AlarmInv, LinkInv
  <1>10. PICK host \in Hosts, end \in Nat, tot \in Nat, last \in Nat, off \in Nat, k \in Nat :
           /\ k = 0 /\ host = SetBaud(HostSpeed) /\ end = bEnd /\ tot = bTot /\ last = bLast /\ off = bOff
    BY <1>2, <1>8 DEF Image
  <1>11. Indices(end, tot, last, off)' BY <1>1, <1>10 DEF Indices
  <1>12. SendPacket(k, end, tot, last, off, host) /\ Arrived(k)' BY <1>1, <1>7, <1>10
  <1>13. host.speed = bCtl'.speed \/ bFiles'.config.speed \in FallbackCodes BY <1>1, <1>3, <1>8, <1>10
  <1> QED BY <1>3, <1>4, <1>6, <1>9, <1>11, <1>12, <1>13, SendPacketStep, Zenon

\* What the controller has when packet number k arrived: the bytes up to it, and
\* all of them, in eights, with the last one.
LEMMA PacketArrives ==
  ASSUME BtInv, bReq.op = "DOWNLOAD", Receive, NEW k, k = Number,
         UNCHANGED <<bChip, bFiles, bLen>>
  PROVE  /\ k \in Nat /\ k <= bTot
         /\ k # bTot => bReq.idx = k
         /\ bReq.idx >= Flag <=> k = bTot
         /\ bReq.idx >= Flag \/ bReq.idx = bTot <=> k = bTot
         /\ k < bEnd => bOff = 252 * k
         /\ k >= bEnd => bOff = 252 * bEnd
         /\ bCtl' \in Controllers /\ bCtl'.speed = bCtl.speed /\ ~bCtl'.bad
         /\ bCtl'.got = IF k + 1 <= bEnd THEN 252 * (k + 1) ELSE bLen
         /\ bCtl'.cmds = Before + Uncounted + k
         /\ k # bTot => ~bCtl'.last
         /\ Before' = Before /\ Before \in Nat /\ Uncounted' = Uncounted /\ Uncounted \in 0..1
         /\ FirmwareWhole' /\ CommandsInEights'
  <1>2. /\ Image /\ Arrived(k) /\ bReq.off = bOff /\ bReq.len = Length(k)
        /\ bReq.idx >= Flag <=> k = bTot
    BY DEF BtInv, PacketInv
  <1>3. bReq.idx \in Nat /\ k \in Nat /\ k <= bTot /\ bEnd \in Nat /\ bTot \in Nat /\ bEnd <= 110
        /\ bEnd <= bTot /\ bTot <= bEnd + 7 /\ bLast \in Nat /\ bLen \in Nat /\ bOff \in Nat
    BY <1>2 DEF Image, Arrived, BtInv, BRecords, Requests
  <1>4. k # bTot => bReq.idx = k BY <1>2 DEF Number
  <1>5. /\ k < bEnd => bReq.len = 252 /\ bOff = 252 * k /\ bCtl.got = 252 * k
        /\ k = bEnd => bReq.len = bLast /\ bOff = 252 * bEnd /\ bCtl.got = 252 * bEnd
        /\ k > bEnd => bReq.len = 0 /\ bOff = 252 * bEnd /\ bCtl.got = bLen
        /\ bLen = 252 * bEnd + bLast
    BY <1>2, <1>3 DEF Length, Arrived, Image, Field
  <1>6. bReq.len = 0 \/ (bReq.off = bCtl.got /\ ~(bReq.off + bReq.len > bLen))
    <2>1. CASE k < bEnd
      <3>1. 252 * k + 252 <= 252 * bEnd BY <1>3, <2>1
      <3> QED BY <1>2, <1>3, <1>5, <2>1, <3>1
    <2>2. CASE k = bEnd BY <1>2, <1>3, <1>5, <2>2
    <2>3. CASE k > bEnd BY <1>5, <2>3
    <2> QED BY <1>3, <2>1, <2>2, <2>3
  <1>7. /\ bCtl' \in Controllers /\ bCtl'.speed = bCtl.speed
        /\ bCtl'.got = bCtl.got + bReq.len /\ ~bCtl'.bad /\ bCtl'.cmds = bCtl.cmds + 1
        /\ k # bTot => ~bCtl'.last
    BY <1>2, <1>6, ReceiveStep DEF BtInv, Arrived
  <1>9. /\ Before' = Before /\ Before \in Nat /\ (bTot + Before) % 8 = 0
        /\ Uncounted' = Uncounted /\ Uncounted \in 0..1
    BY <1>2 DEF Before, Uncounted, Image
  <1>10. bCtl'.cmds = Before + Uncounted + k
    <2>1. bCtl.cmds = Before + Uncounted - 1 + k BY <1>2 DEF Arrived
    <2> QED BY <1>3, <1>7, <1>9, <2>1
  <1>11. bTot < 128 /\ (bReq.idx >= Flag \/ bReq.idx = bTot <=> k = bTot)
    BY <1>2, <1>3, <1>4 DEF Flag
  <1>12. bCtl'.got = IF k + 1 <= bEnd THEN 252 * (k + 1) ELSE bLen
    <2>1. CASE k < bEnd BY <1>3, <1>5, <1>7, <2>1
    <2>2. CASE k = bEnd BY <1>3, <1>5, <1>7, <2>2
    <2>3. CASE k > bEnd BY <1>3, <1>5, <1>7, <2>3
    <2> QED BY <1>3, <2>1, <2>2, <2>3
  <1>13. FirmwareWhole' BY <1>3, <1>7, <1>12 DEF FirmwareWhole
  <1>14. CommandsInEights'
    <2>1. ASSUME k = bTot PROVE bCtl'.cmds % 8 = Uncounted
      <3>1. \A n \in Nat, u \in 0..1 : n % 8 = 0 => (n + u) % 8 = u OBVIOUS
      <3>2. bCtl'.cmds = (bTot + Before) + Uncounted BY <1>3, <1>9, <1>10, <2>1
      <3>3. bTot + Before \in Nat BY <1>3, <1>9
      <3> QED BY <1>9, <3>1, <3>2, <3>3
    <2> QED BY <1>7, <1>9, <2>1 DEF CommandsInEights
  <1> QED BY <1>2, <1>3, <1>4, <1>5, <1>7, <1>9, <1>10, <1>11, <1>12, <1>13, <1>14

\* HW_CFG_DL_FW_PATCH: the next packet, or the report after the last one.
LEMMA DownloadStep ==
  ASSUME BtInv, DownloadEvent
  PROVE  BtInv'
  <1>0. PICK k : k = Number OBVIOUS
  <1>1. /\ bReq.op = "DOWNLOAD" /\ Receive /\ bOff' = Advance(bCur) /\ bHost.speed = bCtl.speed
        /\ UNCHANGED <<bChip, bFiles, bNeed, bEver, bAlarm, bLen, bEnd, bTot, bLast>>
    BY DEF DownloadEvent
  <1>2. Image /\ bCur = bReq.idx BY <1>1 DEF BtInv, PacketInv
  <1>3. /\ k \in Nat /\ k <= bTot
        /\ k # bTot => bReq.idx = k
        /\ bReq.idx >= Flag \/ bReq.idx = bTot <=> k = bTot
        /\ k < bEnd => bOff = 252 * k
        /\ k >= bEnd => bOff = 252 * bEnd
        /\ bCtl' \in Controllers /\ bCtl'.speed = bCtl.speed /\ ~bCtl'.bad
        /\ bCtl'.got = IF k + 1 <= bEnd THEN 252 * (k + 1) ELSE bLen
        /\ bCtl'.cmds = Before + Uncounted + k
        /\ k # bTot => ~bCtl'.last
        /\ Before' = Before /\ Before \in Nat /\ Uncounted' = Uncounted /\ Uncounted \in 0..1
        /\ FirmwareWhole' /\ CommandsInEights'
    BY <1>0, <1>1, PacketArrives
  <1>4. /\ bEnd \in Nat /\ bTot \in Nat /\ bEnd <= 110
        /\ bEnd <= bTot /\ bTot <= bEnd + 7 /\ bLast \in Nat /\ bLen \in Nat
    BY <1>2 DEF Image
  <1>8. BFilesInv' BY <1>1 DEF BtInv, BFilesInv
  <1>11. /\ bReports = 0 /\ bAlarm' = "none"
         /\ bApi \notin {"off", "init", "powered", "open", "down"}
    BY <1>1 DEF BtInv, AlarmInv, LinkInv
  <1>13. CASE k = bTot
    <2>1. bReq' = NoReq /\ fwcfg_cb("up") /\ bHost' = bHost BY <1>3, <1>13 DEF DownloadEvent
    <2>2. BRecords' BY <1>3, <2>1 DEF BtInv, BRecords, Requests, NoReq, fwcfg_cb
    <2>3. bReq'.op = "none" /\ bApi' \notin {"off", "init", "powered", "open", "down"}
      BY <1>11, <2>1 DEF NoReq, fwcfg_cb
    <2>4. AlarmInv' /\ LinkInv' BY <1>11, <2>3 DEF AlarmInv, LinkInv, Questions
    <2> QED BY <1>3, <1>8, <2>2, <2>3, <2>4, Quiet
  <1>14. CASE k # bTot
    <2>1. bCur = k /\ (bCur + 1) % 256 = k + 1
      <3>1. k + 1 < 256 /\ k + 1 \in Nat BY <1>3, <1>4
      <3> QED BY <1>2, <1>3, <1>14, <3>1
    <2>2. SendPacket(k + 1, bEnd, bTot, bLast, bOff', bHost)
      BY <1>1, <1>3, <1>14, <2>1 DEF DownloadEvent
    <2>3. bOff' = 252 * (IF k + 1 <= bEnd THEN k + 1 ELSE bEnd)
      BY <1>1, <1>3, <1>4, <2>1 DEF Advance, Field
    <2>4. bCtl'.got = IF k + 1 <= bEnd THEN 252 * (k + 1) ELSE bLen
      BY <1>3
    <2>5. PICK n \in Nat, host \in Hosts, end \in Nat, tot \in Nat, last \in Nat, off \in Nat :
            /\ n = k + 1 /\ host = bHost
            /\ end = bEnd /\ tot = bTot /\ last = bLast /\ off = bOff'
      BY <1>3, <1>4, <2>3 DEF BtInv, BRecords
    <2>6. Image' BY <1>1, <1>2, <1>3 DEF Image
    <2>7. Arrived(n)'
      BY <1>1, <1>3, <1>4, <1>14, <2>3, <2>4, <2>5 DEF Arrived, Field
    <2>8. Indices(end, tot, last, off)' BY <1>1, <2>5 DEF Indices
    <2>9. SendPacket(n, end, tot, last, off, host) /\ host.speed = bCtl'.speed
      BY <1>1, <1>3, <2>2, <2>5
    <2> QED BY <1>3, <1>8, <1>11, <2>6, <2>7, <2>8, <2>9, SendPacketStep
  <1> QED BY <1>13, <1>14

\* The ends of a configuration in a callback that has no buffer, and after an error
\* status: the controller has received one command more.
LEMMA FailedEvents ==
  ASSUME BtInv, LmpError \/ NoBuffer
  PROVE  BtInv'
  <1>1. /\ bReq.op \in Questions \cup {"BAUDRATE", "DOWNLOAD"} /\ Receive /\ bReq' = NoReq
        /\ bAlarm' = bAlarm \/ bAlarm' = "none"
        /\ UNCHANGED <<bChip, bFiles, bNeed, bEver, bIndex, bHost>>
        /\ fwcfg_cb("failed") \/ UNCHANGED <<bApi, bReports>>
    BY DEF LmpError, NoBuffer, Questions
  <1>2. bReq'.op = "none" /\ bApi' \notin {"off", "init", "powered", "open", "down"}
        /\ bReq' \in Requests /\ bReq'.len = 0 /\ bReq'.idx = 0 /\ bReports' \in Nat
    BY <1>1 DEF BtInv, BRecords, NoReq, Requests, fwcfg_cb, LinkInv, Questions
  <1>3. BFilesInv' BY <1>1 DEF BtInv, BFilesInv
  <1>4. AlarmInv' /\ LinkInv' BY <1>2 DEF AlarmInv, LinkInv, Questions
  <1>5. bCtl' \in Controllers /\ FirmwareWhole' /\ CommandsInEights'
    <2>1. CASE bReq.op = "DOWNLOAD"
      <3>1. PICK k : k = Number OBVIOUS
      <3> QED BY <1>1, <2>1, <3>1, PacketArrives DEF bIndex
    <2>2. CASE bReq.op # "DOWNLOAD"
      <3>1. bReq.len = 0 /\ bReq.idx = 0 /\ ~bCtl.last
        BY <1>1, <2>2 DEF BtInv, BRecords, LinkInv, BaudInv, Questions
      <3>2. bCtl' \in Controllers /\ ~bCtl'.last
        BY <1>1, <3>1, ReceiveStep DEF BtInv, Flag
      <3> QED BY <3>2 DEF FirmwareWhole, CommandsInEights
    <2> QED BY <2>1, <2>2
  <1>6. BRecords' BY <1>1, <1>2, <1>5 DEF BtInv, BRecords
  <1> QED BY <1>2, <1>3, <1>4, <1>5, <1>6, Quiet

\* The invariant is inductive.
LEMMA BtInductive == BSpec => []BtInv
  <1>1. BtInv /\ [BNext]_bVars => BtInv'
    <2> SUFFICES ASSUME BtInv, [BNext]_bVars PROVE BtInv' OBVIOUS
    <2>1. CASE UNCHANGED bVars BY <2>1, Same DEF bVars, bIndex
    <2>2. ASSUME NEW on \in BOOLEAN, NEW ok \in BOOLEAN, LpmMode(on, ok) PROVE BtInv'
      BY <2>2, Same DEF LpmMode, bIndex
    <2>3. CASE rtk_get_lmp_cback \/ EversionEvent BY <2>3, VersionEvents
    <2>4. CASE BaudrateEvent BY <2>4, BaudrateStep
    <2>5. CASE DownloadEvent BY <2>5, DownloadStep
    <2>7. CASE LmpError \/ NoBuffer BY <2>7, FailedEvents
    <2>6. ASSUME NEW ok \in BOOLEAN,
                 \/ VendorInit \/ PowerOn \/ PowerOff \/ Cleanup \/ UserialOpen(ok)
                 \/ hw_config_start(ok) \/ rtk_get_lmp \/ VersionTimeout
          PROVE  BtInv'
      BY <2>6, StackSteps
    <2> QED BY <2>1, <2>2, <2>3, <2>4, <2>5, <2>6, <2>7 DEF BNext
  <1> QED BY <1>1, BtInit, PTL DEF BSpec

\* When the controller has the packet marked as the last one it has the patch
\* of its ROM version and the configuration, every byte once and in order.
THEOREM WholeImage == BSpec => []FirmwareWhole
  BY BtInductive, PTL DEF BtInv

\* The commands up to the last packet of the download are a multiple of eight, with
\* or without a configuration and for a chip with or without ROM version; a
\* configuration without a speed adds one, which the padding does not count.
THEOREM WholeEights == BSpec => []CommandsInEights
  BY BtInductive, PTL DEF BtInv

\* Every packet of the download finds both ends of the UART at one speed: the host's
\* three conversions end at the controller's speed for every code but those of
\* FallbackCodes, and the step between the two changes sends nothing.
THEOREM OneSpeed == BSpec => []SpeedsAgree
  <1>1. BtInv => SpeedsAgree BY DEF BtInv, PacketInv, SpeedOf, SpeedsAgree
  <1> QED BY <1>1, BtInductive, PTL

\* After fwcfg_cb no speed is changed and no packet is sent, also when the
\* answer to a question comes after the alarm of the question.
THEOREM NothingAfterReport == BSpec => []QuietAfterReport
  <1>1. BtInv => QuietAfterReport BY DEF BtInv, AlarmInv, BRecords, QuietAfterReport
  <1> QED BY <1>1, BtInductive, PTL

=============================================================================
