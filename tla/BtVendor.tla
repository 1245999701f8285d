------------------------------ MODULE BtVendor ------------------------------
(***************************************************************************)
(* The Realtek Bluetooth vendor library (libbt-vendor: bt_vendor_rtk.c,    *)
(* hardware.c, userial_vendor.c, upio.c).  The stack powers the controller *)
(* and opens the UART, hw_config_start asks for the chip's versions, moves *)
(* both ends of the UART to the configured baud rate and downloads the     *)
(* firmware patch and the configuration packet by packet, each in the      *)
(* callback of the last one's event; fwcfg_cb reports the end.  SIGALRM    *)
(* ends the wait for a version.  The stack and the controller are external.*)
(***************************************************************************)
EXTENDS Integers

CONSTANTS PatchLengths,   \* lengths of the patches of a firmware file
          ConfigLengths,  \* lengths of a configuration file, 0 for none
          ConfigSpeeds,   \* rtk_speed codes that a configuration file may hold
          BtSessions      \* bound: times the stack turns Bluetooth on

Field == 252   \* PATCH_DATA_FIELD_MAX_SIZE
DefaultSpeed == 115200   \* of the port when it is opened, and of the chip at reset
Flag == 128    \* 0x80, the mark of the last packet
Versions == {0, 1}        \* ROM versions that the firmware file has a patch for

\* baudrates[]: the line speed of each code.
Codes == {"6004", "5F75004", "4003", "4928002", "5002", "8001", "4928001", "7001", "52A6001",
          "5001", "701d", "252C002"}
Baudrates ==
  [s \in Codes |->
     CASE s \in {"6004", "5F75004"} -> 921600 [] s \in {"4003", "4928002"} -> 1500000
       [] s = "5002" -> 2000000 [] s \in {"8001", "4928001"} -> 3000000
       [] s \in {"7001", "52A6001"} -> 3500000 [] s = "5001" -> 4000000
       [] OTHER -> 115200]

\* The line speeds that have a USERIAL symbol and a termios one.
UserialSpeeds ==
  {4000000, 3000000, 2000000, 1500000, 1000000, 921600, 460800, 230400, 115200, 57600, 19200,
   9600, 1200, 600}

\* Patch, configuration and the padding packets are numbered below 128.
ASSUME BtAssumption ==
  /\ PatchLengths \subseteq 1..(Field * 110) /\ ConfigLengths \subseteq 0..Field
  /\ ConfigSpeeds \subseteq Codes \cup {"other"}

VARIABLES bApi,      \* what the stack has done: off, init, powered, open, asked, up, failed
          bChip,     \* the controller's LMP version, ROM version and how it answers for it
          bFiles,    \* firmware and configuration files on the disk
          bState,    \* hw_cfg_cb.state
          bNeed,     \* need_download_fw
          bEver,     \* gEVersion
          bAlarm,    \* SIGALRM armed for the version asked for
          bLen, bCur, bEnd, bTot, bLast, bOff,
                     \* buf_len, iCurIndex, iEndIndex, iTotalIndex, iLastPacketLen, bufpatch - buf
          bReq,      \* the HCI command that the controller has not answered
          bHost,     \* fd is open, speed and flow control of the host's UART
          bCtl,      \* controller: speed; commands and bytes received, the last packet seen
          bLpm,      \* upio_state[UPIO_LPM_MODE], what /proc has, timer_created
          bReports,  \* fwcfg_cb calls of this configuration
          bSession

bIndex == <<bLen, bCur, bEnd, bTot, bLast, bOff>>
bVars == <<bApi, bChip, bFiles, bState, bNeed, bEver, bAlarm, bIndex, bReq, bHost, bCtl, bLpm,
           bReports, bSession>>

NoReq == [op |-> "none", idx |-> 0, len |-> 0, off |-> 0]
Cmd(c) == [NoReq EXCEPT !.op = c]
FreshCtl == [speed |-> DefaultSpeed, cmds |-> 0, got |-> 0, bad |-> FALSE, last |-> FALSE]

\* rtk_get_bt_firmware; a file is refused for its signature, its extension
\* section or the project it names.
FirmwareFiles ==
  [kind : {"good"}, patch : [Versions -> PatchLengths]]
    \cup [kind : {"absent", "refused"}, patch : {[v \in Versions |-> 0]}]

\* rtk_parse_config_file: of a file of this length, the speed and whether flow
\* control is turned on.
ConfigData == [len : ConfigLengths \ {0}, speed : ConfigSpeeds, flow : BOOLEAN]

\* rtk_get_bt_config: a file with a speed, or without one (of a wrong signature or
\* length, or without the entry 0xc), which is sent all the same; or no file.
ConfigFiles ==
  ConfigData \cup [len : ConfigLengths \cup {0}, speed : {"none"}, flow : {FALSE}]

\* The controllers: whether READ_LMP succeeds, and how the question for the ROM
\* version, which an 8723a is not asked, is answered.
Chips ==
  [lmp : {"8723a"}, readable : BOOLEAN, ever : {0}, status : {0}]
    \cup [lmp : {"8723b"}, readable : BOOLEAN, ever : Versions, status : {0, 1, 2}]

BInit ==
  /\ bApi = "off" /\ bState = "0" /\ bNeed = TRUE /\ bEver = 0 /\ bAlarm = "none"
  /\ bChip \in Chips
  /\ bFiles \in [fw : FirmwareFiles, config : ConfigFiles]
  /\ bLen = 0 /\ bCur = 0 /\ bEnd = 0 /\ bTot = 0 /\ bLast = 0 /\ bOff = 0
  /\ bReq = NoReq /\ bHost = [open |-> FALSE, speed |-> DefaultSpeed, flow |-> FALSE]
  /\ bCtl = FreshCtl /\ bLpm = [state |-> "unknown", proc |-> FALSE, timer |-> FALSE]
  /\ bReports = 0 /\ bSession = 0
  \* For an 8723a without configuration, hw_config_cback reads an event that
  \* it does not have: left out.
  /\ bFiles.config.len = 0 => bChip.lmp # "8723a"

-----------------------------------------------------------------------------
(* The stack: init, op and cleanup of the vendor interface. *)

\* init: the port is closed, upio_init forgets the LPM state.
VendorInit ==
  /\ bApi = "off" /\ bSession < BtSessions /\ bApi' = "init" /\ bSession' = bSession + 1
  /\ bHost' = [bHost EXCEPT !.open = FALSE]
  /\ bLpm' = [bLpm EXCEPT !.state = "unknown", !.timer = FALSE]
  /\ UNCHANGED <<bChip, bFiles, bState, bNeed, bEver, bAlarm, bIndex, bReq, bCtl, bReports>>

\* op ignores whether upio_set_bluetooth_power failed: a controller without power
\* is then one that answers no question.
PowerOn ==
  /\ bApi = "init" /\ bApi' = "powered" /\ bCtl' = FreshCtl
  /\ UNCHANGED <<bChip, bFiles, bState, bNeed, bEver, bAlarm, bIndex, bReq, bHost, bLpm,
                 bReports, bSession>>

\* userial_vendor_open at 115200, without flow control.
UserialOpen(ok) ==
  /\ bApi = "powered"
  /\ bHost' = [open |-> ok, speed |-> DefaultSpeed, flow |-> FALSE]
  /\ bApi' = IF ok THEN "open" ELSE "failed"
  /\ UNCHANGED <<bChip, bFiles, bState, bNeed, bEver, bAlarm, bIndex, bReq, bCtl, bLpm,
                 bReports, bSession>>

\* fwcfg_cb: the stack goes on when it was waiting for the result.
fwcfg_cb(result) ==
  /\ bReports' = bReports + 1
  /\ bApi' = IF bApi = "asked" THEN result ELSE bApi

\* hw_config_start: establish the H5 link first.
hw_config_start(buffer) ==
  /\ bApi = "open"
  /\ IF buffer
     THEN /\ bState' = "START" /\ bReq' = Cmd("H5_INIT")
          /\ bApi' = "asked" /\ bReports' = 0
     ELSE bState' = "0" /\ bApi' = "failed" /\ bReports' = 1 /\ UNCHANGED bReq
  /\ UNCHANGED <<bChip, bFiles, bNeed, bEver, bAlarm, bIndex, bHost, bCtl, bLpm, bSession>>

\* rtl_hw_lpm_enable and upio_set: the state is kept even if /proc refuses the
\* write; the timer exists while low power mode is on.
LpmMode(on, ok) ==
  /\ bApi = "up" /\ bLpm.state # (IF on THEN "assert" ELSE "deassert")
  /\ bLpm' = [state |-> IF on THEN "assert" ELSE "deassert",
              proc |-> IF ok THEN on ELSE bLpm.proc,
              timer |-> IF on THEN ok \/ bLpm.timer ELSE FALSE]
  /\ UNCHANGED <<bApi, bChip, bFiles, bState, bNeed, bEver, bAlarm, bIndex, bReq, bHost, bCtl,
                 bReports, bSession>>

\* Epilog, close of the port and power off: the link drops what was not answered.
PowerOff ==
  /\ bApi \in {"up", "failed"} /\ bApi' = "down"
  /\ bHost' = [bHost EXCEPT !.open = FALSE]
  /\ bCtl' = FreshCtl /\ bReq' = NoReq
  /\ UNCHANGED <<bChip, bFiles, bState, bNeed, bEver, bAlarm, bIndex, bLpm, bReports, bSession>>

\* cleanup; the alarm of a late answer has rung before (one that rings later
\* would call through a null pointer).
Cleanup ==
  /\ bApi = "down" /\ bAlarm = "none" /\ bApi' = "off"
  /\ bLpm' = [bLpm EXCEPT !.timer = FALSE]
  /\ UNCHANGED <<bChip, bFiles, bState, bNeed, bEver, bAlarm, bIndex, bReq, bHost, bCtl,
                 bReports, bSession>>

-----------------------------------------------------------------------------
(* Versions. *)

\* Mutant: the question is not guarded by an alarm.
LmpWithoutAlarm ==
  /\ bReq.op = "H5_INIT" /\ bReq' = Cmd("READ_LMP") /\ bAlarm' = "none"
  /\ UNCHANGED <<bApi, bChip, bFiles, bState, bNeed, bEver, bIndex, bHost, bCtl, bLpm, bReports,
                 bSession>>

\* rtk_get_lmp, when the link is up.
rtk_get_lmp ==
  /\ bReq.op = "H5_INIT" /\ bReq' = Cmd("READ_LMP") /\ bAlarm' = "lmp"
  /\ UNCHANGED <<bApi, bChip, bFiles, bState, bNeed, bEver, bIndex, bHost, bCtl, bLpm, bReports,
                 bSession>>

\* Mutant: the handler only reports.
TimeoutStillDownloads ==
  /\ bAlarm # "none" /\ bAlarm' = "none" /\ fwcfg_cb("up")
  /\ UNCHANGED <<bChip, bFiles, bState, bNeed, bEver, bIndex, bReq, bHost, bCtl, bLpm, bSession>>

\* rtk_get_lmp_timeout, rtk_get_eversion_timeout: the answer may still come.
VersionTimeout ==
  /\ bAlarm # "none" /\ bAlarm' = "none" /\ bNeed' = FALSE /\ fwcfg_cb("up")
  /\ UNCHANGED <<bChip, bFiles, bState, bEver, bIndex, bReq, bHost, bCtl, bLpm, bSession>>

\* buf_len: the patch of ROM version ever and the configuration.
BufLen(ever) ==
  IF bFiles.fw.kind # "good" THEN -1
  ELSE bFiles.config.len + bFiles.fw.patch[IF bChip.lmp = "8723a" THEN 0 ELSE ever]

\* HCI commands of a configuration that has no padding, without iEndIndex.
Before ==
  2 + (IF bFiles.config.speed # "none" THEN 1 ELSE 0) + (IF bChip.lmp # "8723a" THEN 1 ELSE 0)

\* Mutant: the command that reads the ROM version is not counted.
PaddingWithoutVersion(end) ==
  LET k == 2 + (IF bFiles.config.speed # "none" THEN 1 ELSE 0) IN (8 - ((end + k) % 8)) % 8

\* iAdditionPkt, by the speed and not by the file: the controller wants the
\* commands in eights.
Padding(end) == (8 - ((end + Before) % 8)) % 8

\* iEndIndex, iLastPacketLen and iTotalIndex of an image of len bytes.
EndIndex(len) == ((len - 1) \div Field) % 256
LastLength(len) == IF len % Field = 0 THEN Field ELSE len % Field
TotalIndex(end) == (end + Padding(end)) % 256

\* The packet after cur: index with the mark of the last one, and data length.
Packet(cur, end, tot, last) ==
  [idx |-> IF cur >= tot THEN (IF cur < Flag THEN cur + Flag ELSE cur) ELSE cur % Flag,
   len |-> CASE cur < end -> Field [] cur = end -> last [] OTHER -> 0]

\* userial_vendor_set_hw_fctrl(1).
FlowControlOn(host) == IF host.open THEN [host EXCEPT !.flow = TRUE] ELSE host

\* hci_download_patch_h4, and the flow control with the last packet; a packet
\* that is not taken ends the configuration.
SendPacket(cur, end, tot, last, off, host) ==
  LET p == Packet(cur, end, tot, last) IN
  /\ bCur' = p.idx
  /\ bHost' = IF p.idx >= Flag /\ bFiles.config.flow THEN FlowControlOn(host) ELSE host
  /\ \/ /\ bState' = "DL_FW_PATCH" /\ UNCHANGED <<bApi, bReports>>
        /\ bReq' = [op |-> "DOWNLOAD", idx |-> p.idx, len |-> p.len, off |-> off]
     \/ bState' = "0" /\ bReq' = NoReq /\ fwcfg_cb("failed")

\* hw_config_set_controller_baudrate.
SendBaudrate ==
  \/ bState' = "BAUD_HOST" /\ bReq' = Cmd("BAUDRATE") /\ UNCHANGED <<bApi, bReports>>
  \/ bState' = "0" /\ bReq' = NoReq /\ fwcfg_cb("failed")

\* hw_config_cback in HW_CFG_START: read the files, then set the baud rate, or
\* send the first packet when there is no configuration, or stop here.
ConfigStart(ever) ==
  LET len == BufLen(ever)
      need == bNeed /\ bFiles.fw.kind # "refused"
      end == EndIndex(len)
      tot == TotalIndex(end)
      last == LastLength(len) IN
  /\ bNeed' = need /\ bLen' = len /\ bOff' = 0
  /\ IF len > 0 /\ need
     THEN /\ bEnd' = end /\ bTot' = tot /\ bLast' = last
          /\ IF bFiles.config.len = 0 THEN SendPacket(0, end, tot, last, 0, bHost)
             ELSE bCur' = 0 /\ SendBaudrate /\ UNCHANGED bHost
     ELSE /\ bState' = "0" /\ bReq' = NoReq /\ fwcfg_cb("up")
          /\ bCur' = 0 /\ bEnd' = 0 /\ bTot' = 0 /\ bLast' = 0 /\ UNCHANGED bHost

\* The speed that the controller takes from UPDATE_BAUDRATE: it knows its codes,
\* those that baudrates[] lacks included, and keeps its speed for the value 0.
ControllerSpeed(code) ==
  CASE code \in Codes -> Baudrates[code] [] code = "none" -> bCtl.speed [] OTHER -> 0

\* The controller executes the command: its bytes must continue the image.
Receive ==
  bCtl' = [bCtl EXCEPT !.cmds = @ + 1,
             !.speed = IF bReq.op = "BAUDRATE" THEN ControllerSpeed(bFiles.config.speed) ELSE @,
             !.got = @ + bReq.len,
             !.bad = @ \/ (bReq.len > 0 /\ (bReq.off # bCtl.got \/ bReq.off + bReq.len > bLen)),
             !.last = @ \/ bReq.idx >= Flag]

\* rtk_get_lmp_cback: an 8723a has no ROM version to ask for (rtk_get_eversion).
rtk_get_lmp_cback ==
  /\ bReq.op = "READ_LMP" /\ bChip.readable /\ Receive
  /\ IF bChip.lmp = "8723a"
     THEN bAlarm' = "none" /\ UNCHANGED bEver /\ ConfigStart(bEver)
     ELSE /\ bAlarm' = "eversion" /\ bReq' = Cmd("READ_EVERSION")
          /\ UNCHANGED <<bApi, bState, bNeed, bEver, bIndex, bHost, bReports>>
  /\ UNCHANGED <<bChip, bFiles, bLpm, bSession>>

\* An error status: the alarm is off and nothing goes on.
LmpError ==
  /\ bReq.op = "READ_LMP" /\ ~bChip.readable /\ Receive
  /\ bAlarm' = "none" /\ bReq' = NoReq
  /\ UNCHANGED <<bApi, bChip, bFiles, bState, bNeed, bEver, bIndex, bHost, bLpm, bReports, bSession>>

\* The ROM version is there: status 1 means the first one, another error keeps
\* the last one.
EversionEvent ==
  LET ever == CASE bChip.status = 0 -> bChip.ever [] bChip.status = 1 -> 0 [] OTHER -> bEver IN
  /\ bReq.op = "READ_EVERSION" /\ Receive /\ bAlarm' = "none" /\ bEver' = ever
  /\ ConfigStart(ever)
  /\ UNCHANGED <<bChip, bFiles, bLpm, bSession>>

-----------------------------------------------------------------------------
(* hw_config_cback in the later states. *)

\* hw_config_cback without a buffer for the next command: it fails before it looks
\* at its state, so that the alarm for the ROM version stays armed.
NoBuffer ==
  /\ \/ bReq.op \in {"READ_EVERSION", "BAUDRATE", "DOWNLOAD"}
     \/ bReq.op = "READ_LMP" /\ bChip.readable /\ bChip.lmp = "8723a"
  /\ bReq.op = "DOWNLOAD" => bHost.speed = bCtl.speed
  /\ Receive
  /\ bAlarm' = IF bReq.op = "READ_LMP" THEN "none" ELSE bAlarm
  /\ bState' = "0" /\ bReq' = NoReq /\ fwcfg_cb("failed")
  /\ UNCHANGED <<bChip, bFiles, bNeed, bEver, bIndex, bHost, bLpm, bSession>>

\* Mutant: the download goes on at the old speed.
HostKeepsSpeed == bHost.speed

\* The conversions fall back to 115200 for what they do not know.
rtk_speed_to_uart_speed(code) == IF code \in Codes THEN Baudrates[code] ELSE DefaultSpeed
line_speed_to_userial_baud(speed) == IF speed \in UserialSpeeds THEN speed ELSE DefaultSpeed
userial_to_tcio_baud(baud) == IF baud \in UserialSpeeds THEN baud ELSE DefaultSpeed

HostSpeed ==
  userial_to_tcio_baud(line_speed_to_userial_baud(rtk_speed_to_uart_speed(bFiles.config.speed)))

\* userial_vendor_set_baud.
SetBaud(speed) == [bHost EXCEPT !.speed = speed]

\* HW_CFG_SET_UART_BAUD_HOST: the controller has changed its speed; so does the
\* host, and the first packet goes out.
BaudrateEvent ==
  /\ bReq.op = "BAUDRATE" /\ Receive
  /\ SendPacket(0, bEnd, bTot, bLast, bOff, SetBaud(HostSpeed))
  /\ UNCHANGED <<bChip, bFiles, bNeed, bEver, bAlarm, bLen, bEnd, bTot, bLast, bOff, bLpm, bSession>>

\* Mutant: the last data packet repeats the one before it.
AdvanceOne(cur) == IF cur < bEnd - 1 THEN bOff + Field ELSE bOff

\* bufpatch after the event of packet cur.
Advance(cur) == IF cur < bEnd THEN bOff + Field ELSE bOff

\* HW_CFG_DL_FW_PATCH: the event carries the packet's index.  The controller answers
\* only what it can read.
DownloadEvent ==
  /\ bReq.op = "DOWNLOAD" /\ bHost.speed = bCtl.speed /\ Receive
  /\ bOff' = Advance(bCur)
  /\ IF bReq.idx >= Flag \/ bReq.idx = bTot
     THEN /\ bState' = "0" /\ bReq' = NoReq /\ fwcfg_cb("up")
          /\ bCur' = (bCur + 1) % 256 /\ UNCHANGED bHost
     ELSE SendPacket((bCur + 1) % 256, bEnd, bTot, bLast, Advance(bCur), bHost)
  /\ UNCHANGED <<bChip, bFiles, bNeed, bEver, bAlarm, bLen, bEnd, bTot, bLast, bLpm, bSession>>

BNext ==
  \/ VendorInit \/ PowerOn \/ PowerOff \/ Cleanup
  \/ \E ok \in BOOLEAN : UserialOpen(ok) \/ hw_config_start(ok)
  \/ \E on, ok \in BOOLEAN : LpmMode(on, ok)
  \/ rtk_get_lmp \/ VersionTimeout \/ rtk_get_lmp_cback \/ LmpError \/ EversionEvent
  \/ BaudrateEvent \/ DownloadEvent \/ NoBuffer

\* The link comes up, the alarm rings, and the controller answers the commands
\* that no alarm guards; it may leave the questions for its versions open.
BFair ==
  WF_bVars(rtk_get_lmp) /\ WF_bVars(VersionTimeout)
    /\ WF_bVars(BaudrateEvent) /\ WF_bVars(DownloadEvent)

BSpec == BInit /\ [][BNext]_bVars /\ BFair

-----------------------------------------------------------------------------
\* When the controller has the packet marked as the last one, it has every byte
\* of patch and configuration once and in order, whatever the length is to the
\* packet size and however many padding packets follow.
FirmwareWhole == bCtl.last => bCtl.got = bLen /\ ~bCtl.bad

\* UPDATE_BAUDRATE is sent whenever there is a configuration file, but counted in
\* the padding only when the file holds a speed.
Uncounted == IF bFiles.config.len # 0 /\ bFiles.config.speed = "none" THEN 1 ELSE 0

\* The controller then has received its commands in eights, and one more if the
\* file holds no speed: the padding counts what else was sent before the download
\* on every path through the callbacks.
CommandsInEights == bCtl.last => bCtl.cmds % 8 = Uncounted

\* The codes for which the host falls back to 115200 and the controller does not:
\* 3500000, which baudrates[] has and the UART code lacks, and codes without entry.
FallbackCodes == {"7001", "52A6001", "other"}

\* While a packet is on the way both ends of the UART have the same speed, for
\* every speed but those of FallbackCodes.
SpeedsAgree ==
  bReq.op = "DOWNLOAD" =>
    bHost.speed = bCtl.speed \/ bFiles.config.speed \in FallbackCodes

\* After fwcfg_cb the controller belongs to the stack: a version that arrives
\* after its alarm starts neither a change of the speed nor a download.
QuietAfterReport == bReports > 0 => bReq.op \notin {"BAUDRATE", "DOWNLOAD"}

\* Every configuration that was started is reported to the stack.  Two are not: a
\* controller that answers READ_LMP with an error, and one that the download does
\* not reach because the host fell back to another speed.
ConfigReported ==
  (bApi = "asked" /\ bChip.readable /\ bFiles.config.speed \notin FallbackCodes)
    ~> (bApi # "asked")

=============================================================================
