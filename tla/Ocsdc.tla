------------------------------- MODULE Ocsdc -------------------------------
(***************************************************************************)
(* The driver ocsdc.c on the registers of the SD controller it drives.     *)
(* The controller is modelled from its RTL (sd_controller_wb, sd_cmd_      *)
(* master, sd_data_xfer_trig, sd_data_master and the two serial hosts).    *)
(* The driver polls; the controller and the card run beside it.            *)
(***************************************************************************)
EXTENDS Integers, Sequences, DataPath

CONSTANTS
  Commands,   \* the commands sent: see Command
  Dsts,       \* buffers
  Blks,       \* blocks of the card
  MaxBlocks   \* blocks of the longest transfer

(* struct mmc_cmd with its struct mmc_data: the direction, whether a       *)
(* response is expected (MMC_RSP_PRESENT) and the card may be busy after   *)
(* it (MMC_RSP_BUSY), the transfer, and the block that is asked for.       *)
Command ==
  [op : {"none", "read", "write"}, rsp : BOOLEAN, busy : BOOLEAN,
   xfer : [n : 1 .. MaxBlocks, dst : Dsts], blk : Blks]

ASSUME OcsdcAssumption ==
  /\ MaxBlocks \in Nat \ {0}
  /\ Commands \subseteq Command

VARIABLES
  pc,      \* where the driver is: idle, argument, finish or data_finish
  cmd,     \* cmd and data of the call, as the registers hold them
  ret,     \* what ocsdc_send_cmd returned last
  start,   \* cmd_start, on its way to the clock of the card
  cm,      \* sd_cmd_master: state and int_status_reg
  dm,      \* sd_data_master and its serial host
  card,    \* external: what the card does about the command
  dat,     \* external: the blocks on the data lines
  mem,     \* the buffers
  entry,   \* history: the data path when the call began
  good     \* history: the last call was ok and a read filled its buffer

driverVars == <<pc, cmd, ret, entry, good>>
controllerVars == <<start, cm, dm>>
cardVars == <<card, dat>>
vars == <<driverVars, controllerVars, cardVars, mem>>

(* What a buffer holds: block i of a transfer that starts at block blk, or *)
(* anything else.                                                          *)
Unit(b, i) == [blk |-> b, i |-> i]
Other == [blk |-> "other", i |-> 0]
Content == {Unit(b, i) : b \in Blks, i \in 1 .. MaxBlocks} \cup {Other}

(* OCSDC_CMD_INT_STATUS: sd_cmd_master shows its status in IDLE only.      *)
CmdIntStatus == IF cm.st = "IDLE" THEN cm.isr ELSE {}

(* sd_data_master back in IDLE, its status being isr.                      *)
DataIdle(isr) == [dm EXCEPT !.st = "IDLE", !.isr = isr, !.k = 1]

(* The data path, as a call finds it.                                      *)
PathNow ==
  IF dm.st = "IDLE" /\ dm.isr = {} /\ dat = <<>> THEN Clean
  ELSE IF dm.st = "RX" /\ dm.isr = {} /\ dm.k = 1 /\ dat = <<>> THEN Armed(dm.xfer)
  ELSE Dirty

Init ==
  /\ pc = "idle" /\ cmd \in Commands /\ ret = "ok"
  /\ start = FALSE
  /\ cm = [st |-> "IDLE", isr |-> {}]
  /\ dm = [st |-> "IDLE", isr |-> {}, xfer |-> cmd.xfer, k |-> 1]
  /\ card = "idle" /\ dat = <<>>
  /\ mem = [d \in Dsts |-> [i \in 1 .. MaxBlocks |-> Other]]
  /\ entry = Clean /\ good = TRUE

-----------------------------------------------------------------------------
(* The driver.                                                             *)

(* ocsdc_send_cmd up to the COMMAND register, ocsdc_setup_data_xfer with   *)
(* it: registers are only read again when a start pulse reaches the        *)
(* controller.                                                             *)
SendCmd(m) ==
  /\ pc = "idle"
  /\ pc' = "argument"
  /\ cmd' = m
  /\ entry' = PathNow
  /\ UNCHANGED <<ret, good, controllerVars, cardVars, mem>>

(* Writing ARGUMENT starts the command.                                    *)
WriteArgument ==
  /\ pc = "argument"
  /\ pc' = "finish"
  /\ start' = TRUE
  /\ UNCHANGED <<cmd, ret, entry, good, cm, dm, cardVars, mem>>

(* A read has filled its own buffer with what it asked for.                *)
Delivered ==
  cmd.op = "read" => \A i \in 1 .. cmd.xfer.n : mem[cmd.xfer.dst][i] = Unit(cmd.blk, i)

Return(r) ==
  /\ pc' = "idle"
  /\ ret' = r
  /\ good' = (r = "ok" /\ Delivered)
  /\ entry' = Clean
  /\ cmd' = cmd

(* Mutant of FinishError: the error bits are not cleared.                   *)
FinishErrorKeepsStatus ==
  /\ pc = "finish"
  /\ "EI" \in CmdIntStatus
  /\ Return("err")
  /\ UNCHANGED <<controllerVars, cardVars, mem>>

(* ocsdc_finish: EI is tested first, and a failed command is not followed  *)
(* by a look at the data status.                                           *)
FinishError ==
  /\ pc = "finish"
  /\ "EI" \in CmdIntStatus
  /\ cm' = [cm EXCEPT !.isr = {}]
  /\ Return("err")
  /\ UNCHANGED <<start, dm, cardVars, mem>>

FinishComplete ==
  /\ pc = "finish"
  /\ "EI" \notin CmdIntStatus /\ "CC" \in CmdIntStatus
  /\ cm' = [cm EXCEPT !.isr = {}]
  /\ IF cmd.op = "none"
       THEN Return("ok")
       ELSE pc' = "data_finish" /\ UNCHANGED <<cmd, ret, entry, good>>
  /\ UNCHANGED <<start, dm, cardVars, mem>>

(* Mutant of DataFinish: the data status is not cleared.                    *)
DataFinishKeepsStatus ==
  /\ pc = "data_finish"
  /\ dm.isr # {}
  /\ Return(IF "CC" \in dm.isr THEN "ok" ELSE "err")
  /\ UNCHANGED <<controllerVars, cardVars, mem>>

(* ocsdc_data_finish: the first data status that is not 0 is taken for the *)
(* status of this transfer.                                                *)
DataFinish ==
  /\ pc = "data_finish"
  /\ dm.isr # {}
  /\ dm' = [dm EXCEPT !.isr = {}]
  /\ Return(IF "CC" \in dm.isr THEN "ok" ELSE "err")
  /\ UNCHANGED <<start, cm, cardVars, mem>>

(* ocsdc_set_clock and ocsdc_init: the software reset.                     *)
SetClock ==
  /\ pc = "idle"
  /\ start' = FALSE
  /\ cm' = [st |-> "IDLE", isr |-> {}]
  /\ dm' = DataIdle({})
  /\ UNCHANGED <<driverVars, cardVars, mem>>

-----------------------------------------------------------------------------
(* The controller.                                                         *)

(* sd_cmd_master leaves IDLE on the start pulse, and only there; for a     *)
(* read sd_data_xfer_trig arms the receiver at once, if sd_data_master is  *)
(* in IDLE. Nothing clears the data status.                                *)
CmdStart ==
  /\ start
  /\ start' = FALSE
  /\ IF cm.st = "IDLE"
       THEN /\ cm' = [st |-> "EXECUTE", isr |-> {}]
            /\ card' = "waiting"
       ELSE UNCHANGED <<cm, card>>
  /\ dm' = IF cmd.op = "read" /\ dm.st = "IDLE"
              THEN [dm EXCEPT !.st = "RX", !.xfer = cmd.xfer, !.k = 1]
              ELSE dm
  /\ UNCHANGED <<driverVars, dat, mem>>

(* A write is started by CC, shown in IDLE, damaged response or not.       *)
DataAfter(st, isr) ==
  IF st = "IDLE" /\ "CC" \in isr /\ cmd.op = "write" /\ dm.st = "IDLE"
    THEN [dm EXCEPT !.st = "TX"] ELSE dm

EndCommand(st, isr) ==
  /\ cm' = [st |-> st, isr |-> isr]
  /\ dm' = DataAfter(st, isr)

CmdResponse ==
  /\ cm.st = "EXECUTE"
  /\ card \in (IF cmd.rsp THEN {"ok", "bad"} ELSE {"none"})
  /\ card' = "idle"
  /\ EndCommand(IF cmd.busy THEN "BUSY_CHECK" ELSE "IDLE",
                IF card = "bad" THEN {"CC", "EI"} ELSE {"CC"})
  /\ UNCHANGED <<driverVars, start, dat, mem>>

(* Mutant of CmdTimeout: go_idle_o is missing.                              *)
CmdTimeoutStays ==
  /\ cm.st = "EXECUTE"
  /\ cmd.rsp /\ card = "none"
  /\ card' = "idle"
  /\ EndCommand("EXECUTE", {"EI"})
  /\ UNCHANGED <<driverVars, start, dat, mem>>

(* The watchdog, OCSDC_TIMEOUT.                                            *)
CmdTimeout ==
  /\ cm.st = "EXECUTE"
  /\ cmd.rsp /\ card = "none"
  /\ card' = "idle"
  /\ EndCommand("IDLE", {"EI"})
  /\ UNCHANGED <<driverVars, start, dat, mem>>

BusyEnd ==
  /\ cm.st = "BUSY_CHECK"
  /\ EndCommand("IDLE", cm.isr)
  /\ UNCHANGED <<driverVars, start, cardVars, mem>>

(* Mutant of DataIn: one block too many.                                    *)
DataInOneMore(damaged) ==
  /\ dat # <<>>
  /\ dat' = Tail(dat)
  /\ IF dm.st = "RX"
       THEN /\ mem' = [mem EXCEPT ![dm.xfer.dst][dm.k] =
                          IF damaged THEN Other ELSE Head(dat)]
            /\ dm' = IF damaged THEN DataIdle(dm.isr \cup {"EI"})
                     ELSE IF dm.k > dm.xfer.n THEN DataIdle(dm.isr \cup {"CC"})
                     ELSE [dm EXCEPT !.k = @ + 1]
       ELSE UNCHANGED <<dm, mem>>
  /\ UNCHANGED <<driverVars, start, cm, card>>

(* A block comes in. With a damaged block the serial host stops; blocks    *)
(* that find no receiver are lost.                                         *)
DataIn(damaged) ==
  /\ dat # <<>>
  /\ dat' = Tail(dat)
  /\ IF dm.st = "RX"
       THEN /\ mem' = [mem EXCEPT ![dm.xfer.dst][dm.k] =
                          IF damaged THEN Other ELSE Head(dat)]
            /\ dm' = IF damaged THEN DataIdle(dm.isr \cup {"EI"})
                     ELSE IF dm.k = dm.xfer.n THEN DataIdle(dm.isr \cup {"CC"})
                     ELSE [dm EXCEPT !.k = @ + 1]
       ELSE UNCHANGED <<dm, mem>>
  /\ UNCHANGED <<driverVars, start, cm, card>>

(* A write ends, with the CRC status of its last block.                    *)
DataOut(damaged) ==
  /\ dm.st = "TX"
  /\ dm' = DataIdle(dm.isr \cup (IF damaged THEN {"EI"} ELSE {"CC"}))
  /\ UNCHANGED <<driverVars, start, cm, cardVars, mem>>

-----------------------------------------------------------------------------
(* The card and the lines.                                                 *)

Blocks(m) == [i \in 1 .. m.xfer.n |-> Unit(m.blk, i)]

(* The card gets the command and answers, or not; a response may be        *)
(* damaged or lost on the way. A read may yield fewer blocks than asked    *)
(* for, and is refused (not answered) while data are on the lines; a       *)
(* command without data may be the one that stops them. Blocks beyond the  *)
(* n asked for find no receiver, and are left out.                         *)
CardGetsCommand ==
  /\ card = "waiting"
  /\ card' \in (IF cmd.rsp THEN {"ok", "bad", "none"} ELSE {"none"})
  /\ CASE cmd.op = "none" -> dat' \in {dat, <<>>}
       [] cmd.op = "write" -> dat' = dat
       [] cmd.op = "read" /\ dat = <<>> ->
            \E n \in 0 .. cmd.xfer.n : dat' = SubSeq(Blocks(cmd), 1, n)
       [] OTHER -> dat' = dat /\ card' = "none"
  /\ UNCHANGED <<driverVars, controllerVars, mem>>

(* The command is lost, or illegal in the state the card is in.            *)
CardIgnoresCommand ==
  /\ card = "waiting"
  /\ card' = "none"
  /\ UNCHANGED <<dat, driverVars, controllerVars, mem>>

-----------------------------------------------------------------------------
Driver == WriteArgument \/ FinishError \/ FinishComplete \/ DataFinish

Controller == CmdStart \/ CmdResponse \/ CmdTimeout \/ BusyEnd

Card == CardGetsCommand \/ CardIgnoresCommand

Next ==
  \/ \E m \in Commands : SendCmd(m)
  \/ SetClock
  \/ WriteArgument \/ FinishError \/ FinishComplete \/ DataFinish
  \/ CmdStart \/ CmdResponse \/ CmdTimeout \/ BusyEnd
  \/ \E damaged \in BOOLEAN : DataIn(damaged) \/ DataOut(damaged)
  \/ CardGetsCommand \/ CardIgnoresCommand

Spec == Init /\ [][Next]_vars

(* The driver polls, the controller is clocked, and the card does one      *)
(* thing or the other about a command, and ends its busy state in time.    *)
Fairness == WF_vars(Driver) /\ WF_vars(Controller) /\ WF_vars(Card)

FairSpec == Spec /\ Fairness

-----------------------------------------------------------------------------
(* Properties.                                                             *)

TypeOK ==
  /\ pc \in {"idle", "argument", "finish", "data_finish"}
  /\ cmd \in Commands
  /\ ret \in {"ok", "err"}
  /\ start \in BOOLEAN
  /\ cm \in [st : {"IDLE", "EXECUTE", "BUSY_CHECK"}, isr : SUBSET {"CC", "EI"}]
  /\ dm \in [st : {"IDLE", "RX", "TX"}, isr : SUBSET {"CC", "EI"},
             xfer : [n : 1 .. MaxBlocks, dst : Dsts], k : 1 .. MaxBlocks]
  /\ dm.k <= dm.xfer.n
  /\ card \in {"idle", "waiting", "ok", "bad", "none"}
  /\ dat \in Seq(Content)
  /\ mem \in [Dsts -> [1 .. MaxBlocks -> Content]]
  /\ good \in BOOLEAN

(* The start pulse reaches sd_cmd_master in IDLE with no status pending:   *)
(* no command is lost because the one before it is still being executed,   *)
(* and none is taken for complete by the status of the one before it.      *)
StartNeverLost ==
  start => pc = "finish" /\ cm = [st |-> "IDLE", isr |-> {}]

(* Whatever happens on the lines, ocsdc_finish leaves its loop: a command  *)
(* that is sent ends with CC, or with EI by the watchdog.                  *)
CommandTransactionEnds ==
  pc \in {"argument", "finish"} ~> pc \in {"idle", "data_finish"}

(* The driver on its controller keeps what DataPath promises of send_cmd.  *)
S == INSTANCE SendCmd WITH
       call <- IF pc = "idle" THEN [op |-> "no call"] ELSE cmd,
       path <- IF pc = "idle" THEN PathNow ELSE entry

ImplementsSendCmd == S!Spec

(* "mmc_bread success" (sdc_example.c:113): a read that is reported as a   *)
(* success has filled the buffer with the blocks that were asked for.      *)
OkMeansDelivered == (pc = "idle" /\ ret = "ok") => good
=============================================================================
