-------------------------------- MODULE Mmc --------------------------------
(***************************************************************************)
(* The card driver mmc.c: mmc_init and mmc_bread, over a send_cmd that     *)
(* keeps the promise of DataPath, with an SDCard behind it. One action per *)
(* place a command is sent from: it sends the command, takes the result    *)
(* and goes on to where the next command is sent.                          *)
(*                                                                         *)
(* Not modelled: clock rates (tran_speed, f_min, f_max), the fields that   *)
(* are only printed or not used (cid, ocr, erase_grp_size, part_config,    *)
(* write_bl_len) and the error bits of an R1 response, which mmc.c looks   *)
(* at in mmc_send_status only.                                             *)
(***************************************************************************)
EXTENDS SDCard, FiniteSets, DataPath

CONSTANTS
  Cards,            \* cards there may be
  Hosts,            \* send_cmd: does it return TIMEOUT; and host_caps
  Starts, Counts,   \* arguments of mmc_bread
  Buffers,
  BL,               \* read_bl_len
  BMax,             \* b_max
  W,                \* 2^32: size_t wraps here
  OpCondTries, MmcOpCondTries, StatusTries, StatusRetries, ScrTries, SwitchTries,
  MaxFaults         \* faults on the lines in a behaviour

ASSUME MmcAssumption ==
  /\ \A n \in {BL, BMax, W, SwitchTries} : n \in Nat \ {0}
  /\ \A n \in {OpCondTries, MmcOpCondTries, StatusTries, StatusRetries, ScrTries, MaxFaults} :
       n \in Nat
  /\ BL < W
  /\ Starts \subseteq 0 .. W - 1 /\ Counts \subseteq 0 .. W - 1

(* A block is addressed with 32 bits.                                      *)
ASSUME CardAssumption ==
  \A c \in Cards : /\ c \in CardRecords(1 .. W - 1)
                   /\ c.hc => c.std \in {"SD_2", "MMC_4"}

ASSUME HostAssumption ==
  \A h \in Hosts : h \in [timeouts : BOOLEAN, caps : SUBSET {"4BIT", "8BIT", "HS", "HS_52MHz"}]

VARIABLES
  pc,     \* the command to be sent next, "client" or "hung"
  mmc,    \* struct mmc
  loc,    \* locals that live across a command
  req,    \* locals of mmc_bread
  ret,    \* what mmc_init returned, or the blocks mmc_bread did
  bus,    \* the card, the data path, and the faults left
  host,   \* the host controller
  cond,   \* history: what the operating condition of the card came to
  right   \* history: the blocks read so far are the ones asked for

vars == <<pc, mmc, loc, req, ret, bus, host, cond, right>>

IsSd(v) == v \in SdVersions
Versions == SdVersions \cup {"none", "MMC_UNKNOWN", "MMC_3", "MMC_4"}

Errors == {"err", "TIMEOUT", "UNUSABLE_ERR", "COMM_ERR"}

NoLocals ==
  [timeout |-> 0, retries |-> 0, err |-> "ok", after |-> "csd", width |-> 0,
   ext_csd |-> FALSE, hs52 |-> FALSE]
NoRequest ==
  [start |-> 0, todo |-> 0, off |-> 0, first |-> 0, dst |-> "none", path |-> Clean]

Init ==
  /\ pc = "client"
  /\ mmc = [version |-> "none", high_capacity |-> FALSE, rca |-> 0, card_caps |-> {},
            bus_width |-> 1, capacity |-> 0, has_init |-> FALSE]
  /\ loc = NoLocals
  /\ req = NoRequest
  /\ ret = "ok"
  /\ host \in Hosts
  /\ \E c \in Cards : bus = [card |-> PoweredUp(c), path |-> Clean, faults |-> MaxFaults]
  /\ cond = "ok" /\ right = TRUE

-----------------------------------------------------------------------------
(* mmc_send_cmd, and what may come of it.                                  *)

Plain(idx, arg) == [idx |-> idx, arg |-> arg, op |-> "none"]
Read(idx, arg, n, dst, off) ==
  [idx |-> idx, arg |-> arg, op |-> "read", xfer |-> [n |-> n, dst |-> dst, off |-> off]]

(* What happens to the command and its response: both get through; the     *)
(* command is lost; the response is lost or damaged. The host waits for no *)
(* response to GO_IDLE_STATE.                                              *)
Exchanges(m) ==
  LET c == bus.card
      quiet == m.idx = GO_IDLE_STATE
      taken == IF Legal(c, m) THEN Effects(c, m) ELSE {[c EXCEPT !.app = FALSE]}
  IN {[card |-> d, heard |-> quiet \/ Legal(c, m), faults |-> bus.faults] : d \in taken}
     \cup
     IF bus.faults = 0 THEN {}
     ELSE {[card |-> d, heard |-> quiet, faults |-> bus.faults - 1] : d \in taken \cup {c}}

(* The receiver will take the data for this read and nothing else.         *)
Own(m) == bus.path \in {Clean, Armed(m.xfer)}

(* Data can only arrive whole when host and card use as many lines.        *)
SameWidth == mmc.bus_width = bus.card.width

(* Own data fail for a fault or for the width, and arrive if the card has  *)
(* them.                                                                   *)
Possible(m, e, o) ==
  (m.op = "read" /\ e.heard /\ Own(m)) =>
    IF o.ret = "ok" THEN SameWidth /\ OnCard(bus.card, m, BL)
                    ELSE ~SameWidth \/ e.faults > 0

FaultsAfter(m, e, o) ==
  IF m.op = "read" /\ e.heard /\ Own(m) /\ o.ret = "err" /\ SameWidth
    THEN e.faults - 1 ELSE e.faults

(* A transfer armed by some earlier command, which no command waits for.   *)
Foreign == [n |-> 0, dst |-> "foreign", off |-> 0]

(* The results of mmc_send_cmd(m), with the bus as it is after it. A       *)
(* response that does not come, or comes damaged, is an error, TIMEOUT in  *)
(* the first case if the host says so.                                     *)
mmc_send_cmd(m) ==
  LET result(e, o) ==
        IF o.ret = "ok" THEN {"ok"}
        ELSE IF e.heard THEN {"err"}
        ELSE (IF host.timeouts THEN {"TIMEOUT"} ELSE {"err"})
             \cup (IF e.faults < bus.faults THEN {"err"} ELSE {})
  IN UNION {UNION {{[err |-> r, good |-> o.good,
                     bus |-> [card |-> e.card, path |-> o.path,
                              faults |-> FaultsAfter(m, e, o)]] : r \in result(e, o)} :
                   o \in {p \in Outcomes(bus.path, m, e.heard, {Foreign}) : Possible(m, e, p)}} :
            e \in Exchanges(m)}

(* mmc_set_bus_width and mmc_set_clock end in ocsdc_set_clock, the software *)
(* reset.                                                                  *)
mmc_set_ios(b) == {[b EXCEPT !.path = p] : p \in AfterReset(b.path)}

-----------------------------------------------------------------------------
(* Ways out of a step.                                                     *)

Keep == UNCHANGED <<host, req, right>>

Goto(p) == pc' = p /\ UNCHANGED ret

(* mmc_init returns e before mmc_startup: has_init is left alone.          *)
InitReturns(e) == pc' = "client" /\ ret' = e /\ loc' = NoLocals

(* mmc_startup returns e to mmc_init.                                      *)
StartupFails(e) ==
  /\ InitReturns(e)
  /\ mmc' = [mmc EXCEPT !.has_init = FALSE]
  /\ UNCHANGED cond

(* The end of mmc_startup, from b: set_clock, and mmc_init returns 0.      *)
StartupEnds(m, b) ==
  /\ InitReturns("ok")
  /\ mmc' = [m EXCEPT !.has_init = TRUE]
  /\ bus' \in mmc_set_ios(b)
  /\ UNCHANGED cond

(* mmc_init, before its first command: init of the host, bus width 1.      *)
mmc_init ==
  /\ pc = "client"
  /\ IF mmc.has_init
       THEN ret' = "ok" /\ UNCHANGED <<pc, mmc, bus>>
       ELSE /\ Goto("go_idle")
            /\ mmc' = [mmc EXCEPT !.bus_width = 1]
            /\ bus' \in mmc_set_ios(bus)
  /\ UNCHANGED <<loc, cond>> /\ Keep

mmc_go_idle ==
  /\ pc = "go_idle"
  /\ \E x \in mmc_send_cmd(Plain(GO_IDLE_STATE, 0)) :
       /\ bus' = x.bus
       /\ IF x.err # "ok" THEN InitReturns(x.err) ELSE Goto("if_cond") /\ UNCHANGED loc
  /\ UNCHANGED <<mmc, cond>> /\ Keep

(* mmc_init does not look at the result of mmc_send_if_cond.               *)
mmc_send_if_cond ==
  /\ pc = "if_cond"
  /\ \E x \in mmc_send_cmd(Plain(SEND_IF_COND, 0)) :
       /\ bus' = x.bus
       /\ mmc' = IF x.err = "ok" THEN [mmc EXCEPT !.version = "SD_2"] ELSE mmc
  /\ loc' = [loc EXCEPT !.timeout = OpCondTries]
  /\ Goto("app_op_cond")
  /\ UNCHANGED cond /\ Keep

(* sd_send_op_cond returned e # 0: only a TIMEOUT leads on to              *)
(* mmc_send_op_cond, any other error to mmc_startup all the same.          *)
SdOpCondFails(e) ==
  /\ cond' = e
  /\ Goto(IF e = "TIMEOUT" THEN "mmc_go_idle" ELSE "all_send_cid")
  /\ UNCHANGED <<mmc, loc>>

(* sd_send_op_cond: APP_CMD.                                               *)
sd_send_op_cond_app ==
  /\ pc = "app_op_cond"
  /\ \E x \in mmc_send_cmd(Plain(APP_CMD, 0)) :
       /\ bus' = x.bus
       /\ IF x.err # "ok" THEN SdOpCondFails(x.err)
          ELSE Goto("op_cond") /\ UNCHANGED <<mmc, loc, cond>>
  /\ Keep

(* The operating condition is there: version v, OCR_HCS of the card.       *)
OpCondDone(v, card) ==
  /\ mmc' = [mmc EXCEPT !.version = v, !.high_capacity = card.hc, !.rca = 0]
  /\ cond' = "ok"
  /\ Goto("all_send_cid")
  /\ UNCHANGED loc

(* sd_send_op_cond: APP_SEND_OP_COND, until the card is ready. The loop    *)
(* leaves timeout at -1 when the tries are used up, and at 0 when the card *)
(* was ready at the last of them.                                          *)
sd_send_op_cond ==
  /\ pc = "op_cond"
  /\ \E x \in mmc_send_cmd(Plain(APP_SEND_OP_COND, IF mmc.version = "SD_2" THEN 2 ELSE 1)) :
       /\ bus' = x.bus
       /\ CASE x.err # "ok" -> SdOpCondFails(x.err)
            [] x.err = "ok" /\ loc.timeout = 0 -> SdOpCondFails("UNUSABLE_ERR")
            [] x.err = "ok" /\ loc.timeout > 0 /\ x.bus.card.state = "ready" ->
                 OpCondDone(IF mmc.version = "SD_2" THEN "SD_2" ELSE "SD_1_0", x.bus.card)
            [] OTHER ->
                 /\ loc' = [loc EXCEPT !.timeout = @ - 1]
                 /\ Goto("app_op_cond")
                 /\ UNCHANGED <<mmc, cond>>
  /\ Keep

(* mmc_send_op_cond: its mmc_go_idle, whose result is not looked at.       *)
mmc_send_op_cond_idle ==
  /\ pc = "mmc_go_idle"
  /\ \E x \in mmc_send_cmd(Plain(GO_IDLE_STATE, 0)) : bus' = x.bus
  /\ Goto("mmc_ask_op_cond")
  /\ UNCHANGED <<mmc, loc, cond>> /\ Keep

(* mmc_send_op_cond: asking the card its capabilities.                     *)
mmc_send_op_cond_ask ==
  /\ pc = "mmc_ask_op_cond"
  /\ \E x \in mmc_send_cmd(Plain(SEND_OP_COND, 0)) :
       /\ bus' = x.bus
       /\ IF x.err # "ok" THEN InitReturns("UNUSABLE_ERR")
          ELSE Goto("mmc_op_cond") /\ loc' = [loc EXCEPT !.timeout = MmcOpCondTries]
  /\ UNCHANGED <<mmc, cond>> /\ Keep

mmc_send_op_cond ==
  /\ pc = "mmc_op_cond"
  /\ \E x \in mmc_send_cmd(Plain(SEND_OP_COND, 1)) :
       /\ bus' = x.bus
       /\ CASE x.err # "ok" \/ loc.timeout = 0 ->
                 InitReturns("UNUSABLE_ERR") /\ UNCHANGED <<mmc, cond>>
            [] x.err = "ok" /\ loc.timeout > 0 /\ x.bus.card.state = "ready" ->
                 OpCondDone("MMC_UNKNOWN", x.bus.card)
            [] OTHER ->
                 /\ loc' = [loc EXCEPT !.timeout = @ - 1]
                 /\ Goto("mmc_op_cond")
                 /\ UNCHANGED <<mmc, cond>>
  /\ Keep

-----------------------------------------------------------------------------
(* mmc_startup.                                                            *)

all_send_cid ==
  /\ pc = "all_send_cid"
  /\ \E x \in mmc_send_cmd(Plain(ALL_SEND_CID, 0)) :
       /\ bus' = x.bus
       /\ IF x.err # "ok" THEN StartupFails(x.err)
          ELSE Goto("relative_addr") /\ UNCHANGED <<mmc, loc, cond>>
  /\ Keep

send_relative_addr ==
  /\ pc = "relative_addr"
  /\ \E x \in mmc_send_cmd(Plain(SEND_RELATIVE_ADDR, mmc.rca)) :
       /\ bus' = x.bus
       /\ IF x.err # "ok" THEN StartupFails(x.err)
          ELSE /\ mmc' = IF IsSd(mmc.version) THEN [mmc EXCEPT !.rca = x.bus.card.rca] ELSE mmc
               /\ Goto("csd")
               /\ UNCHANGED <<loc, cond>>
  /\ Keep

(* The result of SEND_CSD waits for mmc_send_status.                       *)
send_csd ==
  /\ pc = "csd"
  /\ \E x \in mmc_send_cmd(Plain(SEND_CSD, mmc.rca)) :
       /\ bus' = x.bus
       /\ loc' = [loc EXCEPT !.err = x.err, !.after = "csd",
                             !.timeout = StatusTries, !.retries = StatusRetries]
  /\ Goto("status")
  /\ UNCHANGED <<mmc, cond>> /\ Keep

(* The size in bytes is a uint.                                            *)
Size == (bus.card.blocks * BL) % W

(* What csd says of it. For a high capacity MMC card, and for a csd that   *)
(* is read in the layout of the other kind of card, that is some number.   *)
Capacities ==
  IF mmc.high_capacity = bus.card.hc /\ (bus.card.hc => SdCard(bus.card))
    THEN {Size} ELSE {0, BL, W - BL}

VersionOfCsd == IF mmc.version = "MMC_UNKNOWN" THEN bus.card.std ELSE mmc.version

(* The csd is taken over, whatever mmc_send_status said.                   *)
TakeCsd ==
  IF loc.err # "ok" THEN StartupFails(loc.err)
  ELSE /\ \E cap \in Capacities :
            mmc' = [mmc EXCEPT !.version = VersionOfCsd, !.capacity = cap]
       /\ Goto("select")
       /\ UNCHANGED <<loc, cond>>

(* The end of sd_change_freq and mmc_change_freq, with struct mmc being m: *)
(* the capabilities of the host, and on to the bus width.                  *)
FreqDone(m, b) ==
  LET r == [m EXCEPT !.card_caps = @ \cap host.caps]
      widths == (IF "4BIT" \in host.caps THEN 1 ELSE 0) + (IF "8BIT" \in host.caps THEN 2 ELSE 0)
  IN IF IsSd(m.version) /\ "4BIT" \notin r.card_caps THEN StartupEnds(r, b)
     ELSE /\ mmc' = r /\ bus' = b
          /\ loc' = IF IsSd(m.version) THEN loc ELSE [loc EXCEPT !.width = widths]
          /\ Goto(IF IsSd(m.version) THEN "width_app" ELSE "width_switch")
          /\ UNCHANGED cond

(* sd_change_freq or mmc_change_freq begins; cards before version 4 have   *)
(* nothing to change.                                                      *)
ChangeFreq(b) ==
  LET m == [mmc EXCEPT !.card_caps = {}] IN
  IF IsSd(mmc.version)
    THEN /\ mmc' = m /\ bus' = b
         /\ Goto("scr_app")
         /\ UNCHANGED <<loc, cond>>
    ELSE FreqDone(m, b)

select_card ==
  /\ pc = "select"
  /\ \E x \in mmc_send_cmd(Plain(SELECT_CARD, mmc.rca)) :
       IF x.err # "ok" THEN StartupFails(x.err) /\ bus' = x.bus
       ELSE IF mmc.version = "MMC_4"
         THEN Goto("ext_csd") /\ bus' = x.bus /\ UNCHANGED <<mmc, loc, cond>>
         ELSE ChangeFreq(x.bus)
  /\ Keep

ExtCsd(dst) == Read(SEND_IF_COND, 0, 1, dst, 0)

(* What ext_csd makes of the size: it is believed from 2GB, half of W, on. *)
ExtCsdCapacities(x) ==
  IF x.err # "ok" THEN {mmc.capacity}
  ELSE IF x.good THEN {IF bus.card.hc /\ 2 * Size > W THEN Size ELSE mmc.capacity}
  ELSE {mmc.capacity, W - BL}

(* mmc_startup goes on without ext_csd when it cannot be read.             *)
startup_ext_csd ==
  /\ pc = "ext_csd"
  /\ \E x \in mmc_send_cmd(ExtCsd("ext_csd")) :
       /\ bus' = x.bus
       /\ loc' = [loc EXCEPT !.ext_csd = (x.err = "ok" /\ x.good)]
       /\ \E cap \in ExtCsdCapacities(x) :
            mmc' = [mmc EXCEPT !.capacity = cap, !.card_caps = {}]
  /\ Goto("hs_ext_csd")
  /\ UNCHANGED cond /\ Keep

-----------------------------------------------------------------------------
(* mmc_switch and mmc_send_status, and where they return to.               *)

(* Mutant of NextWidth: the same width again.                               *)
NextWidthSame(b) ==
  IF loc.width = 0 THEN StartupEnds(mmc, b)
  ELSE bus' = b /\ Goto("width_switch") /\ UNCHANGED <<mmc, loc, cond>>

(* The step of the width loop: continue with the next width, or leave.     *)
NextWidth(b) ==
  IF loc.width = 0 THEN StartupEnds(mmc, b)
  ELSE /\ bus' = b
       /\ loc' = [loc EXCEPT !.width = @ - 1]
       /\ Goto("width_switch")
       /\ UNCHANGED <<mmc, cond>>

WidthSwitched(r, b) ==
  IF r # "ok" THEN NextWidth(b)
  ELSE IF loc.width = 0 THEN StartupEnds([mmc EXCEPT !.bus_width = 1], b)
  ELSE /\ mmc' = [mmc EXCEPT !.bus_width = 4 * loc.width]
       /\ bus' \in mmc_set_ios(b)
       /\ Goto("width_check")
       /\ UNCHANGED <<loc, cond>>

HsSwitched(r, b) ==
  /\ bus' = b
  /\ IF r # "ok" THEN StartupFails(r)
     ELSE Goto("hs_check") /\ UNCHANGED <<mmc, loc, cond>>

(* mmc_switch, called from after, returns r.                               *)
SwitchReturns(after, r, b) ==
  CASE after = "hs" -> HsSwitched(r, b)
    [] after = "width" -> WidthSwitched(r, b)

(* mmc_send_status returns r.                                              *)
StatusReturns(r, b) ==
  IF loc.after = "csd" THEN TakeCsd /\ bus' = b ELSE SwitchReturns(loc.after, r, b)

(* The card is ready, busy, or reports an error. The tries are counted as  *)
(* in sd_send_op_cond, and failed commands apart from them.                *)
mmc_send_status ==
  /\ pc = "status"
  /\ \E x \in mmc_send_cmd(Plain(SEND_STATUS, mmc.rca)), answer \in {"ready", "busy", "error"} :
       LET again == [loc EXCEPT !.timeout = @ - 1,
                                !.retries = IF x.err = "ok" THEN @ ELSE @ - 1]
       IN CASE x.err = "ok" /\ answer = "ready" /\ loc.timeout > 0 -> StatusReturns("ok", x.bus)
            [] x.err = "ok" /\ answer = "error" -> StatusReturns("COMM_ERR", x.bus)
            [] x.err # "ok" /\ loc.retries = 0 -> StatusReturns(x.err, x.bus)
            [] OTHER ->
                 IF loc.timeout = 0 THEN StatusReturns("TIMEOUT", x.bus)
                 ELSE bus' = x.bus /\ loc' = again /\ Goto("status") /\ UNCHANGED <<mmc, cond>>
  /\ Keep

(* mmc_switch: the command, then mmc_send_status if it succeeded.          *)
mmc_switch(arg, after) ==
  \E x \in mmc_send_cmd(Plain(SWITCH, arg)) :
    IF x.err # "ok" THEN SwitchReturns(after, x.err, x.bus)
    ELSE /\ bus' = x.bus
         /\ loc' = [loc EXCEPT !.after = after,
                               !.timeout = StatusTries, !.retries = StatusRetries]
         /\ Goto("status")
         /\ UNCHANGED <<mmc, cond>>

-----------------------------------------------------------------------------
(* sd_change_freq.                                                         *)

(* Mutant of ScrVersions: version 1.0 cards are asked to switch, too.       *)
ScrVersionsNo10(good) == {"SD_1_10", "SD_2"}

sd_change_freq_app ==
  /\ pc = "scr_app"
  /\ \E x \in mmc_send_cmd(Plain(APP_CMD, mmc.rca)) :
       /\ bus' = x.bus
       /\ IF x.err # "ok" THEN StartupFails(x.err)
          ELSE /\ loc' = [loc EXCEPT !.timeout = ScrTries]
               /\ Goto("scr")
               /\ UNCHANGED <<mmc, cond>>
  /\ Keep

ScrCommand == Read(APP_SEND_SCR, 0, 1, "scr", 0)

(* What an scr may say: the truth, if it is the card's.                    *)
ScrVersions(good) == IF good THEN {bus.card.std} ELSE SdVersions

ScrCaps(good) ==
  IF good THEN {IF bus.card.four THEN {"4BIT"} ELSE {}} ELSE {{}, {"4BIT"}}

(* retry_scr: the command again, without an APP_CMD.                       *)
sd_change_freq_scr ==
  /\ pc = "scr"
  /\ \E x \in mmc_send_cmd(ScrCommand) :
       CASE x.err # "ok" /\ loc.timeout > 0 ->
              /\ bus' = x.bus
              /\ loc' = [loc EXCEPT !.timeout = @ - 1]
              /\ Goto("scr")
              /\ UNCHANGED <<mmc, cond>>
         [] x.err # "ok" /\ loc.timeout = 0 -> StartupFails(x.err) /\ bus' = x.bus
         [] OTHER -> \E v \in ScrVersions(x.good), caps \in ScrCaps(x.good) :
              LET m == [mmc EXCEPT !.version = v, !.card_caps = caps] IN
              IF v = "SD_1_0" THEN FreqDone(m, x.bus)
              ELSE /\ mmc' = m /\ bus' = x.bus
                   /\ loc' = [loc EXCEPT !.timeout = SwitchTries]
                   /\ Goto("switch_check")
                   /\ UNCHANGED cond
  /\ Keep

SwitchCommand(arg) == Read(SWITCH, arg, 1, "switch_status", 0)

(* SD_HIGHSPEED_SUPPORTED in the switch status.                            *)
HighSpeeds(good) == IF good THEN {bus.card.hs} ELSE BOOLEAN
HostHighSpeed == {"HS", "HS_52MHz"} \subseteq host.caps

(* Asking for high speed until it is not busy; then, if card and host have *)
(* it, on to switch to it.                                                 *)
sd_change_freq_check ==
  /\ pc = "switch_check"
  /\ \E x \in mmc_send_cmd(SwitchCommand(CheckFunction)), busy \in BOOLEAN :
       IF x.err # "ok" THEN StartupFails(x.err) /\ bus' = x.bus
       ELSE IF busy /\ loc.timeout > 1
         THEN /\ bus' = x.bus
              /\ loc' = [loc EXCEPT !.timeout = @ - 1]
              /\ Goto("switch_check")
              /\ UNCHANGED <<mmc, cond>>
         ELSE \E hs \in HighSpeeds(x.good) :
              IF hs /\ HostHighSpeed
                THEN Goto("switch_set") /\ bus' = x.bus /\ UNCHANGED <<mmc, loc, cond>>
                ELSE FreqDone(mmc, x.bus)
  /\ Keep

sd_change_freq_switch ==
  /\ pc = "switch_set"
  /\ \E x \in mmc_send_cmd(SwitchCommand(SwitchFunction)) :
       IF x.err # "ok" THEN StartupFails(x.err) /\ bus' = x.bus
       ELSE \E hs \in HighSpeeds(x.good) :
            FreqDone([mmc EXCEPT !.card_caps = @ \cup IF hs THEN {"HS"} ELSE {}], x.bus)
  /\ Keep

-----------------------------------------------------------------------------
(* mmc_change_freq, for a version 4 card.                                  *)

mmc_change_freq_ext_csd ==
  /\ pc = "hs_ext_csd"
  /\ \E x \in mmc_send_cmd(ExtCsd("cardtype")) :
       /\ bus' = x.bus
       /\ IF x.err # "ok" THEN StartupFails(x.err)
          ELSE /\ \E hs52 \in HighSpeeds(x.good) : loc' = [loc EXCEPT !.hs52 = hs52]
               /\ Goto("hs_switch")
               /\ UNCHANGED <<mmc, cond>>
  /\ Keep

mmc_change_freq_switch ==
  /\ pc = "hs_switch"
  /\ mmc_switch(HsTiming, "hs")
  /\ Keep

mmc_change_freq_check ==
  /\ pc = "hs_check"
  /\ \E x \in mmc_send_cmd(ExtCsd("cardtype")) :
       IF x.err # "ok" THEN StartupFails(x.err) /\ bus' = x.bus
       ELSE \E timing \in BOOLEAN :
            FreqDone([mmc EXCEPT !.card_caps =
                        IF ~timing THEN {}
                        ELSE IF loc.hs52 THEN {"HS", "HS_52MHz"} ELSE {"HS"}], x.bus)
  /\ Keep

-----------------------------------------------------------------------------
(* mmc_startup: the bus width.                                             *)

(* Mutant of startup_bus_width: the result of the command is not looked at. *)
startup_bus_width_unchecked ==
  /\ pc = "bus_width"
  /\ \E x \in mmc_send_cmd(Plain(SWITCH, 4)) :
       StartupEnds([mmc EXCEPT !.bus_width = 4], x.bus)
  /\ Keep

startup_app_cmd ==
  /\ pc = "width_app"
  /\ \E x \in mmc_send_cmd(Plain(APP_CMD, mmc.rca)) :
       /\ bus' = x.bus
       /\ IF x.err # "ok" THEN StartupFails(x.err)
          ELSE Goto("bus_width") /\ UNCHANGED <<mmc, loc, cond>>
  /\ Keep

startup_bus_width ==
  /\ pc = "bus_width"
  /\ \E x \in mmc_send_cmd(Plain(SWITCH, 4)) :
       IF x.err # "ok" THEN StartupFails(x.err) /\ bus' = x.bus
       ELSE StartupEnds([mmc EXCEPT !.bus_width = 4], x.bus)
  /\ Keep

(* EXT_CSD_BUS_WIDTH: 0, 1 and 2 stand for 1, 4 and 8 lines.               *)
Lines(width) == CASE width = 0 -> 1 [] width = 1 -> 4 [] width = 2 -> 8 [] OTHER -> 0

startup_width_switch ==
  /\ pc = "width_switch"
  /\ mmc_switch(Lines(loc.width), "width")
  /\ Keep

(* card_caps |= width: the bit of width 1 is the bit of MMC_MODE_HS.       *)
WidthCap == IF loc.width % 2 = 1 THEN {"HS"} ELSE {}

(* The width is kept if ext_csd can be read over it, and is the same.      *)
startup_width_check ==
  /\ pc = "width_check"
  /\ \E x \in mmc_send_cmd(ExtCsd("test_csd")), same \in BOOLEAN :
       /\ (x.err = "ok" /\ x.good /\ loc.ext_csd) => same
       /\ IF x.err = "ok" /\ same
            THEN StartupEnds([mmc EXCEPT !.card_caps = @ \cup WidthCap], x.bus)
            ELSE NextWidth(x.bus)
  /\ Keep

-----------------------------------------------------------------------------
(* mmc_bread.                                                              *)

(* Mutant of mmc_bread: the size is taken in bytes.                         *)
mmc_bread_bytes(start, blkcnt, dst) ==
  /\ pc = "client" /\ mmc.has_init
  /\ IF blkcnt = 0 \/ (start + blkcnt) % W > mmc.capacity
       THEN ret' = "0" /\ UNCHANGED <<pc, req, right>>
       ELSE /\ Goto("blocklen")
            /\ req' = [start |-> start, todo |-> blkcnt, off |-> 0, first |-> start,
                       dst |-> dst, path |-> bus.path]
            /\ right' = TRUE
  /\ UNCHANGED <<mmc, loc, bus, host, cond>>

(* A call for blkcnt blocks from start, once mmc_init has succeeded. The   *)
(* sum is a size_t.                                                        *)
mmc_bread(start, blkcnt, dst) ==
  /\ pc = "client" /\ mmc.has_init
  /\ IF blkcnt = 0 \/ (start + blkcnt) % W > mmc.capacity \div BL
       THEN ret' = "0" /\ UNCHANGED <<pc, req, right>>
       ELSE /\ Goto("blocklen")
            /\ req' = [start |-> start, todo |-> blkcnt, off |-> 0, first |-> start,
                       dst |-> dst, path |-> bus.path]
            /\ right' = TRUE
  /\ UNCHANGED <<mmc, loc, bus, host, cond>>

BreadReturns(r) == pc' = "client" /\ ret' = r /\ req' = NoRequest

(* Mutant of Cur: always b_max blocks.                                      *)
CurUncapped == BMax

mmc_set_blocklen ==
  /\ pc = "blocklen"
  /\ \E x \in mmc_send_cmd(Plain(SET_BLOCKLEN, BL)) :
       /\ bus' = x.bus
       /\ IF x.err # "ok" THEN BreadReturns("0") ELSE Goto("read") /\ UNCHANGED req
  /\ UNCHANGED <<mmc, loc, host, cond, right>>

Cur == IF req.todo > BMax THEN BMax ELSE req.todo

ReadCommand ==
  Read(IF Cur > 1 THEN READ_MULTIPLE_BLOCK ELSE READ_SINGLE_BLOCK,
       IF mmc.high_capacity THEN req.start ELSE (req.start * BL) % W,
       Cur, req.dst, req.off)

(* Mutant of RoundDone: the next round starts where the last one did.       *)
RoundDoneSameStart ==
  IF req.todo = Cur THEN BreadReturns("blkcnt")
  ELSE req' = [req EXCEPT !.todo = @ - Cur, !.off = @ + Cur] /\ Goto("read")

(* The end of one round of the loop of mmc_bread.                          *)
RoundDone ==
  IF req.todo = Cur THEN BreadReturns("blkcnt")
  ELSE /\ req' = [req EXCEPT !.todo = @ - Cur, !.start = (@ + Cur) % W, !.off = @ + Cur]
       /\ Goto("read")

(* When the command fails nothing stops the card.                          *)
mmc_read_blocks ==
  /\ pc = "read"
  /\ \E x \in mmc_send_cmd(ReadCommand) :
       /\ bus' = x.bus
       /\ IF x.err # "ok" THEN BreadReturns("0") /\ UNCHANGED right
          ELSE /\ right' = (right /\ x.good /\
                            Place(bus.card, ReadCommand.arg, BL) = req.first + req.off)
               /\ IF Cur > 1 THEN Goto("stop") /\ UNCHANGED req ELSE RoundDone
  /\ UNCHANGED <<mmc, loc, host, cond>>

stop_transmission ==
  /\ pc = "stop"
  /\ \E x \in mmc_send_cmd(Plain(STOP_TRANSMISSION, 0)) :
       /\ bus' = x.bus
       /\ IF x.err # "ok" THEN BreadReturns("0") ELSE RoundDone
  /\ UNCHANGED <<mmc, loc, host, cond, right>>

-----------------------------------------------------------------------------
(* ocsdc_data_finish waits for a data status for ever, when the data of a  *)
(* command that was answered do not come, or not all of them.              *)

DataCommand ==
  CASE pc = "ext_csd" -> ExtCsd("ext_csd")
    [] pc = "hs_ext_csd" -> ExtCsd("cardtype")
    [] pc = "hs_check" -> ExtCsd("cardtype")
    [] pc = "width_check" -> ExtCsd("test_csd")
    [] pc = "scr" -> ScrCommand
    [] pc = "switch_check" -> SwitchCommand(CheckFunction)
    [] pc = "switch_set" -> SwitchCommand(SwitchFunction)
    [] pc = "read" -> ReadCommand

PollForEver ==
  /\ pc \in {"ext_csd", "hs_ext_csd", "hs_check", "width_check", "scr",
             "switch_check", "switch_set", "read"}
  /\ \E e \in Exchanges(DataCommand) :
       LET faulty == Own(DataCommand) /\ OnCard(bus.card, DataCommand, BL) IN
       /\ e.heard
       /\ faulty => e.faults > 0
       /\ bus' = [card |-> e.card, path |-> bus.path,
                  faults |-> e.faults - IF faulty THEN 1 ELSE 0]
  /\ pc' = "hung"
  /\ UNCHANGED <<mmc, loc, req, ret, host, cond, right>>

InitSteps ==
  \/ mmc_go_idle \/ mmc_send_if_cond \/ sd_send_op_cond_app \/ sd_send_op_cond
  \/ mmc_send_op_cond_idle \/ mmc_send_op_cond_ask \/ mmc_send_op_cond
  \/ all_send_cid \/ send_relative_addr \/ send_csd \/ mmc_send_status \/ select_card
  \/ startup_ext_csd \/ sd_change_freq_app \/ sd_change_freq_scr
  \/ sd_change_freq_check \/ sd_change_freq_switch
  \/ mmc_change_freq_ext_csd \/ mmc_change_freq_switch \/ mmc_change_freq_check
  \/ startup_app_cmd \/ startup_bus_width \/ startup_width_switch \/ startup_width_check

ReadSteps == mmc_set_blocklen \/ mmc_read_blocks \/ stop_transmission

Next ==
  \/ mmc_init
  \/ \E start \in Starts, blkcnt \in Counts, dst \in Buffers : mmc_bread(start, blkcnt, dst)
  \/ InitSteps
  \/ ReadSteps
  \/ PollForEver

Spec == Init /\ [][Next]_vars

(* The driver is a loop on a processor of its own: it goes on.             *)
FairSpec == Spec /\ WF_vars(InitSteps \/ ReadSteps \/ PollForEver)

-----------------------------------------------------------------------------
(* Properties.                                                             *)

TypeOK ==
  /\ pc \in {"client", "hung", "go_idle", "if_cond", "app_op_cond", "op_cond", "mmc_go_idle",
             "mmc_ask_op_cond", "mmc_op_cond", "all_send_cid", "relative_addr", "csd", "status",
             "select", "ext_csd", "scr_app", "scr", "switch_check", "switch_set", "hs_ext_csd",
             "hs_switch", "hs_check", "width_app", "bus_width", "width_switch", "width_check",
             "blocklen", "read", "stop"}
  /\ mmc.version \in Versions
  /\ mmc.card_caps \subseteq {"4BIT", "HS", "HS_52MHz"}
  /\ mmc.bus_width \in {1, 4, 8, 12}
  /\ mmc.capacity \in 0 .. W - 1
  /\ loc.timeout \in Nat /\ loc.retries \in 0 .. StatusRetries /\ loc.width \in 0 .. 3
  /\ req.start \in 0 .. W - 1 /\ req.todo \in 0 .. W - 1 /\ req.off \in 0 .. W - 1
  /\ ret \in Errors \cup {"ok", "0", "blkcnt"}
  /\ bus.faults \in 0 .. MaxFaults
  /\ bus.path \in Paths({Foreign}) \cup {Armed(bus.path.xfer)}

(* What driver and card must agree on for a read to mean the same to both. *)
Agree ==
  /\ bus.card.state \in {"tran", "data"}
  /\ mmc.rca = bus.card.rca
  /\ mmc.high_capacity = bus.card.hc
  /\ IsSd(mmc.version) <=> SdCard(bus.card)
  /\ SdCard(bus.card) => SameWidth /\ mmc.capacity = Size

(* After mmc_init has returned 0, through whatever lost commands and       *)
(* responses, retries and earlier attempts, and for as long as the client  *)
(* goes on reading, driver and card agree, if the operating condition of   *)
(* the card was ever established.                                          *)
InitAgrees == (pc = "client" /\ mmc.has_init /\ cond = "ok") => Agree

(* A card that answers is initialised: mmc_init returns an error only if   *)
(* something was lost on the lines, or the card did not become ready, is   *)
(* no SD card, or there is no TIMEOUT to tell the driver so.               *)
GoodCardInitialised ==
  [][(pc # "client" /\ pc' = "client" /\ ret' \in Errors) =>
       \/ bus'.faults < MaxFaults
       \/ cond' # "ok"
       \/ ~SdCard(bus.card)]_vars

(* mmc_bread returns blkcnt only when the buffer holds the blocks that     *)
(* were asked for, in order, over all its rounds, if it found the data     *)
(* path clean and driver and card agree.                                   *)
BreadDelivers ==
  [][(/\ pc \in {"read", "stop"} /\ pc' = "client" /\ ret' = "blkcnt"
      /\ req.path = Clean /\ cond = "ok") => right']_vars

(* Without a fault on the lines the driver never waits for data that do    *)
(* not come: it asks for nothing the card does not have, in a state the    *)
(* card can send it in, over as many lines as the card uses.               *)
NoFaultNoHang ==
  (pc = "hung" /\ bus.faults = MaxFaults /\ cond = "ok") => req.first + req.off + req.todo >= W

(* Every call returns or waits for data for ever: all other loops end.     *)
CallReturns == pc # "client" ~> pc \in {"client", "hung"}

(* "Unusable Card" (mmc.h:61): a card whose operating condition came to    *)
(* UNUSABLE_ERR is not initialised.                                        *)
UnusableIsReported == (pc = "client" /\ mmc.has_init) => cond # "UNUSABLE_ERR"
=============================================================================
