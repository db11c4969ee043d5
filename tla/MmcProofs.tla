------------------------------ MODULE MmcProofs ------------------------------
(***************************************************************************)
(* The card driver of Mmc, for all cards, hosts, calls and numbers of      *)
(* faults: driver and card agree once mmc_init has succeeded, a read that  *)
(* succeeds has read the blocks it was asked for, and as long as nothing   *)
(* was lost the driver does not wait for ever and gives no SD card up.     *)
(***************************************************************************)
EXTENDS Mmc, TLAPS

-----------------------------------------------------------------------------
(* Places, cards and the bus.                                              *)

EarlyPlaces == {"go_idle", "if_cond", "app_op_cond", "op_cond",
                "mmc_go_idle", "mmc_ask_op_cond", "mmc_op_cond"}
IdentPlaces == {"all_send_cid", "relative_addr", "csd", "select"}
SdPlaces == {"scr_app", "scr", "switch_check", "switch_set", "width_app", "bus_width"}
HsPlaces == {"ext_csd", "hs_ext_csd", "hs_switch", "hs_check"}
WidthPlaces == {"width_switch", "width_check"}
ReadPlaces == {"blocklen", "read", "stop"}

Results == {"ok", "err", "TIMEOUT"}

Transfers ==
  [n : 0 .. W - 1, off : 0 .. W - 1,
   dst : Buffers \cup {"none", "scr", "switch_status", "ext_csd", "cardtype", "test_csd", "foreign"}]

CardType == CardRecords(1 .. W - 1)
BusType == [card : CardType, path : Paths(Transfers), faults : 0 .. MaxFaults]

\* What a command does not change
Kind(c) == [std |-> c.std, hc |-> c.hc, four |-> c.four, hs |-> c.hs, blocks |-> c.blocks]

\* Only an SD card answers APP_CMD, lines are switched after SELECT_CARD, an
\* address is given by SEND_RELATIVE_ADDR
CardInv(c) ==
  /\ c \in CardType
  /\ \E k \in Cards : Kind(c) = Kind(k)
  /\ c.app => SdCard(c)
  /\ c.state \notin {"tran", "data"} => c.width = 1
  /\ SdCard(c) /\ c.state \in {"stby", "tran", "data"} => c.rca # 0

BusInv(b) == b \in BusType /\ CardInv(b.card)

-----------------------------------------------------------------------------
(* Commands and their results.                                             *)

Taken(c, m) == IF Legal(c, m) THEN Effects(c, m) ELSE {[c EXCEPT !.app = FALSE]}

LEMMA ExchangeIs ==
  ASSUME NEW m, NEW e \in Exchanges(m), bus \in BusType
  PROVE  /\ e.heard \in BOOLEAN
         /\ e.faults \in 0 .. bus.faults
         /\ e.card \in Taken(bus.card, m) \cup {bus.card}
         /\ e.heard /\ m.idx # GO_IDLE_STATE =>
              Legal(bus.card, m) /\ e.card \in Effects(bus.card, m) /\ e.faults = bus.faults
         /\ e.faults = bus.faults =>
              /\ e.card \in Taken(bus.card, m)
              /\ m.idx = GO_IDLE_STATE \/ Legal(bus.card, m) => e.heard
<1> DEFINE c == bus.card
           quiet == m.idx = GO_IDLE_STATE
           sure == {[card |-> d, heard |-> quiet \/ Legal(c, m), faults |-> bus.faults] :
                      d \in Taken(c, m)}
           lost == {[card |-> d, heard |-> quiet, faults |-> bus.faults - 1] :
                      d \in Taken(c, m) \cup {c}}
<1>1. e \in sure \/ (bus.faults # 0 /\ e \in lost)
  BY DEF Exchanges, Taken
<1>2. bus.faults \in 0 .. MaxFaults /\ MaxFaults \in Nat
  BY MmcAssumption DEF BusType
<1>3. CASE e \in sure
  <2>1. PICK d \in Taken(c, m) :
          e = [card |-> d, heard |-> quiet \/ Legal(c, m), faults |-> bus.faults]
    BY <1>3
  <2>2. e.card = d /\ (e.heard <=> quiet \/ Legal(c, m)) /\ e.faults = bus.faults
    BY <2>1
  <2>3. e.heard \in BOOLEAN
    BY <2>1 DEF Legal
  <2>. QED  BY <1>2, <2>2, <2>3 DEF Taken
<1>4. CASE bus.faults # 0 /\ e \in lost
  <2>1. PICK d \in Taken(c, m) \cup {c} :
          e = [card |-> d, heard |-> quiet, faults |-> bus.faults - 1]
    BY <1>4
  <2>2. e.card = d /\ (e.heard <=> quiet) /\ e.heard \in BOOLEAN /\ e.faults = bus.faults - 1
    BY <2>1
  <2>. QED  BY <1>2, <1>4, <2>2
<1>. QED  BY <1>1, <1>3, <1>4

LEMMA SentIs ==
  ASSUME NEW m, NEW x \in mmc_send_cmd(m)
  PROVE  \E e \in Exchanges(m) : \E o \in Outcomes(bus.path, m, e.heard, {Foreign}) :
           /\ Possible(m, e, o)
           /\ x.bus = [card |-> e.card, path |-> o.path, faults |-> FaultsAfter(m, e, o)]
           /\ x.good = o.good
           /\ x.err \in Results
           /\ x.err = "ok" <=> o.ret = "ok"
<1> DEFINE result(e, o) ==
             IF o.ret = "ok" THEN {"ok"}
             ELSE IF e.heard THEN {"err"}
             ELSE (IF host.timeouts THEN {"TIMEOUT"} ELSE {"err"})
                  \cup (IF e.faults < bus.faults THEN {"err"} ELSE {})
           ans(e, o) == [card |-> e.card, path |-> o.path, faults |-> FaultsAfter(m, e, o)]
           May(e) == {p \in Outcomes(bus.path, m, e.heard, {Foreign}) : Possible(m, e, p)}
<1>1. PICK e \in Exchanges(m) :
        x \in UNION {{[err |-> r, good |-> o.good, bus |-> ans(e, o)] : r \in result(e, o)} :
                     o \in May(e)}
  BY DEF mmc_send_cmd
<1>2. PICK o \in May(e) : x \in {[err |-> r, good |-> o.good, bus |-> ans(e, o)] : r \in result(e, o)}
  BY <1>1
<1>3. PICK r \in result(e, o) : x = [err |-> r, good |-> o.good, bus |-> ans(e, o)]
  BY <1>2
<1>4. r \in Results /\ (r = "ok" <=> o.ret = "ok")
  BY DEF Results
<1>. QED  BY <1>2, <1>3, <1>4

LEMMA OutcomeIs ==
  ASSUME NEW rets, NEW goods, NEW paths, NEW o \in Outcome(rets, goods, paths)
  PROVE  o.ret \in rets /\ o.good \in goods /\ o.path \in paths
BY DEF Outcome

LEMMA PathIs ==
  /\ Foreign \in Transfers
  /\ Paths({Foreign}) \subseteq Paths(Transfers)
  /\ Clean \in Paths(Transfers) /\ Dirty \in Paths(Transfers)
  /\ Clean # Dirty
<1>1. Foreign \in Transfers
  BY MmcAssumption DEF Foreign, Transfers
<1>2. Clean # Dirty
  BY DEF Clean, Dirty
<1>. QED  BY <1>1, <1>2 DEF Paths

LEMMA PlainOutcome ==
  ASSUME NEW p \in Paths(Transfers), NEW m, m.op = "none", NEW h \in BOOLEAN,
         NEW o \in Outcomes(p, m, h, {Foreign})
  PROVE  /\ o.path \in Paths(Transfers)
         /\ p # Dirty => o.path = p
         /\ o.ret = "ok" <=> h
         /\ o.good \in BOOLEAN
<1>1. o \in Outcome({IF h THEN "ok" ELSE "err"}, {h},
                    IF p = Dirty THEN Paths({Foreign}) ELSE {p})
  BY DEF Outcomes
<1>. QED  BY <1>1, OutcomeIs, PathIs

LEMMA ReadOutcome ==
  ASSUME NEW p \in Paths(Transfers), NEW m, m.op = "read", m.xfer \in Transfers,
         NEW h \in BOOLEAN, NEW o \in Outcomes(p, m, h, {Foreign})
  PROVE  /\ o.path \in Paths(Transfers)
         /\ o.ret \in {"ok", "err"}
         /\ o.good \in BOOLEAN
         /\ o.ret = "ok" => h
         /\ p = Clean /\ o.ret = "ok" => o.good /\ o.path = Clean
<1>1. CASE p = Dirty
  <2>1. \/ o \in Outcome({"err"}, {FALSE}, Paths({Foreign}))
        \/ h /\ o \in Outcome({"ok"}, BOOLEAN, Paths({Foreign}))
    BY <1>1 DEF Outcomes
  <2>. QED  BY <1>1, <2>1, PathIs DEF Outcome
<1>2. CASE p # Dirty /\ ~h
  <2>1. o \in Outcome({"err"}, {FALSE},
                      {Dirty, IF p = Clean THEN Armed(m.xfer) ELSE p})
    BY <1>2 DEF Outcomes
  <2>2. Armed(m.xfer) \in Paths(Transfers)
    BY DEF Paths
  <2>. QED  BY <1>2, <2>1, <2>2, PathIs DEF Outcome
<1>3. CASE p # Dirty /\ h /\ (p = Clean \/ p = Armed(m.xfer))
  <2>1. \/ o \in Outcome({"ok"}, {TRUE}, {Clean})
        \/ o \in Outcome({"err"}, {FALSE}, {Clean, Dirty})
    BY <1>3 DEF Outcomes
  <2>. QED  BY <1>3, <2>1, PathIs DEF Outcome
<1>4. CASE p # Dirty /\ h /\ ~(p = Clean \/ p = Armed(m.xfer))
  <2>1. \/ o \in Outcome({"ok"}, BOOLEAN, {Clean, Dirty})
        \/ o \in Outcome({"err"}, {FALSE}, {Clean, Dirty})
    BY <1>4 DEF Outcomes
  <2>. QED  BY <1>4, <2>1, PathIs DEF Outcome
<1>. QED  BY <1>1, <1>2, <1>3, <1>4

\* What the driver may rely on after a command
Answered(m, x) ==
  /\ x.err \in Results /\ x.good \in BOOLEAN
  /\ x.bus = [card |-> x.bus.card, path |-> x.bus.path, faults |-> x.bus.faults]
  /\ x.bus.path \in Paths(Transfers)
  /\ x.bus.faults \in 0 .. bus.faults
  /\ x.bus.card \in Taken(bus.card, m) \cup {bus.card}
  /\ x.err = "ok" /\ m.idx # GO_IDLE_STATE =>
       Legal(bus.card, m) /\ x.bus.card \in Effects(bus.card, m)
  /\ x.bus.faults = bus.faults => x.bus.card \in Taken(bus.card, m)

LEMMA PlainSent ==
  ASSUME bus \in BusType, NEW i, NEW a, NEW x \in mmc_send_cmd(Plain(i, a))
  PROVE  /\ Answered(Plain(i, a), x)
         /\ bus.path # Dirty => x.bus.path = bus.path
         /\ x.bus.faults = bus.faults /\ (i = GO_IDLE_STATE \/ Legal(bus.card, Plain(i, a)))
              => x.err = "ok"
<1> DEFINE m == Plain(i, a)
<1>0. m.op = "none" /\ m.idx = i
  BY DEF Plain
<1>. HIDE DEF m
<1>a. PICK e \in Exchanges(m) :
         \E o : /\ o \in Outcomes(bus.path, m, e.heard, {Foreign})
                /\ Possible(m, e, o)
                /\ x.bus = [card |-> e.card, path |-> o.path, faults |-> FaultsAfter(m, e, o)]
                /\ x.good = o.good
                /\ x.err \in Results
                /\ x.err = "ok" <=> o.ret = "ok"
  BY SentIs DEF m
<1>1. PICK o :
        /\ o \in Outcomes(bus.path, m, e.heard, {Foreign})
        /\ Possible(m, e, o)
        /\ x.bus = [card |-> e.card, path |-> o.path, faults |-> FaultsAfter(m, e, o)]
        /\ x.good = o.good
        /\ x.err \in Results
        /\ x.err = "ok" <=> o.ret = "ok"
  BY <1>a
<1>2. FaultsAfter(m, e, o) = e.faults
  BY <1>0 DEF FaultsAfter
<1>3. x.bus.card = e.card /\ x.bus.path = o.path /\ x.bus.faults = e.faults
  BY <1>1, <1>2
<1>4. bus.path \in Paths(Transfers)
  BY DEF BusType
<1>5. /\ o.path \in Paths(Transfers)
      /\ bus.path # Dirty => o.path = bus.path
      /\ o.ret = "ok" <=> e.heard
      /\ o.good \in BOOLEAN
  BY <1>0, <1>1, <1>4, ExchangeIs, PlainOutcome
<1>6. Answered(m, x)
  BY <1>1, <1>2, <1>3, <1>5, ExchangeIs DEF Answered
<1>. QED  BY <1>0, <1>1, <1>3, <1>5, <1>6, ExchangeIs DEF m

LEMMA ReadSent ==
  ASSUME bus \in BusType, NEW m, m.op = "read", m.xfer \in Transfers,
         m.idx # GO_IDLE_STATE, NEW x \in mmc_send_cmd(m)
  PROVE  /\ Answered(m, x)
         /\ bus.path = Clean /\ x.err = "ok" =>
              x.good /\ x.bus.path = Clean /\ SameWidth /\ OnCard(bus.card, m, BL)
         /\ x.bus.faults = bus.faults /\ bus.path = Clean /\ SameWidth /\ Legal(bus.card, m)
              => x.err = "ok"
<1>a. PICK e \in Exchanges(m) :
         \E o : /\ o \in Outcomes(bus.path, m, e.heard, {Foreign})
                /\ Possible(m, e, o)
                /\ x.bus = [card |-> e.card, path |-> o.path, faults |-> FaultsAfter(m, e, o)]
                /\ x.good = o.good
                /\ x.err \in Results
                /\ x.err = "ok" <=> o.ret = "ok"
  BY SentIs
<1>1. PICK o :
        /\ o \in Outcomes(bus.path, m, e.heard, {Foreign})
        /\ Possible(m, e, o)
        /\ x.bus = [card |-> e.card, path |-> o.path, faults |-> FaultsAfter(m, e, o)]
        /\ x.good = o.good
        /\ x.err \in Results
        /\ x.err = "ok" <=> o.ret = "ok"
  BY <1>a
<1>2. x.bus.card = e.card /\ x.bus.path = o.path /\ x.bus.faults = FaultsAfter(m, e, o)
  BY <1>1
<1>3. /\ bus.path \in Paths(Transfers) /\ bus.faults \in 0 .. MaxFaults /\ MaxFaults \in Nat
  BY MmcAssumption DEF BusType
<1>4. /\ o.path \in Paths(Transfers)
      /\ o.ret \in {"ok", "err"} /\ o.good \in BOOLEAN
      /\ o.ret = "ok" => e.heard
      /\ bus.path = Clean /\ o.ret = "ok" => o.good /\ o.path = Clean
  BY <1>1, <1>3, ExchangeIs, ReadOutcome
<1>5. /\ e.faults \in 0 .. bus.faults
      /\ FaultsAfter(m, e, o) \in 0 .. bus.faults
      /\ FaultsAfter(m, e, o) = bus.faults => e.faults = bus.faults
      /\ FaultsAfter(m, e, o) = bus.faults =>
           ~(e.heard /\ Own(m) /\ o.ret = "err" /\ SameWidth)
  BY <1>1, <1>3, ExchangeIs DEF FaultsAfter, Possible
<1>6. Answered(m, x)
  BY <1>1, <1>2, <1>4, <1>5, ExchangeIs DEF Answered
<1>7. bus.path = Clean => Own(m)
  BY DEF Own
<1>8. bus.path = Clean /\ x.err = "ok" => SameWidth /\ OnCard(bus.card, m, BL)
  BY <1>1, <1>4, <1>7 DEF Possible
<1>. QED  BY <1>1, <1>2, <1>4, <1>5, <1>6, <1>7, <1>8, ExchangeIs

-----------------------------------------------------------------------------
(* What the commands do to the card, one by one.                           *)

Answering(c) == [c EXCEPT !.app = FALSE]

\* d is the card c, now in state s, with address r, flag a and width w
Turned(c, d, s, r, a, w) ==
  /\ d \in CardType
  /\ Kind(d) = Kind(c)
  /\ d.std = c.std /\ d.hc = c.hc /\ d.four = c.four /\ d.hs = c.hs /\ d.blocks = c.blocks
  /\ d.state = s /\ d.rca = r /\ d.app = a /\ d.width = w

LEMMA TurnedForms ==
  ASSUME NEW c \in CardType
  PROVE  /\ Turned(c, c, c.state, c.rca, c.app, c.width)
         /\ Turned(c, Answering(c), c.state, c.rca, FALSE, c.width)
         /\ Turned(c, [c EXCEPT !.app = TRUE], c.state, c.rca, TRUE, c.width)
         /\ Turned(c, [Answering(c) EXCEPT !.cond = TRUE], c.state, c.rca, FALSE, c.width)
         /\ \A s \in {"idle", "ready", "ident", "stby", "tran", "data"} :
              Turned(c, [Answering(c) EXCEPT !.state = s], s, c.rca, FALSE, c.width)
         /\ \A r \in 0 .. 2 : 
              Turned(c, [Answering(c) EXCEPT !.state = "stby", !.rca = r], "stby", r, FALSE, c.width)
         /\ \A w \in {1, 4, 8} :
              Turned(c, [Answering(c) EXCEPT !.width = w], c.state, c.rca, FALSE, w)
         /\ Turned(c, PoweredUp(c), "idle", 0, FALSE, 1)
<1>1. Turned(c, c, c.state, c.rca, c.app, c.width)
  BY DEF Turned
<1>2. Turned(c, Answering(c), c.state, c.rca, FALSE, c.width)
  BY DEF Turned, Answering, CardType, CardRecords, Kind
<1>3. Turned(c, [c EXCEPT !.app = TRUE], c.state, c.rca, TRUE, c.width)
  BY DEF Turned, Answering, CardType, CardRecords, Kind
<1>4. Turned(c, [Answering(c) EXCEPT !.cond = TRUE], c.state, c.rca, FALSE, c.width)
  BY DEF Turned, Answering, CardType, CardRecords, Kind
<1>5. ASSUME NEW s \in {"idle", "ready", "ident", "stby", "tran", "data"}
      PROVE  Turned(c, [Answering(c) EXCEPT !.state = s], s, c.rca, FALSE, c.width)
  BY DEF Turned, Answering, CardType, CardRecords, Kind
<1>6. ASSUME NEW r \in 0 .. 2
      PROVE  Turned(c, [Answering(c) EXCEPT !.state = "stby", !.rca = r], "stby", r, FALSE, c.width)
  BY DEF Turned, Answering, CardType, CardRecords, Kind
<1>7. ASSUME NEW w \in {1, 4, 8}
      PROVE  Turned(c, [Answering(c) EXCEPT !.width = w], c.state, c.rca, FALSE, w)
  BY DEF Turned, Answering, CardType, CardRecords, Kind
<1>8. ASSUME NEW r \in 0 .. 2, NEW w \in {1, 4, 8}
      PROVE  Turned(c, [c EXCEPT !.state = "idle", !.rca = r, !.app = FALSE,
                                 !.cond = FALSE, !.width = w], "idle", r, FALSE, w)
  BY DEF Turned, CardType, CardRecords, Kind
<1>9. Turned(c, PoweredUp(c), "idle", 0, FALSE, 1)
  <2>1. 0 \in 0 .. 2 /\ 1 \in {1, 4, 8}
    OBVIOUS
  <2>. QED  BY <1>8, <2>1, Zenon DEF PoweredUp
<1>. QED  BY <1>1, <1>2, <1>3, <1>4, <1>5, <1>6, <1>7, <1>9

USE DEF GO_IDLE_STATE, SEND_OP_COND, ALL_SEND_CID, SEND_RELATIVE_ADDR, SWITCH,
        SELECT_CARD, SEND_IF_COND, SEND_CSD, STOP_TRANSMISSION, SEND_STATUS,
        SET_BLOCKLEN, READ_SINGLE_BLOCK, READ_MULTIPLE_BLOCK, APP_SEND_OP_COND,
        APP_SEND_SCR, APP_CMD

LEMMA IdleDoes ==
  ASSUME NEW c, NEW m, m.idx = GO_IDLE_STATE
  PROVE  Legal(c, m) /\ Effects(c, m) = {PoweredUp(c)}
BY DEF Legal, Effects

LEMMA IfCondDoes ==
  ASSUME NEW c, NEW m, m.idx = SEND_IF_COND
  PROVE  /\ Legal(c, m) <=> \/ c.std = "SD_2" /\ c.state = "idle"
                            \/ c.std = "MMC_4" /\ c.state = "tran"
         /\ Effects(c, m) = {[Answering(c) EXCEPT !.cond = TRUE]}
BY DEF Legal, Effects, Answering

LEMMA AppCmdDoes ==
  ASSUME NEW c, NEW m, m.idx = APP_CMD
  PROVE  /\ Legal(c, m) <=> SdCard(c) /\ c.state \in {"idle", "stby", "tran"} /\ m.arg = c.rca
         /\ Effects(c, m) = {[c EXCEPT !.app = TRUE]}
BY DEF Legal, Effects

LEMMA OpCondDoes ==
  ASSUME NEW c, NEW m, m.idx \in {SEND_OP_COND, APP_SEND_OP_COND}
  PROVE  /\ m.idx = SEND_OP_COND => (Legal(c, m) <=> ~SdCard(c) /\ c.state = "idle")
         /\ m.idx = APP_SEND_OP_COND => (Legal(c, m) <=> c.app /\ c.state = "idle")
         /\ \A d \in Effects(c, m) :
              d = Answering(c) \/ (m.arg # 0 /\ d = [Answering(c) EXCEPT !.state = "ready"])
<1>1. m.idx = SEND_OP_COND => (Legal(c, m) <=> ~SdCard(c) /\ c.state = "idle")
  BY DEF Legal
<1>2. m.idx = APP_SEND_OP_COND => (Legal(c, m) <=> c.app /\ c.state = "idle")
  BY DEF Legal
<1> DEFINE more == IF m.arg = 0 \/ (c.std = "SD_2" /\ c.hc /\ ~(m.arg = 2 /\ c.cond))
                     THEN {} ELSE {[Answering(c) EXCEPT !.state = "ready"]}
<1>3. Effects(c, m) = {Answering(c)} \cup more
  <2>1. CASE m.idx = SEND_OP_COND
    BY <2>1 DEF Effects, Answering
  <2>2. CASE m.idx = APP_SEND_OP_COND
    BY <2>2 DEF Effects, Answering
  <2>. QED  BY <2>1, <2>2
<1>. QED  BY <1>1, <1>2, <1>3

LEMMA CidDoes ==
  ASSUME NEW c, NEW m, m.idx = ALL_SEND_CID
  PROVE  /\ Legal(c, m) <=> c.state = "ready"
         /\ Effects(c, m) = {[Answering(c) EXCEPT !.state = "ident"]}
BY DEF Legal, Effects, Answering

LEMMA AddressDoes ==
  ASSUME NEW c, NEW m, m.idx = SEND_RELATIVE_ADDR
  PROVE  /\ Legal(c, m) <=> c.state = "ident"
         /\ \A d \in Effects(c, m) : \E r \in IF SdCard(c) THEN {1, 2} ELSE {m.arg} :
              d = [Answering(c) EXCEPT !.state = "stby", !.rca = r]
<1>1. Effects(c, m) = {[Answering(c) EXCEPT !.state = "stby", !.rca = r] :
                         r \in IF SdCard(c) THEN {1, 2} ELSE {m.arg}}
  BY DEF Effects, Answering
<1>2. Legal(c, m) <=> c.state = "ident"
  BY DEF Legal
<1>. QED  BY <1>1, <1>2

LEMMA SelectDoes ==
  ASSUME NEW c, NEW m, m.idx = SELECT_CARD
  PROVE  /\ Legal(c, m) <=> c.state = "stby" /\ m.arg = c.rca
         /\ Effects(c, m) = {[Answering(c) EXCEPT !.state = "tran"]}
BY DEF Legal, Effects, Answering

LEMMA SwitchDoes ==
  ASSUME NEW c, NEW m, m.idx = SWITCH
  PROVE  /\ Legal(c, m) <=> c.state = "tran" /\ (c.app \/ c.std \in {"SD_1_10", "SD_2", "MMC_4"})
         /\ m.arg \in {1, 4, 8} => Effects(c, m) = {[Answering(c) EXCEPT !.width = m.arg]}
         /\ m.arg \notin {1, 4, 8} => Effects(c, m) = {Answering(c)}
<1>1. Legal(c, m) <=> c.state = "tran" /\ (c.app \/ c.std \in {"SD_1_10", "SD_2", "MMC_4"})
  BY DEF Legal
<1>2. CASE m.arg \in {1, 4, 8}
  <2>1. Effects(c, m) = {[Answering(c) EXCEPT !.width = m.arg]}
    BY <1>2 DEF Effects, Answering
  <2>. QED  BY <1>1, <1>2, <2>1
<1>3. CASE m.arg \notin {1, 4, 8}
  <2>1. Effects(c, m) = {Answering(c)}
    BY <1>3 DEF Effects, Answering
  <2>. QED  BY <1>1, <1>3, <2>1
<1>. QED  BY <1>2, <1>3

LEMMA MultipleDoes ==
  ASSUME NEW c, NEW m, m.idx = READ_MULTIPLE_BLOCK
  PROVE  /\ Legal(c, m) <=> c.state = "tran"
         /\ Effects(c, m) = {[Answering(c) EXCEPT !.state = "data"]}
BY DEF Legal, Effects, Answering

LEMMA StopDoes ==
  ASSUME NEW c, NEW m, m.idx = STOP_TRANSMISSION
  PROVE  /\ Legal(c, m) <=> c.state = "data"
         /\ Effects(c, m) = {[Answering(c) EXCEPT !.state = "tran"]}
BY DEF Legal, Effects, Answering

\* The other commands only answer
LEMMA OthersDo ==
  ASSUME NEW c, NEW m,
         m.idx \in {SEND_CSD, SEND_STATUS, APP_SEND_SCR, SET_BLOCKLEN, READ_SINGLE_BLOCK}
  PROVE  /\ Effects(c, m) = {Answering(c)}
         /\ m.idx = SEND_CSD => (Legal(c, m) <=> c.state = "stby" /\ m.arg = c.rca)
         /\ m.idx = SEND_STATUS =>
              (Legal(c, m) <=> c.state \in {"stby", "tran", "data"} /\ m.arg = c.rca)
         /\ m.idx = APP_SEND_SCR => (Legal(c, m) <=> c.app /\ c.state = "tran")
         /\ m.idx \in {SET_BLOCKLEN, READ_SINGLE_BLOCK} => (Legal(c, m) <=> c.state = "tran")
<1>1. Effects(c, m) = {Answering(c)}
  <2>1. CASE m.idx = SEND_CSD
    BY <2>1 DEF Effects, Answering
  <2>2. CASE m.idx = SEND_STATUS
    BY <2>2 DEF Effects, Answering
  <2>3. CASE m.idx = APP_SEND_SCR
    BY <2>3 DEF Effects, Answering
  <2>4. CASE m.idx = SET_BLOCKLEN
    BY <2>4 DEF Effects, Answering
  <2>5. CASE m.idx = READ_SINGLE_BLOCK
    BY <2>5 DEF Effects, Answering
  <2>. QED  BY <2>1, <2>2, <2>3, <2>4, <2>5
<1>2. m.idx = SEND_CSD => (Legal(c, m) <=> c.state = "stby" /\ m.arg = c.rca)
  BY DEF Legal
<1>3. m.idx = SEND_STATUS =>
              (Legal(c, m) <=> c.state \in {"stby", "tran", "data"} /\ m.arg = c.rca)
  BY DEF Legal
<1>4. m.idx = APP_SEND_SCR => (Legal(c, m) <=> c.app /\ c.state = "tran")
  BY DEF Legal
<1>5. m.idx \in {SET_BLOCKLEN, READ_SINGLE_BLOCK} => (Legal(c, m) <=> c.state = "tran")
  BY DEF Legal
<1>. QED  BY <1>1, <1>2, <1>3, <1>4, <1>5

CommandNames == {GO_IDLE_STATE, SEND_OP_COND, ALL_SEND_CID, SEND_RELATIVE_ADDR, SWITCH,
                 SELECT_CARD, SEND_IF_COND, SEND_CSD, STOP_TRANSMISSION, SEND_STATUS,
                 SET_BLOCKLEN, READ_SINGLE_BLOCK, READ_MULTIPLE_BLOCK, APP_SEND_OP_COND,
                 APP_SEND_SCR, APP_CMD}

\* A turn that keeps the invariant of the card
LEMMA TurnKeeps ==
  ASSUME NEW c, CardInv(c), NEW d, NEW s, NEW r, NEW a, NEW w, Turned(c, d, s, r, a, w),
         a => SdCard(c), s \notin {"tran", "data"} => w = 1,
         SdCard(c) /\ s \in {"stby", "tran", "data"} => r # 0
  PROVE  CardInv(d) /\ Kind(d) = Kind(c)
<1>1. /\ d \in CardType /\ Kind(d) = Kind(c) /\ d.std = c.std
      /\ d.state = s /\ d.rca = r /\ d.app = a /\ d.width = w
  BY DEF Turned
<1>2. \E k \in Cards : Kind(d) = Kind(k)
  BY <1>1 DEF CardInv
<1>3. SdCard(d) <=> SdCard(c)
  BY <1>1 DEF SdCard
<1>. QED  BY <1>1, <1>2, <1>3 DEF CardInv

\* Where a command may take the card
MovesTo(c, m, d) ==
  /\ CardInv(d) /\ Kind(d) = Kind(c)
  /\ d.state = c.state \/ m.idx \in {GO_IDLE_STATE, SEND_OP_COND, APP_SEND_OP_COND, ALL_SEND_CID,
                          SEND_RELATIVE_ADDR, SELECT_CARD, READ_MULTIPLE_BLOCK, STOP_TRANSMISSION}
  /\ m.idx \in {READ_MULTIPLE_BLOCK, STOP_TRANSMISSION} => d.state \in {c.state, "tran", "data"}
  /\ d.rca = c.rca \/ m.idx \in {GO_IDLE_STATE, SEND_RELATIVE_ADDR}
  /\ d.width = c.width \/ m.idx = GO_IDLE_STATE \/ (m.idx = SWITCH /\ m.arg \in {1, 4, 8})

LEMMA TurnMoves ==
  ASSUME NEW c, CardInv(c), NEW m, NEW d, NEW s, NEW r, NEW a, NEW w, Turned(c, d, s, r, a, w),
         a => SdCard(c), s \notin {"tran", "data"} => w = 1,
         SdCard(c) /\ s \in {"stby", "tran", "data"} => r # 0,
         s = c.state \/ m.idx \in {GO_IDLE_STATE, SEND_OP_COND, APP_SEND_OP_COND, ALL_SEND_CID,
                          SEND_RELATIVE_ADDR, SELECT_CARD, READ_MULTIPLE_BLOCK, STOP_TRANSMISSION},
         m.idx \in {READ_MULTIPLE_BLOCK, STOP_TRANSMISSION} => s \in {c.state, "tran", "data"},
         r = c.rca \/ m.idx \in {GO_IDLE_STATE, SEND_RELATIVE_ADDR},
         w = c.width \/ m.idx = GO_IDLE_STATE \/ (m.idx = SWITCH /\ m.arg \in {1, 4, 8})
  PROVE  MovesTo(c, m, d)
<1>1. d.state = s /\ d.rca = r /\ d.width = w
  BY DEF Turned
<1>2. CardInv(d) /\ Kind(d) = Kind(c)
  BY TurnKeeps
<1>. QED  BY <1>1, <1>2, Zenon DEF MovesTo

LEMMA CardMoves ==
  ASSUME NEW c, CardInv(c), NEW m, m.idx \in CommandNames,
         m.idx = SEND_RELATIVE_ADDR => m.arg \in 0 .. 2,
         NEW d \in Taken(c, m) \cup {c}
  PROVE  MovesTo(c, m, d)
<1>1. /\ c \in CardType
      /\ c.app => SdCard(c)
      /\ c.state \notin {"tran", "data"} => c.width = 1
      /\ SdCard(c) /\ c.state \in {"stby", "tran", "data"} => c.rca # 0
  BY DEF CardInv
<1>2. CASE d = c
  BY <1>2 DEF MovesTo
<1>3. CASE d = Answering(c)
  <2>1. Turned(c, d, c.state, c.rca, FALSE, c.width)
    BY <1>1, <1>3, TurnedForms
  <2>. QED  BY <1>1, <2>1, TurnMoves
<1>4. CASE Legal(c, m) /\ d \in Effects(c, m) /\ m.idx = GO_IDLE_STATE
  <2>1. Turned(c, d, "idle", 0, FALSE, 1)
    BY <1>1, <1>4, IdleDoes, TurnedForms
  <2>2. m.idx \notin {READ_MULTIPLE_BLOCK, STOP_TRANSMISSION}
    BY <1>4
  <2>. QED  BY <1>1, <1>4, <2>1, <2>2, TurnMoves
<1>5. CASE Legal(c, m) /\ d \in Effects(c, m) /\ m.idx = SEND_IF_COND
  <2>1. d = [Answering(c) EXCEPT !.cond = TRUE]
    BY <1>5, IfCondDoes
  <2>2. Turned(c, d, c.state, c.rca, FALSE, c.width)
    BY <1>1, <2>1, TurnedForms
  <2>. QED  BY <1>1, <1>5, <2>2, TurnMoves
<1>6. CASE Legal(c, m) /\ d \in Effects(c, m) /\ m.idx = APP_CMD
  <2>1. Turned(c, d, c.state, c.rca, TRUE, c.width)
    BY <1>1, <1>6, AppCmdDoes, TurnedForms
  <2>2. m.idx \notin {READ_MULTIPLE_BLOCK, STOP_TRANSMISSION}
    BY <1>6
  <2>. QED  BY <1>1, <1>6, <2>1, <2>2, TurnMoves, AppCmdDoes
<1>7. CASE Legal(c, m) /\ d \in Effects(c, m) /\ m.idx = ALL_SEND_CID
  <2>1. d = [Answering(c) EXCEPT !.state = "ident"]
    BY <1>7, CidDoes
  <2>2. Turned(c, d, "ident", c.rca, FALSE, c.width)
    BY <1>1, <2>1, TurnedForms
  <2>3. m.idx \in {READ_MULTIPLE_BLOCK, STOP_TRANSMISSION} => "ident" \in {"tran", "data"}
    BY <1>7
  <2>. QED  BY <1>1, <1>7, <2>2, <2>3, TurnMoves, CidDoes
<1>8. CASE Legal(c, m) /\ d \in Effects(c, m) /\ m.idx = SELECT_CARD
  <2>1. d = [Answering(c) EXCEPT !.state = "tran"]
    BY <1>8, SelectDoes
  <2>2. Turned(c, d, "tran", c.rca, FALSE, c.width)
    BY <1>1, <2>1, TurnedForms
  <2>3. m.idx \in {READ_MULTIPLE_BLOCK, STOP_TRANSMISSION} => "tran" \in {"tran", "data"}
    BY <1>8
  <2>. QED  BY <1>1, <1>8, <2>2, <2>3, TurnMoves, SelectDoes
<1>9. CASE Legal(c, m) /\ d \in Effects(c, m) /\ m.idx = READ_MULTIPLE_BLOCK
  <2>1. d = [Answering(c) EXCEPT !.state = "data"]
    BY <1>9, MultipleDoes
  <2>2. Turned(c, d, "data", c.rca, FALSE, c.width)
    BY <1>1, <2>1, TurnedForms
  <2>3. m.idx \in {READ_MULTIPLE_BLOCK, STOP_TRANSMISSION} => "data" \in {"tran", "data"}
    BY <1>9
  <2>. QED  BY <1>1, <1>9, <2>2, <2>3, TurnMoves, MultipleDoes
<1>10. CASE Legal(c, m) /\ d \in Effects(c, m) /\ m.idx = STOP_TRANSMISSION
  <2>1. d = [Answering(c) EXCEPT !.state = "tran"]
    BY <1>10, StopDoes
  <2>2. Turned(c, d, "tran", c.rca, FALSE, c.width)
    BY <1>1, <2>1, TurnedForms
  <2>3. m.idx \in {READ_MULTIPLE_BLOCK, STOP_TRANSMISSION} => "tran" \in {"tran", "data"}
    BY <1>10
  <2>. QED  BY <1>1, <1>10, <2>2, <2>3, TurnMoves, StopDoes
<1>11. CASE Legal(c, m) /\ d \in Effects(c, m) /\ m.idx = SWITCH /\ m.arg \in {1, 4, 8}
  <2>1. d = [Answering(c) EXCEPT !.width = m.arg]
    BY <1>11, SwitchDoes
  <2>2. Turned(c, d, c.state, c.rca, FALSE, m.arg)
    BY <1>1, <1>11, <2>1, TurnedForms
  <2>3. c.state = "tran"
    BY <1>11, SwitchDoes
  <2>. QED  BY <1>1, <1>11, <2>2, <2>3, TurnMoves
<1>12. CASE Legal(c, m) /\ d \in Effects(c, m) /\ m.idx = SWITCH /\ m.arg \notin {1, 4, 8}
  BY <1>12, <1>3, SwitchDoes
<1>13. CASE Legal(c, m) /\ d \in Effects(c, m) /\ m.idx \in {SEND_CSD, SEND_STATUS, APP_SEND_SCR, SET_BLOCKLEN, READ_SINGLE_BLOCK}
  BY <1>13, <1>3, OthersDo
<1>14. CASE Legal(c, m) /\ d \in Effects(c, m) /\ m.idx \in {SEND_OP_COND, APP_SEND_OP_COND}
  <2>1. d = Answering(c) \/ d = [Answering(c) EXCEPT !.state = "ready"]
    BY <1>14, OpCondDoes
  <2>2. CASE d = [Answering(c) EXCEPT !.state = "ready"]
    <3>1. Turned(c, d, "ready", c.rca, FALSE, c.width)
      BY <1>1, <2>2, TurnedForms
    <3>2. c.state = "idle" /\ m.idx \notin {READ_MULTIPLE_BLOCK, STOP_TRANSMISSION}
      BY <1>14, OpCondDoes
    <3>. QED  BY <1>1, <1>14, <3>1, <3>2, TurnMoves
  <2>. QED  BY <1>3, <2>1, <2>2
<1>15. CASE Legal(c, m) /\ d \in Effects(c, m) /\ m.idx = SEND_RELATIVE_ADDR
  <2>1. PICK r \in IF SdCard(c) THEN {1, 2} ELSE {m.arg} :
          d = [Answering(c) EXCEPT !.state = "stby", !.rca = r]
    BY <1>15, AddressDoes
  <2>2. r \in 0 .. 2 /\ (SdCard(c) => r # 0)
    BY <1>15, <2>1
  <2>3. Turned(c, d, "stby", r, FALSE, c.width)
    BY <1>1, <2>1, <2>2, TurnedForms
  <2>4. c.state = "ident"
    BY <1>15, AddressDoes
  <2>5. m.idx \notin {READ_MULTIPLE_BLOCK, STOP_TRANSMISSION}
    BY <1>15
  <2>. QED  BY <1>1, <1>15, <2>2, <2>3, <2>4, <2>5, TurnMoves
<1>16. d = c \/ d = Answering(c) \/ (Legal(c, m) /\ d \in Effects(c, m))
  BY DEF Taken, Answering
<1>. QED  BY <1>2, <1>3, <1>4, <1>5, <1>6, <1>7, <1>8, <1>9, <1>10, <1>11, <1>12, <1>13, <1>14, <1>15, <1>16 DEF CommandNames

HIDE DEF GO_IDLE_STATE, SEND_OP_COND, ALL_SEND_CID, SEND_RELATIVE_ADDR, SWITCH,
        SELECT_CARD, SEND_IF_COND, SEND_CSD, STOP_TRANSMISSION, SEND_STATUS,
        SET_BLOCKLEN, READ_SINGLE_BLOCK, READ_MULTIPLE_BLOCK, APP_SEND_OP_COND,
        APP_SEND_SCR, APP_CMD

-----------------------------------------------------------------------------
(* The invariant.                                                          *)

Places ==
  {"client", "hung", "status"} \cup EarlyPlaces \cup IdentPlaces \cup SdPlaces
     \cup HsPlaces \cup WidthPlaces \cup ReadPlaces

InIdent == pc \in IdentPlaces \/ (pc = "status" /\ loc.after = "csd")
InHs == pc \in HsPlaces \/ (pc = "status" /\ loc.after = "hs")
InWidth == pc \in WidthPlaces \/ (pc = "status" /\ loc.after = "width")
Selected == pc \in SdPlaces \/ InHs \/ InWidth
InStartup == InIdent \/ Selected
Addressed == pc \in {"csd", "select"} \/ (pc = "status" /\ loc.after = "csd")

MmcType ==
  [version : Versions, high_capacity : BOOLEAN, rca : 0 .. 2,
   card_caps : SUBSET {"4BIT", "HS", "HS_52MHz"}, bus_width : {1, 4, 8, 12},
   capacity : 0 .. W - 1, has_init : BOOLEAN]

LocType ==
  [timeout : Nat, retries : 0 .. StatusRetries, err : Results,
   after : {"csd", "hs", "width"}, width : 0 .. 3, ext_csd : BOOLEAN, hs52 : BOOLEAN]

ReqType ==
  [start : 0 .. W - 1, todo : 0 .. W - 1, off : 0 .. W - 1, first : 0 .. W - 1,
   dst : Buffers \cup {"none"}, path : Paths(Transfers)]

TypeInv ==
  /\ pc \in Places
  /\ mmc \in MmcType
  /\ loc \in LocType
  /\ req \in ReqType /\ req.off + req.todo <= W - 1
  /\ ret \in Errors \cup {"ok", "0", "blkcnt"}
  /\ host \in Hosts
  /\ cond \in Errors \cup {"ok"}
  /\ right \in BOOLEAN
  /\ BusInv(bus)

\* What holds at the places of mmc_init whatever was lost on the lines
PlaceInv ==
  /\ pc \in EarlyPlaces \/ InStartup => ~mmc.has_init
  /\ pc \in ReadPlaces => mmc.has_init
  /\ pc \in SdPlaces => IsSd(mmc.version)
  /\ InHs \/ InWidth => ~IsSd(mmc.version)
  /\ pc \in EarlyPlaces \/ InIdent \/ pc \in SdPlaces \/ InHs => mmc.bus_width = 1
  /\ pc \in SdPlaces \/ InHs => bus.card.width = 1
  /\ Selected => bus.card.state = "tran" /\ mmc.rca = bus.card.rca
  /\ pc = "relative_addr" => bus.card.state = "ident"
  /\ Addressed => bus.card.state = "stby"
  /\ pc = "read" => bus.card.state = "tran"
  /\ pc \in {"mmc_go_idle", "mmc_ask_op_cond", "mmc_op_cond"} => cond # "ok"
  /\ mmc.version = "none" => mmc.rca = 0

\* What holds there, once the operating condition is established
AgreeInv ==
  cond = "ok" =>
    /\ mmc.has_init => Agree
    /\ InStartup => mmc.high_capacity = bus.card.hc /\ (IsSd(mmc.version) <=> SdCard(bus.card))
    /\ pc = "all_send_cid" => bus.card.state = "ready"
    /\ Addressed => mmc.rca = bus.card.rca
    /\ SdCard(bus.card) /\ (pc = "select" \/ Selected) => mmc.capacity = Size

BaseInv == TypeInv /\ PlaceInv /\ AgreeInv

-----------------------------------------------------------------------------
(* A command is sent.                                                      *)

LEMMA Sent ==
  ASSUME BusInv(bus), NEW m, NEW x, Answered(m, x), m.idx \in CommandNames,
         m.idx = SEND_RELATIVE_ADDR => m.arg \in 0 .. 2
  PROVE  BusInv(x.bus) /\ MovesTo(bus.card, m, x.bus.card)
<1>1. x.bus.card \in Taken(bus.card, m) \cup {bus.card}
  BY DEF Answered
<1>2. MovesTo(bus.card, m, x.bus.card)
  BY <1>1, CardMoves DEF BusInv
<1>3. x.bus \in BusType
  <2>1. x.bus.card \in CardType
    BY <1>2 DEF MovesTo, CardInv
  <2>2. bus.faults \in 0 .. MaxFaults /\ MaxFaults \in Nat
    BY MmcAssumption DEF BusInv, BusType
  <2>3. x.bus.faults \in 0 .. MaxFaults
    BY <2>2 DEF Answered
  <2>. QED  BY <2>1, <2>3 DEF Answered, BusType
<1>. QED  BY <1>2, <1>3 DEF MovesTo, BusInv

\* What the driver may rely on after a command, as far as the card goes
CommandDid(m, x) ==
  /\ BusInv(x.bus)
  /\ MovesTo(bus.card, m, x.bus.card)
  /\ x.err \in Results
  /\ x.err = "ok" /\ m.idx # GO_IDLE_STATE =>
       Legal(bus.card, m) /\ x.bus.card \in Effects(bus.card, m)

LEMMA PlainDid ==
  ASSUME BaseInv, NEW i \in CommandNames, NEW a, i = SEND_RELATIVE_ADDR => a \in 0 .. 2,
         NEW x \in mmc_send_cmd(Plain(i, a))
  PROVE  CommandDid(Plain(i, a), x)
<1>1. BusInv(bus) /\ bus \in BusType
  BY DEF BaseInv, TypeInv, BusInv
<1>2. Answered(Plain(i, a), x)
  BY <1>1, PlainSent
<1>3. Plain(i, a).idx = i /\ Plain(i, a).arg = a
  BY DEF Plain
<1>4. BusInv(x.bus) /\ MovesTo(bus.card, Plain(i, a), x.bus.card)
  BY <1>1, <1>2, <1>3, Sent
<1>. QED  BY <1>2, <1>4, Zenon DEF CommandDid, Answered

LEMMA ReadDid ==
  ASSUME BaseInv, NEW i \in {SEND_IF_COND, SWITCH, APP_SEND_SCR, READ_SINGLE_BLOCK, READ_MULTIPLE_BLOCK},
         NEW a, NEW n \in 0 .. W - 1, NEW off \in 0 .. W - 1,
         NEW dst \in Buffers \cup {"none", "scr", "switch_status", "ext_csd", "cardtype", "test_csd"},
         NEW x \in mmc_send_cmd(Read(i, a, n, dst, off))
  PROVE  /\ CommandDid(Read(i, a, n, dst, off), x)
         /\ x.good \in BOOLEAN
<1> DEFINE m == Read(i, a, n, dst, off)
<1>1. BusInv(bus) /\ bus \in BusType
  BY DEF BaseInv, TypeInv, BusInv
<1>2. m.op = "read" /\ m.idx = i /\ m.arg = a /\ m.xfer \in Transfers
  BY DEF Read, Transfers
<1>3. i \in CommandNames /\ i # SEND_RELATIVE_ADDR /\ i # GO_IDLE_STATE
  BY DEF CommandNames, SEND_IF_COND, SWITCH, APP_SEND_SCR, READ_SINGLE_BLOCK, READ_MULTIPLE_BLOCK,
         SEND_RELATIVE_ADDR, GO_IDLE_STATE
<1>. HIDE DEF m
<1>4. Answered(m, x)
  BY <1>1, <1>2, <1>3, ReadSent DEF m
<1>5. BusInv(x.bus) /\ MovesTo(bus.card, m, x.bus.card)
  BY <1>1, <1>2, <1>3, <1>4, Sent
<1>6. CommandDid(m, x) /\ x.good \in BOOLEAN
  BY <1>4, <1>5, Zenon DEF CommandDid, Answered
<1>. QED  BY <1>6 DEF m

\* The card is still the one it was, as far as Size and SdCard can tell
LEMMA SameCard ==
  ASSUME NEW c, NEW d, Kind(d) = Kind(c)
  PROVE  d.std = c.std /\ d.hc = c.hc /\ d.hs = c.hs /\ d.four = c.four /\ d.blocks = c.blocks
         /\ (SdCard(d) <=> SdCard(c))
BY DEF Kind, SdCard

USE DEF InIdent, InHs, InWidth, Selected, InStartup, Addressed, EarlyPlaces, IdentPlaces,
        SdPlaces, HsPlaces, WidthPlaces, ReadPlaces, Places

LEMMA StartupFailsKeeps ==
  ASSUME BaseInv, NEW e \in Errors, StartupFails(e), BusInv(bus'), Keep
  PROVE  BaseInv'
<1>1. pc' = "client" /\ ret' = e /\ loc' = NoLocals /\ mmc' = [mmc EXCEPT !.has_init = FALSE]
      /\ cond' = cond /\ host' = host /\ req' = req /\ right' = right
  BY DEF StartupFails, InitReturns, Keep
<1>2. mmc' \in MmcType /\ ~mmc'.has_init /\ mmc'.version = mmc.version /\ mmc'.rca = mmc.rca
  BY <1>1 DEF BaseInv, TypeInv, MmcType
<1>3. NoLocals \in LocType
  BY MmcAssumption DEF NoLocals, LocType, Results
<1>4. TypeInv'
  BY <1>1, <1>2, <1>3 DEF BaseInv, TypeInv
<1>5. PlaceInv'
  BY <1>1, <1>2 DEF BaseInv, PlaceInv
<1>6. AgreeInv'
  BY <1>1, <1>2 DEF BaseInv, AgreeInv
<1>. QED  BY <1>4, <1>5, <1>6 DEF BaseInv

\* A command that leaves the card where it is
LEMMA Stays ==
  ASSUME NEW m, NEW x, CommandDid(m, x),
         m.idx \in {SEND_IF_COND, SEND_CSD, SEND_STATUS, SET_BLOCKLEN, READ_SINGLE_BLOCK,
                    APP_SEND_SCR, APP_CMD, SWITCH}
  PROVE  /\ BusInv(x.bus) /\ Kind(x.bus.card) = Kind(bus.card)
         /\ x.bus.card.state = bus.card.state /\ x.bus.card.rca = bus.card.rca
         /\ m.idx # SWITCH \/ m.arg \notin {1, 4, 8} => x.bus.card.width = bus.card.width
BY DEF CommandDid, MovesTo, GO_IDLE_STATE, SEND_OP_COND, ALL_SEND_CID, SEND_RELATIVE_ADDR, SWITCH,
       SELECT_CARD, SEND_IF_COND, SEND_CSD, STOP_TRANSMISSION, SEND_STATUS,
       SET_BLOCKLEN, READ_SINGLE_BLOCK, READ_MULTIPLE_BLOCK, APP_SEND_OP_COND,
       APP_SEND_SCR, APP_CMD

LEMMA TypeStep ==
  ASSUME TypeInv, Keep, pc' \in Places, mmc' \in MmcType, loc' \in LocType,
         ret' \in Errors \cup {"ok", "0", "blkcnt"}, cond' \in Errors \cup {"ok"}, BusInv(bus')
  PROVE  TypeInv'
BY DEF TypeInv, Keep

LEMMA IosKeeps ==
  ASSUME NEW b, BusInv(b), NEW d \in mmc_set_ios(b)
  PROVE  /\ BusInv(d) /\ d.card = b.card /\ d.faults = b.faults
         /\ b.path # Dirty => d.path = Clean
<1>1. PICK p \in AfterReset(b.path) : d = [b EXCEPT !.path = p]
  BY DEF mmc_set_ios
<1>2. p \in {Clean} \cup ({b.path} \cap {Dirty})
  BY <1>1 DEF AfterReset
<1>3. p \in Paths(Transfers) /\ (b.path # Dirty => p = Clean)
  BY <1>2, PathIs
<1>4. b \in BusType
  BY DEF BusInv
<1>5. d \in BusType /\ d.card = b.card /\ d.faults = b.faults /\ d.path = p
  BY <1>1, <1>3, <1>4 DEF BusType
<1>. QED  BY <1>3, <1>5 DEF BusInv

LEMMA InitKeeps ==
  ASSUME BaseInv, mmc_init
  PROVE  BaseInv'
<1>1. CASE mmc.has_init
  <2>1. /\ pc = "client" /\ ret' = "ok" /\ Keep
        /\ pc' = pc /\ mmc' = mmc /\ bus' = bus /\ loc' = loc /\ cond' = cond
    BY <1>1 DEF mmc_init
  <2>2. TypeInv'
    BY <2>1, TypeStep DEF BaseInv, TypeInv
  <2>3. PlaceInv' /\ AgreeInv'
    BY <2>1 DEF BaseInv, PlaceInv, AgreeInv, Agree, SameWidth, Size
  <2>. QED  BY <2>2, <2>3 DEF BaseInv
<1>2. CASE ~mmc.has_init
  <2>1. /\ pc' = "go_idle" /\ ret' = ret /\ Keep /\ loc' = loc /\ cond' = cond
        /\ mmc' = [mmc EXCEPT !.bus_width = 1] /\ bus' \in mmc_set_ios(bus)
    BY <1>2 DEF mmc_init, Goto
  <2>2. BusInv(bus')
    BY <2>1, IosKeeps DEF BaseInv, TypeInv
  <2>3. /\ mmc' \in MmcType /\ mmc'.bus_width = 1 /\ mmc'.has_init = mmc.has_init
        /\ mmc'.version = mmc.version /\ mmc'.rca = mmc.rca
    BY <2>1 DEF BaseInv, TypeInv, MmcType
  <2>4. TypeInv'
    BY <2>1, <2>2, <2>3, TypeStep DEF BaseInv, TypeInv
  <2>5. PlaceInv' /\ AgreeInv'
    BY <1>2, <2>1, <2>3 DEF BaseInv, PlaceInv, AgreeInv
  <2>. QED  BY <2>4, <2>5 DEF BaseInv
<1>. QED  BY <1>1, <1>2

\* mmc_init returns before mmc_startup
LEMMA InitReturnsKeeps ==
  ASSUME BaseInv, pc \in EarlyPlaces, NEW e \in Errors, InitReturns(e), BusInv(bus'), Keep,
         mmc' = mmc, cond' = cond
  PROVE  BaseInv'
<1>1. pc' = "client" /\ ret' = e /\ loc' = NoLocals
  BY DEF InitReturns
<1>2. NoLocals \in LocType
  BY MmcAssumption DEF NoLocals, LocType, Results
<1>3. TypeInv'
  BY <1>1, <1>2, TypeStep DEF BaseInv, TypeInv
<1>4. PlaceInv' /\ AgreeInv'
  BY <1>1 DEF BaseInv, PlaceInv, AgreeInv
<1>. QED  BY <1>3, <1>4 DEF BaseInv

LEMMA ResultIs ==
  ASSUME NEW e \in Results, e # "ok"
  PROVE  e \in Errors
BY DEF Results, Errors

LEMMA GoIdleKeeps ==
  ASSUME BaseInv, mmc_go_idle
  PROVE  BaseInv'
<1>1. PICK x \in mmc_send_cmd(Plain(GO_IDLE_STATE, 0)) :
        /\ bus' = x.bus
        /\ IF x.err # "ok" THEN InitReturns(x.err) ELSE Goto("if_cond") /\ UNCHANGED loc
  BY DEF mmc_go_idle
<1>2. pc = "go_idle" /\ mmc' = mmc /\ cond' = cond /\ Keep
  BY DEF mmc_go_idle
<1>3. GO_IDLE_STATE \in CommandNames /\ GO_IDLE_STATE # SEND_RELATIVE_ADDR
  BY DEF CommandNames, GO_IDLE_STATE, SEND_RELATIVE_ADDR
<1>4. BusInv(bus') /\ x.err \in Results
  BY <1>1, <1>3, PlainDid DEF CommandDid
<1>5. CASE x.err # "ok"
  BY <1>1, <1>2, <1>4, <1>5, ResultIs, InitReturnsKeeps
<1>6. CASE x.err = "ok"
  <2>1. pc' = "if_cond" /\ ret' = ret /\ loc' = loc
    BY <1>1, <1>6 DEF Goto
  <2>2. TypeInv'
    BY <1>2, <1>4, <2>1, TypeStep DEF BaseInv, TypeInv
  <2>3. PlaceInv' /\ AgreeInv'
    BY <1>2, <2>1 DEF BaseInv, PlaceInv, AgreeInv
  <2>. QED  BY <2>2, <2>3 DEF BaseInv
<1>. QED  BY <1>5, <1>6

\* A move of the place and the locals alone, of the card as a plain command does
LEMMA IfCondKeeps ==
  ASSUME BaseInv, mmc_send_if_cond
  PROVE  BaseInv'
<1>1. PICK x \in mmc_send_cmd(Plain(SEND_IF_COND, 0)) :
        /\ bus' = x.bus
        /\ mmc' = IF x.err = "ok" THEN [mmc EXCEPT !.version = "SD_2"] ELSE mmc
  BY DEF mmc_send_if_cond
<1>2. /\ pc = "if_cond" /\ pc' = "app_op_cond" /\ ret' = ret /\ cond' = cond /\ Keep
      /\ loc' = [loc EXCEPT !.timeout = OpCondTries]
  BY DEF mmc_send_if_cond, Goto
<1>3. SEND_IF_COND \in CommandNames /\ SEND_IF_COND # SEND_RELATIVE_ADDR
  BY DEF CommandNames, SEND_IF_COND, SEND_RELATIVE_ADDR
<1>4. BusInv(bus')
  BY <1>1, <1>3, PlainDid DEF CommandDid
<1>5. mmc' \in MmcType /\ mmc'.bus_width = mmc.bus_width /\ mmc'.has_init = mmc.has_init
      /\ mmc'.rca = mmc.rca /\ (mmc'.version = "none" => mmc.version = "none")
  BY <1>1 DEF BaseInv, TypeInv, MmcType, Versions, SdVersions
<1>6. loc' \in LocType
  BY <1>2, MmcAssumption DEF BaseInv, TypeInv, LocType
<1>7. TypeInv'
  BY <1>2, <1>4, <1>5, <1>6, TypeStep DEF BaseInv, TypeInv
<1>8. PlaceInv' /\ AgreeInv'
  BY <1>2, <1>5 DEF BaseInv, PlaceInv, AgreeInv
<1>. QED  BY <1>7, <1>8 DEF BaseInv

LEMMA SdOpCondFailsKeeps ==
  ASSUME BaseInv, pc \in {"app_op_cond", "op_cond"}, NEW e \in Errors, SdOpCondFails(e),
         BusInv(bus'), Keep
  PROVE  BaseInv'
<1>1. /\ cond' = e /\ e # "ok" /\ mmc' = mmc /\ loc' = loc /\ ret' = ret
      /\ pc' = IF e = "TIMEOUT" THEN "mmc_go_idle" ELSE "all_send_cid"
  BY DEF SdOpCondFails, Goto, Errors
<1>2. TypeInv'
  BY <1>1, TypeStep DEF BaseInv, TypeInv
<1>3. PlaceInv' /\ AgreeInv'
  BY <1>1 DEF BaseInv, PlaceInv, AgreeInv
<1>. QED  BY <1>2, <1>3 DEF BaseInv

LEMMA OpCondAppKeeps ==
  ASSUME BaseInv, sd_send_op_cond_app
  PROVE  BaseInv'
<1>1. PICK x \in mmc_send_cmd(Plain(APP_CMD, 0)) :
        /\ bus' = x.bus
        /\ IF x.err # "ok" THEN SdOpCondFails(x.err)
           ELSE Goto("op_cond") /\ UNCHANGED <<mmc, loc, cond>>
  BY DEF sd_send_op_cond_app
<1>2. pc = "app_op_cond" /\ Keep
  BY DEF sd_send_op_cond_app
<1>3. APP_CMD \in CommandNames /\ APP_CMD # SEND_RELATIVE_ADDR
  BY DEF CommandNames, APP_CMD, SEND_RELATIVE_ADDR
<1>4. BusInv(bus') /\ x.err \in Results
  BY <1>1, <1>3, PlainDid DEF CommandDid
<1>5. CASE x.err # "ok"
  BY <1>1, <1>2, <1>4, <1>5, ResultIs, SdOpCondFailsKeeps
<1>6. CASE x.err = "ok"
  <2>1. pc' = "op_cond" /\ ret' = ret /\ loc' = loc /\ mmc' = mmc /\ cond' = cond
    BY <1>1, <1>6 DEF Goto
  <2>2. TypeInv'
    BY <1>2, <1>4, <2>1, TypeStep DEF BaseInv, TypeInv
  <2>3. PlaceInv' /\ AgreeInv'
    BY <1>2, <2>1 DEF BaseInv, PlaceInv, AgreeInv
  <2>. QED  BY <2>2, <2>3 DEF BaseInv
<1>. QED  BY <1>5, <1>6

LEMMA OpCondDoneKeeps ==
  ASSUME BaseInv, pc \in EarlyPlaces, NEW v \in {"SD_1_0", "SD_2", "MMC_UNKNOWN"},
         OpCondDone(v, bus'.card),
         BusInv(bus'), Keep, IsSd(v) <=> SdCard(bus'.card), bus'.card.state = "ready"
  PROVE  BaseInv'
<1>1. /\ pc' = "all_send_cid" /\ ret' = ret /\ cond' = "ok" /\ loc' = loc
      /\ mmc' = [mmc EXCEPT !.version = v, !.high_capacity = bus'.card.hc, !.rca = 0]
  BY DEF OpCondDone, Goto
<1>2. bus'.card.hc \in BOOLEAN
  BY DEF BusInv, CardInv, CardType, CardRecords
<1>3. /\ mmc' \in MmcType /\ mmc'.version = v /\ mmc'.high_capacity = bus'.card.hc /\ mmc'.rca = 0
      /\ mmc'.has_init = mmc.has_init /\ mmc'.bus_width = mmc.bus_width
  <2>1. v \in Versions /\ 0 \in 0 .. 2
    BY DEF Versions, SdVersions
  <2>3. ASSUME NEW r \in 0 .. 2, NEW h \in BOOLEAN, NEW u \in Versions
        PROVE  [mmc EXCEPT !.version = u, !.high_capacity = h, !.rca = r] \in MmcType
    BY DEF BaseInv, TypeInv, MmcType
  <2>4. mmc' \in MmcType
    BY <1>1, <1>2, <2>1, <2>3
  <2>5. /\ mmc'.version = v /\ mmc'.high_capacity = bus'.card.hc /\ mmc'.rca = 0
        /\ mmc'.has_init = mmc.has_init /\ mmc'.bus_width = mmc.bus_width
    BY <1>1 DEF BaseInv, TypeInv, MmcType
  <2>. QED  BY <2>4, <2>5
<1>4. TypeInv'
  BY <1>1, <1>3, TypeStep DEF BaseInv, TypeInv
<1>5. PlaceInv' /\ AgreeInv'
  BY <1>1, <1>3 DEF BaseInv, PlaceInv, AgreeInv
<1>. QED  BY <1>4, <1>5 DEF BaseInv

LEMMA OpCondKeeps ==
  ASSUME BaseInv, sd_send_op_cond
  PROVE  BaseInv'
<1> DEFINE m == Plain(APP_SEND_OP_COND, IF mmc.version = "SD_2" THEN 2 ELSE 1)
<1>1. PICK x \in mmc_send_cmd(m) :
       /\ bus' = x.bus
       /\ CASE x.err # "ok" -> SdOpCondFails(x.err)
            [] x.err = "ok" /\ loc.timeout = 0 -> SdOpCondFails("UNUSABLE_ERR")
            [] x.err = "ok" /\ loc.timeout > 0 /\ x.bus.card.state = "ready" ->
                 OpCondDone(IF mmc.version = "SD_2" THEN "SD_2" ELSE "SD_1_0", x.bus.card)
            [] OTHER ->
                 /\ loc' = [loc EXCEPT !.timeout = @ - 1]
                 /\ Goto("app_op_cond")
                 /\ UNCHANGED <<mmc, cond>>
  BY DEF sd_send_op_cond
<1>2. pc = "op_cond" /\ Keep
  BY DEF sd_send_op_cond
<1>3. APP_SEND_OP_COND \in CommandNames /\ APP_SEND_OP_COND # SEND_RELATIVE_ADDR
      /\ APP_SEND_OP_COND # GO_IDLE_STATE
  BY DEF CommandNames, APP_SEND_OP_COND, SEND_RELATIVE_ADDR, GO_IDLE_STATE
<1>4. CommandDid(m, x) /\ m.idx = APP_SEND_OP_COND
  BY <1>1, <1>3, PlainDid DEF Plain
<1>. HIDE DEF m
<1>5. BusInv(bus') /\ x.err \in Results
  BY <1>1, <1>4 DEF CommandDid
<1>6. loc.timeout \in Nat
  BY DEF BaseInv, TypeInv, LocType
<1>7. CASE x.err # "ok"
  BY <1>1, <1>2, <1>5, <1>7, ResultIs, SdOpCondFailsKeeps
<1>8. CASE x.err = "ok" /\ loc.timeout = 0
  <2>1. "UNUSABLE_ERR" \in Errors
    BY DEF Errors
  <2>. QED  BY <1>1, <1>2, <1>5, <1>8, <2>1, SdOpCondFailsKeeps
<1>9. CASE x.err = "ok" /\ loc.timeout > 0 /\ x.bus.card.state = "ready"
  <2>1. OpCondDone(IF mmc.version = "SD_2" THEN "SD_2" ELSE "SD_1_0", bus'.card)
    BY <1>1, <1>9
  <2>2. SdCard(x.bus.card)
    <3>1. Legal(bus.card, m) /\ Kind(x.bus.card) = Kind(bus.card)
      BY <1>3, <1>4, <1>9 DEF CommandDid, MovesTo
    <3>2. bus.card.app
      BY <1>4, <3>1, OpCondDoes
    <3>3. SdCard(bus.card)
      BY <3>2 DEF BaseInv, TypeInv, BusInv, CardInv
    <3>. QED  BY <3>1, <3>3, SameCard
  <2>3. ASSUME NEW v \in {"SD_1_0", "SD_2"}
        PROVE  IsSd(v)
    BY DEF IsSd, SdVersions
  <2>. QED  BY <1>1, <1>2, <1>5, <1>9, <2>1, <2>2, <2>3, OpCondDoneKeeps
<1>10. CASE x.err = "ok" /\ loc.timeout > 0 /\ x.bus.card.state # "ready"
  <2>1. /\ loc' = [loc EXCEPT !.timeout = @ - 1] /\ pc' = "app_op_cond" /\ ret' = ret
        /\ mmc' = mmc /\ cond' = cond
    BY <1>1, <1>10 DEF Goto
  <2>2. loc' \in LocType
    BY <1>6, <1>10, <2>1 DEF BaseInv, TypeInv, LocType
  <2>3. TypeInv'
    BY <1>2, <1>5, <2>1, <2>2, TypeStep DEF BaseInv, TypeInv
  <2>4. PlaceInv' /\ AgreeInv'
    BY <1>2, <2>1 DEF BaseInv, PlaceInv, AgreeInv
  <2>. QED  BY <2>3, <2>4 DEF BaseInv
<1>. QED  BY <1>6, <1>7, <1>8, <1>9, <1>10

LEMMA TriesAre ==
  /\ OpCondTries \in Nat /\ MmcOpCondTries \in Nat /\ StatusTries \in Nat
  /\ ScrTries \in Nat /\ SwitchTries \in Nat
  /\ StatusRetries \in Nat /\ StatusRetries \in 0 .. StatusRetries
BY MmcAssumption

LEMMA MmcIdleKeeps ==
  ASSUME BaseInv, mmc_send_op_cond_idle
  PROVE  BaseInv'
<1>1. PICK x \in mmc_send_cmd(Plain(GO_IDLE_STATE, 0)) : bus' = x.bus
  BY DEF mmc_send_op_cond_idle
<1>2. /\ pc = "mmc_go_idle" /\ pc' = "mmc_ask_op_cond" /\ ret' = ret /\ mmc' = mmc /\ loc' = loc
      /\ cond' = cond /\ Keep
  BY DEF mmc_send_op_cond_idle, Goto
<1>3. GO_IDLE_STATE \in CommandNames /\ GO_IDLE_STATE # SEND_RELATIVE_ADDR
  BY DEF CommandNames, GO_IDLE_STATE, SEND_RELATIVE_ADDR
<1>4. BusInv(bus')
  BY <1>1, <1>3, PlainDid DEF CommandDid
<1>5. TypeInv'
  BY <1>2, <1>4, TypeStep DEF BaseInv, TypeInv
<1>6. PlaceInv' /\ AgreeInv'
  BY <1>2 DEF BaseInv, PlaceInv, AgreeInv
<1>. QED  BY <1>5, <1>6 DEF BaseInv

LEMMA AskOpCondKeeps ==
  ASSUME BaseInv, mmc_send_op_cond_ask
  PROVE  BaseInv'
<1>1. PICK x \in mmc_send_cmd(Plain(SEND_OP_COND, 0)) :
       /\ bus' = x.bus
       /\ IF x.err # "ok" THEN InitReturns("UNUSABLE_ERR")
          ELSE Goto("mmc_op_cond") /\ loc' = [loc EXCEPT !.timeout = MmcOpCondTries]
  BY DEF mmc_send_op_cond_ask
<1>2. pc = "mmc_ask_op_cond" /\ mmc' = mmc /\ cond' = cond /\ Keep
  BY DEF mmc_send_op_cond_ask
<1>3. SEND_OP_COND \in CommandNames /\ SEND_OP_COND # SEND_RELATIVE_ADDR
  BY DEF CommandNames, SEND_OP_COND, SEND_RELATIVE_ADDR
<1>4. BusInv(bus')
  BY <1>1, <1>3, PlainDid DEF CommandDid
<1>5. CASE x.err # "ok"
  <2>1. "UNUSABLE_ERR" \in Errors
    BY DEF Errors
  <2>. QED  BY <1>1, <1>2, <1>4, <1>5, <2>1, InitReturnsKeeps
<1>6. CASE x.err = "ok"
  <2>1. pc' = "mmc_op_cond" /\ ret' = ret /\ loc' = [loc EXCEPT !.timeout = MmcOpCondTries]
    BY <1>1, <1>6 DEF Goto
  <2>2. loc' \in LocType
    BY <2>1, MmcAssumption DEF BaseInv, TypeInv, LocType
  <2>3. TypeInv'
    BY <1>2, <1>4, <2>1, <2>2, TypeStep DEF BaseInv, TypeInv
  <2>4. PlaceInv' /\ AgreeInv'
    BY <1>2, <2>1 DEF BaseInv, PlaceInv, AgreeInv
  <2>. QED  BY <2>3, <2>4 DEF BaseInv
<1>. QED  BY <1>5, <1>6

LEMMA MmcOpCondKeeps ==
  ASSUME BaseInv, mmc_send_op_cond
  PROVE  BaseInv'
<1> DEFINE m == Plain(SEND_OP_COND, 1)
<1>1. PICK x \in mmc_send_cmd(m) :
       /\ bus' = x.bus
       /\ CASE x.err # "ok" \/ loc.timeout = 0 ->
                 InitReturns("UNUSABLE_ERR") /\ UNCHANGED <<mmc, cond>>
            [] x.err = "ok" /\ loc.timeout > 0 /\ x.bus.card.state = "ready" ->
                 OpCondDone("MMC_UNKNOWN", x.bus.card)
            [] OTHER ->
                 /\ loc' = [loc EXCEPT !.timeout = @ - 1]
                 /\ Goto("mmc_op_cond")
                 /\ UNCHANGED <<mmc, cond>>
  BY DEF mmc_send_op_cond
<1>2. pc = "mmc_op_cond" /\ Keep
  BY DEF mmc_send_op_cond
<1>3. SEND_OP_COND \in CommandNames /\ SEND_OP_COND # SEND_RELATIVE_ADDR
      /\ SEND_OP_COND # GO_IDLE_STATE
  BY DEF CommandNames, SEND_OP_COND, SEND_RELATIVE_ADDR, GO_IDLE_STATE
<1>4. CommandDid(m, x) /\ m.idx = SEND_OP_COND
  BY <1>1, <1>3, PlainDid DEF Plain
<1>. HIDE DEF m
<1>5. BusInv(bus') /\ x.err \in Results
  BY <1>1, <1>4 DEF CommandDid
<1>6. loc.timeout \in Nat
  BY DEF BaseInv, TypeInv, LocType
<1>7. CASE x.err # "ok" \/ loc.timeout = 0
  <2>1. "UNUSABLE_ERR" \in Errors
    BY DEF Errors
  <2>2. InitReturns("UNUSABLE_ERR") /\ mmc' = mmc /\ cond' = cond
    BY <1>1, <1>7
  <2>. QED  BY <1>2, <1>5, <2>1, <2>2, InitReturnsKeeps
<1>8. CASE x.err = "ok" /\ loc.timeout > 0 /\ x.bus.card.state = "ready"
  <2>1. OpCondDone("MMC_UNKNOWN", bus'.card) /\ bus'.card.state = "ready"
    BY <1>1, <1>8
  <2>2. ~SdCard(bus'.card)
    <3>1. Legal(bus.card, m) /\ Kind(x.bus.card) = Kind(bus.card)
      BY <1>3, <1>4, <1>8 DEF CommandDid, MovesTo
    <3>2. ~SdCard(bus.card)
      BY <1>4, <3>1, OpCondDoes
    <3>. QED  BY <1>1, <3>1, <3>2, SameCard
  <2>3. ~IsSd("MMC_UNKNOWN")
    BY DEF IsSd, SdVersions
  <2>. QED  BY <1>2, <1>5, <2>1, <2>2, <2>3, OpCondDoneKeeps
<1>9. CASE x.err = "ok" /\ loc.timeout > 0 /\ x.bus.card.state # "ready"
  <2>1. /\ loc' = [loc EXCEPT !.timeout = @ - 1] /\ pc' = "mmc_op_cond" /\ ret' = ret
        /\ mmc' = mmc /\ cond' = cond
    BY <1>1, <1>9 DEF Goto
  <2>2. loc' \in LocType
    BY <1>6, <1>9, <2>1 DEF BaseInv, TypeInv, LocType
  <2>3. TypeInv'
    BY <1>2, <1>5, <2>1, <2>2, TypeStep DEF BaseInv, TypeInv
  <2>4. PlaceInv' /\ AgreeInv'
    BY <1>2, <2>1 DEF BaseInv, PlaceInv, AgreeInv
  <2>. QED  BY <2>3, <2>4 DEF BaseInv
<1>. QED  BY <1>6, <1>7, <1>8, <1>9

LEMMA AllSendCidKeeps ==
  ASSUME BaseInv, all_send_cid
  PROVE  BaseInv'
<1> DEFINE m == Plain(ALL_SEND_CID, 0)
<1>1. PICK x \in mmc_send_cmd(m) :
       /\ bus' = x.bus
       /\ IF x.err # "ok" THEN StartupFails(x.err)
          ELSE Goto("relative_addr") /\ UNCHANGED <<mmc, loc, cond>>
  BY DEF all_send_cid
<1>2. pc = "all_send_cid" /\ Keep
  BY DEF all_send_cid
<1>3. ALL_SEND_CID \in CommandNames /\ ALL_SEND_CID # SEND_RELATIVE_ADDR
      /\ ALL_SEND_CID # GO_IDLE_STATE
  BY DEF CommandNames, ALL_SEND_CID, SEND_RELATIVE_ADDR, GO_IDLE_STATE
<1>4. CommandDid(m, x) /\ m.idx = ALL_SEND_CID
  BY <1>1, <1>3, PlainDid DEF Plain
<1>. HIDE DEF m
<1>5. BusInv(bus') /\ x.err \in Results
  BY <1>1, <1>4 DEF CommandDid
<1>6. CASE x.err # "ok"
  BY <1>1, <1>2, <1>5, <1>6, ResultIs, StartupFailsKeeps
<1>7. CASE x.err = "ok"
  <2>1. pc' = "relative_addr" /\ ret' = ret /\ loc' = loc /\ mmc' = mmc /\ cond' = cond
    BY <1>1, <1>7 DEF Goto
  <2>2. x.bus.card \in Effects(bus.card, m) /\ Kind(x.bus.card) = Kind(bus.card)
    BY <1>3, <1>4, <1>7 DEF CommandDid, MovesTo
  <2>3. x.bus.card = [Answering(bus.card) EXCEPT !.state = "ident"]
    BY <1>4, <2>2, CidDoes
  <2>4. bus.card \in CardType
    BY DEF BaseInv, TypeInv, BusInv, CardInv
  <2>5. bus'.card.state = "ident" /\ bus'.card.hc = bus.card.hc
        /\ (SdCard(bus'.card) <=> SdCard(bus.card))
    <3>1. Turned(bus.card, bus'.card, "ident", bus.card.rca, FALSE, bus.card.width)
      BY <1>1, <2>3, <2>4, TurnedForms
    <3>. QED  BY <1>1, <2>2, <3>1, SameCard DEF Turned
  <2>6. TypeInv'
    BY <1>2, <1>5, <2>1, TypeStep DEF BaseInv, TypeInv
  <2>7. PlaceInv' /\ AgreeInv'
    BY <1>2, <2>1, <2>5 DEF BaseInv, PlaceInv, AgreeInv
  <2>. QED  BY <2>6, <2>7 DEF BaseInv
<1>. QED  BY <1>6, <1>7

LEMMA RelativeAddrKeeps ==
  ASSUME BaseInv, send_relative_addr
  PROVE  BaseInv'
<1> DEFINE m == Plain(SEND_RELATIVE_ADDR, mmc.rca)
<1>1. PICK x \in mmc_send_cmd(m) :
       /\ bus' = x.bus
       /\ IF x.err # "ok" THEN StartupFails(x.err)
          ELSE /\ mmc' = IF IsSd(mmc.version) THEN [mmc EXCEPT !.rca = x.bus.card.rca] ELSE mmc
               /\ Goto("csd")
               /\ UNCHANGED <<loc, cond>>
  BY DEF send_relative_addr
<1>2. pc = "relative_addr" /\ Keep
  BY DEF send_relative_addr
<1>3. SEND_RELATIVE_ADDR \in CommandNames /\ SEND_RELATIVE_ADDR # GO_IDLE_STATE
  BY DEF CommandNames, SEND_RELATIVE_ADDR, GO_IDLE_STATE
<1>4. mmc.rca \in 0 .. 2
  BY DEF BaseInv, TypeInv, MmcType
<1>5. CommandDid(m, x) /\ m.idx = SEND_RELATIVE_ADDR /\ m.arg = mmc.rca
  BY <1>1, <1>3, <1>4, PlainDid DEF Plain
<1>. HIDE DEF m
<1>6. BusInv(bus') /\ x.err \in Results
  BY <1>1, <1>5 DEF CommandDid
<1>7. CASE x.err # "ok"
  BY <1>1, <1>2, <1>6, <1>7, ResultIs, StartupFailsKeeps
<1>8. CASE x.err = "ok"
  <2>1. /\ pc' = "csd" /\ ret' = ret /\ loc' = loc /\ cond' = cond
        /\ mmc' = IF IsSd(mmc.version) THEN [mmc EXCEPT !.rca = bus'.card.rca] ELSE mmc
    BY <1>1, <1>8 DEF Goto
  <2>2. x.bus.card \in Effects(bus.card, m) /\ Kind(x.bus.card) = Kind(bus.card)
    BY <1>3, <1>5, <1>8 DEF CommandDid, MovesTo
  <2>3. PICK r \in IF SdCard(bus.card) THEN {1, 2} ELSE {m.arg} :
          x.bus.card = [Answering(bus.card) EXCEPT !.state = "stby", !.rca = r]
    BY <1>5, <2>2, AddressDoes
  <2>4. bus.card \in CardType /\ r \in 0 .. 2
    BY <1>4, <1>5, <2>3 DEF BaseInv, TypeInv, BusInv, CardInv
  <2>5. /\ bus'.card.state = "stby" /\ bus'.card.rca = r /\ bus'.card.hc = bus.card.hc
        /\ SdCard(bus'.card) <=> SdCard(bus.card)
        /\ bus'.card.blocks = bus.card.blocks
    <3>1. Turned(bus.card, bus'.card, "stby", r, FALSE, bus.card.width)
      BY <1>1, <2>3, <2>4, TurnedForms
    <3>. QED  BY <1>1, <2>2, <3>1, SameCard DEF Turned
  <2>6. /\ mmc' \in MmcType /\ mmc'.version = mmc.version /\ mmc'.has_init = mmc.has_init
        /\ mmc'.bus_width = mmc.bus_width /\ mmc'.high_capacity = mmc.high_capacity
        /\ mmc'.rca = IF IsSd(mmc.version) THEN r ELSE mmc.rca
    BY <2>1, <2>4, <2>5 DEF BaseInv, TypeInv, MmcType
  <2>7. mmc'.version # "none" \/ mmc'.rca = 0
    BY <2>6 DEF BaseInv, PlaceInv, IsSd, SdVersions
  <2>8. TypeInv'
    BY <1>2, <1>6, <2>1, <2>6, TypeStep DEF BaseInv, TypeInv
  <2>9. PlaceInv' /\ AgreeInv'
    BY <1>2, <1>5, <2>1, <2>3, <2>5, <2>6, <2>7 DEF BaseInv, PlaceInv, AgreeInv
  <2>. QED  BY <2>8, <2>9 DEF BaseInv
<1>. QED  BY <1>7, <1>8

LEMMA SendCsdKeeps ==
  ASSUME BaseInv, send_csd
  PROVE  BaseInv'
<1> DEFINE m == Plain(SEND_CSD, mmc.rca)
<1>1. PICK x \in mmc_send_cmd(m) :
       /\ bus' = x.bus
       /\ loc' = [loc EXCEPT !.err = x.err, !.after = "csd",
                             !.timeout = StatusTries, !.retries = StatusRetries]
  BY DEF send_csd
<1>2. pc = "csd" /\ pc' = "status" /\ ret' = ret /\ mmc' = mmc /\ cond' = cond /\ Keep
  BY DEF send_csd, Goto
<1>3. SEND_CSD \in CommandNames /\ SEND_CSD # SEND_RELATIVE_ADDR /\ SEND_CSD # SWITCH
  BY DEF CommandNames, SEND_CSD, SEND_RELATIVE_ADDR, SWITCH
<1>4. CommandDid(m, x) /\ m.idx = SEND_CSD
  BY <1>1, <1>3, PlainDid DEF Plain
<1>. HIDE DEF m
<1>5. BusInv(bus') /\ x.err \in Results
  BY <1>1, <1>4 DEF CommandDid
<1>6. /\ bus'.card.state = bus.card.state /\ bus'.card.rca = bus.card.rca
      /\ bus'.card.hc = bus.card.hc /\ (SdCard(bus'.card) <=> SdCard(bus.card))
  BY <1>1, <1>4, Stays, SameCard
<1>7. loc' \in LocType /\ loc'.after = "csd"
  <2>1. "csd" \in {"csd", "hs", "width"}
    OBVIOUS
  <2>. QED  BY <1>1, <1>5, <2>1, TriesAre DEF BaseInv, TypeInv, LocType
<1>8. TypeInv'
  BY <1>2, <1>5, <1>7, TypeStep DEF BaseInv, TypeInv
<1>9. PlaceInv' /\ AgreeInv'
  BY <1>2, <1>6, <1>7 DEF BaseInv, PlaceInv, AgreeInv
<1>. QED  BY <1>8, <1>9 DEF BaseInv

\* With struct mmc being m and the bus being b, the card is selected
Ready(m, b) ==
  /\ m \in MmcType /\ BusInv(b)
  /\ b.card.state = "tran" /\ m.rca = b.card.rca
  /\ m.version = "none" => m.rca = 0
  /\ cond = "ok" =>
       /\ m.high_capacity = b.card.hc
       /\ IsSd(m.version) <=> SdCard(b.card)
       /\ SdCard(b.card) => m.capacity = (b.card.blocks * BL) % W

LEMMA SelectedIsReady ==
  ASSUME BaseInv, Selected
  PROVE  Ready(mmc, bus) /\ ~mmc.has_init
BY DEF BaseInv, TypeInv, PlaceInv, AgreeInv, Ready, Size

LEMMA ReadyStays ==
  ASSUME NEW m, NEW b, Ready(m, b), NEW d, BusInv(d), Kind(d.card) = Kind(b.card),
         d.card.state = b.card.state, d.card.rca = b.card.rca
  PROVE  Ready(m, d)
<1>1. d.card.hc = b.card.hc /\ d.card.blocks = b.card.blocks /\ (SdCard(d.card) <=> SdCard(b.card))
  BY SameCard
<1>. QED  BY <1>1 DEF Ready

\* On to a place where the card is selected
LEMMA ToSelected ==
  ASSUME BaseInv, Keep, Ready(mmc', bus'), ~mmc'.has_init, loc' \in LocType, ret' = ret, cond' = cond,
         \/ pc' \in SdPlaces /\ IsSd(mmc'.version) /\ mmc'.bus_width = 1 /\ bus'.card.width = 1
         \/ /\ pc' \in HsPlaces \/ (pc' = "status" /\ loc'.after = "hs")
            /\ ~IsSd(mmc'.version) /\ mmc'.bus_width = 1 /\ bus'.card.width = 1
         \/ /\ pc' \in WidthPlaces \/ (pc' = "status" /\ loc'.after = "width")
            /\ ~IsSd(mmc'.version)
  PROVE  BaseInv'
<1>1. TypeInv'
  BY TypeStep DEF BaseInv, TypeInv, Ready
<1>2. PlaceInv'
  BY DEF PlaceInv, Ready
<1>3. AgreeInv'
  BY DEF AgreeInv, Ready, Size
<1>. QED  BY <1>1, <1>2, <1>3 DEF BaseInv

LEMMA StartupEndsKeeps ==
  ASSUME BaseInv, Keep, NEW m, NEW b, Ready(m, b), StartupEnds(m, b),
         cond = "ok" /\ SdCard(b.card) => m.bus_width = b.card.width
  PROVE  BaseInv'
<1>1. /\ pc' = "client" /\ ret' = "ok" /\ loc' = NoLocals /\ cond' = cond
      /\ mmc' = [m EXCEPT !.has_init = TRUE] /\ bus' \in mmc_set_ios(b)
  BY DEF StartupEnds, InitReturns
<1>2. BusInv(bus') /\ bus'.card = b.card
  BY <1>1, IosKeeps DEF Ready
<1>3. /\ mmc' \in MmcType /\ mmc'.version = m.version /\ mmc'.rca = m.rca
      /\ mmc'.high_capacity = m.high_capacity /\ mmc'.capacity = m.capacity
      /\ mmc'.bus_width = m.bus_width
  BY <1>1 DEF Ready, MmcType
<1>4. NoLocals \in LocType
  BY MmcAssumption DEF NoLocals, LocType, Results
<1>5. TypeInv'
  BY <1>1, <1>2, <1>3, <1>4, TypeStep DEF BaseInv, TypeInv
<1>6. PlaceInv'
  BY <1>1, <1>3 DEF PlaceInv, Ready
<1>7. AgreeInv'
  BY <1>1, <1>2, <1>3 DEF AgreeInv, Ready, Agree, SameWidth, Size
<1>. QED  BY <1>5, <1>6, <1>7 DEF BaseInv

LEMMA FreqDoneKeeps ==
  ASSUME BaseInv, Keep, NEW m, NEW b, Ready(m, b), FreqDone(m, b), ~m.has_init,
         m.bus_width = 1, b.card.width = 1
  PROVE  BaseInv'
<1> DEFINE r == [m EXCEPT !.card_caps = @ \cap host.caps]
           widths == (IF "4BIT" \in host.caps THEN 1 ELSE 0) + (IF "8BIT" \in host.caps THEN 2 ELSE 0)
<1>1. /\ r \in MmcType /\ r.version = m.version /\ r.rca = m.rca /\ r.has_init = m.has_init
      /\ r.high_capacity = m.high_capacity /\ r.capacity = m.capacity /\ r.bus_width = m.bus_width
  BY DEF Ready, MmcType
<1>2. widths \in 0 .. 3
  OBVIOUS
<1>3. IF IsSd(m.version) /\ "4BIT" \notin r.card_caps THEN StartupEnds(r, b)
      ELSE /\ mmc' = r /\ bus' = b
           /\ loc' = IF IsSd(m.version) THEN loc ELSE [loc EXCEPT !.width = widths]
           /\ Goto(IF IsSd(m.version) THEN "width_app" ELSE "width_switch")
           /\ UNCHANGED cond
  BY DEF FreqDone
<1>. HIDE DEF r, widths
<1>4. Ready(r, b)
  BY <1>1 DEF Ready
<1>5. CASE IsSd(m.version) /\ "4BIT" \notin r.card_caps
  BY <1>1, <1>3, <1>4, <1>5, StartupEndsKeeps
<1>6. CASE ~(IsSd(m.version) /\ "4BIT" \notin r.card_caps)
  <2>1. /\ mmc' = r /\ bus' = b /\ ret' = ret /\ cond' = cond
        /\ loc' = IF IsSd(m.version) THEN loc ELSE [loc EXCEPT !.width = widths]
        /\ pc' = IF IsSd(m.version) THEN "width_app" ELSE "width_switch"
    BY <1>3, <1>6 DEF Goto
  <2>2. loc' \in LocType
    BY <1>2, <2>1 DEF BaseInv, TypeInv, LocType
  <2>3. Ready(mmc', bus')
    BY <1>4, <2>1
  <2>. QED  BY <1>1, <2>1, <2>2, <2>3, ToSelected
<1>. QED  BY <1>5, <1>6

LEMMA NextWidthKeeps ==
  ASSUME BaseInv, Keep, InWidth, NEW b, Ready(mmc, b), NextWidth(b)
  PROVE  BaseInv'
<1>1. ~mmc.has_init /\ ~IsSd(mmc.version) /\ loc.width \in 0 .. 3
  BY DEF BaseInv, TypeInv, PlaceInv, LocType
<1>2. CASE loc.width = 0
  BY <1>1, <1>2, StartupEndsKeeps DEF NextWidth, Ready
<1>3. CASE loc.width # 0
  <2>1. /\ bus' = b /\ loc' = [loc EXCEPT !.width = @ - 1] /\ pc' = "width_switch"
        /\ ret' = ret /\ mmc' = mmc /\ cond' = cond
    BY <1>3 DEF NextWidth, Goto
  <2>2. loc' \in LocType
    BY <1>1, <1>3, <2>1 DEF BaseInv, TypeInv, LocType
  <2>3. Ready(mmc', bus')
    BY <2>1
  <2>. QED  BY <1>1, <2>1, <2>2, <2>3, ToSelected
<1>. QED  BY <1>2, <1>3

LEMMA WidthSwitchedKeeps ==
  ASSUME BaseInv, Keep, InWidth, NEW r, NEW b, Ready(mmc, b), WidthSwitched(r, b)
  PROVE  BaseInv'
<1>1. ~mmc.has_init /\ ~IsSd(mmc.version) /\ loc.width \in 0 .. 3
  BY DEF BaseInv, TypeInv, PlaceInv, LocType
<1>2. CASE r # "ok"
  BY <1>2, NextWidthKeeps DEF WidthSwitched
<1>3. CASE r = "ok" /\ loc.width = 0
  <2> DEFINE m == [mmc EXCEPT !.bus_width = 1]
  <2>1. StartupEnds(m, b)
    BY <1>3 DEF WidthSwitched
  <2>2. 1 \in {1, 4, 8, 12}
    OBVIOUS
  <2>3. Ready(m, b) /\ m.version = mmc.version
    BY <2>2 DEF Ready, MmcType
  <2>. HIDE DEF m
  <2>. QED  BY <1>1, <2>1, <2>3, StartupEndsKeeps DEF Ready
<1>4. CASE r = "ok" /\ loc.width # 0
  <2>1. /\ mmc' = [mmc EXCEPT !.bus_width = 4 * loc.width] /\ bus' \in mmc_set_ios(b)
        /\ pc' = "width_check" /\ ret' = ret /\ loc' = loc /\ cond' = cond
    BY <1>4 DEF WidthSwitched, Goto
  <2>2. BusInv(bus') /\ bus'.card = b.card
    BY <2>1, IosKeeps DEF Ready
  <2>3. 4 * loc.width \in {1, 4, 8, 12}
    BY <1>1, <1>4
  <2>4. Ready(mmc', bus') /\ mmc'.version = mmc.version /\ mmc'.has_init = mmc.has_init
    BY <2>1, <2>2, <2>3 DEF Ready, MmcType
  <2>5. loc' \in LocType
    BY <2>1 DEF BaseInv, TypeInv
  <2>. QED  BY <1>1, <2>1, <2>4, <2>5, ToSelected
<1>. QED  BY <1>2, <1>3, <1>4

LEMMA CapacityIs ==
  ASSUME BaseInv
  PROVE  /\ W \in Nat \ {0} /\ BL \in Nat \ {0}
         /\ Size \in 0 .. W - 1
         /\ Capacities \subseteq 0 .. W - 1
         /\ \A x : ExtCsdCapacities(x) \subseteq 0 .. W - 1
<1>1. W \in Nat \ {0} /\ BL \in Nat \ {0} /\ BL < W
  BY MmcAssumption
<1>2. bus.card.blocks \in 1 .. W - 1
  BY DEF BaseInv, TypeInv, BusInv, CardInv, CardType, CardRecords
<1>3. ASSUME NEW k \in Nat
      PROVE  k % W \in 0 .. W - 1
  BY <1>1, <1>3
<1>4. bus.card.blocks * BL \in Nat
  BY <1>1, <1>2
<1>5. Size \in 0 .. W - 1
  BY <1>3, <1>4 DEF Size
<1>6. {0, BL, W - BL} \subseteq 0 .. W - 1
  BY <1>1
<1>7. mmc.capacity \in 0 .. W - 1
  BY DEF BaseInv, TypeInv, MmcType
<1>8. Capacities \subseteq 0 .. W - 1
  BY <1>5, <1>6 DEF Capacities
<1>9. ASSUME NEW x
      PROVE  ExtCsdCapacities(x) \subseteq 0 .. W - 1
  BY <1>5, <1>6, <1>7 DEF ExtCsdCapacities
<1>. QED  BY <1>1, <1>5, <1>8, <1>9

\* The csd of an SD card says its size
LEMMA CapacityOfSd ==
  ASSUME SdCard(bus.card), mmc.high_capacity = bus.card.hc
  PROVE  Capacities = {Size}
BY DEF Capacities

LEMMA TakeCsdKeeps ==
  ASSUME BaseInv, Keep, pc = "status", loc.after = "csd", TakeCsd,
         BusInv(bus'), Kind(bus'.card) = Kind(bus.card), bus'.card.state = bus.card.state,
         bus'.card.rca = bus.card.rca
  PROVE  BaseInv'
<1>1. CASE loc.err # "ok"
  <2>1. loc.err \in Errors
    BY <1>1, ResultIs DEF BaseInv, TypeInv, LocType
  <2>. QED  BY <1>1, <2>1, StartupFailsKeeps DEF TakeCsd
<1>2. CASE loc.err = "ok"
  <2>1. PICK cap \in Capacities : mmc' = [mmc EXCEPT !.version = VersionOfCsd, !.capacity = cap]
    BY <1>2 DEF TakeCsd
  <2>2. pc' = "select" /\ ret' = ret /\ loc' = loc /\ cond' = cond
    BY <1>2 DEF TakeCsd, Goto
  <2>3. bus.card.std \in SdVersions \cup {"MMC_3", "MMC_4"}
    BY DEF BaseInv, TypeInv, BusInv, CardInv, CardType, CardRecords
  <2>4. VersionOfCsd \in Versions
    BY <2>3 DEF BaseInv, TypeInv, MmcType, VersionOfCsd, Versions
  <2>5. /\ mmc' \in MmcType /\ mmc'.version = VersionOfCsd /\ mmc'.capacity = cap
        /\ mmc'.rca = mmc.rca /\ mmc'.has_init = mmc.has_init /\ mmc'.bus_width = mmc.bus_width
        /\ mmc'.high_capacity = mmc.high_capacity
    BY <2>1, <2>4, CapacityIs DEF BaseInv, TypeInv, MmcType
  <2>6. /\ bus'.card.hc = bus.card.hc /\ bus'.card.blocks = bus.card.blocks
        /\ SdCard(bus'.card) <=> SdCard(bus.card)
    BY SameCard
  <2>7. TypeInv'
    BY <2>2, <2>5, TypeStep DEF BaseInv, TypeInv
  <2>8. /\ VersionOfCsd = "none" => mmc.version = "none"
        /\ cond = "ok" => (IsSd(VersionOfCsd) <=> SdCard(bus.card))
    BY <2>3 DEF VersionOfCsd, BaseInv, AgreeInv, IsSd, SdVersions, SdCard
  <2>9. PlaceInv'
    BY <2>2, <2>5, <2>8 DEF BaseInv, PlaceInv
  <2>10. cond = "ok" /\ SdCard(bus.card) => cap = Size
    BY <2>1, CapacityOfSd DEF BaseInv, AgreeInv
  <2>11. AgreeInv'
    BY <2>2, <2>5, <2>6, <2>8, <2>10 DEF BaseInv, PlaceInv, AgreeInv, Size
  <2>. QED  BY <2>7, <2>9, <2>11 DEF BaseInv
<1>. QED  BY <1>1, <1>2

LEMMA HsSwitchedKeeps ==
  ASSUME BaseInv, Keep, InHs, NEW r, NEW b, r \in Errors \cup {"ok"}, Ready(mmc, b),
         b.card.width = bus.card.width, HsSwitched(r, b)
  PROVE  BaseInv'
<1>1. bus' = b /\ BusInv(bus')
  BY DEF HsSwitched, Ready
<1>2. CASE r # "ok"
  BY <1>1, <1>2, StartupFailsKeeps DEF HsSwitched
<1>3. CASE r = "ok"
  <2>1. pc' = "hs_check" /\ ret' = ret /\ mmc' = mmc /\ loc' = loc /\ cond' = cond
    BY <1>3 DEF HsSwitched, Goto
  <2>2. ~mmc.has_init /\ ~IsSd(mmc.version) /\ mmc.bus_width = 1 /\ b.card.width = 1
    BY DEF BaseInv, PlaceInv
  <2>3. loc' \in LocType /\ Ready(mmc', bus')
    BY <1>1, <2>1 DEF BaseInv, TypeInv
  <2>. QED  BY <1>1, <2>1, <2>2, <2>3, ToSelected
<1>. QED  BY <1>2, <1>3

LEMMA SwitchReturnsKeeps ==
  ASSUME BaseInv, Keep, NEW after, NEW r, NEW b, r \in Errors \cup {"ok"}, Ready(mmc, b),
         \/ after = "hs" /\ InHs /\ b.card.width = bus.card.width
         \/ after = "width" /\ InWidth,
         SwitchReturns(after, r, b)
  PROVE  BaseInv'
<1>1. CASE after = "hs" /\ InHs /\ b.card.width = bus.card.width
  BY <1>1, HsSwitchedKeeps DEF SwitchReturns
<1>2. CASE after = "width" /\ InWidth
  BY <1>2, WidthSwitchedKeeps DEF SwitchReturns
<1>. QED  BY <1>1, <1>2

LEMMA StatusReturnsKeeps ==
  ASSUME BaseInv, Keep, pc = "status", NEW r, NEW b, r \in Errors \cup {"ok"},
         BusInv(b), Kind(b.card) = Kind(bus.card), b.card.state = bus.card.state,
         b.card.rca = bus.card.rca, b.card.width = bus.card.width,
         StatusReturns(r, b)
  PROVE  BaseInv'
<1>1. loc.after \in {"csd", "hs", "width"}
  BY DEF BaseInv, TypeInv, LocType
<1>2. CASE loc.after = "csd"
  BY <1>2, TakeCsdKeeps DEF StatusReturns
<1>3. CASE loc.after \in {"hs", "width"}
  <2>1. Ready(mmc, bus)
    BY <1>3, SelectedIsReady
  <2>2. Ready(mmc, b)
    BY <2>1, ReadyStays
  <2>3. SwitchReturns(loc.after, r, b)
    BY <1>3 DEF StatusReturns
  <2>. QED  BY <1>3, <2>2, <2>3, SwitchReturnsKeeps
<1>. QED  BY <1>1, <1>2, <1>3

LEMMA StatusKeeps ==
  ASSUME BaseInv, mmc_send_status
  PROVE  BaseInv'
<1> DEFINE m == Plain(SEND_STATUS, mmc.rca)
           again(x) == [loc EXCEPT !.timeout = @ - 1,
                                   !.retries = IF x.err = "ok" THEN @ ELSE @ - 1]
<1>1. PICK x \in mmc_send_cmd(m), answer \in {"ready", "busy", "error"} :
         CASE x.err = "ok" /\ answer = "ready" /\ loc.timeout > 0 -> StatusReturns("ok", x.bus)
            [] x.err = "ok" /\ answer = "error" -> StatusReturns("COMM_ERR", x.bus)
            [] x.err # "ok" /\ loc.retries = 0 -> StatusReturns(x.err, x.bus)
            [] OTHER ->
                 IF loc.timeout = 0 THEN StatusReturns("TIMEOUT", x.bus)
                 ELSE bus' = x.bus /\ loc' = again(x) /\ Goto("status") /\ UNCHANGED <<mmc, cond>>
  BY DEF mmc_send_status
<1>2. pc = "status" /\ Keep
  BY DEF mmc_send_status
<1>3. SEND_STATUS \in CommandNames /\ SEND_STATUS # SEND_RELATIVE_ADDR /\ SEND_STATUS # SWITCH
  BY DEF CommandNames, SEND_STATUS, SEND_RELATIVE_ADDR, SWITCH
<1>4. CommandDid(m, x) /\ m.idx = SEND_STATUS
  BY <1>1, <1>3, PlainDid DEF Plain
<1>. HIDE DEF m, again
<1>5. /\ x.err \in Results /\ BusInv(x.bus) /\ Kind(x.bus.card) = Kind(bus.card)
      /\ x.bus.card.state = bus.card.state /\ x.bus.card.rca = bus.card.rca
      /\ x.bus.card.width = bus.card.width
  BY <1>3, <1>4, Stays DEF CommandDid
<1>6. {"ok", "COMM_ERR", "TIMEOUT", x.err} \subseteq Errors \cup {"ok"}
  BY <1>5 DEF Errors, Results
<1>7. CASE \E r \in {"ok", "COMM_ERR", "TIMEOUT", x.err} : StatusReturns(r, x.bus)
  BY <1>2, <1>5, <1>6, <1>7, StatusReturnsKeeps
<1>8. CASE /\ bus' = x.bus /\ loc' = again(x) /\ Goto("status") /\ UNCHANGED <<mmc, cond>>
           /\ loc.timeout # 0 /\ ~(x.err # "ok" /\ loc.retries = 0)
  <2>1. /\ bus' = x.bus /\ pc' = "status" /\ ret' = ret /\ mmc' = mmc /\ cond' = cond
    BY <1>8 DEF Goto
  <2>2. loc' \in LocType /\ loc'.after = loc.after
    <3>1. loc.timeout - 1 \in Nat /\ (IF x.err = "ok" THEN loc.retries ELSE loc.retries - 1) \in 0 .. StatusRetries
      BY <1>8, TriesAre DEF BaseInv, TypeInv, LocType
    <3>. QED  BY <1>8, <3>1 DEF BaseInv, TypeInv, LocType, again
  <2>3. TypeInv'
    BY <1>2, <1>5, <2>1, <2>2, TypeStep DEF BaseInv, TypeInv
  <2>4. /\ bus'.card.hc = bus.card.hc /\ bus'.card.blocks = bus.card.blocks
        /\ SdCard(bus'.card) <=> SdCard(bus.card)
    BY <1>5, <2>1, SameCard
  <2>5. loc.after \in {"csd", "hs", "width"}
    BY DEF BaseInv, TypeInv, LocType
  <2>6. PlaceInv'
    BY <1>2, <1>5, <2>1, <2>2, <2>5 DEF BaseInv, PlaceInv
  <2>7. AgreeInv'
    BY <1>2, <1>5, <2>1, <2>2, <2>4, <2>5 DEF BaseInv, PlaceInv, AgreeInv, Size
  <2>. QED  BY <2>3, <2>6, <2>7 DEF BaseInv
<1>9. \/ \E r \in {"ok", "COMM_ERR", "TIMEOUT", x.err} : StatusReturns(r, x.bus)
      \/ /\ bus' = x.bus /\ loc' = again(x) /\ Goto("status") /\ UNCHANGED <<mmc, cond>>
         /\ loc.timeout # 0 /\ ~(x.err # "ok" /\ loc.retries = 0)
  BY <1>1, Zenon
<1>. QED  BY <1>7, <1>8, <1>9

LEMMA SwitchKeeps ==
  ASSUME BaseInv, Keep, NEW arg, NEW after, mmc_switch(arg, after),
         \/ after = "hs" /\ InHs /\ arg \notin {1, 4, 8}
         \/ after = "width" /\ InWidth
  PROVE  BaseInv'
<1> DEFINE m == Plain(SWITCH, arg)
<1>1. PICK x \in mmc_send_cmd(m) :
        IF x.err # "ok" THEN SwitchReturns(after, x.err, x.bus)
        ELSE /\ bus' = x.bus
             /\ loc' = [loc EXCEPT !.after = after,
                                   !.timeout = StatusTries, !.retries = StatusRetries]
             /\ Goto("status")
             /\ UNCHANGED <<mmc, cond>>
  BY DEF mmc_switch
<1>2. SWITCH \in CommandNames /\ SWITCH # SEND_RELATIVE_ADDR
  BY DEF CommandNames, SEND_RELATIVE_ADDR, SWITCH
<1>3. CommandDid(m, x) /\ m.idx = SWITCH /\ m.arg = arg
  BY <1>1, <1>2, PlainDid DEF Plain
<1>. HIDE DEF m
<1>4. /\ x.err \in Results /\ BusInv(x.bus) /\ Kind(x.bus.card) = Kind(bus.card)
      /\ x.bus.card.state = bus.card.state /\ x.bus.card.rca = bus.card.rca
      /\ arg \notin {1, 4, 8} => x.bus.card.width = bus.card.width
  BY <1>3, Stays DEF CommandDid
<1>5. Ready(mmc, x.bus) /\ ~mmc.has_init
  BY <1>4, SelectedIsReady, ReadyStays
<1>6. CASE x.err # "ok"
  <2>1. x.err \in Errors \cup {"ok"}
    BY <1>4 DEF Errors, Results
  <2>. QED  BY <1>1, <1>4, <1>5, <1>6, <2>1, SwitchReturnsKeeps
<1>7. CASE x.err = "ok"
  <2>1. /\ bus' = x.bus /\ pc' = "status" /\ ret' = ret /\ mmc' = mmc /\ cond' = cond
        /\ loc' = [loc EXCEPT !.after = after,
                                   !.timeout = StatusTries, !.retries = StatusRetries]
    BY <1>1, <1>7 DEF Goto
  <2>2. after \in {"csd", "hs", "width"}
    OBVIOUS
  <2>3. loc' \in LocType /\ loc'.after = after
    BY <2>1, <2>2, TriesAre DEF BaseInv, TypeInv, LocType
  <2>4. Ready(mmc', bus') /\ ~mmc'.has_init
    BY <1>5, <2>1
  <2>5. /\ ~IsSd(mmc.version)
        /\ after = "hs" => mmc.bus_width = 1 /\ bus.card.width = 1
    BY DEF BaseInv, PlaceInv
  <2>. QED  BY <1>4, <2>1, <2>3, <2>4, <2>5, ToSelected
<1>. QED  BY <1>6, <1>7

LEMMA HsTimingIs ==
  HsTiming \notin {1, 4, 8} /\ CheckFunction \notin {1, 4, 8} /\ SwitchFunction \notin {1, 4, 8}
BY DEF HsTiming, CheckFunction, SwitchFunction

LEMMA SwitchStepsKeep ==
  ASSUME BaseInv, mmc_change_freq_switch \/ startup_width_switch
  PROVE  BaseInv'
<1>1. CASE mmc_change_freq_switch
  BY <1>1, SwitchKeeps, HsTimingIs DEF mmc_change_freq_switch
<1>2. CASE startup_width_switch
  BY <1>2, SwitchKeeps DEF startup_width_switch
<1>. QED  BY <1>1, <1>2

LEMMA SelectCardKeeps ==
  ASSUME BaseInv, select_card
  PROVE  BaseInv'
<1> DEFINE m == Plain(SELECT_CARD, mmc.rca)
<1>1. PICK x \in mmc_send_cmd(m) :
       IF x.err # "ok" THEN StartupFails(x.err) /\ bus' = x.bus
       ELSE IF mmc.version = "MMC_4"
         THEN Goto("ext_csd") /\ bus' = x.bus /\ UNCHANGED <<mmc, loc, cond>>
         ELSE ChangeFreq(x.bus)
  BY DEF select_card
<1>2. pc = "select" /\ Keep
  BY DEF select_card
<1>3. SELECT_CARD \in CommandNames /\ SELECT_CARD # SEND_RELATIVE_ADDR /\ SELECT_CARD # GO_IDLE_STATE
      /\ SELECT_CARD # SWITCH
  BY DEF CommandNames, SELECT_CARD, SEND_RELATIVE_ADDR, GO_IDLE_STATE, SWITCH
<1>4. CommandDid(m, x) /\ m.idx = SELECT_CARD /\ m.arg = mmc.rca
  BY <1>1, <1>3, PlainDid DEF Plain
<1>. HIDE DEF m
<1>5. BusInv(x.bus) /\ x.err \in Results
  BY <1>4 DEF CommandDid
<1>6. CASE x.err # "ok"
  BY <1>1, <1>2, <1>5, <1>6, ResultIs, StartupFailsKeeps
<1>7. CASE x.err = "ok"
  <2>1. /\ x.bus.card \in Effects(bus.card, m) /\ Legal(bus.card, m)
        /\ Kind(x.bus.card) = Kind(bus.card)
    BY <1>3, <1>4, <1>7 DEF CommandDid, MovesTo
  <2>2. /\ x.bus.card = [Answering(bus.card) EXCEPT !.state = "tran"]
        /\ bus.card.state = "stby" /\ mmc.rca = bus.card.rca
    BY <1>4, <2>1, SelectDoes
  <2>3. bus.card \in CardType /\ bus.card.width = 1
    BY <2>2 DEF BaseInv, TypeInv, BusInv, CardInv
  <2>4. /\ x.bus.card.state = "tran" /\ x.bus.card.rca = mmc.rca
        /\ x.bus.card.width = 1
    <3>1. Turned(bus.card, x.bus.card, "tran", bus.card.rca, FALSE, bus.card.width)
      BY <2>2, <2>3, TurnedForms
    <3>. QED  BY <2>2, <2>3, <3>1 DEF Turned
  <2>5. /\ x.bus.card.hc = bus.card.hc /\ x.bus.card.blocks = bus.card.blocks
        /\ SdCard(x.bus.card) <=> SdCard(bus.card)
    BY <2>1, SameCard
  <2>6. Ready(mmc, x.bus) /\ ~mmc.has_init /\ mmc.bus_width = 1
    BY <1>2, <1>5, <2>4, <2>5 DEF BaseInv, TypeInv, PlaceInv, AgreeInv, Ready, Size
  <2>7. CASE mmc.version = "MMC_4"
    <3>1. /\ bus' = x.bus /\ pc' = "ext_csd" /\ ret' = ret /\ mmc' = mmc /\ loc' = loc
          /\ cond' = cond
      BY <1>1, <1>7, <2>7 DEF Goto
    <3>2. ~IsSd(mmc.version)
      BY <2>7 DEF IsSd, SdVersions
    <3>3. loc' \in LocType /\ Ready(mmc', bus')
      BY <2>6, <3>1 DEF BaseInv, TypeInv
    <3>. QED  BY <1>2, <2>4, <2>6, <3>1, <3>2, <3>3, ToSelected
  <2>8. CASE mmc.version # "MMC_4"
    <3> DEFINE n == [mmc EXCEPT !.card_caps = {}]
    <3>1. IF IsSd(mmc.version)
            THEN /\ mmc' = n /\ bus' = x.bus /\ Goto("scr_app") /\ UNCHANGED <<loc, cond>>
            ELSE FreqDone(n, x.bus)
      BY <1>1, <1>7, <2>8 DEF ChangeFreq
    <3>2. Ready(n, x.bus) /\ n.version = mmc.version /\ ~n.has_init /\ n.bus_width = 1
      BY <2>6 DEF Ready, MmcType
    <3>. HIDE DEF n
    <3>3. CASE IsSd(mmc.version)
      <4>1. /\ mmc' = n /\ bus' = x.bus /\ pc' = "scr_app" /\ ret' = ret /\ loc' = loc
            /\ cond' = cond
        BY <3>1, <3>3 DEF Goto
      <4>2. loc' \in LocType /\ Ready(mmc', bus')
        BY <3>2, <4>1 DEF BaseInv, TypeInv
      <4>. QED  BY <1>2, <2>4, <3>2, <3>3, <4>1, <4>2, ToSelected
    <3>4. CASE ~IsSd(mmc.version)
      BY <1>2, <2>4, <3>1, <3>2, <3>4, FreqDoneKeeps
    <3>. QED  BY <3>3, <3>4
  <2>. QED  BY <2>7, <2>8
<1>. QED  BY <1>6, <1>7

LEMMA ScrAppKeeps ==
  ASSUME BaseInv, sd_change_freq_app
  PROVE  BaseInv'
<1> DEFINE m == Plain(APP_CMD, mmc.rca)
<1>1. PICK x \in mmc_send_cmd(m) :
       /\ bus' = x.bus
       /\ IF x.err # "ok" THEN StartupFails(x.err)
          ELSE /\ loc' = [loc EXCEPT !.timeout = ScrTries]
               /\ Goto("scr")
               /\ UNCHANGED <<mmc, cond>>
  BY DEF sd_change_freq_app
<1>2. pc = "scr_app" /\ Keep
  BY DEF sd_change_freq_app
<1>3. APP_CMD \in CommandNames /\ APP_CMD # SEND_RELATIVE_ADDR /\ APP_CMD # SWITCH
  BY DEF CommandNames, APP_CMD, SEND_RELATIVE_ADDR, SWITCH
<1>4. CommandDid(m, x) /\ m.idx = APP_CMD
  BY <1>1, <1>3, PlainDid DEF Plain
<1>. HIDE DEF m
<1>5. BusInv(bus') /\ x.err \in Results
  BY <1>1, <1>4 DEF CommandDid
<1>6. CASE x.err # "ok"
  BY <1>1, <1>2, <1>5, <1>6, ResultIs, StartupFailsKeeps
<1>7. CASE x.err = "ok"
  <2>1. /\ pc' = "scr" /\ ret' = ret /\ mmc' = mmc /\ cond' = cond
        /\ loc' = [loc EXCEPT !.timeout = ScrTries]
    BY <1>1, <1>7 DEF Goto
  <2>2. loc' \in LocType
    BY <2>1, TriesAre DEF BaseInv, TypeInv, LocType
  <2>3. /\ Kind(bus'.card) = Kind(bus.card) /\ bus'.card.state = bus.card.state
        /\ bus'.card.rca = bus.card.rca /\ bus'.card.width = bus.card.width
    BY <1>1, <1>3, <1>4, Stays
  <2>4. Ready(mmc', bus') /\ ~mmc.has_init
    BY <1>2, <1>5, <2>1, <2>3, SelectedIsReady, ReadyStays
  <2>5. IsSd(mmc.version) /\ mmc.bus_width = 1 /\ bus.card.width = 1
    BY <1>2 DEF BaseInv, PlaceInv
  <2>. QED  BY <1>2, <2>1, <2>2, <2>3, <2>4, <2>5, ToSelected
<1>. QED  BY <1>6, <1>7

\* Data are read from the selected card
LEMMA SelectedRead ==
  ASSUME BaseInv, Selected, NEW i \in {SEND_IF_COND, SWITCH, APP_SEND_SCR}, NEW a,
         i = SWITCH => a \notin {1, 4, 8},
         NEW dst \in {"scr", "switch_status", "ext_csd", "cardtype", "test_csd"},
         NEW x \in mmc_send_cmd(Read(i, a, 1, dst, 0))
  PROVE  /\ BusInv(x.bus) /\ x.err \in Results /\ x.good \in BOOLEAN
         /\ Kind(x.bus.card) = Kind(bus.card)
         /\ x.bus.card.state = bus.card.state /\ x.bus.card.rca = bus.card.rca
         /\ x.bus.card.width = bus.card.width
         /\ Ready(mmc, x.bus) /\ ~mmc.has_init
         /\ x.err = "ok" => Legal(bus.card, Read(i, a, 1, dst, 0))
<1> DEFINE m == Read(i, a, 1, dst, 0)
<1>1. W - 1 >= 1 /\ W \in Nat
  BY MmcAssumption
<1>2. 0 \in 0 .. W - 1 /\ 1 \in 0 .. W - 1
  BY <1>1
<1>3. CommandDid(m, x) /\ x.good \in BOOLEAN
  BY <1>2, ReadDid
<1>4. m.idx = i /\ m.arg = a
  BY DEF Read
<1>. HIDE DEF m
<1>5. x.err \in Results
  BY <1>3 DEF CommandDid
<1>6. /\ BusInv(x.bus) /\ Kind(x.bus.card) = Kind(bus.card)
      /\ x.bus.card.state = bus.card.state /\ x.bus.card.rca = bus.card.rca
      /\ x.bus.card.width = bus.card.width
  BY <1>3, <1>4, Stays
<1>7. Ready(mmc, x.bus) /\ ~mmc.has_init
  BY <1>6, SelectedIsReady, ReadyStays
<1>8. x.err = "ok" => Legal(bus.card, m)
  BY <1>3, <1>4 DEF CommandDid, SEND_IF_COND, SWITCH, APP_SEND_SCR, GO_IDLE_STATE
<1>. QED  BY <1>3, <1>5, <1>6, <1>7, <1>8 DEF m

LEMMA ExtCsdKeeps ==
  ASSUME BaseInv, startup_ext_csd
  PROVE  BaseInv'
<1>1. PICK x \in mmc_send_cmd(ExtCsd("ext_csd")) :
       /\ bus' = x.bus
       /\ loc' = [loc EXCEPT !.ext_csd = (x.err = "ok" /\ x.good)]
       /\ \E cap \in ExtCsdCapacities(x) :
            mmc' = [mmc EXCEPT !.capacity = cap, !.card_caps = {}]
  BY DEF startup_ext_csd
<1>2. pc = "ext_csd" /\ pc' = "hs_ext_csd" /\ ret' = ret /\ cond' = cond /\ Keep
  BY DEF startup_ext_csd, Goto
<1>3. /\ BusInv(bus') /\ x.good \in BOOLEAN /\ bus'.card.width = bus.card.width
      /\ Ready(mmc, bus') /\ ~mmc.has_init
  BY <1>1, <1>2, SelectedRead DEF ExtCsd
<1>4. PICK cap \in ExtCsdCapacities(x) : mmc' = [mmc EXCEPT !.capacity = cap, !.card_caps = {}]
  BY <1>1
<1>5. cap \in 0 .. W - 1
  BY <1>4, CapacityIs
<1>6. loc' \in LocType
  BY <1>1, <1>3 DEF BaseInv, TypeInv, LocType
<1>7. /\ mmc' \in MmcType /\ mmc'.version = mmc.version /\ mmc'.rca = mmc.rca
      /\ mmc'.has_init = mmc.has_init /\ mmc'.high_capacity = mmc.high_capacity
      /\ mmc'.bus_width = mmc.bus_width
  BY <1>4, <1>5 DEF BaseInv, TypeInv, MmcType
<1>8. ~IsSd(mmc.version) /\ mmc.bus_width = 1 /\ bus.card.width = 1
  BY <1>2 DEF BaseInv, PlaceInv
<1>9. Ready(mmc', bus')
  BY <1>3, <1>7, <1>8 DEF Ready
<1>. QED  BY <1>2, <1>3, <1>6, <1>7, <1>8, <1>9, ToSelected

LEMMA ScrKeeps ==
  ASSUME BaseInv, sd_change_freq_scr
  PROVE  BaseInv'
<1>1. PICK x \in mmc_send_cmd(ScrCommand) :
       CASE x.err # "ok" /\ loc.timeout > 0 ->
              /\ bus' = x.bus
              /\ loc' = [loc EXCEPT !.timeout = @ - 1]
              /\ Goto("scr")
              /\ UNCHANGED <<mmc, cond>>
         [] x.err # "ok" /\ loc.timeout = 0 -> StartupFails(x.err) /\ bus' = x.bus
         [] OTHER -> \E v \in ScrVersions(x.good), caps \in ScrCaps(x.good) :
              LET m == [mmc EXCEPT !.version = v, !.card_caps = caps] IN
              IF v = "SD_1_0" THEN FreqDone(m, x.bus)
              ELSE /\ mmc' = m /\ bus' = x.bus
                   /\ loc' = [loc EXCEPT !.timeout = SwitchTries]
                   /\ Goto("switch_check")
                   /\ UNCHANGED cond
  BY DEF sd_change_freq_scr
<1>2. pc = "scr" /\ Keep
  BY DEF sd_change_freq_scr
<1>3. /\ BusInv(x.bus) /\ x.err \in Results /\ x.good \in BOOLEAN
      /\ Kind(x.bus.card) = Kind(bus.card)
      /\ x.bus.card.width = bus.card.width /\ Ready(mmc, x.bus) /\ ~mmc.has_init
      /\ x.err = "ok" => Legal(bus.card, ScrCommand)
  <2>1. APP_SEND_SCR # SWITCH
    BY DEF APP_SEND_SCR, SWITCH
  <2>. QED  BY <1>1, <1>2, <2>1, SelectedRead DEF ScrCommand
<1>4. IsSd(mmc.version) /\ mmc.bus_width = 1 /\ bus.card.width = 1
  BY <1>2 DEF BaseInv, PlaceInv
<1>5. loc.timeout \in Nat
  BY DEF BaseInv, TypeInv, LocType
<1>6. CASE x.err # "ok" /\ loc.timeout > 0
  <2>1. /\ bus' = x.bus /\ loc' = [loc EXCEPT !.timeout = @ - 1] /\ pc' = "scr" /\ ret' = ret
        /\ mmc' = mmc /\ cond' = cond
    <3>1. loc.timeout # 0
      BY <1>6
    <3>2. /\ bus' = x.bus /\ loc' = [loc EXCEPT !.timeout = @ - 1] /\ Goto("scr")
          /\ UNCHANGED <<mmc, cond>>
      BY <1>1, <1>6, <3>1, Zenon
    <3>. QED  BY <3>2 DEF Goto
  <2>2. loc' \in LocType
    BY <1>5, <1>6, <2>1 DEF BaseInv, TypeInv, LocType
  <2>3. Ready(mmc', bus')
    BY <1>3, <2>1
  <2>. QED  BY <1>2, <1>3, <1>4, <2>1, <2>2, <2>3, ToSelected
<1>7. CASE x.err # "ok" /\ loc.timeout = 0
  BY <1>1, <1>2, <1>3, <1>7, ResultIs, StartupFailsKeeps
<1>8. CASE x.err = "ok"
  <2>1. PICK v \in ScrVersions(x.good), caps \in ScrCaps(x.good) :
              IF v = "SD_1_0" THEN FreqDone([mmc EXCEPT !.version = v, !.card_caps = caps], x.bus)
              ELSE /\ mmc' = [mmc EXCEPT !.version = v, !.card_caps = caps] /\ bus' = x.bus
                   /\ loc' = [loc EXCEPT !.timeout = SwitchTries]
                   /\ Goto("switch_check")
                   /\ UNCHANGED cond
    BY <1>1, <1>8
  <2> DEFINE m == [mmc EXCEPT !.version = v, !.card_caps = caps]
  <2>2. caps \subseteq {"4BIT"}
    BY DEF ScrCaps
  <2>3. IsSd(v) /\ v \in Versions
    <3>1. ScrCommand.idx = APP_SEND_SCR
      BY DEF ScrCommand, Read
    <3>2. bus.card.app
      BY <1>3, <1>8, <3>1, OthersDo
    <3>3. bus.card.std \in SdVersions
      BY <3>2 DEF BaseInv, TypeInv, BusInv, CardInv, SdCard
    <3>. QED  BY <3>3 DEF ScrVersions, IsSd, Versions
  <2>4. /\ m \in MmcType /\ m.version = v /\ m.rca = mmc.rca /\ m.has_init = mmc.has_init
        /\ m.high_capacity = mmc.high_capacity /\ m.bus_width = mmc.bus_width
        /\ m.capacity = mmc.capacity
    BY <2>2, <2>3 DEF BaseInv, TypeInv, MmcType
  <2>. HIDE DEF m
  <2>5. Ready(m, x.bus)
    BY <1>3, <1>4, <2>3, <2>4 DEF Ready, IsSd, SdVersions
  <2>6. CASE v = "SD_1_0"
    <3>1. FreqDone(m, x.bus)
      BY <2>1, <2>6 DEF m
    <3>. QED  BY <1>2, <1>3, <1>4, <2>4, <2>5, <3>1, FreqDoneKeeps
  <2>7. CASE v # "SD_1_0"
    <3>1. /\ mmc' = m /\ bus' = x.bus /\ loc' = [loc EXCEPT !.timeout = SwitchTries]
          /\ pc' = "switch_check" /\ ret' = ret /\ cond' = cond
      BY <2>1, <2>7 DEF m, Goto
    <3>2. loc' \in LocType
      BY <3>1, TriesAre DEF BaseInv, TypeInv, LocType
    <3>3. Ready(mmc', bus')
      BY <2>5, <3>1
    <3>. QED  BY <1>2, <1>3, <1>4, <2>3, <2>4, <3>1, <3>2, <3>3, ToSelected
  <2>. QED  BY <2>6, <2>7
<1>. QED  BY <1>3, <1>5, <1>6, <1>7, <1>8

LEMMA SwitchCheckKeeps ==
  ASSUME BaseInv, sd_change_freq_check
  PROVE  BaseInv'
<1>1. PICK x \in mmc_send_cmd(SwitchCommand(CheckFunction)), busy \in BOOLEAN :
       IF x.err # "ok" THEN StartupFails(x.err) /\ bus' = x.bus
       ELSE IF busy /\ loc.timeout > 1
         THEN /\ bus' = x.bus
              /\ loc' = [loc EXCEPT !.timeout = @ - 1]
              /\ Goto("switch_check")
              /\ UNCHANGED <<mmc, cond>>
         ELSE \E hs \in HighSpeeds(x.good) :
              IF hs /\ HostHighSpeed
                THEN Goto("switch_set") /\ bus' = x.bus /\ UNCHANGED <<mmc, loc, cond>>
                ELSE FreqDone(mmc, x.bus)
  BY DEF sd_change_freq_check
<1>2. pc = "switch_check" /\ Keep
  BY DEF sd_change_freq_check
<1>3. /\ BusInv(x.bus) /\ x.err \in Results
      /\ x.bus.card.width = bus.card.width /\ Ready(mmc, x.bus) /\ ~mmc.has_init
  BY <1>1, <1>2, SelectedRead, HsTimingIs DEF SwitchCommand
<1>4. IsSd(mmc.version) /\ mmc.bus_width = 1 /\ bus.card.width = 1
  BY <1>2 DEF BaseInv, PlaceInv
<1>5. loc \in LocType /\ loc.timeout \in Nat
  BY DEF BaseInv, TypeInv, LocType
<1>6. CASE x.err # "ok"
  BY <1>1, <1>2, <1>3, <1>6, ResultIs, StartupFailsKeeps
<1>7. CASE x.err = "ok" /\ busy /\ loc.timeout > 1
  <2>1. /\ bus' = x.bus /\ loc' = [loc EXCEPT !.timeout = @ - 1] /\ pc' = "switch_check"
        /\ ret' = ret /\ mmc' = mmc /\ cond' = cond
    BY <1>1, <1>7 DEF Goto
  <2>2. loc' \in LocType
    BY <1>5, <1>7, <2>1 DEF LocType
  <2>3. Ready(mmc', bus')
    BY <1>3, <2>1
  <2>. QED  BY <1>2, <1>3, <1>4, <2>1, <2>2, <2>3, ToSelected
<1>8. CASE x.err = "ok" /\ ~(busy /\ loc.timeout > 1)
  <2>1. \/ Goto("switch_set") /\ bus' = x.bus /\ UNCHANGED <<mmc, loc, cond>>
        \/ FreqDone(mmc, x.bus)
    BY <1>1, <1>8
  <2>2. CASE Goto("switch_set") /\ bus' = x.bus /\ UNCHANGED <<mmc, loc, cond>>
    <3>1. /\ bus' = x.bus /\ loc' = loc /\ pc' = "switch_set" /\ ret' = ret /\ mmc' = mmc
          /\ cond' = cond
      BY <2>2 DEF Goto
    <3>2. Ready(mmc', bus') /\ loc' \in LocType
      BY <1>3, <1>5, <3>1
    <3>. QED  BY <1>2, <1>3, <1>4, <3>1, <3>2, ToSelected
  <2>3. CASE FreqDone(mmc, x.bus)
    BY <1>2, <1>3, <1>4, <2>3, FreqDoneKeeps
  <2>. QED  BY <2>1, <2>2, <2>3
<1>. QED  BY <1>6, <1>7, <1>8

\* Other capabilities make no difference
LEMMA CapsReady ==
  ASSUME NEW b, Ready(mmc, b), NEW caps, caps \subseteq {"4BIT", "HS", "HS_52MHz"},
         NEW m, m = [mmc EXCEPT !.card_caps = caps]
  PROVE  /\ Ready(m, b) /\ m.version = mmc.version /\ m.has_init = mmc.has_init
         /\ m.bus_width = mmc.bus_width
<1>1. /\ m \in MmcType /\ m.version = mmc.version /\ m.has_init = mmc.has_init
      /\ m.bus_width = mmc.bus_width /\ m.rca = mmc.rca /\ m.capacity = mmc.capacity
      /\ m.high_capacity = mmc.high_capacity
  BY DEF Ready, MmcType
<1>. QED  BY <1>1 DEF Ready

LEMMA SwitchSetKeeps ==
  ASSUME BaseInv, sd_change_freq_switch
  PROVE  BaseInv'
<1>1. PICK x \in mmc_send_cmd(SwitchCommand(SwitchFunction)) :
       IF x.err # "ok" THEN StartupFails(x.err) /\ bus' = x.bus
       ELSE \E hs \in HighSpeeds(x.good) :
            FreqDone([mmc EXCEPT !.card_caps = @ \cup IF hs THEN {"HS"} ELSE {}], x.bus)
  BY DEF sd_change_freq_switch
<1>2. pc = "switch_set" /\ Keep
  BY DEF sd_change_freq_switch
<1>3. /\ BusInv(x.bus) /\ x.err \in Results
      /\ x.bus.card.width = bus.card.width /\ Ready(mmc, x.bus) /\ ~mmc.has_init
  BY <1>1, <1>2, SelectedRead, HsTimingIs DEF SwitchCommand
<1>4. mmc.bus_width = 1 /\ bus.card.width = 1
  BY <1>2 DEF BaseInv, PlaceInv
<1>5. CASE x.err # "ok"
  BY <1>1, <1>2, <1>3, <1>5, ResultIs, StartupFailsKeeps
<1>6. CASE x.err = "ok"
  <2>1. PICK hs \in HighSpeeds(x.good) :
          FreqDone([mmc EXCEPT !.card_caps = mmc.card_caps \cup IF hs THEN {"HS"} ELSE {}], x.bus)
    BY <1>1, <1>6
  <2> DEFINE caps == mmc.card_caps \cup IF hs THEN {"HS"} ELSE {}
             m == [mmc EXCEPT !.card_caps = caps]
  <2>2. caps \subseteq {"4BIT", "HS", "HS_52MHz"}
    BY DEF BaseInv, TypeInv, MmcType
  <2>3. FreqDone(m, x.bus)
    BY <2>1
  <2>4. Ready(m, x.bus) /\ m.has_init = mmc.has_init /\ m.bus_width = mmc.bus_width
    <3>. HIDE DEF caps
    <3>. QED  BY <1>3, <2>2, CapsReady
  <2>. HIDE DEF m
  <2>. QED  BY <1>2, <1>3, <1>4, <2>3, <2>4, FreqDoneKeeps
<1>. QED  BY <1>5, <1>6

LEMMA HsExtCsdKeeps ==
  ASSUME BaseInv, mmc_change_freq_ext_csd
  PROVE  BaseInv'
<1>1. PICK x \in mmc_send_cmd(ExtCsd("cardtype")) :
       /\ bus' = x.bus
       /\ IF x.err # "ok" THEN StartupFails(x.err)
          ELSE /\ \E hs52 \in HighSpeeds(x.good) : loc' = [loc EXCEPT !.hs52 = hs52]
               /\ Goto("hs_switch")
               /\ UNCHANGED <<mmc, cond>>
  BY DEF mmc_change_freq_ext_csd
<1>2. pc = "hs_ext_csd" /\ Keep
  BY DEF mmc_change_freq_ext_csd
<1>3. /\ BusInv(x.bus) /\ x.err \in Results
      /\ x.bus.card.width = bus.card.width /\ Ready(mmc, x.bus) /\ ~mmc.has_init
  BY <1>1, <1>2, SelectedRead DEF ExtCsd
<1>4. ~IsSd(mmc.version) /\ mmc.bus_width = 1 /\ bus.card.width = 1
  BY <1>2 DEF BaseInv, PlaceInv
<1>5. CASE x.err # "ok"
  BY <1>1, <1>2, <1>3, <1>5, ResultIs, StartupFailsKeeps
<1>6. CASE x.err = "ok"
  <2>1. PICK hs52 \in HighSpeeds(x.good) : loc' = [loc EXCEPT !.hs52 = hs52]
    BY <1>1, <1>6
  <2>2. /\ bus' = x.bus /\ pc' = "hs_switch" /\ ret' = ret /\ mmc' = mmc /\ cond' = cond
    BY <1>1, <1>6 DEF Goto
  <2>3. hs52 \in BOOLEAN
    BY DEF HighSpeeds, BaseInv, TypeInv, BusInv, CardInv, CardType, CardRecords
  <2>4. loc' \in LocType /\ Ready(mmc', bus')
    BY <1>3, <2>1, <2>2, <2>3 DEF BaseInv, TypeInv, LocType
  <2>. QED  BY <1>2, <1>3, <1>4, <2>2, <2>4, ToSelected
<1>. QED  BY <1>5, <1>6

LEMMA HsCheckKeeps ==
  ASSUME BaseInv, mmc_change_freq_check
  PROVE  BaseInv'
<1>1. PICK x \in mmc_send_cmd(ExtCsd("cardtype")) :
       IF x.err # "ok" THEN StartupFails(x.err) /\ bus' = x.bus
       ELSE \E timing \in BOOLEAN :
            FreqDone([mmc EXCEPT !.card_caps =
                        IF ~timing THEN {}
                        ELSE IF loc.hs52 THEN {"HS", "HS_52MHz"} ELSE {"HS"}], x.bus)
  BY DEF mmc_change_freq_check
<1>2. pc = "hs_check" /\ Keep
  BY DEF mmc_change_freq_check
<1>3. /\ BusInv(x.bus) /\ x.err \in Results
      /\ x.bus.card.width = bus.card.width /\ Ready(mmc, x.bus) /\ ~mmc.has_init
  BY <1>1, <1>2, SelectedRead DEF ExtCsd
<1>4. mmc.bus_width = 1 /\ bus.card.width = 1
  BY <1>2 DEF BaseInv, PlaceInv
<1>5. CASE x.err # "ok"
  BY <1>1, <1>2, <1>3, <1>5, ResultIs, StartupFailsKeeps
<1>6. CASE x.err = "ok"
  <2>1. PICK timing \in BOOLEAN :
          FreqDone([mmc EXCEPT !.card_caps =
                        IF ~timing THEN {}
                        ELSE IF loc.hs52 THEN {"HS", "HS_52MHz"} ELSE {"HS"}], x.bus)
    BY <1>1, <1>6
  <2> DEFINE caps == IF ~timing THEN {} ELSE IF loc.hs52 THEN {"HS", "HS_52MHz"} ELSE {"HS"}
             m == [mmc EXCEPT !.card_caps = caps]
  <2>2. caps \subseteq {"4BIT", "HS", "HS_52MHz"}
    OBVIOUS
  <2>3. FreqDone(m, x.bus)
    BY <2>1
  <2>4. Ready(m, x.bus) /\ m.has_init = mmc.has_init /\ m.bus_width = mmc.bus_width
    <3>. HIDE DEF caps
    <3>. QED  BY <1>3, <2>2, CapsReady
  <2>. HIDE DEF m
  <2>. QED  BY <1>2, <1>3, <1>4, <2>3, <2>4, FreqDoneKeeps
<1>. QED  BY <1>5, <1>6

LEMMA WidthAppKeeps ==
  ASSUME BaseInv, startup_app_cmd
  PROVE  BaseInv'
<1> DEFINE m == Plain(APP_CMD, mmc.rca)
<1>1. PICK x \in mmc_send_cmd(m) :
       /\ bus' = x.bus
       /\ IF x.err # "ok" THEN StartupFails(x.err)
          ELSE Goto("bus_width") /\ UNCHANGED <<mmc, loc, cond>>
  BY DEF startup_app_cmd
<1>2. pc = "width_app" /\ Keep
  BY DEF startup_app_cmd
<1>3. APP_CMD \in CommandNames /\ APP_CMD # SEND_RELATIVE_ADDR /\ APP_CMD # SWITCH
  BY DEF CommandNames, APP_CMD, SEND_RELATIVE_ADDR, SWITCH
<1>4. CommandDid(m, x) /\ m.idx = APP_CMD
  BY <1>1, <1>3, PlainDid DEF Plain
<1>. HIDE DEF m
<1>5. BusInv(bus') /\ x.err \in Results
  BY <1>1, <1>4 DEF CommandDid
<1>6. CASE x.err # "ok"
  BY <1>1, <1>2, <1>5, <1>6, ResultIs, StartupFailsKeeps
<1>7. CASE x.err = "ok"
  <2>1. /\ pc' = "bus_width" /\ ret' = ret /\ mmc' = mmc /\ loc' = loc /\ cond' = cond
    BY <1>1, <1>7 DEF Goto
  <2>2. loc' \in LocType
    BY <2>1 DEF BaseInv, TypeInv
  <2>3. /\ Kind(bus'.card) = Kind(bus.card) /\ bus'.card.state = bus.card.state
        /\ bus'.card.rca = bus.card.rca /\ bus'.card.width = bus.card.width
    BY <1>1, <1>3, <1>4, Stays
  <2>4. Ready(mmc', bus') /\ ~mmc.has_init
    BY <1>2, <1>5, <2>1, <2>3, SelectedIsReady, ReadyStays
  <2>5. IsSd(mmc.version) /\ mmc.bus_width = 1 /\ bus.card.width = 1
    BY <1>2 DEF BaseInv, PlaceInv
  <2>. QED  BY <1>2, <2>1, <2>2, <2>3, <2>4, <2>5, ToSelected
<1>. QED  BY <1>6, <1>7

LEMMA BusWidthKeeps ==
  ASSUME BaseInv, startup_bus_width
  PROVE  BaseInv'
<1> DEFINE m == Plain(SWITCH, 4)
<1>1. PICK x \in mmc_send_cmd(m) :
       IF x.err # "ok" THEN StartupFails(x.err) /\ bus' = x.bus
       ELSE StartupEnds([mmc EXCEPT !.bus_width = 4], x.bus)
  BY DEF startup_bus_width
<1>2. pc = "bus_width" /\ Keep
  BY DEF startup_bus_width
<1>3. SWITCH \in CommandNames /\ SWITCH # SEND_RELATIVE_ADDR /\ SWITCH # GO_IDLE_STATE
  BY DEF CommandNames, SWITCH, SEND_RELATIVE_ADDR, GO_IDLE_STATE
<1>4. CommandDid(m, x) /\ m.idx = SWITCH /\ m.arg = 4
  BY <1>1, <1>3, PlainDid DEF Plain
<1>. HIDE DEF m
<1>5. BusInv(x.bus) /\ x.err \in Results
  BY <1>4 DEF CommandDid
<1>6. CASE x.err # "ok"
  BY <1>1, <1>2, <1>5, <1>6, ResultIs, StartupFailsKeeps
<1>7. CASE x.err = "ok"
  <2> DEFINE n == [mmc EXCEPT !.bus_width = 4]
  <2>1. StartupEnds(n, x.bus)
    BY <1>1, <1>7
  <2>2. /\ Kind(x.bus.card) = Kind(bus.card) /\ x.bus.card.state = bus.card.state
        /\ x.bus.card.rca = bus.card.rca
    BY <1>4, Stays
  <2>3. Ready(mmc, x.bus)
    BY <1>2, <1>5, <2>2, SelectedIsReady, ReadyStays
  <2>4. x.bus.card.width = 4
    <3>1. x.bus.card \in Effects(bus.card, m)
      BY <1>3, <1>4, <1>7 DEF CommandDid
    <3>2. x.bus.card = [Answering(bus.card) EXCEPT !.width = m.arg]
      BY <1>4, <3>1, SwitchDoes
    <3>3. bus.card \in CardType /\ m.arg \in {1, 4, 8}
      BY <1>4 DEF BaseInv, TypeInv, BusInv, CardInv
    <3>4. Turned(bus.card, x.bus.card, bus.card.state, bus.card.rca, FALSE, m.arg)
      BY <3>2, <3>3, TurnedForms
    <3>. QED  BY <1>4, <3>4 DEF Turned
  <2>5. 4 \in {1, 4, 8, 12}
    OBVIOUS
  <2>6. Ready(n, x.bus) /\ n.bus_width = 4
    BY <2>3, <2>5 DEF Ready, MmcType
  <2>. HIDE DEF n
  <2>. QED  BY <1>2, <2>1, <2>4, <2>6, StartupEndsKeeps
<1>. QED  BY <1>6, <1>7

LEMMA WidthCheckKeeps ==
  ASSUME BaseInv, startup_width_check
  PROVE  BaseInv'
<1>1. PICK x \in mmc_send_cmd(ExtCsd("test_csd")), same \in BOOLEAN :
       IF x.err = "ok" /\ same
         THEN StartupEnds([mmc EXCEPT !.card_caps = mmc.card_caps \cup WidthCap], x.bus)
         ELSE NextWidth(x.bus)
  BY DEF startup_width_check
<1>2. pc = "width_check" /\ Keep
  BY DEF startup_width_check
<1>3. /\ BusInv(x.bus) /\ x.err \in Results
      /\ x.bus.card.width = bus.card.width /\ Ready(mmc, x.bus) /\ ~mmc.has_init
  BY <1>1, <1>2, SelectedRead DEF ExtCsd
<1>4. ~IsSd(mmc.version)
  BY <1>2 DEF BaseInv, PlaceInv
<1>5. CASE x.err = "ok" /\ same
  <2> DEFINE caps == mmc.card_caps \cup WidthCap
             m == [mmc EXCEPT !.card_caps = caps]
  <2>1. StartupEnds(m, x.bus)
    BY <1>1, <1>5
  <2>2. caps \subseteq {"4BIT", "HS", "HS_52MHz"}
    BY DEF BaseInv, TypeInv, MmcType, WidthCap
  <2>3. Ready(m, x.bus) /\ m.version = mmc.version
    <3>. HIDE DEF caps
    <3>. QED  BY <1>3, <2>2, CapsReady
  <2>. HIDE DEF m
  <2>4. cond = "ok" => ~SdCard(x.bus.card)
    BY <1>4, <2>3 DEF Ready
  <2>. QED  BY <1>2, <2>1, <2>3, <2>4, StartupEndsKeeps
<1>6. CASE ~(x.err = "ok" /\ same)
  BY <1>1, <1>2, <1>3, <1>6, NextWidthKeeps
<1>. QED  BY <1>5, <1>6

-----------------------------------------------------------------------------
(* Reading blocks.                                                         *)

LEMMA BreadKeeps ==
  ASSUME BaseInv, NEW start \in Starts, NEW blkcnt \in Counts, NEW dst \in Buffers,
         mmc_bread(start, blkcnt, dst)
  PROVE  BaseInv'
<1>1. /\ pc = "client" /\ mmc.has_init /\ mmc' = mmc /\ loc' = loc /\ bus' = bus /\ host' = host
      /\ cond' = cond
  BY DEF mmc_bread
<1>2. start \in 0 .. W - 1 /\ blkcnt \in 0 .. W - 1 /\ W \in Nat
  BY MmcAssumption
<1>3. CASE /\ ret' = "0" /\ UNCHANGED <<pc, req, right>>
  <2>1. TypeInv'
    BY <1>1, <1>3 DEF BaseInv, TypeInv
  <2>2. PlaceInv' /\ AgreeInv'
    BY <1>1, <1>3 DEF BaseInv, PlaceInv, AgreeInv, Agree, SameWidth, Size
  <2>. QED  BY <2>1, <2>2 DEF BaseInv
<1>4. CASE /\ Goto("blocklen")
           /\ req' = [start |-> start, todo |-> blkcnt, off |-> 0, first |-> start,
                      dst |-> dst, path |-> bus.path]
           /\ right' = TRUE
  <2>1. pc' = "blocklen" /\ ret' = ret
    BY <1>4 DEF Goto
  <2>2. bus.path \in Paths(Transfers) /\ 0 \in 0 .. W - 1
    BY <1>2 DEF BaseInv, TypeInv, BusInv, BusType
  <2>3. req' \in ReqType
    BY <1>2, <1>4, <2>2 DEF ReqType
  <2>4. req'.off + req'.todo <= W - 1
    BY <1>2, <1>4
  <2>5. TypeInv'
    BY <1>1, <1>4, <2>1, <2>3, <2>4 DEF BaseInv, TypeInv
  <2>6. PlaceInv' /\ AgreeInv'
    BY <1>1, <2>1 DEF BaseInv, PlaceInv, AgreeInv, Agree, SameWidth, Size
  <2>. QED  BY <2>5, <2>6 DEF BaseInv
<1>. QED  BY <1>3, <1>4 DEF mmc_bread

\* The card stays selected while blocks are read
LEMMA AgreeStays ==
  ASSUME BaseInv, mmc.has_init, mmc' = mmc, cond' = cond, Kind(bus'.card) = Kind(bus.card),
         bus'.card.state \in {bus.card.state, "tran", "data"}, bus'.card.rca = bus.card.rca,
         bus'.card.width = bus.card.width
  PROVE  cond' = "ok" => Agree'
<1>1. /\ bus'.card.hc = bus.card.hc /\ bus'.card.blocks = bus.card.blocks
      /\ SdCard(bus'.card) <=> SdCard(bus.card)
  BY SameCard
<1>. QED  BY <1>1 DEF BaseInv, AgreeInv, Agree, SameWidth, Size

LEMMA NoRequestIs == NoRequest \in ReqType /\ NoRequest.off + NoRequest.todo <= W - 1
<1>1. 0 \in 0 .. W - 1 /\ W - 1 >= 0
  BY MmcAssumption
<1>. QED  BY <1>1, PathIs DEF NoRequest, ReqType

\* What the end of a step of mmc_bread has to show
LEMMA ReadStep ==
  ASSUME BaseInv, mmc.has_init, mmc' = mmc, loc' = loc, host' = host, cond' = cond,
         BusInv(bus'), Kind(bus'.card) = Kind(bus.card),
         bus'.card.state \in {bus.card.state, "tran", "data"}, bus'.card.rca = bus.card.rca,
         bus'.card.width = bus.card.width,
         pc' \in {"client", "read", "stop"}, pc' = "read" => bus'.card.state = "tran",
         ret' \in Errors \cup {"ok", "0", "blkcnt"}, right' \in BOOLEAN,
         req' \in ReqType, req'.off + req'.todo <= W - 1
  PROVE  BaseInv'
<1>1. TypeInv'
  BY DEF BaseInv, TypeInv
<1>2. PlaceInv'
  BY DEF BaseInv, PlaceInv
<1>3. AgreeInv'
  BY AgreeStays DEF BaseInv, AgreeInv
<1>. QED  BY <1>1, <1>2, <1>3 DEF BaseInv

LEMMA BreadReturnsKeeps ==
  ASSUME BaseInv, mmc.has_init, mmc' = mmc, loc' = loc, host' = host, cond' = cond,
         BusInv(bus'), Kind(bus'.card) = Kind(bus.card),
         bus'.card.state \in {bus.card.state, "tran", "data"}, bus'.card.rca = bus.card.rca,
         bus'.card.width = bus.card.width, right' \in BOOLEAN,
         NEW r \in {"0", "blkcnt"}, BreadReturns(r)
  PROVE  BaseInv'
<1>1. pc' = "client" /\ ret' = r /\ req' = NoRequest
  BY DEF BreadReturns
<1>. QED  BY <1>1, NoRequestIs, ReadStep

LEMMA SetBlocklenKeeps ==
  ASSUME BaseInv, mmc_set_blocklen
  PROVE  BaseInv'
<1> DEFINE m == Plain(SET_BLOCKLEN, BL)
<1>1. PICK x \in mmc_send_cmd(m) :
       /\ bus' = x.bus
       /\ IF x.err # "ok" THEN BreadReturns("0") ELSE Goto("read") /\ UNCHANGED req
  BY DEF mmc_set_blocklen
<1>2. /\ pc = "blocklen" /\ mmc' = mmc /\ loc' = loc /\ host' = host /\ cond' = cond
      /\ right' = right
  BY DEF mmc_set_blocklen
<1>3. SET_BLOCKLEN \in CommandNames /\ SET_BLOCKLEN # SEND_RELATIVE_ADDR
      /\ SET_BLOCKLEN # SWITCH /\ SET_BLOCKLEN # GO_IDLE_STATE
  BY DEF CommandNames, SET_BLOCKLEN, SEND_RELATIVE_ADDR, SWITCH, GO_IDLE_STATE
<1>4. CommandDid(m, x) /\ m.idx = SET_BLOCKLEN
  BY <1>1, <1>3, PlainDid DEF Plain
<1>. HIDE DEF m
<1>5. /\ BusInv(bus') /\ Kind(bus'.card) = Kind(bus.card)
      /\ bus'.card.state = bus.card.state /\ bus'.card.rca = bus.card.rca
      /\ bus'.card.width = bus.card.width
  BY <1>1, <1>3, <1>4, Stays
<1>6. mmc.has_init /\ right' \in BOOLEAN
  BY <1>2 DEF BaseInv, TypeInv, PlaceInv
<1>7. CASE x.err # "ok"
  BY <1>1, <1>2, <1>5, <1>6, <1>7, BreadReturnsKeeps
<1>8. CASE x.err = "ok"
  <2>1. Legal(bus.card, m)
    BY <1>3, <1>4, <1>8 DEF CommandDid
  <2>2. bus.card.state = "tran"
    BY <1>4, <2>1, OthersDo
  <2>3. pc' = "read" /\ ret' = ret /\ req' = req
    BY <1>1, <1>8 DEF Goto
  <2>4. ret \in Errors \cup {"ok", "0", "blkcnt"} /\ req \in ReqType /\ req.off + req.todo <= W - 1
    BY DEF BaseInv, TypeInv
  <2>. QED  BY <1>2, <1>5, <1>6, <2>2, <2>3, <2>4, ReadStep
<1>. QED  BY <1>7, <1>8

LEMMA CurIs ==
  ASSUME BaseInv
  PROVE  /\ W \in Nat \ {0} /\ BMax \in Nat \ {0} /\ BL \in Nat \ {0}
         /\ req.start \in 0 .. W - 1 /\ req.first \in 0 .. W - 1
         /\ req.todo \in 0 .. W - 1 /\ req.off \in 0 .. W - 1 /\ req.off + req.todo <= W - 1
         /\ Cur \in 0 .. W - 1 /\ Cur <= req.todo
         /\ req.todo > 0 => Cur > 0
<1>1. W \in Nat \ {0} /\ BMax \in Nat \ {0} /\ BL \in Nat \ {0}
  BY MmcAssumption
<1>2. /\ req.start \in 0 .. W - 1 /\ req.first \in 0 .. W - 1
      /\ req.todo \in 0 .. W - 1 /\ req.off \in 0 .. W - 1 /\ req.off + req.todo <= W - 1
  BY DEF BaseInv, TypeInv, ReqType
<1>. QED  BY <1>1, <1>2 DEF Cur

LEMMA RoundDoneKeeps ==
  ASSUME BaseInv, mmc.has_init, mmc' = mmc, loc' = loc, host' = host, cond' = cond,
         BusInv(bus'), Kind(bus'.card) = Kind(bus.card), bus'.card.state = "tran",
         bus'.card.rca = bus.card.rca, bus'.card.width = bus.card.width,
         right' \in BOOLEAN, RoundDone
  PROVE  BaseInv'
<1>1. CASE req.todo = Cur
  BY <1>1, BreadReturnsKeeps DEF RoundDone
<1>2. CASE req.todo # Cur
  <2>1. /\ req' = [req EXCEPT !.todo = @ - Cur, !.start = (@ + Cur) % W, !.off = @ + Cur]
        /\ pc' = "read" /\ ret' = ret
    BY <1>2 DEF RoundDone, Goto
  <2>2. /\ req.todo - Cur \in 0 .. W - 1 /\ req.off + Cur \in 0 .. W - 1
        /\ (req.start + Cur) % W \in 0 .. W - 1
    BY CurIs
  <2>3. req' \in ReqType /\ req'.off = req.off + Cur /\ req'.todo = req.todo - Cur
    BY <2>1, <2>2 DEF BaseInv, TypeInv, ReqType
  <2>4. req'.off + req'.todo <= W - 1
    BY <2>3, CurIs
  <2>5. ret \in Errors \cup {"ok", "0", "blkcnt"}
    BY DEF BaseInv, TypeInv
  <2>. QED  BY <2>1, <2>3, <2>4, <2>5, ReadStep
<1>. QED  BY <1>1, <1>2

\* The read command of mmc_bread, and what it does
LEMMA ReadCommandDid ==
  ASSUME BaseInv, NEW x \in mmc_send_cmd(ReadCommand)
  PROVE  /\ BusInv(x.bus) /\ x.err \in Results /\ x.good \in BOOLEAN
         /\ Kind(x.bus.card) = Kind(bus.card) /\ x.bus.card.rca = bus.card.rca
         /\ x.bus.card.width = bus.card.width
         /\ x.bus.card.state \in {bus.card.state, "tran", "data"}
         /\ Cur <= 1 => x.bus.card.state = bus.card.state
         /\ x.err = "ok" => bus.card.state = "tran"
<1> DEFINE i == IF Cur > 1 THEN READ_MULTIPLE_BLOCK ELSE READ_SINGLE_BLOCK
           a == IF mmc.high_capacity THEN req.start ELSE (req.start * BL) % W
<1>1. i \in {READ_SINGLE_BLOCK, READ_MULTIPLE_BLOCK}
  OBVIOUS
<1>2. ReadCommand = Read(i, a, Cur, req.dst, req.off)
  BY DEF ReadCommand
<1>. HIDE DEF a
<1>3. req.dst \in Buffers \cup {"none"}
  BY DEF BaseInv, TypeInv, ReqType
<1>4. CommandDid(ReadCommand, x) /\ x.good \in BOOLEAN
  <2>. HIDE DEF i
  <2>. QED  BY <1>1, <1>2, <1>3, CurIs, ReadDid
<1>5. ReadCommand.idx = i
  BY <1>2 DEF Read
<1>6. /\ BusInv(x.bus) /\ x.err \in Results /\ MovesTo(bus.card, ReadCommand, x.bus.card)
      /\ x.err = "ok" /\ i # GO_IDLE_STATE => Legal(bus.card, ReadCommand)
  BY <1>4, <1>5 DEF CommandDid
<1>7. i \notin {GO_IDLE_STATE, SEND_OP_COND, APP_SEND_OP_COND, ALL_SEND_CID,
                SEND_RELATIVE_ADDR, SELECT_CARD, STOP_TRANSMISSION, SWITCH}
      /\ READ_SINGLE_BLOCK # READ_MULTIPLE_BLOCK
  BY DEF READ_SINGLE_BLOCK, READ_MULTIPLE_BLOCK, GO_IDLE_STATE, SEND_OP_COND, APP_SEND_OP_COND,
         ALL_SEND_CID, SEND_RELATIVE_ADDR, SELECT_CARD, STOP_TRANSMISSION, SWITCH
<1>8. /\ Kind(x.bus.card) = Kind(bus.card) /\ x.bus.card.rca = bus.card.rca
      /\ x.bus.card.width = bus.card.width
      /\ x.bus.card.state = bus.card.state \/ i = READ_MULTIPLE_BLOCK
      /\ i = READ_MULTIPLE_BLOCK => x.bus.card.state \in {bus.card.state, "tran", "data"}
  <2>. HIDE DEF i
  <2>. QED  BY <1>5, <1>6, <1>7 DEF MovesTo
<1>9. Legal(bus.card, ReadCommand) => bus.card.state = "tran"
  <2>. HIDE DEF i
  <2>. QED  BY <1>1, <1>5, OthersDo, MultipleDoes
<1>10. Cur <= 1 => i # READ_MULTIPLE_BLOCK
  BY <1>7, CurIs
<1>. QED  BY <1>4, <1>6, <1>7, <1>8, <1>9, <1>10

LEMMA ReadBlocksKeeps ==
  ASSUME BaseInv, mmc_read_blocks
  PROVE  BaseInv'
<1>1. PICK x \in mmc_send_cmd(ReadCommand) :
       /\ bus' = x.bus
       /\ IF x.err # "ok" THEN BreadReturns("0") /\ UNCHANGED right
          ELSE /\ right' = (right /\ x.good /\
                            Place(bus.card, ReadCommand.arg, BL) = req.first + req.off)
               /\ IF Cur > 1 THEN Goto("stop") /\ UNCHANGED req ELSE RoundDone
  BY DEF mmc_read_blocks
<1>2. /\ pc = "read" /\ mmc' = mmc /\ loc' = loc /\ host' = host /\ cond' = cond
  BY DEF mmc_read_blocks
<1>3. /\ BusInv(bus') /\ x.good \in BOOLEAN
      /\ Kind(bus'.card) = Kind(bus.card) /\ bus'.card.rca = bus.card.rca
      /\ bus'.card.width = bus.card.width
      /\ bus'.card.state \in {bus.card.state, "tran", "data"}
      /\ Cur <= 1 => bus'.card.state = bus.card.state
  BY <1>1, ReadCommandDid
<1>4. mmc.has_init /\ bus.card.state = "tran" /\ right \in BOOLEAN
  BY <1>2 DEF BaseInv, TypeInv, PlaceInv
<1>5. CASE x.err # "ok"
  BY <1>1, <1>2, <1>3, <1>4, <1>5, BreadReturnsKeeps
<1>6. CASE x.err = "ok" /\ Cur > 1
  <2>1. pc' = "stop" /\ ret' = ret /\ req' = req /\ right' \in BOOLEAN
    BY <1>1, <1>6 DEF Goto
  <2>2. ret \in Errors \cup {"ok", "0", "blkcnt"} /\ req \in ReqType /\ req.off + req.todo <= W - 1
    BY DEF BaseInv, TypeInv
  <2>. QED  BY <1>2, <1>3, <1>4, <2>1, <2>2, ReadStep
<1>7. CASE x.err = "ok" /\ ~(Cur > 1)
  <2>1. RoundDone /\ right' \in BOOLEAN
    BY <1>1, <1>7
  <2>2. Cur <= 1
    BY <1>7, CurIs
  <2>. QED  BY <1>2, <1>3, <1>4, <2>1, <2>2, RoundDoneKeeps
<1>. QED  BY <1>5, <1>6, <1>7

LEMMA StopKeeps ==
  ASSUME BaseInv, stop_transmission
  PROVE  BaseInv'
<1> DEFINE m == Plain(STOP_TRANSMISSION, 0)
<1>1. PICK x \in mmc_send_cmd(m) :
       /\ bus' = x.bus
       /\ IF x.err # "ok" THEN BreadReturns("0") ELSE RoundDone
  BY DEF stop_transmission
<1>2. /\ pc = "stop" /\ mmc' = mmc /\ loc' = loc /\ host' = host /\ cond' = cond
      /\ right' = right
  BY DEF stop_transmission
<1>3. STOP_TRANSMISSION \in CommandNames
      /\ STOP_TRANSMISSION \notin {SWITCH, GO_IDLE_STATE, SEND_RELATIVE_ADDR}
  BY DEF CommandNames, STOP_TRANSMISSION, SEND_RELATIVE_ADDR, SWITCH, GO_IDLE_STATE
<1>4. CommandDid(m, x) /\ m.idx = STOP_TRANSMISSION
  BY <1>1, <1>3, PlainDid DEF Plain
<1>. HIDE DEF m
<1>5. /\ BusInv(bus') /\ Kind(bus'.card) = Kind(bus.card)
      /\ bus'.card.state \in {bus.card.state, "tran", "data"} /\ bus'.card.rca = bus.card.rca
      /\ bus'.card.width = bus.card.width
  BY <1>1, <1>3, <1>4 DEF CommandDid, MovesTo
<1>6. mmc.has_init /\ right' \in BOOLEAN
  BY <1>2 DEF BaseInv, TypeInv, PlaceInv
<1>7. CASE x.err # "ok"
  BY <1>1, <1>2, <1>5, <1>6, <1>7, BreadReturnsKeeps
<1>8. CASE x.err = "ok"
  <2>1. RoundDone /\ x.bus.card \in Effects(bus.card, m)
    BY <1>1, <1>3, <1>4, <1>8 DEF CommandDid
  <2>2. bus'.card = [Answering(bus.card) EXCEPT !.state = "tran"]
    BY <1>1, <1>4, <2>1, StopDoes
  <2>3. bus.card \in CardType
    BY DEF BaseInv, TypeInv, BusInv, CardInv
  <2>4. Turned(bus.card, bus'.card, "tran", bus.card.rca, FALSE, bus.card.width)
    BY <2>2, <2>3, TurnedForms
  <2>5. bus'.card.state = "tran"
    BY <2>4 DEF Turned
  <2>. QED  BY <1>2, <1>5, <1>6, <2>1, <2>5, RoundDoneKeeps
<1>. QED  BY <1>7, <1>8

DataPlaces == {"ext_csd", "hs_ext_csd", "hs_check", "width_check", "scr",
               "switch_check", "switch_set", "read"}

LEMMA DataCommandIs ==
  ASSUME BaseInv, pc \in DataPlaces
  PROVE  /\ DataCommand.op = "read"
         /\ pc = "read" => DataCommand = ReadCommand
                           /\ DataCommand.idx \in {READ_SINGLE_BLOCK, READ_MULTIPLE_BLOCK}
         /\ pc \in {"ext_csd", "hs_ext_csd", "hs_check", "width_check"} =>
              DataCommand.idx = SEND_IF_COND
         /\ pc = "scr" => DataCommand.idx = APP_SEND_SCR
         /\ pc \in {"switch_check", "switch_set"} =>
              DataCommand.idx = SWITCH /\ DataCommand.arg \notin {1, 4, 8}
<1>1. CASE pc = "read"
  BY <1>1 DEF DataCommand, ReadCommand, Read
<1>2. CASE pc \in {"ext_csd", "hs_ext_csd", "hs_check", "width_check"}
  BY <1>2 DEF DataCommand, ExtCsd, Read
<1>3. CASE pc = "scr"
  BY <1>3 DEF DataCommand, ScrCommand, Read
<1>4. CASE pc = "switch_check"
  BY <1>4, HsTimingIs DEF DataCommand, SwitchCommand, Read
<1>5. CASE pc = "switch_set"
  BY <1>5, HsTimingIs DEF DataCommand, SwitchCommand, Read
<1>. QED  BY <1>1, <1>2, <1>3, <1>4, <1>5 DEF DataPlaces

LEMMA PollKeeps ==
  ASSUME BaseInv, PollForEver
  PROVE  BaseInv'
<1> DEFINE m == DataCommand
           faulty == Own(m) /\ OnCard(bus.card, m, BL)
<1>1. PICK e \in Exchanges(m) :
       /\ e.heard
       /\ faulty => e.faults > 0
       /\ bus' = [card |-> e.card, path |-> bus.path, faults |-> e.faults - IF faulty THEN 1 ELSE 0]
  BY DEF PollForEver
<1>2. /\ pc \in DataPlaces /\ pc' = "hung" /\ mmc' = mmc /\ loc' = loc /\ req' = req /\ ret' = ret
      /\ host' = host /\ cond' = cond /\ right' = right
  BY DEF PollForEver, DataPlaces
<1>3. BusInv(bus) /\ bus \in BusType /\ CardInv(bus.card)
  BY DEF BaseInv, TypeInv, BusInv
<1>4. m.idx \in {SEND_IF_COND, APP_SEND_SCR, SWITCH, READ_SINGLE_BLOCK, READ_MULTIPLE_BLOCK}
      /\ (m.idx = SWITCH => m.arg \notin {1, 4, 8})
      /\ (pc = "read" => m.idx \in {READ_SINGLE_BLOCK, READ_MULTIPLE_BLOCK})
  <2>1. SWITCH \notin {SEND_IF_COND, APP_SEND_SCR, READ_SINGLE_BLOCK, READ_MULTIPLE_BLOCK}
    BY DEF SEND_IF_COND, APP_SEND_SCR, SWITCH, READ_SINGLE_BLOCK, READ_MULTIPLE_BLOCK
  <2>. QED  BY <1>2, <2>1, DataCommandIs DEF DataPlaces
<1>. HIDE DEF m, faulty
<1>5. /\ e.faults \in 0 .. bus.faults /\ e.card \in Taken(bus.card, m) \cup {bus.card}
  BY <1>1, <1>3, ExchangeIs
<1>6. MovesTo(bus.card, m, e.card)
  <2>1. m.idx \in CommandNames /\ m.idx # SEND_RELATIVE_ADDR
    BY <1>4 DEF CommandNames, SEND_IF_COND, APP_SEND_SCR, SWITCH, READ_SINGLE_BLOCK,
                READ_MULTIPLE_BLOCK, SEND_RELATIVE_ADDR
  <2>. QED  BY <1>3, <1>5, <2>1, CardMoves
<1>7. BusInv(bus')
  <2>1. bus.faults \in 0 .. MaxFaults /\ MaxFaults \in Nat /\ bus.path \in Paths(Transfers)
    BY <1>3, MmcAssumption DEF BusType
  <2>2. e.faults - (IF faulty THEN 1 ELSE 0) \in 0 .. MaxFaults
    BY <1>1, <1>5, <2>1
  <2>3. CardInv(e.card) /\ e.card \in CardType
    BY <1>6 DEF MovesTo, CardInv
  <2>. QED  BY <1>1, <2>1, <2>2, <2>3 DEF BusInv, BusType
<1>8. TypeInv'
  BY <1>2, <1>7 DEF BaseInv, TypeInv
<1>9. PlaceInv'
  BY <1>2 DEF BaseInv, PlaceInv
<1>10. mmc.has_init => pc = "read"
  BY <1>2 DEF BaseInv, PlaceInv, DataPlaces
<1>11. pc = "read" =>
         /\ Kind(bus'.card) = Kind(bus.card) /\ bus'.card.rca = bus.card.rca
         /\ bus'.card.width = bus.card.width
         /\ bus'.card.state \in {bus.card.state, "tran", "data"}
  BY <1>1, <1>4, <1>6 DEF MovesTo, GO_IDLE_STATE, SEND_OP_COND, ALL_SEND_CID, SEND_RELATIVE_ADDR,
       SWITCH, SELECT_CARD, SEND_IF_COND, SEND_CSD, STOP_TRANSMISSION, SEND_STATUS,
       SET_BLOCKLEN, READ_SINGLE_BLOCK, READ_MULTIPLE_BLOCK, APP_SEND_OP_COND,
       APP_SEND_SCR, APP_CMD
<1>12. AgreeInv'
  <2>1. cond' = "ok" /\ mmc.has_init => Agree'
    BY <1>2, <1>10, <1>11, AgreeStays
  <2>. QED  BY <1>2, <2>1 DEF AgreeInv
<1>. QED  BY <1>8, <1>9, <1>12 DEF BaseInv

-----------------------------------------------------------------------------

LEMMA InitIsBase ==
  ASSUME Init
  PROVE  BaseInv
<1>1. PICK c \in Cards : bus = [card |-> PoweredUp(c), path |-> Clean, faults |-> MaxFaults]
  BY DEF Init
<1>2. c \in CardType
  BY CardAssumption DEF CardType
<1>3. Turned(c, PoweredUp(c), "idle", 0, FALSE, 1)
  BY <1>2, TurnedForms
<1>4. CardInv(PoweredUp(c))
  BY <1>3 DEF Turned, CardInv
<1>5. BusInv(bus)
  <2>1. MaxFaults \in 0 .. MaxFaults
    BY MmcAssumption
  <2>2. PoweredUp(c) \in CardType
    BY <1>4 DEF CardInv
  <2>3. bus.card = PoweredUp(c)
    BY <1>1
  <2>. QED  BY <1>1, <1>4, <2>1, <2>2, <2>3, PathIs DEF BusInv, BusType
<1>6. NoLocals \in LocType
  BY MmcAssumption DEF NoLocals, LocType, Results
<1>7. mmc \in MmcType
  <2>1. 0 \in 0 .. W - 1 /\ 0 \in 0 .. 2 /\ 1 \in {1, 4, 8, 12}
    BY MmcAssumption
  <2>. QED  BY <2>1 DEF Init, MmcType, Versions
<1>8. TypeInv
  BY <1>5, <1>6, <1>7, NoRequestIs DEF Init, TypeInv
<1>9. PlaceInv /\ AgreeInv
  BY DEF Init, PlaceInv, AgreeInv
<1>. QED  BY <1>8, <1>9 DEF BaseInv

LEMMA InitStepsKeep ==
  ASSUME BaseInv, InitSteps
  PROVE  BaseInv'
BY GoIdleKeeps, IfCondKeeps, OpCondAppKeeps, OpCondKeeps, MmcIdleKeeps, AskOpCondKeeps,
   MmcOpCondKeeps, AllSendCidKeeps, RelativeAddrKeeps, SendCsdKeeps, StatusKeeps, SelectCardKeeps,
   ExtCsdKeeps, ScrAppKeeps, ScrKeeps, SwitchCheckKeeps, SwitchSetKeeps, HsExtCsdKeeps,
   SwitchStepsKeep, HsCheckKeeps, WidthAppKeeps, BusWidthKeeps, WidthCheckKeeps
   DEF InitSteps

LEMMA NextKeepsBase ==
  ASSUME BaseInv, [Next]_vars
  PROVE  BaseInv'
<1>1. CASE mmc_init
  BY <1>1, InitKeeps
<1>2. CASE \E start \in Starts, blkcnt \in Counts, dst \in Buffers : mmc_bread(start, blkcnt, dst)
  BY <1>2, BreadKeeps
<1>3. CASE InitSteps
  BY <1>3, InitStepsKeep
<1>4. CASE ReadSteps
  BY <1>4, SetBlocklenKeeps, ReadBlocksKeeps, StopKeeps DEF ReadSteps
<1>5. CASE PollForEver
  BY <1>5, PollKeeps
<1>6. CASE UNCHANGED vars
  BY <1>6 DEF vars, BaseInv, TypeInv, PlaceInv, AgreeInv, Agree, SameWidth, Size
<1>. QED  BY <1>1, <1>2, <1>3, <1>4, <1>5, <1>6 DEF Next

LEMMA AlwaysBase == Spec => []BaseInv
<1>1. Init => BaseInv
  BY InitIsBase
<1>2. BaseInv /\ [Next]_vars => BaseInv'
  BY NextKeepsBase
<1>. QED  BY <1>1, <1>2, PTL DEF Spec

\* The driver keeps its variables in their types: a request never reaches past
\* 2^32 blocks, and no try is counted below zero
THEOREM MmcTypes == Spec => []TypeOK
<1>1. BaseInv => TypeOK
  <2> SUFFICES ASSUME BaseInv
               PROVE  TypeOK
    OBVIOUS
  <2>1. /\ mmc.version \in Versions
        /\ mmc.card_caps \subseteq {"4BIT", "HS", "HS_52MHz"}
        /\ mmc.bus_width \in {1, 4, 8, 12} /\ mmc.capacity \in 0 .. W - 1
    BY DEF BaseInv, TypeInv, MmcType
  <2>2. loc.timeout \in Nat /\ loc.retries \in 0 .. StatusRetries /\ loc.width \in 0 .. 3
    BY DEF BaseInv, TypeInv, LocType
  <2>3. req.start \in 0 .. W - 1 /\ req.todo \in 0 .. W - 1 /\ req.off \in 0 .. W - 1
    BY DEF BaseInv, TypeInv, ReqType
  <2>4. bus.faults \in 0 .. MaxFaults /\ bus.path \in Paths(Transfers)
    BY DEF BaseInv, TypeInv, BusInv, BusType
  <2>5. bus.path \in Paths({Foreign}) \cup {Armed(bus.path.xfer)}
    BY <2>4 DEF Paths, Armed
  <2>6. pc \in Places /\ ret \in Errors \cup {"ok", "0", "blkcnt"}
    BY DEF BaseInv, TypeInv
  <2>. QED  BY <2>1, <2>2, <2>3, <2>4, <2>5, <2>6 DEF TypeOK
<1>. QED  BY <1>1, AlwaysBase, PTL

\* After mmc_init has returned 0, and for as long as the client reads, driver and
\* card agree about the address, the way blocks are addressed, the kind of card
\* and, for an SD card, its size and the lines in use; whatever was lost
THEOREM DriverAgrees == Spec => []InitAgrees
<1>1. BaseInv => InitAgrees
  BY DEF BaseInv, AgreeInv, InitAgrees
<1>. QED  BY <1>1, AlwaysBase, PTL

-----------------------------------------------------------------------------
(* Addresses of blocks, in bytes and in 32 bits.                           *)

LEMMA DivMod ==
  ASSUME NEW a \in Nat, NEW b \in Nat \ {0}
  PROVE  /\ a \div b \in Nat /\ a % b \in 0 .. b - 1
         /\ a = b * (a \div b) + (a % b)
OBVIOUS

LEMMA Times ==
  ASSUME NEW a \in Int, NEW c \in Int, NEW b \in Nat, a <= c
  PROVE  a * b <= c * b
OBVIOUS

LEMMA TimesBack ==
  ASSUME NEW a \in Int, NEW c \in Int, NEW b \in Nat \ {0}, a * b < c * b
  PROVE  a < c
OBVIOUS

LEMMA ModIs ==
  ASSUME NEW a \in Nat, NEW b \in Nat \ {0}, NEW q \in Nat, NEW r \in 0 .. b - 1, a = b * q + r
  PROVE  a % b = r /\ a \div b = q
<1>1. a \div b \in Nat /\ a % b \in 0 .. b - 1 /\ a = b * (a \div b) + (a % b)
  BY DivMod
<1> DEFINE p == a \div b
           s == a % b
<1>. HIDE DEF p, s
<1>2. p \in Nat /\ s \in 0 .. b - 1 /\ a = b * p + s
  BY <1>1 DEF p, s
<1>3. b * p = p * b /\ b * q = q * b /\ p * b \in Int /\ q * b \in Int
  BY <1>2
<1>4. p * b + s = q * b + r
  BY <1>2, <1>3
<1>5. (q + 1) * b = q * b + b /\ (p + 1) * b = p * b + b
  BY <1>2
<1>6. p * b < (q + 1) * b /\ q * b < (p + 1) * b
  BY <1>2, <1>3, <1>4, <1>5
<1>7. p < q + 1 /\ q < p + 1
  BY <1>2, <1>6, TimesBack
<1>8. p = q
  BY <1>2, <1>7
<1>. QED  BY <1>2, <1>3, <1>4, <1>8 DEF p, s

\* An address below the size means its own block, and one that has wrapped
\* around means a block the card does not have
LEMMA BlockOfAddress ==
  ASSUME NEW w \in Nat \ {0}, NEW bl \in Nat \ {0}, NEW s \in 0 .. w - 1, NEW n \in Nat,
         NEW blocks \in Nat \ {0}, NEW t \in 1 .. n, NEW cap \in 0 .. w - 1, NEW k \in 1 .. t,
         (n + blocks) * bl <= w, s + t <= cap \div bl \/ s + t >= w,
         ((s * bl) % w) \div bl + k <= blocks
  PROVE  ((s * bl) % w) \div bl = s
<1>1. s * bl \in Nat /\ t * bl \in Nat /\ n * bl \in Nat /\ blocks * bl \in Nat
  OBVIOUS
<1>2. CASE s + t <= cap \div bl
  <2>0. cap \in Nat
    OBVIOUS
  <2>00. cap \div bl \in Nat /\ cap % bl \in 0 .. bl - 1 /\ cap = bl * (cap \div bl) + (cap % bl)
    BY <2>0, DivMod
  <2> DEFINE q == cap \div bl
  <2>. HIDE DEF q
  <2>1. q \in Nat /\ cap % bl \in 0 .. bl - 1 /\ cap = bl * q + (cap % bl)
    BY <2>00 DEF q
  <2>2. q * bl <= cap
    <3>1. bl * q = q * bl
      BY <2>1
    <3>. QED  BY <2>1, <3>1
  <2>3. (s + 1) * bl <= q * bl
    <3>1. s + 1 <= q
      BY <1>2 DEF q
    <3>. QED  BY <2>1, <3>1, Times
  <2>4. (s + 1) * bl = s * bl + bl
    OBVIOUS
  <2>5. s * bl < w
    BY <1>1, <2>1, <2>2, <2>3, <2>4
  <2>6. (s * bl) % w = s * bl
    <3>1. s * bl = w * 0 + s * bl /\ s * bl \in 0 .. w - 1
      BY <1>1, <2>5
    <3>. QED  BY <1>1, <3>1, ModIs
  <2>7. (s * bl) \div bl = s
    <3>1. s * bl = bl * s + 0 /\ 0 \in 0 .. bl - 1
      OBVIOUS
    <3>. QED  BY <1>1, <3>1, ModIs
  <2>. QED  BY <2>6, <2>7
<1>3. CASE s + t >= w
  <2> DEFINE j == w - s
  <2>1. j \in 1 .. t
    BY <1>3
  <2>2. s = w - j
    OBVIOUS
  <2>. HIDE DEF j
  <2>3. (n + blocks) * bl = n * bl + blocks * bl
    OBVIOUS
  <2>4. j * bl \in Nat /\ j * bl <= n * bl /\ bl <= j * bl
    <3>1. 1 * bl <= j * bl /\ j * bl <= n * bl
      BY <2>1, Times
    <3>. QED  BY <2>1, <3>1
  <2>5. bl <= blocks * bl
    <3>1. 1 * bl <= blocks * bl
      BY Times
    <3>. QED  BY <3>1
  <2>6. s * bl = w * bl - j * bl
    BY <2>1, <2>2
  <2>7. s * bl = w * (bl - 1) + (w - j * bl)
    <3>1. w * (bl - 1) = w * bl - w
      OBVIOUS
    <3>. QED  BY <2>4, <2>6, <3>1
  <2>8. w - j * bl \in 0 .. w - 1
    BY <1>1, <2>3, <2>4, <2>5
  <2> DEFINE e == w - j * bl
  <2>20. e \in 0 .. w - 1 /\ s * bl = w * (bl - 1) + e
    BY <2>7, <2>8
  <2>10. e >= blocks * bl
    BY <1>1, <2>3, <2>4
  <2>. HIDE DEF e
  <2>9. (s * bl) % w = e
    <3>1. bl - 1 \in Nat
      OBVIOUS
    <3>. QED  BY <1>1, <2>20, <3>1, ModIs
  <2>21. e \in Nat
    BY <2>20
  <2>22. e \div bl \in Nat /\ e % bl \in 0 .. bl - 1 /\ e = bl * (e \div bl) + (e % bl)
    BY <2>21, DivMod
  <2> DEFINE d == e \div bl
  <2>12. d + k <= blocks
    BY <2>9
  <2>. HIDE DEF d
  <2>11. d \in Nat /\ e % bl \in 0 .. bl - 1 /\ e = bl * d + (e % bl)
    BY <2>22 DEF d
  <2>13. (d + 1) * bl <= blocks * bl
    BY <2>11, <2>12, Times
  <2>14. (d + 1) * bl = bl * d + bl
    BY <2>11
  <2>. QED  BY <1>1, <2>10, <2>11, <2>13, <2>14
<1>. QED  BY <1>2, <1>3

-----------------------------------------------------------------------------
(* Every block of a card that is addressed in bytes has an address of its  *)
(* own in 32 bits, and so have the blocks a read may ask for past its end. *)
BuffersFit == \A c \in Cards, n \in Counts : ~c.hc => (n + c.blocks) * BL <= W

\* What a read has done, and has left to do
Going ==
  /\ req.todo > 0
  /\ \E n \in Counts : req.todo <= n
  /\ \/ req.first + req.off + req.todo <= mmc.capacity \div BL
     \/ req.first + req.off + req.todo >= W
  /\ req.path = Clean =>
       /\ bus.path = Clean /\ right
       /\ req.start = req.first + req.off
       /\ pc = "stop" => req.start + Cur < W

ReadInv == pc \in ReadPlaces /\ cond = "ok" => Going

\* mmc_init never goes into mmc_bread
LEMMA InitStaysOut ==
  ASSUME BaseInv, InitSteps
  PROVE  pc' \notin ReadPlaces \cup {"hung"}
<1>1. CASE mmc_go_idle
  BY <1>1 DEF mmc_go_idle, InitReturns, Goto
<1>2. CASE mmc_send_if_cond
  BY <1>2 DEF mmc_send_if_cond, Goto
<1>3. CASE sd_send_op_cond_app
  BY <1>3 DEF sd_send_op_cond_app, SdOpCondFails, Goto
<1>4. CASE sd_send_op_cond
  BY <1>4 DEF sd_send_op_cond, SdOpCondFails, OpCondDone, Goto
<1>5. CASE mmc_send_op_cond_idle \/ mmc_send_op_cond_ask
  BY <1>5 DEF mmc_send_op_cond_idle, mmc_send_op_cond_ask, InitReturns, Goto
<1>6. CASE mmc_send_op_cond
  BY <1>6 DEF mmc_send_op_cond, OpCondDone, InitReturns, Goto
<1>7. CASE all_send_cid
  BY <1>7 DEF all_send_cid, StartupFails, InitReturns, Goto
<1>8. CASE send_relative_addr
  BY <1>8 DEF send_relative_addr, StartupFails, InitReturns, Goto
<1>9. CASE send_csd
  BY <1>9 DEF send_csd, Goto
<1>10. ASSUME NEW m, NEW b, StartupEnds(m, b)
       PROVE  pc' \notin ReadPlaces \cup {"hung"}
  BY <1>10 DEF StartupEnds, InitReturns
<1>11. ASSUME NEW m, NEW b, FreqDone(m, b)
       PROVE  pc' \notin ReadPlaces \cup {"hung"}
  BY <1>10, <1>11 DEF FreqDone, Goto
<1>12. ASSUME NEW b, NextWidth(b)
       PROVE  pc' \notin ReadPlaces \cup {"hung"}
  BY <1>10, <1>12 DEF NextWidth, Goto
<1>13. ASSUME NEW after, after \in {"hs", "width"}, NEW r, NEW b, SwitchReturns(after, r, b)
       PROVE  pc' \notin ReadPlaces \cup {"hung"}
  <2>1. CASE after = "hs"
    BY <1>13, <2>1 DEF SwitchReturns, HsSwitched, StartupFails, InitReturns, Goto
  <2>2. CASE after = "width"
    BY <1>10, <1>12, <1>13, <2>2 DEF SwitchReturns, WidthSwitched, Goto
  <2>. QED  BY <1>13, <2>1, <2>2
<1>14. CASE mmc_send_status
  <2>1. loc.after \in {"csd", "hs", "width"}
    BY DEF BaseInv, TypeInv, LocType
  <2>2. ASSUME NEW r, NEW b, StatusReturns(r, b)
        PROVE  pc' \notin ReadPlaces \cup {"hung"}
    <3>1. CASE loc.after = "csd"
      BY <2>2, <3>1 DEF StatusReturns, TakeCsd, StartupFails, InitReturns, Goto
    <3>2. CASE loc.after # "csd"
      <4>1. SwitchReturns(loc.after, r, b) /\ loc.after \in {"hs", "width"}
        BY <2>1, <2>2, <3>2 DEF StatusReturns
      <4>. QED  BY <1>13, <4>1
    <3>. QED  BY <3>1, <3>2
  <2>. QED  BY <1>14, <2>2 DEF mmc_send_status, Goto
<1>15. CASE select_card
  BY <1>11, <1>15 DEF select_card, ChangeFreq, StartupFails, InitReturns, Goto
<1>16. CASE startup_ext_csd
  BY <1>16 DEF startup_ext_csd, Goto
<1>17. CASE sd_change_freq_app
  BY <1>17 DEF sd_change_freq_app, StartupFails, InitReturns, Goto
<1>18. CASE sd_change_freq_scr
  BY <1>11, <1>18 DEF sd_change_freq_scr, StartupFails, InitReturns, Goto
<1>19. CASE sd_change_freq_check
  BY <1>11, <1>19 DEF sd_change_freq_check, StartupFails, InitReturns, Goto
<1>20. CASE sd_change_freq_switch
  BY <1>11, <1>20 DEF sd_change_freq_switch, StartupFails, InitReturns, Goto
<1>21. CASE mmc_change_freq_ext_csd
  BY <1>21 DEF mmc_change_freq_ext_csd, StartupFails, InitReturns, Goto
<1>22. ASSUME NEW arg, NEW after, after \in {"hs", "width"}, mmc_switch(arg, after)
       PROVE  pc' \notin ReadPlaces \cup {"hung"}
  BY <1>13, <1>22 DEF mmc_switch, Goto
<1>23. CASE mmc_change_freq_switch
  BY <1>22, <1>23 DEF mmc_change_freq_switch
<1>24. CASE mmc_change_freq_check
  BY <1>11, <1>24 DEF mmc_change_freq_check, StartupFails, InitReturns, Goto
<1>25. CASE startup_app_cmd
  BY <1>25 DEF startup_app_cmd, StartupFails, InitReturns, Goto
<1>26. CASE startup_bus_width
  BY <1>10, <1>26 DEF startup_bus_width, StartupFails, InitReturns, Goto
<1>27. CASE startup_width_switch
  BY <1>22, <1>27 DEF startup_width_switch
<1>28. CASE startup_width_check
  BY <1>10, <1>12, <1>28 DEF startup_width_check
<1>. QED
  BY <1>1, <1>2, <1>3, <1>4, <1>5, <1>6, <1>7, <1>8, <1>9, <1>14, <1>15, <1>16, <1>17, <1>18,
     <1>19, <1>20, <1>21, <1>23, <1>24, <1>25, <1>26, <1>27, <1>28, Zenon DEF InitSteps

LEMMA BreadGoes ==
  ASSUME BaseInv, NEW start \in Starts, NEW blkcnt \in Counts, NEW dst \in Buffers,
         mmc_bread(start, blkcnt, dst)
  PROVE  ReadInv'
<1>1. pc = "client" /\ mmc' = mmc /\ bus' = bus /\ cond' = cond
  BY DEF mmc_bread
<1>2. CASE UNCHANGED pc
  BY <1>1, <1>2 DEF ReadInv
<1>3. CASE ~(UNCHANGED pc)
  <2>1. /\ blkcnt # 0 /\ ~((start + blkcnt) % W > mmc.capacity \div BL)
        /\ pc' = "blocklen" /\ right' = TRUE
        /\ req' = [start |-> start, todo |-> blkcnt, off |-> 0, first |-> start,
                   dst |-> dst, path |-> bus.path]
    BY <1>3 DEF mmc_bread, Goto
  <2>2. start \in 0 .. W - 1 /\ blkcnt \in 0 .. W - 1 /\ W \in Nat \ {0} /\ BL \in Nat \ {0}
        /\ mmc.capacity \in Nat
    BY MmcAssumption DEF BaseInv, TypeInv, MmcType
  <2>3. mmc.capacity \div BL \in Nat
    BY <2>2
  <2>4. start + blkcnt >= W \/ start + blkcnt <= mmc.capacity \div BL
    <3>1. CASE start + blkcnt < W
      <4>1. (start + blkcnt) % W = start + blkcnt
        BY <2>2, <3>1
      <4>. QED  BY <2>1, <2>2, <2>3, <4>1
    <3>. QED  BY <2>2, <3>1
  <2>5. req'.todo = blkcnt /\ req'.start = start /\ req'.off = 0 /\ req'.first = start
        /\ req'.path = bus.path
    BY <2>1
  <2>6. req'.first + req'.off + req'.todo = start + blkcnt /\ req'.start = req'.first + req'.off
        /\ req'.todo > 0 /\ req'.todo <= blkcnt
    BY <2>1, <2>2, <2>5
  <2>. QED  BY <1>1, <2>1, <2>4, <2>5, <2>6 DEF ReadInv, Going
<1>. QED  BY <1>2, <1>3

LEMMA BlocklenGoes ==
  ASSUME BaseInv, ReadInv, mmc_set_blocklen
  PROVE  ReadInv'
<1> DEFINE m == Plain(SET_BLOCKLEN, BL)
<1>1. PICK x \in mmc_send_cmd(m) :
       /\ bus' = x.bus
       /\ IF x.err # "ok" THEN BreadReturns("0") ELSE Goto("read") /\ UNCHANGED req
  BY DEF mmc_set_blocklen
<1>2. /\ pc = "blocklen" /\ mmc' = mmc /\ cond' = cond /\ right' = right
  BY DEF mmc_set_blocklen
<1>3. bus.path # Dirty => x.bus.path = bus.path
  BY <1>1, PlainSent DEF BaseInv, TypeInv, BusInv
<1>. HIDE DEF m
<1>4. CASE x.err # "ok"
  BY <1>1, <1>4 DEF BreadReturns, ReadInv
<1>5. CASE x.err = "ok"
  <2>1. pc' = "read" /\ req' = req
    BY <1>1, <1>5 DEF Goto
  <2>. QED  BY <1>1, <1>2, <1>3, <2>1, PathIs DEF ReadInv, Going
<1>. QED  BY <1>4, <1>5

\* The blocks asked for in this round are the next ones
LEMMA NextBlocks ==
  ASSUME BaseInv, BuffersFit, mmc.has_init, cond = "ok", Going, req.path = Clean,
         pc = "read", NEW x \in mmc_send_cmd(ReadCommand), x.err = "ok"
  PROVE  /\ x.good /\ x.bus.path = Clean
         /\ Place(bus.card, ReadCommand.arg, BL) = req.first + req.off
         /\ req.start + Cur < W
<1>1. bus.path = Clean /\ req.start = req.first + req.off /\ req.todo > 0
  BY DEF Going
<1>2. mmc.high_capacity = bus.card.hc
  BY DEF BaseInv, AgreeInv, Agree
<1>3. /\ ReadCommand.op = "read" /\ ReadCommand.xfer \in Transfers
      /\ ReadCommand.idx \in {READ_SINGLE_BLOCK, READ_MULTIPLE_BLOCK}
      /\ ReadCommand.xfer.n = Cur
      /\ ReadCommand.arg = IF mmc.high_capacity THEN req.start ELSE (req.start * BL) % W
  BY CurIs DEF ReadCommand, Read, Transfers, BaseInv, TypeInv, ReqType
<1>4. x.good /\ x.bus.path = Clean /\ OnCard(bus.card, ReadCommand, BL)
  <2>1. ReadCommand.idx # GO_IDLE_STATE
    BY <1>3 DEF READ_SINGLE_BLOCK, READ_MULTIPLE_BLOCK, GO_IDLE_STATE
  <2>2. bus \in BusType
    BY DEF BaseInv, TypeInv, BusInv
  <2>. QED  BY <1>1, <1>3, <2>1, <2>2, ReadSent
<1>5. Place(bus.card, ReadCommand.arg, BL) + Cur <= bus.card.blocks
  BY <1>3, <1>4 DEF OnCard
<1>6. bus.card.blocks \in 1 .. W - 1 /\ bus.card.hc \in BOOLEAN
  BY DEF BaseInv, TypeInv, BusInv, CardInv, CardType, CardRecords
<1>7. Place(bus.card, ReadCommand.arg, BL) = req.start
  <2>1. CASE bus.card.hc
    BY <1>2, <1>3, <2>1 DEF Place
  <2>2. CASE ~bus.card.hc
    <3>1. PICK n \in Counts : req.todo <= n
      BY DEF Going
    <3>2. PICK k \in Cards : Kind(bus.card) = Kind(k)
      BY DEF BaseInv, TypeInv, BusInv, CardInv
    <3>3. k.hc = bus.card.hc /\ k.blocks = bus.card.blocks
      BY <3>2 DEF Kind
    <3>4. (n + bus.card.blocks) * BL <= W
      BY <2>2, <3>3 DEF BuffersFit
    <3>5. n \in Nat /\ mmc.capacity \in 0 .. W - 1
      BY MmcAssumption DEF BaseInv, TypeInv, MmcType
    <3>6. Place(bus.card, ReadCommand.arg, BL) = ((req.start * BL) % W) \div BL
      BY <1>2, <1>3, <2>2 DEF Place
    <3>7. \/ req.start + req.todo <= mmc.capacity \div BL
          \/ req.start + req.todo >= W
      BY <1>1 DEF Going
    <3>8. req.todo \in 1 .. n /\ Cur \in 1 .. req.todo /\ bus.card.blocks \in Nat \ {0}
      BY <1>1, <1>6, <3>1, <3>5, CurIs
    <3>9. ((req.start * BL) % W) \div BL + Cur <= bus.card.blocks
      BY <1>5, <3>6
    <3>10. W \in Nat \ {0} /\ BL \in Nat \ {0} /\ req.start \in 0 .. W - 1
      BY CurIs
    <3> DEFINE s == req.start
               t == req.todo
               cap == mmc.capacity
               blocks == bus.card.blocks
               k1 == Cur
    <3>11. /\ s \in 0 .. W - 1 /\ t \in 1 .. n /\ cap \in 0 .. W - 1 /\ blocks \in Nat \ {0}
           /\ k1 \in 1 .. t /\ (n + blocks) * BL <= W
           /\ s + t <= cap \div BL \/ s + t >= W
           /\ ((s * BL) % W) \div BL + k1 <= blocks
      BY <3>4, <3>5, <3>7, <3>8, <3>9, <3>10
    <3>. HIDE DEF s, t, cap, blocks, k1
    <3>12. ((s * BL) % W) \div BL = s
      BY <3>5, <3>10, <3>11, BlockOfAddress
    <3>. QED  BY <3>6, <3>12 DEF s
  <2>. QED  BY <1>6, <2>1, <2>2
<1>8. req.start + Cur < W
  BY <1>5, <1>6, <1>7, CurIs
<1>. QED  BY <1>1, <1>4, <1>7, <1>8

LEMMA RoundGoes ==
  ASSUME BaseInv, Going, RoundDone, mmc' = mmc,
         req.path = Clean => /\ right' /\ bus'.path = Clean
                             /\ req.start + Cur < W /\ req.start = req.first + req.off
  PROVE  pc' \in ReadPlaces => pc' = "read" /\ Going'
<1>1. CASE req.todo = Cur
  BY <1>1 DEF RoundDone, BreadReturns
<1>2. CASE req.todo # Cur
  <2>1. /\ req' = [req EXCEPT !.todo = @ - Cur, !.start = (@ + Cur) % W, !.off = @ + Cur]
        /\ pc' = "read"
    BY <1>2 DEF RoundDone, Goto
  <2>2. req'.todo = req.todo - Cur /\ req'.start = (req.start + Cur) % W
        /\ req'.off = req.off + Cur /\ req'.first = req.first /\ req'.path = req.path
    BY <2>1 DEF BaseInv, TypeInv, ReqType
  <2>3. req'.todo > 0 /\ req'.todo <= req.todo
        /\ req'.first + req'.off + req'.todo = req.first + req.off + req.todo
    BY <1>2, <2>2, CurIs
  <2>4. ASSUME NEW n \in Counts, req.todo <= n
        PROVE  req'.todo <= n
    <3>1. n \in Nat
      BY MmcAssumption
    <3>. QED  BY <2>2, <2>3, <2>4, <3>1, CurIs
  <2>5. req.path = Clean => req'.start = req'.first + req'.off
    BY <2>2, CurIs
  <2>. QED  BY <2>1, <2>2, <2>3, <2>4, <2>5 DEF Going
<1>. QED  BY <1>1, <1>2

LEMMA ReadGoes ==
  ASSUME BaseInv, BuffersFit, ReadInv, mmc_read_blocks
  PROVE  /\ ReadInv'
         /\ pc' = "client" /\ ret' = "blkcnt" /\ req.path = Clean /\ cond = "ok" => right'
<1>1. PICK x \in mmc_send_cmd(ReadCommand) :
       /\ bus' = x.bus
       /\ IF x.err # "ok" THEN BreadReturns("0") /\ UNCHANGED right
          ELSE /\ right' = (right /\ x.good /\
                            Place(bus.card, ReadCommand.arg, BL) = req.first + req.off)
               /\ IF Cur > 1 THEN Goto("stop") /\ UNCHANGED req ELSE RoundDone
  BY DEF mmc_read_blocks
<1>2. pc = "read" /\ mmc' = mmc /\ cond' = cond
  BY DEF mmc_read_blocks
<1>3. mmc.has_init
  BY <1>2 DEF BaseInv, PlaceInv
<1>4. CASE x.err # "ok"
  BY <1>1, <1>4 DEF BreadReturns, ReadInv
<1>5. CASE x.err = "ok" /\ cond # "ok"
  BY <1>2, <1>5 DEF ReadInv
<1>6. CASE x.err = "ok" /\ cond = "ok"
  <2>1. Going
    BY <1>2, <1>6 DEF ReadInv
  <2>2. req.path = Clean =>
          right' /\ bus'.path = Clean /\ req.start + Cur < W /\ req.start = req.first + req.off
    <3>1. SUFFICES ASSUME req.path = Clean
                   PROVE  /\ right' /\ bus'.path = Clean
                          /\ req.start + Cur < W /\ req.start = req.first + req.off
      OBVIOUS
    <3>2. right /\ req.start = req.first + req.off
      BY <2>1, <3>1 DEF Going
    <3>3. /\ x.good /\ x.bus.path = Clean
          /\ Place(bus.card, ReadCommand.arg, BL) = req.first + req.off
          /\ req.start + Cur < W
      BY <1>1, <1>2, <1>3, <1>6, <2>1, <3>1, NextBlocks
    <3>. QED  BY <1>1, <1>6, <3>2, <3>3
  <2>3. CASE Cur > 1
    <3>1. pc' = "stop" /\ req' = req
      BY <1>1, <1>6, <2>3 DEF Goto
    <3>2. Cur' = Cur
      BY <3>1 DEF Cur
    <3>. QED  BY <1>2, <2>1, <2>2, <3>1, <3>2 DEF ReadInv, Going
  <2>4. CASE ~(Cur > 1)
    <3>1. RoundDone
      BY <1>1, <1>6, <2>4
    <3>2. pc' \in ReadPlaces => pc' = "read" /\ Going'
      BY <1>2, <2>1, <2>2, <3>1, RoundGoes
    <3>. QED  BY <2>2, <3>2 DEF ReadInv
  <2>. QED  BY <2>3, <2>4
<1>. QED  BY <1>4, <1>5, <1>6

LEMMA StopGoes ==
  ASSUME BaseInv, ReadInv, stop_transmission
  PROVE  /\ ReadInv'
         /\ pc' = "client" /\ ret' = "blkcnt" /\ req.path = Clean /\ cond = "ok" => right'
<1> DEFINE m == Plain(STOP_TRANSMISSION, 0)
<1>1. PICK x \in mmc_send_cmd(m) :
       /\ bus' = x.bus
       /\ IF x.err # "ok" THEN BreadReturns("0") ELSE RoundDone
  BY DEF stop_transmission
<1>2. pc = "stop" /\ mmc' = mmc /\ cond' = cond /\ right' = right
  BY DEF stop_transmission
<1>3. bus.path # Dirty => x.bus.path = bus.path
  BY <1>1, PlainSent DEF BaseInv, TypeInv, BusInv
<1>. HIDE DEF m
<1>4. CASE x.err # "ok"
  BY <1>1, <1>4 DEF BreadReturns, ReadInv
<1>5. CASE cond # "ok"
  BY <1>2, <1>5 DEF ReadInv
<1>6. CASE x.err = "ok" /\ cond = "ok"
  <2>1. Going /\ RoundDone
    BY <1>1, <1>2, <1>6 DEF ReadInv
  <2>2. req.path = Clean =>
          right' /\ bus'.path = Clean /\ req.start + Cur < W /\ req.start = req.first + req.off
    BY <1>1, <1>2, <1>3, <2>1, PathIs DEF Going
  <2>3. pc' \in ReadPlaces => pc' = "read" /\ Going'
    BY <1>2, <2>1, <2>2, RoundGoes
  <2>. QED  BY <2>2, <2>3 DEF ReadInv
<1>. QED  BY <1>4, <1>5, <1>6

LEMMA NextKeepsRead ==
  ASSUME BuffersFit, BaseInv, ReadInv, [Next]_vars
  PROVE  ReadInv'
<1>1. CASE mmc_init
  BY <1>1 DEF mmc_init, ReadInv, Goto
<1>2. CASE \E start \in Starts, blkcnt \in Counts, dst \in Buffers : mmc_bread(start, blkcnt, dst)
  BY <1>2, BreadGoes
<1>3. CASE InitSteps
  BY <1>3, InitStaysOut DEF ReadInv
<1>4. CASE ReadSteps
  BY <1>4, BlocklenGoes, ReadGoes, StopGoes DEF ReadSteps
<1>5. CASE PollForEver
  BY <1>5 DEF PollForEver, ReadInv
<1>6. CASE UNCHANGED vars
  BY <1>6 DEF vars, ReadInv, Going, Cur
<1>. QED  BY <1>1, <1>2, <1>3, <1>4, <1>5, <1>6 DEF Next

\* A step that ends mmc_bread with blkcnt is a read or a stop
LEMMA NextDelivers ==
  ASSUME BuffersFit, BaseInv, ReadInv, [Next]_vars,
         pc \in {"read", "stop"}, pc' = "client", ret' = "blkcnt", req.path = Clean, cond = "ok"
  PROVE  right'
<1>1. ~mmc_init
  BY DEF mmc_init
<1>2. ~(\E start \in Starts, blkcnt \in Counts, dst \in Buffers : mmc_bread(start, blkcnt, dst))
  BY DEF mmc_bread
<1>3. ~InitSteps
  BY DEF InitSteps, mmc_go_idle, mmc_send_if_cond, sd_send_op_cond_app, sd_send_op_cond,
     mmc_send_op_cond_idle, mmc_send_op_cond_ask, mmc_send_op_cond, all_send_cid,
     send_relative_addr, send_csd, mmc_send_status, select_card, startup_ext_csd,
     sd_change_freq_app, sd_change_freq_scr, sd_change_freq_check, sd_change_freq_switch,
     mmc_change_freq_ext_csd, mmc_change_freq_switch, mmc_change_freq_check, startup_app_cmd,
     startup_bus_width, startup_width_switch, startup_width_check
<1>4. ~PollForEver /\ ~(UNCHANGED vars) /\ ~mmc_set_blocklen
  BY DEF PollForEver, vars, mmc_set_blocklen
<1>5. mmc_read_blocks \/ stop_transmission
  BY <1>1, <1>2, <1>3, <1>4, Zenon DEF Next, ReadSteps
<1>. QED  BY <1>5, ReadGoes, StopGoes

\* mmc_bread, called with the data path clean and driver and card agreeing,
\* returns blkcnt only when all its rounds have put the blocks that were asked
\* for into the buffer
THEOREM BreadIsRight ==
  ASSUME BuffersFit
  PROVE  Spec => BreadDelivers
<1>1. Init => ReadInv
  BY DEF Init, ReadInv
<1>2. BaseInv /\ ReadInv /\ [Next]_vars => ReadInv'
  BY NextKeepsRead
<1>3. BaseInv /\ ReadInv /\ [Next]_vars =>
        [(/\ pc \in {"read", "stop"} /\ pc' = "client" /\ ret' = "blkcnt"
          /\ req.path = Clean /\ cond = "ok") => right']_vars
  BY NextDelivers
<1>. QED  BY <1>1, <1>2, <1>3, AlwaysBase, PTL DEF Spec, BreadDelivers

-----------------------------------------------------------------------------
(* As long as nothing was lost.                                            *)

\* The driver can use an MMC card with as many lines as the host has, and
\* believes the size it reads: the host has 4 or 8 lines, not both, and the size
\* of a high capacity card is above half of W
NarrowHost(h) == ~({"4BIT", "8BIT"} \subseteq h.caps)
Supported == SdCard(bus.card) \/ (NarrowHost(host) /\ (bus.card.hc => 2 * Size > W))

Quiet == bus.faults = MaxFaults /\ Supported

\* The version is that of the card
VersionFits ==
  IF SdCard(bus.card) THEN IsSd(mmc.version) ELSE mmc.version \in {"MMC_UNKNOWN", bus.card.std}

PathClean ==
  /\ ~mmc.has_init \/ cond = "ok" => bus.path = Clean
  /\ pc = "width_check" \/ mmc.has_init => SameWidth

VersionClean ==
  /\ mmc.version = "none" \/ VersionFits
  /\ pc = "all_send_cid" /\ ~SdCard(bus.card) /\ mmc.version = "none" => bus.card.state = "idle"
  /\ pc = "relative_addr" \/ Addressed => SdCard(bus.card) \/ mmc.version # "none"
  /\ pc = "select" => mmc.version # "MMC_UNKNOWN"
  /\ Selected => mmc.version \notin {"none", "MMC_UNKNOWN"}

CardClean ==
  /\ pc \in {"if_cond", "app_op_cond", "op_cond", "mmc_ask_op_cond", "mmc_op_cond"} =>
       bus.card.state = "idle"
  /\ pc \in {"scr", "bus_width"} => bus.card.app
  /\ pc \in {"switch_check", "switch_set"} => bus.card.std \in {"SD_1_10", "SD_2"}

WidthClean ==
  /\ InHs => bus.card.std = "MMC_4" /\ (pc # "ext_csd" => loc.ext_csd)
  /\ InWidth =>
       /\ loc.width <= 2
       /\ IF bus.card.std = "MMC_4" THEN loc.ext_csd
          ELSE pc = "width_switch" /\ bus.card.width = 1
  /\ InWidth /\ pc # "width_check" => mmc.bus_width = 1
  /\ pc = "status" /\ loc.after = "width" => bus.card.width = Lines(loc.width)

SizeClean ==
  /\ cond = "ok" /\ pc = "status" /\ loc.after = "csd" => loc.err = "ok"
  /\ cond = "ok" /\ (mmc.has_init \/ (Selected /\ pc # "ext_csd")) => mmc.capacity = Size
  /\ cond = "ok" /\ pc \in {"select", "ext_csd"} /\ (SdCard(bus.card) \/ ~bus.card.hc) =>
       mmc.capacity = Size

AllClean == PathClean /\ VersionClean /\ CardClean /\ WidthClean /\ SizeClean

CleanInv == Quiet => AllClean

-----------------------------------------------------------------------------
(* Faults are not taken back, and the card stays the one it is.            *)

Mild(b) == Kind(b.card) = Kind(bus.card) /\ b.faults \in 0 .. bus.faults

LEMMA PlainMild ==
  ASSUME BaseInv, NEW i \in CommandNames, NEW a, i = SEND_RELATIVE_ADDR => a \in 0 .. 2,
         NEW x \in mmc_send_cmd(Plain(i, a))
  PROVE  Mild(x.bus)
<1>1. CommandDid(Plain(i, a), x)
  BY PlainDid
<1>2. Answered(Plain(i, a), x)
  BY PlainSent DEF BaseInv, TypeInv, BusInv
<1>. QED  BY <1>1, <1>2 DEF CommandDid, MovesTo, Answered, Mild

LEMMA ReadMild ==
  ASSUME BaseInv, NEW i \in {SEND_IF_COND, SWITCH, APP_SEND_SCR, READ_SINGLE_BLOCK, READ_MULTIPLE_BLOCK},
         NEW a, NEW n \in 0 .. W - 1, NEW off \in 0 .. W - 1,
         NEW dst \in Buffers \cup {"none", "scr", "switch_status", "ext_csd", "cardtype", "test_csd"},
         NEW x \in mmc_send_cmd(Read(i, a, n, dst, off))
  PROVE  Mild(x.bus)
<1> DEFINE m == Read(i, a, n, dst, off)
<1>1. CommandDid(m, x)
  BY ReadDid
<1>2. m.op = "read" /\ m.idx = i /\ m.xfer \in Transfers /\ i # GO_IDLE_STATE
  BY DEF Read, Transfers, SEND_IF_COND, SWITCH, APP_SEND_SCR, READ_SINGLE_BLOCK,
         READ_MULTIPLE_BLOCK, GO_IDLE_STATE
<1>. HIDE DEF m
<1>3. Answered(m, x)
  BY <1>2, ReadSent DEF BaseInv, TypeInv, BusInv, m
<1>. QED  BY <1>1, <1>3 DEF CommandDid, MovesTo, Answered, Mild

LEMMA SmallRead ==
  ASSUME BaseInv, NEW i \in {SEND_IF_COND, SWITCH, APP_SEND_SCR}, NEW a,
         NEW dst \in {"scr", "switch_status", "ext_csd", "cardtype", "test_csd"},
         NEW x \in mmc_send_cmd(Read(i, a, 1, dst, 0))
  PROVE  Mild(x.bus)
<1>1. 0 \in 0 .. W - 1 /\ 1 \in 0 .. W - 1
  BY MmcAssumption
<1>. QED  BY <1>1, ReadMild

\* The bus at the end of a step, when the command has left it at b
From(b) == bus' = b \/ bus' \in mmc_set_ios(b)

LEMMA FromMild ==
  ASSUME NEW b, BusInv(b), Mild(b), From(b)
  PROVE  Mild(bus')
BY IosKeeps DEF From, Mild

LEMMA WaysOut ==
  ASSUME BaseInv, NEW b
  PROVE  /\ \A m : StartupEnds(m, b) \/ FreqDone(m, b) => From(b)
         /\ ChangeFreq(b) \/ NextWidth(b) => From(b)
         /\ \A r : StatusReturns(r, b) => From(b)
         /\ \A r, after : after \in {"hs", "width"} /\ SwitchReturns(after, r, b) => From(b)
<1>1. ASSUME NEW m, StartupEnds(m, b)
      PROVE  From(b)
  BY <1>1 DEF StartupEnds, From
<1>2. ASSUME NEW m, FreqDone(m, b)
      PROVE  From(b)
  BY <1>1, <1>2 DEF FreqDone, From
<1>3. ASSUME ChangeFreq(b)
      PROVE  From(b)
  BY <1>2, <1>3 DEF ChangeFreq, From
<1>4. ASSUME NextWidth(b)
      PROVE  From(b)
  BY <1>1, <1>4 DEF NextWidth, From
<1>5. ASSUME NEW r, WidthSwitched(r, b)
      PROVE  From(b)
  BY <1>1, <1>4, <1>5 DEF WidthSwitched, From
<1>6. ASSUME NEW r, NEW after, after \in {"hs", "width"}, SwitchReturns(after, r, b)
      PROVE  From(b)
  BY <1>5, <1>6 DEF SwitchReturns, HsSwitched, From
<1>7. ASSUME NEW r, StatusReturns(r, b)
      PROVE  From(b)
  <2>1. loc.after \in {"csd", "hs", "width"}
    BY DEF BaseInv, TypeInv, LocType
  <2>2. CASE loc.after = "csd"
    BY <1>7, <2>2 DEF StatusReturns, From
  <2>3. CASE loc.after # "csd"
    <3>1. SwitchReturns(loc.after, r, b) /\ loc.after \in {"hs", "width"}
      BY <1>7, <2>1, <2>3 DEF StatusReturns
    <3>. QED  BY <1>6, <3>1
  <2>. QED  BY <2>2, <2>3
<1>. QED  BY <1>1, <1>2, <1>3, <1>4, <1>6, <1>7

\* Every command of mmc_init
LEMMA InitStepsMild ==
  ASSUME BaseInv, InitSteps
  PROVE  Mild(bus') /\ host' = host
<1>1. ASSUME NEW i \in CommandNames, NEW a, i = SEND_RELATIVE_ADDR => a \in 0 .. 2,
             NEW x \in mmc_send_cmd(Plain(i, a)), From(x.bus)
      PROVE  Mild(bus')
  <2>1. BusInv(x.bus) /\ Mild(x.bus)
    BY <1>1, PlainDid, PlainMild DEF CommandDid
  <2>. QED  BY <1>1, <2>1, FromMild
<1>2. ASSUME NEW i \in {SEND_IF_COND, SWITCH, APP_SEND_SCR}, NEW a,
             NEW dst \in {"scr", "switch_status", "ext_csd", "cardtype", "test_csd"},
             NEW x \in mmc_send_cmd(Read(i, a, 1, dst, 0)), From(x.bus)
      PROVE  Mild(bus')
  <2>1. 0 \in 0 .. W - 1 /\ 1 \in 0 .. W - 1
    BY MmcAssumption
  <2>2. CommandDid(Read(i, a, 1, dst, 0), x)
    BY <2>1, ReadDid
  <2>3. BusInv(x.bus) /\ Mild(x.bus)
    BY <2>2, SmallRead DEF CommandDid
  <2>. QED  BY <1>2, <2>3, FromMild
<1>4. /\ {GO_IDLE_STATE, SEND_OP_COND, ALL_SEND_CID, SWITCH, SELECT_CARD, SEND_IF_COND, SEND_CSD,
          SEND_STATUS, APP_SEND_OP_COND, APP_CMD} \subseteq CommandNames \ {SEND_RELATIVE_ADDR}
      /\ SEND_RELATIVE_ADDR \in CommandNames
  BY DEF CommandNames, GO_IDLE_STATE, SEND_OP_COND, ALL_SEND_CID, SEND_RELATIVE_ADDR, SWITCH,
         SELECT_CARD, SEND_IF_COND, SEND_CSD, SEND_STATUS, APP_SEND_OP_COND, APP_CMD
<1>5. mmc.rca \in 0 .. 2
  BY DEF BaseInv, TypeInv, MmcType
<1>6. CASE mmc_go_idle
  BY <1>1, <1>4, <1>6 DEF mmc_go_idle, Keep, From
<1>7. CASE mmc_send_if_cond
  BY <1>1, <1>4, <1>7 DEF mmc_send_if_cond, Keep, From
<1>8. CASE sd_send_op_cond_app
  BY <1>1, <1>4, <1>8 DEF sd_send_op_cond_app, Keep, From
<1>9. CASE sd_send_op_cond
  BY <1>1, <1>4, <1>9 DEF sd_send_op_cond, Keep, From
<1>10. CASE mmc_send_op_cond_idle
  BY <1>1, <1>4, <1>10 DEF mmc_send_op_cond_idle, Keep, From
<1>11. CASE mmc_send_op_cond_ask
  BY <1>1, <1>4, <1>11 DEF mmc_send_op_cond_ask, Keep, From
<1>12. CASE mmc_send_op_cond
  BY <1>1, <1>4, <1>12 DEF mmc_send_op_cond, Keep, From
<1>13. CASE all_send_cid
  BY <1>1, <1>4, <1>13 DEF all_send_cid, Keep, From
<1>14. CASE send_relative_addr
  BY <1>1, <1>4, <1>5, <1>14 DEF send_relative_addr, Keep, From
<1>15. CASE send_csd
  BY <1>1, <1>4, <1>15 DEF send_csd, Keep, From
<1>16. CASE mmc_send_status
  <2>1. PICK x \in mmc_send_cmd(Plain(SEND_STATUS, mmc.rca)) :
          bus' = x.bus \/ \E r : StatusReturns(r, x.bus)
    BY <1>16 DEF mmc_send_status
  <2>2. From(x.bus)
    BY <2>1, WaysOut DEF From
  <2>. QED  BY <1>1, <1>4, <1>16, <2>2 DEF mmc_send_status, Keep
<1>17. CASE select_card
  <2>1. PICK x \in mmc_send_cmd(Plain(SELECT_CARD, mmc.rca)) : bus' = x.bus \/ ChangeFreq(x.bus)
    BY <1>17 DEF select_card
  <2>2. From(x.bus)
    BY <2>1, WaysOut DEF From
  <2>. QED  BY <1>1, <1>4, <1>17, <2>2 DEF select_card, Keep
<1>18. CASE startup_ext_csd
  BY <1>2, <1>18 DEF startup_ext_csd, ExtCsd, Keep, From
<1>19. CASE sd_change_freq_app
  BY <1>1, <1>4, <1>19 DEF sd_change_freq_app, Keep, From
<1>20. CASE sd_change_freq_scr
  <2>1. PICK x \in mmc_send_cmd(ScrCommand) : bus' = x.bus \/ \E m : FreqDone(m, x.bus)
    BY <1>20 DEF sd_change_freq_scr
  <2>2. From(x.bus)
    BY <2>1, WaysOut DEF From
  <2>. QED  BY <1>2, <1>20, <2>2 DEF sd_change_freq_scr, ScrCommand, Keep
<1>21. CASE sd_change_freq_check
  <2>1. PICK x \in mmc_send_cmd(SwitchCommand(CheckFunction)) :
          bus' = x.bus \/ \E m : FreqDone(m, x.bus)
    BY <1>21 DEF sd_change_freq_check
  <2>2. From(x.bus)
    BY <2>1, WaysOut DEF From
  <2>. QED  BY <1>2, <1>21, <2>2 DEF sd_change_freq_check, SwitchCommand, Keep
<1>22. CASE sd_change_freq_switch
  <2>1. PICK x \in mmc_send_cmd(SwitchCommand(SwitchFunction)) :
          bus' = x.bus \/ \E m : FreqDone(m, x.bus)
    BY <1>22 DEF sd_change_freq_switch
  <2>2. From(x.bus)
    BY <2>1, WaysOut DEF From
  <2>. QED  BY <1>2, <1>22, <2>2 DEF sd_change_freq_switch, SwitchCommand, Keep
<1>23. CASE mmc_change_freq_ext_csd
  BY <1>2, <1>23 DEF mmc_change_freq_ext_csd, ExtCsd, Keep, From
<1>24. ASSUME NEW arg, NEW after, after \in {"hs", "width"}, mmc_switch(arg, after)
       PROVE  Mild(bus')
  <2>1. PICK x \in mmc_send_cmd(Plain(SWITCH, arg)) :
          bus' = x.bus \/ \E r : SwitchReturns(after, r, x.bus)
    BY <1>24 DEF mmc_switch
  <2>2. From(x.bus)
    BY <1>24, <2>1, WaysOut DEF From
  <2>. QED  BY <1>1, <1>4, <2>2
<1>25. CASE mmc_change_freq_switch \/ startup_width_switch
  BY <1>24, <1>25 DEF mmc_change_freq_switch, startup_width_switch, Keep
<1>26. CASE mmc_change_freq_check
  <2>1. PICK x \in mmc_send_cmd(ExtCsd("cardtype")) : bus' = x.bus \/ \E m : FreqDone(m, x.bus)
    BY <1>26 DEF mmc_change_freq_check
  <2>2. From(x.bus)
    BY <2>1, WaysOut DEF From
  <2>. QED  BY <1>2, <1>26, <2>2 DEF mmc_change_freq_check, ExtCsd, Keep
<1>27. CASE startup_app_cmd
  BY <1>1, <1>4, <1>27 DEF startup_app_cmd, Keep, From
<1>28. CASE startup_bus_width
  <2>1. PICK x \in mmc_send_cmd(Plain(SWITCH, 4)) : bus' = x.bus \/ \E m : StartupEnds(m, x.bus)
    BY <1>28 DEF startup_bus_width
  <2>2. From(x.bus)
    BY <2>1, WaysOut DEF From
  <2>. QED  BY <1>1, <1>4, <1>28, <2>2 DEF startup_bus_width, Keep
<1>29. CASE startup_width_check
  <2>1. PICK x \in mmc_send_cmd(ExtCsd("test_csd")) :
          NextWidth(x.bus) \/ \E m : StartupEnds(m, x.bus)
    BY <1>29 DEF startup_width_check
  <2>2. From(x.bus)
    BY <2>1, WaysOut DEF From
  <2>. QED  BY <1>2, <1>29, <2>2 DEF startup_width_check, ExtCsd, Keep
<1>. QED
  BY <1>6, <1>7, <1>8, <1>9, <1>10, <1>11, <1>12, <1>13, <1>14, <1>15, <1>16, <1>17, <1>18,
     <1>19, <1>20, <1>21, <1>22, <1>23, <1>25, <1>26, <1>27, <1>28, <1>29, Zenon DEF InitSteps

\* What comes of a command that nothing happens to
Obeyed(m, x) ==
  /\ BusInv(x.bus) /\ Kind(x.bus.card) = Kind(bus.card)
  /\ x.err \in Results
  /\ bus.path = Clean => x.bus.path = Clean
  /\ IF Legal(bus.card, m) THEN x.err = "ok" /\ x.bus.card \in Effects(bus.card, m)
     ELSE x.err # "ok" /\ x.bus.card = Answering(bus.card)

LEMMA QuietPlain ==
  ASSUME BaseInv, NEW i \in CommandNames, NEW a, i = SEND_RELATIVE_ADDR => a \in 0 .. 2,
         NEW x \in mmc_send_cmd(Plain(i, a)), bus.faults = MaxFaults, x.bus.faults = MaxFaults
  PROVE  Obeyed(Plain(i, a), x)
<1> DEFINE m == Plain(i, a)
<1>1. bus \in BusType
  BY DEF BaseInv, TypeInv, BusInv
<1>2. CommandDid(m, x)
  BY PlainDid
<1>3. /\ Answered(m, x)
      /\ bus.path # Dirty => x.bus.path = bus.path
      /\ i = GO_IDLE_STATE \/ Legal(bus.card, m) => x.err = "ok"
  BY <1>1, PlainSent
<1>4. m.idx = i
  BY DEF Plain
<1>. HIDE DEF m
<1>5. i = GO_IDLE_STATE => Legal(bus.card, m)
  BY <1>4, IdleDoes
<1>6. x.bus.card \in Taken(bus.card, m)
  BY <1>3 DEF Answered
<1>7. ~Legal(bus.card, m) => x.err # "ok"
  BY <1>3, <1>4, <1>5 DEF Answered
<1>8. IF Legal(bus.card, m) THEN x.err = "ok" /\ x.bus.card \in Effects(bus.card, m)
      ELSE x.err # "ok" /\ x.bus.card = Answering(bus.card)
  BY <1>3, <1>6, <1>7 DEF Taken, Answering
<1>9. bus.path = Clean => x.bus.path = Clean
  BY <1>3, PathIs
<1>10. Obeyed(m, x)
  BY <1>2, <1>8, <1>9 DEF Obeyed, CommandDid, MovesTo
<1>. QED  BY <1>10 DEF m

LEMMA QuietRead ==
  ASSUME BaseInv, NEW i \in {SEND_IF_COND, SWITCH, APP_SEND_SCR, READ_SINGLE_BLOCK, READ_MULTIPLE_BLOCK},
         NEW a, NEW n \in 0 .. W - 1, NEW off \in 0 .. W - 1,
         NEW dst \in Buffers \cup {"none", "scr", "switch_status", "ext_csd", "cardtype", "test_csd"},
         NEW x \in mmc_send_cmd(Read(i, a, n, dst, off)),
         bus.faults = MaxFaults, x.bus.faults = MaxFaults, bus.path = Clean, SameWidth,
         Legal(bus.card, Read(i, a, n, dst, off))
  PROVE  x.err = "ok" /\ x.good /\ x.bus.path = Clean
<1> DEFINE m == Read(i, a, n, dst, off)
<1>1. bus \in BusType
  BY DEF BaseInv, TypeInv, BusInv
<1>2. m.op = "read" /\ m.idx = i /\ m.xfer \in Transfers /\ i # GO_IDLE_STATE
  BY DEF Read, Transfers, SEND_IF_COND, SWITCH, APP_SEND_SCR, READ_SINGLE_BLOCK,
         READ_MULTIPLE_BLOCK, GO_IDLE_STATE
<1>. HIDE DEF m
<1>3. /\ bus.path = Clean /\ x.err = "ok" => x.good /\ x.bus.path = Clean
      /\ x.bus.faults = bus.faults /\ bus.path = Clean /\ SameWidth /\ Legal(bus.card, m)
              => x.err = "ok"
  BY <1>1, <1>2, ReadSent DEF m
<1>. QED  BY <1>3 DEF m

LEMMA QuietSmall ==
  ASSUME BaseInv, Selected, NEW i \in {SEND_IF_COND, SWITCH, APP_SEND_SCR}, NEW a,
         i = SWITCH => a \notin {1, 4, 8},
         NEW dst \in {"scr", "switch_status", "ext_csd", "cardtype", "test_csd"},
         NEW x \in mmc_send_cmd(Read(i, a, 1, dst, 0)),
         bus.faults = MaxFaults, x.bus.faults = MaxFaults, bus.path = Clean, SameWidth,
         Legal(bus.card, Read(i, a, 1, dst, 0))
  PROVE  /\ x.err = "ok" /\ x.good /\ x.bus.path = Clean
         /\ BusInv(x.bus) /\ Kind(x.bus.card) = Kind(bus.card)
         /\ x.bus.card.state = bus.card.state /\ x.bus.card.rca = bus.card.rca
         /\ x.bus.card.width = bus.card.width
<1>1. 0 \in 0 .. W - 1 /\ 1 \in 0 .. W - 1
  BY MmcAssumption
<1>2. x.err = "ok" /\ x.good /\ x.bus.path = Clean
  BY <1>1, QuietRead
<1>. QED  BY <1>2, SelectedRead

\* The faults are those of the bus after the command
LEMMA FromFaults ==
  ASSUME NEW b, BusInv(b), From(b)
  PROVE  /\ bus'.faults = b.faults /\ bus'.card = b.card
         /\ b.path = Clean => bus'.path = Clean
BY IosKeeps, PathIs DEF From

-----------------------------------------------------------------------------
(* Ways out of a step, when nothing was lost.                              *)

\* The version may be none, and is that of the card if not
Fits(v) == v = "none" \/ IF SdCard(bus.card) THEN IsSd(v) ELSE v \in {"MMC_UNKNOWN", bus.card.std}

LEMMA FitsStays ==
  ASSUME Kind(bus'.card) = Kind(bus.card), NEW v
  PROVE  /\ Fits(v) => (v = "none" \/
             IF SdCard(bus.card)' THEN IsSd(v) ELSE v \in {"MMC_UNKNOWN", bus'.card.std})
         /\ SdCard(bus.card)' <=> SdCard(bus.card)
         /\ bus'.card.std = bus.card.std /\ bus'.card.hc = bus.card.hc /\ Size' = Size
BY DEF Kind, SdCard, Fits, Size

\* Back to the client, or on among the first commands
LEMMA EarlyClean ==
  ASSUME Kind(bus'.card) = Kind(bus.card), bus'.path = Clean, ~mmc'.has_init, Fits(mmc'.version),
         pc' \in EarlyPlaces \cup {"client", "hung"},
         pc' \in EarlyPlaces \ {"go_idle", "mmc_go_idle"} => bus'.card.state = "idle"
  PROVE  AllClean'
<1>1. PathClean'
  BY DEF PathClean
<1>2. VersionClean'
  <2>1. mmc'.version = "none" \/
             IF SdCard(bus.card)' THEN IsSd(mmc'.version) ELSE mmc'.version \in {"MMC_UNKNOWN", bus'.card.std}
    BY FitsStays
  <2>. QED  BY <2>1 DEF VersionClean, VersionFits, IsSd
<1>3. CardClean' /\ WidthClean' /\ SizeClean'
  BY DEF CardClean, WidthClean, SizeClean
<1>. QED  BY <1>1, <1>2, <1>3 DEF AllClean

LEMMA CleanIs ==
  ASSUME AllClean, ~mmc.has_init
  PROVE  bus.path = Clean /\ Fits(mmc.version)
BY DEF AllClean, PathClean, VersionClean, VersionFits, Fits

LEMMA FailsClean ==
  ASSUME BaseInv, AllClean, Kind(bus'.card) = Kind(bus.card), bus'.path = Clean, NEW e, StartupFails(e)
  PROVE  AllClean'
<1>1. pc' = "client" /\ mmc' = [mmc EXCEPT !.has_init = FALSE]
  BY DEF StartupFails, InitReturns
<1>2. ~mmc'.has_init /\ mmc'.version = mmc.version
  BY <1>1 DEF BaseInv, TypeInv, MmcType
<1>3. Fits(mmc.version)
  BY DEF AllClean, VersionClean, VersionFits, Fits
<1>. QED  BY <1>1, <1>2, <1>3, EarlyClean

\* Nothing is lost in this step
NoLoss == bus.faults = MaxFaults /\ bus'.faults = MaxFaults

LEMMA NamesAre ==
  /\ {GO_IDLE_STATE, SEND_OP_COND, ALL_SEND_CID, SWITCH, SELECT_CARD, SEND_IF_COND, SEND_CSD,
      SEND_STATUS, APP_SEND_OP_COND, APP_CMD, STOP_TRANSMISSION, SET_BLOCKLEN}
       \subseteq CommandNames \ {SEND_RELATIVE_ADDR}
  /\ SEND_RELATIVE_ADDR \in CommandNames
BY DEF CommandNames, GO_IDLE_STATE, SEND_OP_COND, ALL_SEND_CID, SEND_RELATIVE_ADDR, SWITCH,
       SELECT_CARD, SEND_IF_COND, SEND_CSD, SEND_STATUS, APP_SEND_OP_COND, APP_CMD,
       STOP_TRANSMISSION, SET_BLOCKLEN

LEMMA PlainIs ==
  ASSUME NEW i, NEW a
  PROVE  Plain(i, a).idx = i /\ Plain(i, a).arg = a
BY DEF Plain

LEMMA AnsweringIs ==
  ASSUME NEW c \in CardType
  PROVE  /\ Answering(c).state = c.state /\ Answering(c).rca = c.rca /\ ~Answering(c).app
         /\ Answering(c).width = c.width
BY DEF Answering, CardType, CardRecords

LEMMA InitClean ==
  ASSUME BaseInv, AllClean, mmc_init
  PROVE  AllClean'
<1>1. CASE mmc.has_init
  <2>1. pc' = pc /\ mmc' = mmc /\ bus' = bus /\ loc' = loc /\ cond' = cond
    BY <1>1 DEF mmc_init
  <2>. QED  BY <2>1 DEF AllClean, PathClean, VersionClean, CardClean, WidthClean, SizeClean,
                        VersionFits, SameWidth, Size
<1>2. CASE ~mmc.has_init
  <2>1. pc' = "go_idle" /\ mmc' = [mmc EXCEPT !.bus_width = 1] /\ bus' \in mmc_set_ios(bus)
    BY <1>2 DEF mmc_init, Goto
  <2>2. ~mmc'.has_init /\ mmc'.version = mmc.version
    BY <1>2, <2>1 DEF BaseInv, TypeInv, MmcType
  <2>3. bus'.path = Clean /\ bus'.card = bus.card /\ Fits(mmc.version)
    BY <1>2, <2>1, CleanIs, IosKeeps, PathIs DEF BaseInv, TypeInv
  <2>. QED  BY <2>1, <2>2, <2>3, EarlyClean
<1>. QED  BY <1>1, <1>2

LEMMA GoIdleClean ==
  ASSUME BaseInv, AllClean, NoLoss, mmc_go_idle
  PROVE  AllClean' /\ pc' # "client"
<1> DEFINE m == Plain(GO_IDLE_STATE, 0)
<1>1. PICK x \in mmc_send_cmd(m) :
        /\ bus' = x.bus
        /\ IF x.err # "ok" THEN InitReturns(x.err) ELSE Goto("if_cond") /\ UNCHANGED loc
  BY DEF mmc_go_idle
<1>2. pc = "go_idle" /\ mmc' = mmc
  BY DEF mmc_go_idle
<1>3. Obeyed(m, x)
  BY <1>1, NamesAre, QuietPlain DEF NoLoss
<1>4. m.idx = GO_IDLE_STATE
  BY PlainIs
<1>. HIDE DEF m
<1>5. x.err = "ok" /\ bus'.card = PoweredUp(bus.card) /\ Kind(bus'.card) = Kind(bus.card)
  BY <1>1, <1>3, <1>4, IdleDoes DEF Obeyed
<1>6. bus.card \in CardType /\ ~mmc.has_init
  BY <1>2 DEF BaseInv, TypeInv, BusInv, CardInv, PlaceInv
<1>7. bus'.card.state = "idle"
  <2>1. Turned(bus.card, PoweredUp(bus.card), "idle", 0, FALSE, 1)
    BY <1>6, TurnedForms
  <2>. QED  BY <1>5, <2>1 DEF Turned
<1>8. bus'.path = Clean /\ Fits(mmc.version)
  BY <1>1, <1>3, <1>6, CleanIs DEF Obeyed
<1>9. pc' = "if_cond"
  BY <1>1, <1>5 DEF Goto
<1>. QED  BY <1>2, <1>5, <1>6, <1>7, <1>8, <1>9, EarlyClean

LEMMA IfCondClean ==
  ASSUME BaseInv, AllClean, NoLoss, mmc_send_if_cond
  PROVE  AllClean'
<1> DEFINE m == Plain(SEND_IF_COND, 0)
<1>1. PICK x \in mmc_send_cmd(m) :
        /\ bus' = x.bus
        /\ mmc' = IF x.err = "ok" THEN [mmc EXCEPT !.version = "SD_2"] ELSE mmc
  BY DEF mmc_send_if_cond
<1>2. pc = "if_cond" /\ pc' = "app_op_cond"
  BY DEF mmc_send_if_cond, Goto
<1>3. Obeyed(m, x)
  BY <1>1, NamesAre, QuietPlain DEF NoLoss
<1>4. m.idx = SEND_IF_COND /\ CommandDid(m, x)
  BY <1>1, NamesAre, PlainIs, PlainDid
<1>. HIDE DEF m
<1>5. bus.card \in CardType /\ ~mmc.has_init /\ bus.card.state = "idle"
  BY <1>2 DEF BaseInv, TypeInv, BusInv, CardInv, PlaceInv, AllClean, CardClean
<1>6. bus'.card.state = "idle" /\ Kind(bus'.card) = Kind(bus.card)
  BY <1>1, <1>4, <1>5, Stays
<1>7. bus'.path = Clean /\ Fits(mmc.version)
  BY <1>1, <1>3, <1>5, CleanIs DEF Obeyed
<1>8. x.err = "ok" => bus.card.std = "SD_2"
  BY <1>3, <1>4, <1>5, IfCondDoes DEF Obeyed
<1>9. ~mmc'.has_init /\ (mmc'.version = mmc.version \/ (x.err = "ok" /\ mmc'.version = "SD_2"))
  BY <1>1, <1>5 DEF BaseInv, TypeInv, MmcType
<1>10. Fits(mmc'.version)
  BY <1>7, <1>8, <1>9 DEF Fits, SdCard, IsSd, SdVersions
<1>. QED  BY <1>2, <1>6, <1>7, <1>9, <1>10, EarlyClean

\* On to mmc_startup
LEMMA CidClean ==
  ASSUME Kind(bus'.card) = Kind(bus.card), bus'.path = Clean, ~mmc'.has_init, Fits(mmc'.version),
         pc' = "all_send_cid",
         ~SdCard(bus.card) /\ mmc'.version = "none" => bus'.card.state = "idle"
  PROVE  AllClean'
<1>1. PathClean'
  BY DEF PathClean
<1>2. VersionClean'
  <2>1. /\ mmc'.version = "none" \/
             IF SdCard(bus.card)' THEN IsSd(mmc'.version) ELSE mmc'.version \in {"MMC_UNKNOWN", bus'.card.std}
        /\ SdCard(bus.card)' <=> SdCard(bus.card)
    BY FitsStays
  <2>. QED  BY <2>1 DEF VersionClean, VersionFits, IsSd
<1>3. CardClean' /\ WidthClean' /\ SizeClean'
  BY DEF CardClean, WidthClean, SizeClean
<1>. QED  BY <1>1, <1>2, <1>3 DEF AllClean

LEMMA OpCondAppClean ==
  ASSUME BaseInv, AllClean, NoLoss, sd_send_op_cond_app
  PROVE  AllClean'
<1> DEFINE m == Plain(APP_CMD, 0)
<1>1. PICK x \in mmc_send_cmd(m) :
       /\ bus' = x.bus
       /\ IF x.err # "ok" THEN SdOpCondFails(x.err)
          ELSE Goto("op_cond") /\ UNCHANGED <<mmc, loc, cond>>
  BY DEF sd_send_op_cond_app
<1>2. pc = "app_op_cond"
  BY DEF sd_send_op_cond_app
<1>3. Obeyed(m, x)
  BY <1>1, NamesAre, QuietPlain DEF NoLoss
<1>4. m.idx = APP_CMD /\ CommandDid(m, x)
  BY <1>1, NamesAre, PlainIs, PlainDid
<1>. HIDE DEF m
<1>5. ~mmc.has_init /\ bus.card.state = "idle"
  BY <1>2 DEF BaseInv, PlaceInv, AllClean, CardClean
<1>6. bus'.card.state = "idle" /\ Kind(bus'.card) = Kind(bus.card)
  BY <1>1, <1>4, <1>5, Stays
<1>7. bus'.path = Clean /\ Fits(mmc.version)
  BY <1>1, <1>3, <1>5, CleanIs DEF Obeyed
<1>8. mmc' = mmc /\ pc' \in {"op_cond", "mmc_go_idle", "all_send_cid"}
  BY <1>1 DEF SdOpCondFails, Goto
<1>. QED  BY <1>5, <1>6, <1>7, <1>8, EarlyClean, CidClean

LEMMA OpCondClean ==
  ASSUME BaseInv, AllClean, NoLoss, sd_send_op_cond
  PROVE  AllClean'
<1> DEFINE m == Plain(APP_SEND_OP_COND, IF mmc.version = "SD_2" THEN 2 ELSE 1)
           v == IF mmc.version = "SD_2" THEN "SD_2" ELSE "SD_1_0"
<1>1. PICK x \in mmc_send_cmd(m) :
       /\ bus' = x.bus
       /\ CASE x.err # "ok" -> SdOpCondFails(x.err)
            [] x.err = "ok" /\ loc.timeout = 0 -> SdOpCondFails("UNUSABLE_ERR")
            [] x.err = "ok" /\ loc.timeout > 0 /\ x.bus.card.state = "ready" ->
                 OpCondDone(v, x.bus.card)
            [] OTHER ->
                 /\ loc' = [loc EXCEPT !.timeout = @ - 1]
                 /\ Goto("app_op_cond")
                 /\ UNCHANGED <<mmc, cond>>
  BY DEF sd_send_op_cond
<1>2. pc = "op_cond"
  BY DEF sd_send_op_cond
<1>3. Obeyed(m, x)
  BY <1>1, NamesAre, QuietPlain DEF NoLoss
<1>4. m.idx = APP_SEND_OP_COND /\ CommandDid(m, x)
  BY <1>1, NamesAre, PlainIs, PlainDid
<1>. HIDE DEF m
<1>5. ~mmc.has_init /\ bus.card.state = "idle" /\ CardInv(bus.card)
  BY <1>2 DEF BaseInv, TypeInv, BusInv, PlaceInv, AllClean, CardClean
<1>6. Kind(bus'.card) = Kind(bus.card) /\ bus'.path = Clean /\ Fits(mmc.version)
  BY <1>1, <1>3, <1>5, CleanIs DEF Obeyed
<1>7. Answering(bus.card).state = "idle" /\ [Answering(bus.card) EXCEPT !.state = "ready"].state = "ready"
  BY <1>5, TurnedForms DEF CardInv, Turned
<1>8. \/ bus'.card.state = "idle"
      \/ bus'.card.state = "ready" /\ x.err = "ok"
  <2>1. \/ bus'.card = Answering(bus.card)
        \/ x.err = "ok" /\ bus'.card \in Effects(bus.card, m)
    BY <1>1, <1>3 DEF Obeyed
  <2>2. ASSUME bus'.card \in Effects(bus.card, m)
        PROVE  \/ bus'.card = Answering(bus.card)
               \/ bus'.card = [Answering(bus.card) EXCEPT !.state = "ready"]
    BY <1>4, <2>2, OpCondDoes
  <2>. QED  BY <1>7, <2>1, <2>2
<1>9. x.err = "ok" => SdCard(bus.card)
  BY <1>3, <1>4, <1>5, OpCondDoes DEF Obeyed, CardInv
<1>10. CASE mmc' = mmc /\ pc' \in {"mmc_go_idle", "all_send_cid"}
  BY <1>5, <1>6, <1>8, <1>9, <1>10, EarlyClean, CidClean
<1>11. CASE x.err = "ok" /\ loc.timeout > 0 /\ x.bus.card.state = "ready"
  <2>1. /\ pc' = "all_send_cid"
        /\ mmc' = [mmc EXCEPT !.version = v, !.high_capacity = x.bus.card.hc, !.rca = 0]
    BY <1>1, <1>11 DEF OpCondDone, Goto
  <2>2. ~mmc'.has_init /\ mmc'.version = v
    BY <1>5, <2>1 DEF BaseInv, TypeInv, MmcType
  <2>3. Fits(v)
    BY <1>9, <1>11 DEF Fits, IsSd, SdVersions
  <2>. QED  BY <1>6, <1>9, <1>11, <2>1, <2>2, <2>3, CidClean
<1>12. CASE /\ x.err = "ok" /\ bus'.card.state # "ready"
            /\ mmc' = mmc /\ pc' = "app_op_cond"
  BY <1>5, <1>6, <1>8, <1>12, EarlyClean
<1>13. loc.timeout \in Nat
  BY DEF BaseInv, TypeInv, LocType
<1>. QED  BY <1>1, <1>10, <1>11, <1>12, <1>13 DEF SdOpCondFails, Goto

LEMMA MmcIdleClean ==
  ASSUME BaseInv, AllClean, NoLoss, mmc_send_op_cond_idle
  PROVE  AllClean'
<1> DEFINE m == Plain(GO_IDLE_STATE, 0)
<1>1. PICK x \in mmc_send_cmd(m) : bus' = x.bus
  BY DEF mmc_send_op_cond_idle
<1>2. pc = "mmc_go_idle" /\ mmc' = mmc /\ pc' = "mmc_ask_op_cond"
  BY DEF mmc_send_op_cond_idle, Goto
<1>3. Obeyed(m, x)
  BY <1>1, NamesAre, QuietPlain DEF NoLoss
<1>4. m.idx = GO_IDLE_STATE
  BY PlainIs
<1>. HIDE DEF m
<1>5. bus'.card = PoweredUp(bus.card) /\ Kind(bus'.card) = Kind(bus.card)
  BY <1>1, <1>3, <1>4, IdleDoes DEF Obeyed
<1>6. bus.card \in CardType /\ ~mmc.has_init
  BY <1>2 DEF BaseInv, TypeInv, BusInv, CardInv, PlaceInv
<1>7. bus'.card.state = "idle"
  <2>1. Turned(bus.card, PoweredUp(bus.card), "idle", 0, FALSE, 1)
    BY <1>6, TurnedForms
  <2>. QED  BY <1>5, <2>1 DEF Turned
<1>8. bus'.path = Clean /\ Fits(mmc.version)
  BY <1>1, <1>3, <1>6, CleanIs DEF Obeyed
<1>. QED  BY <1>2, <1>5, <1>6, <1>7, <1>8, EarlyClean

LEMMA AskOpCondClean ==
  ASSUME BaseInv, AllClean, NoLoss, mmc_send_op_cond_ask
  PROVE  AllClean'
<1> DEFINE m == Plain(SEND_OP_COND, 0)
<1>1. PICK x \in mmc_send_cmd(m) :
       /\ bus' = x.bus
       /\ IF x.err # "ok" THEN InitReturns("UNUSABLE_ERR")
          ELSE Goto("mmc_op_cond") /\ loc' = [loc EXCEPT !.timeout = MmcOpCondTries]
  BY DEF mmc_send_op_cond_ask
<1>2. pc = "mmc_ask_op_cond" /\ mmc' = mmc
  BY DEF mmc_send_op_cond_ask
<1>3. Obeyed(m, x)
  BY <1>1, NamesAre, QuietPlain DEF NoLoss
<1>4. m.idx = SEND_OP_COND /\ m.arg = 0
  BY PlainIs
<1>. HIDE DEF m
<1>5. ~mmc.has_init /\ bus.card.state = "idle" /\ bus.card \in CardType
  BY <1>2 DEF BaseInv, TypeInv, BusInv, CardInv, PlaceInv, AllClean, CardClean
<1>6. Kind(bus'.card) = Kind(bus.card) /\ bus'.path = Clean /\ Fits(mmc.version)
  BY <1>1, <1>3, <1>5, CleanIs DEF Obeyed
<1>7. bus'.card.state = "idle"
  BY <1>1, <1>3, <1>4, <1>5, OpCondDoes, AnsweringIs DEF Obeyed
<1>8. pc' \in {"client", "mmc_op_cond"}
  BY <1>1 DEF InitReturns, Goto
<1>. QED  BY <1>2, <1>5, <1>6, <1>7, <1>8, EarlyClean

LEMMA MmcOpCondClean ==
  ASSUME BaseInv, AllClean, NoLoss, mmc_send_op_cond
  PROVE  AllClean'
<1> DEFINE m == Plain(SEND_OP_COND, 1)
<1>1. PICK x \in mmc_send_cmd(m) :
       /\ bus' = x.bus
       /\ CASE x.err # "ok" \/ loc.timeout = 0 ->
                 InitReturns("UNUSABLE_ERR") /\ UNCHANGED <<mmc, cond>>
            [] x.err = "ok" /\ loc.timeout > 0 /\ x.bus.card.state = "ready" ->
                 OpCondDone("MMC_UNKNOWN", x.bus.card)
            [] OTHER ->
                 /\ loc' = [loc EXCEPT !.timeout = @ - 1]
                 /\ Goto("mmc_op_cond")
                 /\ UNCHANGED <<mmc, cond>>
  BY DEF mmc_send_op_cond
<1>2. pc = "mmc_op_cond"
  BY DEF mmc_send_op_cond
<1>3. Obeyed(m, x)
  BY <1>1, NamesAre, QuietPlain DEF NoLoss
<1>4. m.idx = SEND_OP_COND
  BY PlainIs
<1>. HIDE DEF m
<1>5. ~mmc.has_init /\ bus.card.state = "idle" /\ CardInv(bus.card)
  BY <1>2 DEF BaseInv, TypeInv, BusInv, PlaceInv, AllClean, CardClean
<1>6. Kind(bus'.card) = Kind(bus.card) /\ bus'.path = Clean /\ Fits(mmc.version)
  BY <1>1, <1>3, <1>5, CleanIs DEF Obeyed
<1>7. Answering(bus.card).state = "idle" /\ [Answering(bus.card) EXCEPT !.state = "ready"].state = "ready"
  BY <1>5, TurnedForms DEF CardInv, Turned
<1>8. \/ bus'.card.state = "idle"
      \/ bus'.card.state = "ready" /\ x.err = "ok"
  <2>1. \/ bus'.card = Answering(bus.card)
        \/ x.err = "ok" /\ bus'.card \in Effects(bus.card, m)
    BY <1>1, <1>3 DEF Obeyed
  <2>2. ASSUME bus'.card \in Effects(bus.card, m)
        PROVE  \/ bus'.card = Answering(bus.card)
               \/ bus'.card = [Answering(bus.card) EXCEPT !.state = "ready"]
    BY <1>4, <2>2, OpCondDoes
  <2>. QED  BY <1>7, <2>1, <2>2
<1>9. x.err = "ok" => ~SdCard(bus.card)
  BY <1>3, <1>4, OpCondDoes DEF Obeyed
<1>10. CASE mmc' = mmc /\ pc' = "client"
  BY <1>5, <1>6, <1>10, EarlyClean
<1>11. CASE x.err = "ok" /\ loc.timeout > 0 /\ x.bus.card.state = "ready"
  <2>1. /\ pc' = "all_send_cid"
        /\ mmc' = [mmc EXCEPT !.version = "MMC_UNKNOWN", !.high_capacity = x.bus.card.hc, !.rca = 0]
    BY <1>1, <1>11 DEF OpCondDone, Goto
  <2>2. ~mmc'.has_init /\ mmc'.version = "MMC_UNKNOWN"
    BY <1>5, <2>1 DEF BaseInv, TypeInv, MmcType
  <2>3. Fits("MMC_UNKNOWN")
    BY <1>9, <1>11 DEF Fits
  <2>. QED  BY <1>6, <2>1, <2>2, <2>3, CidClean
<1>12. CASE /\ x.err = "ok" /\ bus'.card.state # "ready"
            /\ mmc' = mmc /\ pc' = "mmc_op_cond"
  BY <1>5, <1>6, <1>8, <1>12, EarlyClean
<1>13. loc.timeout \in Nat
  BY DEF BaseInv, TypeInv, LocType
<1>. QED  BY <1>1, <1>10, <1>11, <1>12, <1>13 DEF InitReturns, Goto

\* The card is selected, and struct mmc says what it is
CleanReady(m, b) ==
  /\ b.path = Clean /\ Kind(b.card) = Kind(bus.card) /\ ~m.has_init
  /\ IF SdCard(bus.card) THEN IsSd(m.version) ELSE m.version = bus.card.std
  /\ cond = "ok" => m.capacity = Size

LEMMA StdIs ==
  ASSUME BaseInv
  PROVE  /\ bus.card.std \in SdVersions \cup {"MMC_3", "MMC_4"}
         /\ ~SdCard(bus.card) => bus.card.std \in {"MMC_3", "MMC_4"}
BY DEF BaseInv, TypeInv, BusInv, CardInv, CardType, CardRecords, SdCard, SdVersions

LEMMA ReadyIsClean ==
  ASSUME BaseInv, AllClean, Selected, pc # "ext_csd"
  PROVE  CleanReady(mmc, bus)
<1>1. ~mmc.has_init
  BY DEF BaseInv, PlaceInv
<1>2. bus.path = Clean /\ (cond = "ok" => mmc.capacity = Size)
  BY <1>1 DEF AllClean, PathClean, SizeClean
<1>3. VersionFits /\ mmc.version \notin {"none", "MMC_UNKNOWN"}
  BY DEF AllClean, VersionClean
<1>. QED  BY <1>1, <1>2, <1>3 DEF CleanReady, VersionFits

LEMMA ReadyClean ==
  ASSUME BaseInv, CleanReady(mmc', bus'), cond' = cond, Selected', pc' # "width_check" \/ SameWidth',
         CardClean', WidthClean'
  PROVE  AllClean'
<1>1. PathClean'
  BY DEF PathClean, CleanReady
<1>2. /\ SdCard(bus.card)' <=> SdCard(bus.card)
      /\ bus'.card.std = bus.card.std /\ bus'.card.hc = bus.card.hc /\ Size' = Size
  BY FitsStays DEF CleanReady
<1>3. VersionFits' /\ mmc'.version \notin {"none", "MMC_UNKNOWN"}
  BY <1>2, StdIs DEF CleanReady, VersionFits, IsSd, SdVersions
<1>4. VersionClean'
  BY <1>3 DEF VersionClean
<1>5. SizeClean'
  BY <1>2 DEF SizeClean, CleanReady
<1>. QED  BY <1>1, <1>4, <1>5 DEF AllClean

LEMMA EndsClean ==
  ASSUME BaseInv, NEW m \in MmcType, NEW b, BusInv(b), CleanReady(m, b), m.bus_width = b.card.width,
         StartupEnds(m, b)
  PROVE  AllClean'
<1>1. /\ pc' = "client" /\ mmc' = [m EXCEPT !.has_init = TRUE] /\ bus' \in mmc_set_ios(b)
      /\ cond' = cond
  BY DEF StartupEnds, InitReturns
<1>2. /\ mmc'.has_init /\ mmc'.version = m.version /\ mmc'.bus_width = m.bus_width
      /\ mmc'.capacity = m.capacity
  BY <1>1 DEF MmcType
<1>3. bus'.path = Clean /\ bus'.card = b.card
  BY <1>1, IosKeeps, PathIs DEF CleanReady
<1>4. /\ SdCard(bus.card)' <=> SdCard(bus.card)
      /\ bus'.card.std = bus.card.std /\ bus'.card.hc = bus.card.hc /\ Size' = Size
  BY <1>3, FitsStays DEF CleanReady
<1>5. PathClean'
  BY <1>2, <1>3 DEF PathClean, SameWidth
<1>6. VersionFits'
  BY <1>2, <1>4 DEF CleanReady, VersionFits
<1>7. VersionClean'
  BY <1>1, <1>6 DEF VersionClean
<1>8. CardClean' /\ WidthClean'
  BY <1>1 DEF CardClean, WidthClean
<1>9. SizeClean'
  BY <1>1, <1>2, <1>4 DEF SizeClean, CleanReady
<1>. QED  BY <1>5, <1>7, <1>8, <1>9 DEF AllClean

LEMMA FreqDoneClean ==
  ASSUME BaseInv, Supported, NEW m \in MmcType, NEW b, BusInv(b), CleanReady(m, b),
         m.bus_width = 1, b.card.width = 1, bus.card.std = "MMC_4" => loc.ext_csd, FreqDone(m, b)
  PROVE  AllClean'
<1> DEFINE r == [m EXCEPT !.card_caps = @ \cap host.caps]
           widths == (IF "4BIT" \in host.caps THEN 1 ELSE 0) + (IF "8BIT" \in host.caps THEN 2 ELSE 0)
<1>1. /\ r \in MmcType /\ r.version = m.version /\ r.bus_width = m.bus_width
      /\ r.capacity = m.capacity /\ r.has_init = m.has_init
  BY DEF MmcType
<1>2. CleanReady(r, b)
  BY <1>1 DEF CleanReady
<1>3. IsSd(m.version) <=> SdCard(bus.card)
  BY StdIs DEF CleanReady, IsSd, SdVersions
<1>4. CASE IsSd(m.version) /\ "4BIT" \notin r.card_caps
  <2>1. StartupEnds(r, b)
    BY <1>4 DEF FreqDone
  <2>. QED  BY <1>1, <1>2, <2>1, EndsClean
<1>5. CASE IsSd(m.version) /\ "4BIT" \in r.card_caps
  <2>1. mmc' = r /\ bus' = b /\ pc' = "width_app" /\ cond' = cond
    BY <1>5 DEF FreqDone, Goto
  <2>2. CardClean' /\ WidthClean'
    BY <2>1 DEF CardClean, WidthClean
  <2>. QED  BY <1>2, <2>1, <2>2, ReadyClean
<1>6. CASE ~IsSd(m.version)
  <2>1. /\ mmc' = r /\ bus' = b /\ pc' = "width_switch" /\ cond' = cond
        /\ loc' = [loc EXCEPT !.width = widths]
    BY <1>6 DEF FreqDone, Goto
  <2>2. widths <= 2
    BY <1>3, <1>6 DEF Supported, NarrowHost
  <2>3. loc'.width = widths /\ loc'.ext_csd = loc.ext_csd
    BY <2>1 DEF BaseInv, TypeInv, LocType
  <2>4. bus'.card.std = bus.card.std
    BY <2>1, FitsStays DEF CleanReady
  <2>5. CardClean' /\ WidthClean'
    BY <1>1, <2>1, <2>2, <2>3, <2>4 DEF CardClean, WidthClean
  <2>. QED  BY <1>2, <2>1, <2>5, ReadyClean
<1>. QED  BY <1>4, <1>5, <1>6

LEMMA NextWidthClean ==
  ASSUME BaseInv, AllClean, InWidth, NEW b, BusInv(b), CleanReady(mmc, b), mmc.bus_width = 1,
         loc.width = 0 => b.card.width = 1,
         bus.card.std = "MMC_3" => b.card.width = 1, NextWidth(b)
  PROVE  AllClean'
<1>1. CASE loc.width = 0
  <2>1. StartupEnds(mmc, b) /\ mmc \in MmcType
    BY <1>1 DEF NextWidth, BaseInv, TypeInv
  <2>. QED  BY <1>1, <2>1, EndsClean
<1>2. CASE loc.width # 0
  <2>1. /\ bus' = b /\ loc' = [loc EXCEPT !.width = @ - 1] /\ pc' = "width_switch" /\ mmc' = mmc
        /\ cond' = cond
    BY <1>2 DEF NextWidth, Goto
  <2>2. loc'.width = loc.width - 1 /\ loc'.ext_csd = loc.ext_csd /\ loc.width \in 0 .. 3
    BY <2>1 DEF BaseInv, TypeInv, LocType
  <2>3. bus'.card.std = bus.card.std
    BY <2>1, FitsStays DEF CleanReady
  <2>4. bus.card.std \in {"MMC_3", "MMC_4"}
    <3>1. ~IsSd(mmc.version)
      BY DEF BaseInv, PlaceInv
    <3>. QED  BY <3>1, StdIs DEF CleanReady
  <2>5. loc.width <= 2 /\ (bus.card.std = "MMC_4" => loc.ext_csd)
    BY DEF AllClean, WidthClean
  <2>6. CardClean' /\ WidthClean'
    BY <2>1, <2>2, <2>3, <2>4, <2>5 DEF CardClean, WidthClean
  <2>. QED  BY <2>1, <2>6, ReadyClean
<1>. QED  BY <1>1, <1>2

LEMMA WidthSwitchedClean ==
  ASSUME BaseInv, AllClean, pc = "status" /\ loc.after = "width", NEW b, BusInv(b),
         CleanReady(mmc, b), b.card.width = bus.card.width, NEW r, WidthSwitched(r, b)
  PROVE  AllClean'
<1>1. /\ loc.width \in 0 .. 2 /\ mmc.bus_width = 1 /\ bus.card.width = Lines(loc.width)
      /\ bus.card.std = "MMC_4" /\ loc.ext_csd
  BY DEF AllClean, WidthClean, BaseInv, TypeInv, LocType
<1>2. /\ loc.width = 0 => bus.card.width = 1
      /\ loc.width \in {1, 2} => bus.card.width = 4 * loc.width
  BY <1>1 DEF Lines
<1>3. CASE r # "ok"
  <2>1. NextWidth(b)
    BY <1>3 DEF WidthSwitched
  <2>. QED  BY <1>1, <1>2, <2>1, NextWidthClean
<1>4. CASE r = "ok" /\ loc.width = 0
  <2> DEFINE m == [mmc EXCEPT !.bus_width = 1]
  <2>1. StartupEnds(m, b)
    BY <1>4 DEF WidthSwitched
  <2>2. m = mmc
    BY <1>1 DEF BaseInv, TypeInv, MmcType
  <2>3. mmc \in MmcType
    BY DEF BaseInv, TypeInv
  <2>. QED  BY <1>1, <1>2, <1>4, <2>1, <2>2, <2>3, EndsClean
<1>5. CASE r = "ok" /\ loc.width # 0
  <2>1. /\ mmc' = [mmc EXCEPT !.bus_width = 4 * loc.width] /\ bus' \in mmc_set_ios(b)
        /\ pc' = "width_check" /\ loc' = loc /\ cond' = cond
    BY <1>5 DEF WidthSwitched, Goto
  <2>2. /\ mmc'.bus_width = 4 * loc.width /\ mmc'.version = mmc.version
        /\ mmc'.has_init = mmc.has_init /\ mmc'.capacity = mmc.capacity
    BY <2>1 DEF BaseInv, TypeInv, MmcType
  <2>3. bus'.card = b.card /\ bus'.path = Clean
    BY <2>1, IosKeeps, PathIs DEF CleanReady
  <2>4. CleanReady(mmc', bus')
    BY <2>2, <2>3 DEF CleanReady
  <2>5. SameWidth'
    BY <1>1, <1>2, <1>5, <2>2, <2>3 DEF SameWidth
  <2>6. bus'.card.std = bus.card.std
    BY <2>4, FitsStays DEF CleanReady
  <2>7. CardClean' /\ WidthClean'
    BY <1>1, <2>1, <2>6 DEF CardClean, WidthClean
  <2>. QED  BY <2>1, <2>4, <2>5, <2>7, ReadyClean
<1>. QED  BY <1>3, <1>4, <1>5

LEMMA HsSwitchedClean ==
  ASSUME BaseInv, AllClean, InHs, pc # "ext_csd", NEW b, CleanReady(mmc, b), NEW r, HsSwitched(r, b)
  PROVE  AllClean'
<1>1. bus' = b
  BY DEF HsSwitched
<1>2. CASE r # "ok"
  BY <1>1, <1>2, FailsClean DEF HsSwitched, CleanReady
<1>3. CASE r = "ok"
  <2>1. pc' = "hs_check" /\ mmc' = mmc /\ loc' = loc /\ cond' = cond
    BY <1>3 DEF HsSwitched, Goto
  <2>2. bus'.card.std = bus.card.std
    BY <1>1, FitsStays DEF CleanReady
  <2>3. CardClean' /\ WidthClean'
    BY <2>1, <2>2 DEF CardClean, WidthClean, AllClean
  <2>. QED  BY <1>1, <2>1, <2>3, ReadyClean
<1>. QED  BY <1>2, <1>3

-----------------------------------------------------------------------------
(* The steps of mmc_startup, when nothing is lost.                         *)

\* mmc_startup goes on to address the card
LEMMA AddressedClean ==
  ASSUME Kind(bus'.card) = Kind(bus.card), bus'.path = Clean, ~mmc'.has_init, Fits(mmc'.version),
         \/ pc' = "relative_addr"
         \/ pc' = "csd"
         \/ pc' = "status" /\ loc'.after = "csd" /\ (cond' = "ok" => loc'.err = "ok"),
         SdCard(bus.card) \/ mmc'.version # "none"
  PROVE  AllClean'
<1>1. PathClean'
  BY DEF PathClean
<1>2. VersionClean'
  <2>1. /\ mmc'.version = "none" \/
             IF SdCard(bus.card)' THEN IsSd(mmc'.version) ELSE mmc'.version \in {"MMC_UNKNOWN", bus'.card.std}
        /\ SdCard(bus.card)' <=> SdCard(bus.card)
    BY FitsStays
  <2>. QED  BY <2>1 DEF VersionClean, VersionFits, IsSd
<1>3. CardClean' /\ WidthClean' /\ SizeClean'
  BY DEF CardClean, WidthClean, SizeClean
<1>. QED  BY <1>1, <1>2, <1>3 DEF AllClean

LEMMA AllSendCidClean ==
  ASSUME BaseInv, AllClean, NoLoss, all_send_cid
  PROVE  AllClean' /\ (cond = "ok" => pc' # "client")
<1> DEFINE m == Plain(ALL_SEND_CID, 0)
<1>1. PICK x \in mmc_send_cmd(m) :
       /\ bus' = x.bus
       /\ IF x.err # "ok" THEN StartupFails(x.err)
          ELSE Goto("relative_addr") /\ UNCHANGED <<mmc, loc, cond>>
  BY DEF all_send_cid
<1>2. pc = "all_send_cid"
  BY DEF all_send_cid
<1>3. Obeyed(m, x)
  BY <1>1, NamesAre, QuietPlain DEF NoLoss
<1>4. m.idx = ALL_SEND_CID
  BY PlainIs
<1>. HIDE DEF m
<1>5. ~mmc.has_init
  BY <1>2 DEF BaseInv, PlaceInv
<1>6. Kind(bus'.card) = Kind(bus.card) /\ bus'.path = Clean /\ Fits(mmc.version)
  BY <1>1, <1>3, <1>5, CleanIs DEF Obeyed
<1>7. x.err = "ok" <=> bus.card.state = "ready"
  BY <1>3, <1>4, CidDoes DEF Obeyed
<1>8. x.err = "ok" => SdCard(bus.card) \/ mmc.version # "none"
  BY <1>2, <1>7 DEF AllClean, VersionClean
<1>9. cond = "ok" => x.err = "ok"
  BY <1>2, <1>7 DEF BaseInv, AgreeInv
<1>10. CASE x.err # "ok"
  BY <1>1, <1>6, <1>9, <1>10, FailsClean
<1>11. CASE x.err = "ok"
  <2>1. pc' = "relative_addr" /\ mmc' = mmc
    BY <1>1, <1>11 DEF Goto
  <2>. QED  BY <1>5, <1>6, <1>8, <1>11, <2>1, AddressedClean
<1>. QED  BY <1>10, <1>11

LEMMA RelativeAddrClean ==
  ASSUME BaseInv, AllClean, NoLoss, send_relative_addr
  PROVE  AllClean' /\ pc' # "client"
<1> DEFINE m == Plain(SEND_RELATIVE_ADDR, mmc.rca)
<1>1. PICK x \in mmc_send_cmd(m) :
       /\ bus' = x.bus
       /\ IF x.err # "ok" THEN StartupFails(x.err)
          ELSE /\ mmc' = IF IsSd(mmc.version) THEN [mmc EXCEPT !.rca = x.bus.card.rca] ELSE mmc
               /\ Goto("csd")
               /\ UNCHANGED <<loc, cond>>
  BY DEF send_relative_addr
<1>2. pc = "relative_addr" /\ mmc.rca \in 0 .. 2
  BY DEF send_relative_addr, BaseInv, TypeInv, MmcType
<1>3. Obeyed(m, x)
  BY <1>1, <1>2, NamesAre, QuietPlain DEF NoLoss
<1>4. m.idx = SEND_RELATIVE_ADDR
  BY PlainIs
<1>. HIDE DEF m
<1>5. ~mmc.has_init /\ bus.card.state = "ident" /\ (SdCard(bus.card) \/ mmc.version # "none")
  BY <1>2 DEF BaseInv, PlaceInv, AllClean, VersionClean
<1>6. Kind(bus'.card) = Kind(bus.card) /\ bus'.path = Clean /\ Fits(mmc.version)
  BY <1>1, <1>3, <1>5, CleanIs DEF Obeyed
<1>7. x.err = "ok"
  BY <1>3, <1>4, <1>5, AddressDoes DEF Obeyed
<1>8. pc' = "csd" /\ mmc' = IF IsSd(mmc.version) THEN [mmc EXCEPT !.rca = x.bus.card.rca] ELSE mmc
  BY <1>1, <1>7 DEF Goto
<1>9. ~mmc'.has_init /\ mmc'.version = mmc.version
  <2>1. ASSUME NEW rca
        PROVE  /\ [mmc EXCEPT !.rca = rca].has_init = mmc.has_init
               /\ [mmc EXCEPT !.rca = rca].version = mmc.version
    BY DEF BaseInv, TypeInv, MmcType
  <2>. QED  BY <1>5, <1>8, <2>1
<1>. QED  BY <1>5, <1>6, <1>8, <1>9, AddressedClean

LEMMA SendCsdClean ==
  ASSUME BaseInv, AllClean, NoLoss, send_csd
  PROVE  AllClean'
<1> DEFINE m == Plain(SEND_CSD, mmc.rca)
<1>1. PICK x \in mmc_send_cmd(m) :
       /\ bus' = x.bus
       /\ loc' = [loc EXCEPT !.err = x.err, !.after = "csd",
                             !.timeout = StatusTries, !.retries = StatusRetries]
  BY DEF send_csd
<1>2. pc = "csd" /\ pc' = "status" /\ mmc' = mmc /\ cond' = cond
  BY DEF send_csd, Goto
<1>3. Obeyed(m, x)
  BY <1>1, NamesAre, QuietPlain DEF NoLoss
<1>4. m.idx = SEND_CSD /\ m.arg = mmc.rca
  BY PlainIs
<1>. HIDE DEF m
<1>5. ~mmc.has_init /\ bus.card.state = "stby" /\ (SdCard(bus.card) \/ mmc.version # "none")
  BY <1>2 DEF BaseInv, PlaceInv, AllClean, VersionClean
<1>6. Kind(bus'.card) = Kind(bus.card) /\ bus'.path = Clean /\ Fits(mmc.version)
  BY <1>1, <1>3, <1>5, CleanIs DEF Obeyed
<1>7. cond = "ok" => x.err = "ok"
  <2>1. cond = "ok" => mmc.rca = bus.card.rca
    BY <1>2 DEF BaseInv, AgreeInv
  <2>. QED  BY <1>3, <1>4, <1>5, <2>1, OthersDo DEF Obeyed
<1>8. loc'.err = x.err /\ loc'.after = "csd"
  BY <1>1 DEF BaseInv, TypeInv, LocType
<1>. QED  BY <1>2, <1>5, <1>6, <1>7, <1>8, AddressedClean

\* A card before version 4 is not of high capacity
LEMMA OldCards ==
  ASSUME BaseInv, bus.card.std \notin {"SD_2", "MMC_4"}
  PROVE  ~bus.card.hc
<1>1. PICK k \in Cards : Kind(bus.card) = Kind(k)
  BY DEF BaseInv, TypeInv, BusInv, CardInv
<1>2. bus.card.hc = k.hc /\ bus.card.std = k.std
  BY <1>1, SameCard
<1>. QED  BY <1>2, CardAssumption

LEMMA TakeCsdClean ==
  ASSUME BaseInv, AllClean, pc = "status" /\ loc.after = "csd", TakeCsd,
         Kind(bus'.card) = Kind(bus.card), bus'.path = Clean
  PROVE  AllClean' /\ (cond = "ok" => pc' # "client")
<1>1. CASE loc.err # "ok"
  <2>1. StartupFails(loc.err)
    BY <1>1 DEF TakeCsd
  <2>2. cond # "ok"
    BY <1>1 DEF AllClean, SizeClean
  <2>. QED  BY <2>1, <2>2, FailsClean
<1>2. CASE loc.err = "ok"
  <2>1. PICK cap \in Capacities : mmc' = [mmc EXCEPT !.version = VersionOfCsd, !.capacity = cap]
    BY <1>2 DEF TakeCsd
  <2>2. pc' = "select" /\ cond' = cond
    BY <1>2 DEF TakeCsd, Goto
  <2>3. mmc'.version = VersionOfCsd /\ mmc'.capacity = cap /\ mmc'.has_init = mmc.has_init
    BY <2>1 DEF BaseInv, TypeInv, MmcType
  <2>4. ~mmc.has_init
    BY DEF BaseInv, PlaceInv
  <2>5. /\ SdCard(bus.card)' <=> SdCard(bus.card)
        /\ bus'.card.std = bus.card.std /\ bus'.card.hc = bus.card.hc /\ Size' = Size
    BY FitsStays
  <2>6. /\ mmc.version = "none" \/ VersionFits
        /\ SdCard(bus.card) \/ mmc.version # "none"
    BY DEF AllClean, VersionClean
  <2>7. /\ mmc'.version = "none" \/ VersionFits'
        /\ SdCard(bus.card) \/ mmc'.version # "none"
        /\ mmc'.version # "MMC_UNKNOWN"
    BY <2>3, <2>5, <2>6, StdIs DEF VersionFits, VersionOfCsd, IsSd, SdVersions
  <2>8. cond = "ok" /\ (SdCard(bus.card) \/ ~bus.card.hc) => cap = Size
    <3>1. cond = "ok" => mmc.high_capacity = bus.card.hc
      BY DEF BaseInv, AgreeInv
    <3>. QED  BY <2>1, <3>1 DEF Capacities
  <2>9. PathClean'
    BY <2>2, <2>3, <2>4 DEF PathClean
  <2>10. VersionClean'
    BY <2>2, <2>5, <2>7 DEF VersionClean
  <2>11. CardClean' /\ WidthClean'
    BY <2>2 DEF CardClean, WidthClean
  <2>12. SizeClean'
    BY <2>2, <2>3, <2>4, <2>5, <2>8 DEF SizeClean
  <2>. QED  BY <2>2, <2>9, <2>10, <2>11, <2>12 DEF AllClean
<1>. QED  BY <1>1, <1>2

LEMMA ReadyFrom ==
  ASSUME CleanReady(mmc, bus), NEW b, b.path = Clean, Kind(b.card) = Kind(bus.card)
  PROVE  CleanReady(mmc, b)
BY DEF CleanReady

LEMMA StatusClean ==
  ASSUME BaseInv, AllClean, NoLoss, mmc_send_status
  PROVE  AllClean' /\ (SdCard(bus.card) /\ cond = "ok" => pc' # "client")
<1> DEFINE m == Plain(SEND_STATUS, mmc.rca)
<1>1. PICK x \in mmc_send_cmd(m) :
        \/ \E r : StatusReturns(r, x.bus)
        \/ /\ bus' = x.bus /\ pc' = "status" /\ mmc' = mmc /\ cond' = cond
           /\ loc' = [loc EXCEPT !.timeout = @ - 1,
                                 !.retries = IF x.err = "ok" THEN @ ELSE @ - 1]
  BY DEF mmc_send_status, Goto
<1>2. pc = "status"
  BY DEF mmc_send_status
<1>3. m.idx = SEND_STATUS /\ CommandDid(m, x)
  BY <1>1, NamesAre, PlainIs, PlainDid
<1>4. From(x.bus)
  BY <1>1, WaysOut DEF From
<1>5. x.bus.faults = MaxFaults
  BY <1>3, <1>4, FromFaults DEF CommandDid, NoLoss
<1>6. Obeyed(m, x)
  BY <1>1, <1>5, NamesAre, QuietPlain DEF NoLoss
<1>. HIDE DEF m
<1>7. /\ Kind(x.bus.card) = Kind(bus.card) /\ x.bus.card.state = bus.card.state
      /\ x.bus.card.rca = bus.card.rca /\ x.bus.card.width = bus.card.width
      /\ BusInv(x.bus)
  <2>1. SEND_STATUS # SWITCH
    BY DEF SEND_STATUS, SWITCH
  <2>. QED  BY <1>3, <2>1, Stays
<1>8. loc.after \in {"csd", "hs", "width"}
  BY DEF BaseInv, TypeInv, LocType
<1>9. ~mmc.has_init
  BY <1>2, <1>8 DEF BaseInv, PlaceInv
<1>10. x.bus.path = Clean
  BY <1>6, <1>9, CleanIs DEF Obeyed
<1>11. CASE /\ bus' = x.bus /\ pc' = "status" /\ mmc' = mmc /\ cond' = cond
            /\ loc' = [loc EXCEPT !.timeout = @ - 1,
                                  !.retries = IF x.err = "ok" THEN @ ELSE @ - 1]
  <2>1. /\ loc'.after = loc.after /\ loc'.err = loc.err /\ loc'.width = loc.width
        /\ loc'.ext_csd = loc.ext_csd
    BY <1>11 DEF BaseInv, TypeInv, LocType
  <2>2. /\ SdCard(bus.card)' <=> SdCard(bus.card)
        /\ bus'.card.std = bus.card.std /\ bus'.card.hc = bus.card.hc /\ Size' = Size
    BY <1>7, <1>11, FitsStays
  <2>3. PathClean'
    BY <1>9, <1>10, <1>11 DEF PathClean
  <2>4. VersionClean'
    BY <1>2, <1>11, <2>1, <2>2 DEF AllClean, VersionClean, VersionFits
  <2>5. CardClean'
    BY <1>11 DEF CardClean
  <2>6. WidthClean'
    BY <1>2, <1>7, <1>11, <2>1, <2>2, Zenon DEF AllClean, WidthClean, Lines
  <2>7. SizeClean'
    BY <1>2, <1>9, <1>11, <2>1, <2>2 DEF AllClean, SizeClean
  <2>. QED  BY <1>11, <2>3, <2>4, <2>5, <2>6, <2>7 DEF AllClean
<1>12. CASE \E r : StatusReturns(r, x.bus)
  <2>1. PICK r : StatusReturns(r, x.bus)
    BY <1>12
  <2>2. CASE loc.after = "csd"
    <3>1. TakeCsd /\ bus' = x.bus
      BY <2>1, <2>2 DEF StatusReturns
    <3>. QED  BY <1>2, <1>7, <1>10, <2>2, <3>1, TakeCsdClean
  <2>3. CASE loc.after \in {"hs", "width"}
    <3>1. CleanReady(mmc, x.bus)
      BY <1>2, <1>7, <1>10, <2>3, ReadyIsClean, ReadyFrom
    <3>2. cond = "ok" => ~SdCard(bus.card)
      <4>1. ~IsSd(mmc.version) /\ InStartup
        BY <1>2, <2>3 DEF BaseInv, PlaceInv
      <4>. QED  BY <4>1 DEF BaseInv, AgreeInv
    <3>3. CASE loc.after = "hs"
      <4>1. HsSwitched(r, x.bus)
        BY <2>1, <3>3 DEF StatusReturns, SwitchReturns
      <4>. QED  BY <1>2, <3>1, <3>2, <3>3, <4>1, HsSwitchedClean
    <3>4. CASE loc.after = "width"
      <4>1. WidthSwitched(r, x.bus)
        BY <2>1, <3>4 DEF StatusReturns, SwitchReturns
      <4>. QED  BY <1>2, <1>7, <3>1, <3>2, <3>4, <4>1, WidthSwitchedClean
    <3>. QED  BY <2>3, <3>3, <3>4
  <2>. QED  BY <1>8, <2>2, <2>3
<1>. QED  BY <1>1, <1>11, <1>12

LEMMA SelectClean ==
  ASSUME BaseInv, Supported, AllClean, NoLoss, select_card
  PROVE  AllClean' /\ (SdCard(bus.card) /\ cond = "ok" => pc' # "client")
<1> DEFINE m == Plain(SELECT_CARD, mmc.rca)
<1>1. PICK x \in mmc_send_cmd(m) :
       IF x.err # "ok" THEN StartupFails(x.err) /\ bus' = x.bus
       ELSE IF mmc.version = "MMC_4"
         THEN Goto("ext_csd") /\ bus' = x.bus /\ UNCHANGED <<mmc, loc, cond>>
         ELSE ChangeFreq(x.bus)
  BY DEF select_card
<1>2. pc = "select"
  BY DEF select_card
<1>3. From(x.bus) /\ CommandDid(m, x)
  BY <1>1, NamesAre, PlainDid, WaysOut DEF From
<1>4. x.bus.faults = MaxFaults
  BY <1>3, FromFaults DEF CommandDid, NoLoss
<1>5. Obeyed(m, x)
  BY <1>4, NamesAre, QuietPlain DEF NoLoss
<1>6. m.idx = SELECT_CARD /\ m.arg = mmc.rca
  BY PlainIs
<1>. HIDE DEF m
<1>7. ~mmc.has_init /\ bus.card.state = "stby" /\ mmc.bus_width = 1 /\ CardInv(bus.card)
  BY <1>2 DEF BaseInv, TypeInv, BusInv, PlaceInv
<1>8. Kind(x.bus.card) = Kind(bus.card) /\ x.bus.path = Clean /\ BusInv(x.bus)
  BY <1>5, <1>7, CleanIs DEF Obeyed
<1>9. x.err = "ok" <=> mmc.rca = bus.card.rca
  BY <1>5, <1>6, <1>7, SelectDoes DEF Obeyed
<1>10. cond = "ok" => x.err = "ok"
  BY <1>2, <1>9 DEF BaseInv, AgreeInv
<1>11. CASE x.err # "ok"
  <2>1. StartupFails(x.err) /\ bus' = x.bus
    BY <1>1, <1>11
  <2>. QED  BY <1>8, <1>10, <1>11, <2>1, FailsClean
<1>12. CASE x.err = "ok"
  <2>1. x.bus.card.width = 1
    <3>1. Turned(bus.card, [Answering(bus.card) EXCEPT !.state = "tran"], "tran", bus.card.rca, FALSE,
                 bus.card.width)
      BY <1>7, TurnedForms DEF CardInv
    <3>2. x.bus.card = [Answering(bus.card) EXCEPT !.state = "tran"]
      BY <1>5, <1>6, <1>12, SelectDoes DEF Obeyed
    <3>. QED  BY <1>7, <3>1, <3>2 DEF Turned, CardInv
  <2>2. /\ mmc.version \notin {"none", "MMC_UNKNOWN"}
        /\ IF SdCard(bus.card) THEN IsSd(mmc.version) ELSE mmc.version = bus.card.std
    <3>1. mmc.version # "MMC_UNKNOWN" /\ (mmc.version = "none" \/ VersionFits)
          /\ (SdCard(bus.card) \/ mmc.version # "none")
      BY <1>2 DEF AllClean, VersionClean
    <3>2. mmc.version # "none"
      BY <1>7, <1>9, <1>12, <3>1 DEF BaseInv, PlaceInv, CardInv
    <3>. QED  BY <3>1, <3>2 DEF VersionFits
  <2>3. cond = "ok" /\ (SdCard(bus.card) \/ ~bus.card.hc) => mmc.capacity = Size
    BY <1>2 DEF AllClean, SizeClean
  <2>4. /\ IsSd(mmc.version) <=> SdCard(bus.card)
        /\ mmc.version = "MMC_4" <=> bus.card.std = "MMC_4"
    BY <2>2, StdIs DEF IsSd, SdVersions, SdCard
  <2>5. CASE mmc.version = "MMC_4"
    <3>1. pc' = "ext_csd" /\ bus' = x.bus /\ mmc' = mmc /\ loc' = loc /\ cond' = cond
      BY <1>1, <1>12, <2>5 DEF Goto
    <3>2. /\ SdCard(bus.card)' <=> SdCard(bus.card)
          /\ bus'.card.std = bus.card.std /\ bus'.card.hc = bus.card.hc /\ Size' = Size
      BY <1>8, <3>1, FitsStays
    <3>3. PathClean'
      BY <1>7, <1>8, <3>1 DEF PathClean
    <3>4. VersionClean'
      BY <2>2, <3>1, <3>2 DEF VersionClean, VersionFits
    <3>5. CardClean' /\ WidthClean'
      BY <2>4, <2>5, <3>1, <3>2 DEF CardClean, WidthClean
    <3>6. SizeClean'
      BY <1>7, <2>3, <3>1, <3>2 DEF SizeClean
    <3>. QED  BY <3>1, <3>3, <3>4, <3>5, <3>6 DEF AllClean
  <2>6. CASE mmc.version # "MMC_4"
    <3> DEFINE n == [mmc EXCEPT !.card_caps = {}]
    <3>1. /\ n \in MmcType /\ n.version = mmc.version /\ n.bus_width = mmc.bus_width
          /\ n.capacity = mmc.capacity /\ n.has_init = mmc.has_init
      BY DEF BaseInv, TypeInv, MmcType
    <3>2. cond = "ok" => mmc.capacity = Size
      <4>1. SdCard(bus.card) \/ ~bus.card.hc
        BY <2>4, <2>6, OldCards DEF SdCard, SdVersions
      <4>. QED  BY <2>3, <4>1
    <3>3. CleanReady(n, x.bus)
      BY <1>7, <1>8, <2>2, <3>1, <3>2 DEF CleanReady
    <3>4. ChangeFreq(x.bus)
      BY <1>1, <1>12, <2>6
    <3>5. CASE IsSd(mmc.version)
      <4>1. mmc' = n /\ bus' = x.bus /\ pc' = "scr_app" /\ loc' = loc /\ cond' = cond
        BY <3>4, <3>5 DEF ChangeFreq, Goto
      <4>2. CardClean' /\ WidthClean'
        BY <4>1 DEF CardClean, WidthClean
      <4>. QED  BY <3>3, <4>1, <4>2, ReadyClean
    <3>6. CASE ~IsSd(mmc.version)
      <4>1. FreqDone(n, x.bus)
        BY <3>4, <3>6 DEF ChangeFreq
      <4>2. bus.card.std # "MMC_4" /\ ~SdCard(bus.card)
        BY <2>4, <2>6, <3>6
      <4>. QED  BY <1>7, <1>8, <2>1, <3>1, <3>3, <4>1, <4>2, FreqDoneClean
    <3>. QED  BY <3>5, <3>6
  <2>. QED  BY <2>5, <2>6
<1>. QED  BY <1>11, <1>12

\* The data commands of mmc_startup succeed where the card takes them
LEMMA HsRead ==
  ASSUME BaseInv, AllClean, NoLoss, InHs \/ pc = "width_check",
         bus.card.std = "MMC_4",
         NEW dst \in {"ext_csd", "cardtype", "test_csd"}, NEW x \in mmc_send_cmd(ExtCsd(dst)),
         From(x.bus)
  PROVE  /\ x.err = "ok" /\ x.good /\ x.bus.path = Clean
         /\ BusInv(x.bus) /\ Kind(x.bus.card) = Kind(bus.card)
         /\ x.bus.card.state = bus.card.state /\ x.bus.card.rca = bus.card.rca
         /\ x.bus.card.width = bus.card.width
<1> DEFINE m == Read(SEND_IF_COND, 0, 1, dst, 0)
<1>1. x \in mmc_send_cmd(m) /\ m.idx = SEND_IF_COND
  BY DEF ExtCsd, Read
<1>2. SEND_IF_COND # SWITCH /\ Selected
  BY DEF SEND_IF_COND, SWITCH
<1>3. BusInv(x.bus)
  BY <1>1, <1>2, SelectedRead
<1>4. x.bus.faults = MaxFaults
  BY <1>3, FromFaults DEF NoLoss
<1>5. ~mmc.has_init /\ bus.card.state = "tran" /\ SameWidth
  BY DEF BaseInv, PlaceInv, AllClean, PathClean, SameWidth
<1>6. bus.path = Clean
  BY <1>5, CleanIs
<1>7. Legal(bus.card, m)
  <2>. HIDE DEF m
  <2>. QED  BY <1>1, <1>5, IfCondDoes
<1>. QED  BY <1>1, <1>2, <1>4, <1>5, <1>6, <1>7, QuietSmall DEF NoLoss

LEMMA ExtCsdClean ==
  ASSUME BaseInv, Supported, AllClean, NoLoss, startup_ext_csd
  PROVE  AllClean' /\ pc' # "client"
<1>1. PICK x \in mmc_send_cmd(ExtCsd("ext_csd")) :
       /\ bus' = x.bus
       /\ loc' = [loc EXCEPT !.ext_csd = (x.err = "ok" /\ x.good)]
       /\ \E cap \in ExtCsdCapacities(x) :
            mmc' = [mmc EXCEPT !.capacity = cap, !.card_caps = {}]
  BY DEF startup_ext_csd
<1>2. pc = "ext_csd" /\ pc' = "hs_ext_csd" /\ cond' = cond
  BY DEF startup_ext_csd, Goto
<1>3. bus.card.std = "MMC_4" /\ ~SdCard(bus.card)
  BY <1>2 DEF AllClean, WidthClean, SdCard, SdVersions
<1>4. x.err = "ok" /\ x.good /\ x.bus.path = Clean /\ Kind(x.bus.card) = Kind(bus.card)
  BY <1>1, <1>2, <1>3, HsRead DEF From
<1>5. mmc' = [mmc EXCEPT !.capacity = IF bus.card.hc /\ 2 * Size > W THEN Size ELSE mmc.capacity,
                         !.card_caps = {}]
  BY <1>1, <1>4 DEF ExtCsdCapacities
<1>6. /\ mmc'.version = mmc.version /\ mmc'.has_init = mmc.has_init
      /\ mmc'.capacity = IF bus.card.hc /\ 2 * Size > W THEN Size ELSE mmc.capacity
  BY <1>5 DEF BaseInv, TypeInv, MmcType
<1>7. cond = "ok" => mmc'.capacity = Size
  <2>1. cond = "ok" /\ ~bus.card.hc => mmc.capacity = Size
    BY <1>2 DEF AllClean, SizeClean
  <2>2. bus.card.hc => 2 * Size > W
    BY <1>3 DEF Supported
  <2>. QED  BY <1>6, <2>1, <2>2
<1>8. ~mmc.has_init /\ VersionFits /\ mmc.version \notin {"none", "MMC_UNKNOWN"}
  BY <1>2 DEF BaseInv, PlaceInv, AllClean, VersionClean
<1>9. CleanReady(mmc', bus')
  BY <1>1, <1>3, <1>4, <1>6, <1>7, <1>8 DEF CleanReady, VersionFits
<1>10. loc'.ext_csd /\ bus'.card.std = "MMC_4"
  BY <1>1, <1>3, <1>4, FitsStays DEF BaseInv, TypeInv, LocType
<1>11. CardClean' /\ WidthClean'
  BY <1>2, <1>10 DEF CardClean, WidthClean
<1>. QED  BY <1>2, <1>9, <1>11, ReadyClean

LEMMA ScrAppClean ==
  ASSUME BaseInv, AllClean, NoLoss, sd_change_freq_app \/ startup_app_cmd
  PROVE  AllClean' /\ (SdCard(bus.card) => pc' # "client")
<1> DEFINE m == Plain(APP_CMD, mmc.rca)
<1>1. PICK x \in mmc_send_cmd(m) :
       /\ bus' = x.bus
       /\ IF x.err # "ok" THEN StartupFails(x.err)
          ELSE pc' \in {"scr", "bus_width"} /\ mmc' = mmc /\ cond' = cond
  BY DEF sd_change_freq_app, startup_app_cmd, Goto
<1>2. pc \in {"scr_app", "width_app"}
  BY DEF sd_change_freq_app, startup_app_cmd
<1>3. Obeyed(m, x)
  BY <1>1, NamesAre, QuietPlain DEF NoLoss
<1>4. m.idx = APP_CMD /\ m.arg = mmc.rca
  BY PlainIs
<1>. HIDE DEF m
<1>5. bus.card.state = "tran" /\ mmc.rca = bus.card.rca /\ CleanReady(mmc, bus) /\ bus.card \in CardType
  BY <1>2, ReadyIsClean DEF BaseInv, TypeInv, BusInv, CardInv, PlaceInv
<1>6. SdCard(bus.card)
  <2>1. IsSd(mmc.version)
    BY <1>2 DEF BaseInv, PlaceInv
  <2>. QED  BY <1>5, <2>1, StdIs DEF CleanReady, IsSd, SdVersions
<1>7. x.err = "ok" /\ bus'.card = [bus.card EXCEPT !.app = TRUE]
  <2>1. Legal(bus.card, m) /\ Effects(bus.card, m) = {[bus.card EXCEPT !.app = TRUE]}
    BY <1>4, <1>5, <1>6, AppCmdDoes
  <2>. QED  BY <1>1, <1>3, <2>1 DEF Obeyed
<1>8. bus'.card.app /\ Kind(bus'.card) = Kind(bus.card) /\ bus'.path = Clean
  BY <1>1, <1>3, <1>5, <1>7 DEF Obeyed, CleanReady, CardType, CardRecords
<1>9. pc' \in {"scr", "bus_width"} /\ mmc' = mmc /\ cond' = cond
  BY <1>1, <1>7
<1>10. CleanReady(mmc', bus')
  BY <1>5, <1>8, <1>9 DEF CleanReady
<1>11. CardClean' /\ WidthClean'
  BY <1>8, <1>9 DEF CardClean, WidthClean
<1>. QED  BY <1>9, <1>10, <1>11, ReadyClean

\* Where an SD card is asked for data
LEMMA SdRead ==
  ASSUME BaseInv, AllClean, NoLoss,
         NEW i \in {SWITCH, APP_SEND_SCR}, NEW a,
         \/ pc = "scr" /\ i = APP_SEND_SCR
         \/ pc \in {"switch_check", "switch_set"} /\ i = SWITCH,
         i = SWITCH => a \notin {1, 4, 8},
         NEW dst \in {"scr", "switch_status"}, NEW x \in mmc_send_cmd(Read(i, a, 1, dst, 0)),
         From(x.bus)
  PROVE  /\ x.err = "ok" /\ x.good /\ x.bus.path = Clean
         /\ BusInv(x.bus) /\ Kind(x.bus.card) = Kind(bus.card)
         /\ x.bus.card.width = 1 /\ mmc.bus_width = 1
         /\ CleanReady(mmc, bus) /\ CleanReady(mmc, x.bus) /\ SdCard(bus.card)
<1> DEFINE m == Read(i, a, 1, dst, 0)
<1>1. m.idx = i
  BY DEF Read
<1>2. Selected /\ dst \in {"scr", "switch_status", "ext_csd", "cardtype", "test_csd"}
      /\ i \in {SEND_IF_COND, SWITCH, APP_SEND_SCR}
  OBVIOUS
<1>3. BusInv(x.bus)
  BY <1>2, SelectedRead
<1>4. x.bus.faults = MaxFaults
  BY <1>3, FromFaults DEF NoLoss
<1>5. /\ ~mmc.has_init /\ bus.card.state = "tran" /\ SameWidth
      /\ mmc.bus_width = 1 /\ bus.card.width = 1 /\ IsSd(mmc.version)
  BY DEF BaseInv, PlaceInv, SameWidth
<1>6. CleanReady(mmc, bus) /\ bus.path = Clean
  BY ReadyIsClean DEF CleanReady
<1>7. SdCard(bus.card)
  BY <1>5, <1>6, StdIs DEF CleanReady, IsSd, SdVersions
<1>8. Legal(bus.card, m)
  <2>1. pc = "scr" => bus.card.app
    BY DEF AllClean, CardClean
  <2>2. pc \in {"switch_check", "switch_set"} => bus.card.std \in {"SD_1_10", "SD_2"}
    BY DEF AllClean, CardClean
  <2>. HIDE DEF m
  <2>3. CASE pc = "scr" /\ i = APP_SEND_SCR
    BY <1>1, <1>5, <2>1, <2>3, OthersDo
  <2>4. CASE pc \in {"switch_check", "switch_set"} /\ i = SWITCH
    BY <1>1, <1>5, <2>2, <2>4, SwitchDoes
  <2>. QED  BY <2>3, <2>4
<1>9. /\ x.err = "ok" /\ x.good /\ x.bus.path = Clean
      /\ Kind(x.bus.card) = Kind(bus.card) /\ x.bus.card.width = bus.card.width
  BY <1>2, <1>4, <1>5, <1>6, <1>8, QuietSmall DEF NoLoss
<1>. QED  BY <1>3, <1>5, <1>6, <1>7, <1>9 DEF CleanReady

LEMMA MmcTypeIs ==
  ASSUME BaseInv
  PROVE  mmc \in MmcType
BY DEF BaseInv, TypeInv

LEMMA ScrClean ==
  ASSUME BaseInv, Supported, AllClean, NoLoss, sd_change_freq_scr
  PROVE  AllClean' /\ (pc' = "client" => ret' = "ok")
<1>1. PICK x \in mmc_send_cmd(ScrCommand) :
       CASE x.err # "ok" /\ loc.timeout > 0 ->
              /\ bus' = x.bus
              /\ loc' = [loc EXCEPT !.timeout = @ - 1]
              /\ Goto("scr")
              /\ UNCHANGED <<mmc, cond>>
         [] x.err # "ok" /\ loc.timeout = 0 -> StartupFails(x.err) /\ bus' = x.bus
         [] OTHER -> \E v \in ScrVersions(x.good), caps \in ScrCaps(x.good) :
              LET m == [mmc EXCEPT !.version = v, !.card_caps = caps] IN
              IF v = "SD_1_0" THEN FreqDone(m, x.bus)
              ELSE /\ mmc' = m /\ bus' = x.bus
                   /\ loc' = [loc EXCEPT !.timeout = SwitchTries]
                   /\ Goto("switch_check")
                   /\ UNCHANGED cond
  BY DEF sd_change_freq_scr
<1>2. pc = "scr"
  BY DEF sd_change_freq_scr
<1>3. From(x.bus)
  <2>1. bus' = x.bus \/ \E m : FreqDone(m, x.bus)
    BY <1>1
  <2>. QED  BY <2>1, WaysOut DEF From
<1>4. /\ x.err = "ok" /\ x.good /\ x.bus.path = Clean
      /\ BusInv(x.bus) /\ Kind(x.bus.card) = Kind(bus.card)
      /\ x.bus.card.width = 1 /\ mmc.bus_width = 1 /\ CleanReady(mmc, x.bus) /\ SdCard(bus.card)
  <2>1. APP_SEND_SCR # SWITCH
    BY DEF APP_SEND_SCR, SWITCH
  <2>2. x \in mmc_send_cmd(Read(APP_SEND_SCR, 0, 1, "scr", 0))
    BY <1>1 DEF ScrCommand
  <2>3. APP_SEND_SCR \in {SWITCH, APP_SEND_SCR} /\ "scr" \in {"scr", "switch_status"}
    OBVIOUS
  <2>. QED  BY <1>2, <1>3, <2>1, <2>2, <2>3, SdRead
<1>5. PICK v \in ScrVersions(x.good), caps \in ScrCaps(x.good) :
        LET m == [mmc EXCEPT !.version = v, !.card_caps = caps] IN
              IF v = "SD_1_0" THEN FreqDone(m, x.bus)
              ELSE /\ mmc' = m /\ bus' = x.bus
                   /\ loc' = [loc EXCEPT !.timeout = SwitchTries]
                   /\ Goto("switch_check")
                   /\ UNCHANGED cond
  BY <1>1, <1>4
<1> DEFINE n == [mmc EXCEPT !.version = v, !.card_caps = caps]
<1>6. v = bus.card.std /\ caps \in SUBSET {"4BIT", "HS", "HS_52MHz"}
  BY <1>4, <1>5 DEF ScrVersions, ScrCaps
<1>7. v \in SdVersions /\ v \in Versions
  BY <1>4, <1>6 DEF SdCard, Versions
<1>8. /\ n \in MmcType /\ n.version = v /\ n.bus_width = 1
      /\ n.capacity = mmc.capacity /\ n.has_init = mmc.has_init
  BY <1>4, <1>6, <1>7 DEF BaseInv, TypeInv, MmcType
<1>9. CleanReady(n, x.bus)
  BY <1>4, <1>7, <1>8 DEF CleanReady, IsSd
<1>10. CASE v = "SD_1_0"
  <2>1. FreqDone(n, x.bus)
    BY <1>5, <1>10
  <2>2. bus.card.std # "MMC_4"
    BY <1>6, <1>7 DEF SdVersions
  <2>3. AllClean'
    BY <1>4, <1>8, <1>9, <2>1, <2>2, FreqDoneClean
  <2>4. pc' = "client" => ret' = "ok"
    <3>. HIDE DEF n
    <3>. QED  BY <2>1 DEF FreqDone, StartupEnds, InitReturns, Goto
  <2>. QED  BY <2>3, <2>4
<1>11. CASE v # "SD_1_0"
  <2>1. mmc' = n /\ bus' = x.bus /\ pc' = "switch_check" /\ cond' = cond
    BY <1>5, <1>11 DEF Goto
  <2>2. bus'.card.std = bus.card.std
    BY <1>4, <2>1, FitsStays
  <2>3. CardClean' /\ WidthClean'
    BY <1>6, <1>7, <1>11, <2>1, <2>2 DEF CardClean, WidthClean, SdVersions
  <2>. QED  BY <1>9, <2>1, <2>3, ReadyClean
<1>. QED  BY <1>10, <1>11

LEMMA SwitchSteps ==
  ASSUME NEW n, NEW b, FreqDone(n, b)
  PROVE  pc' = "client" => ret' = "ok"
BY DEF FreqDone, StartupEnds, InitReturns, Goto

LEMMA SwitchCheckClean ==
  ASSUME BaseInv, Supported, AllClean, NoLoss, sd_change_freq_check
  PROVE  AllClean' /\ (pc' = "client" => ret' = "ok")
<1>1. PICK x \in mmc_send_cmd(SwitchCommand(CheckFunction)) :
        \/ x.err # "ok" /\ bus' = x.bus
        \/ /\ bus' = x.bus /\ mmc' = mmc /\ cond' = cond
           /\ pc' \in {"switch_check", "switch_set"}
        \/ FreqDone(mmc, x.bus)
  BY DEF sd_change_freq_check, Goto
<1>2. pc = "switch_check"
  BY DEF sd_change_freq_check
<1>3. From(x.bus)
  BY <1>1, WaysOut DEF From
<1>4. /\ x.err = "ok" /\ x.good /\ x.bus.path = Clean
      /\ BusInv(x.bus) /\ Kind(x.bus.card) = Kind(bus.card)
      /\ x.bus.card.width = 1 /\ mmc.bus_width = 1 /\ CleanReady(mmc, x.bus) /\ SdCard(bus.card)
  BY <1>1, <1>2, <1>3, SdRead, HsTimingIs DEF SwitchCommand
<1>5. bus.card.std \in {"SD_1_10", "SD_2"}
  BY <1>2 DEF AllClean, CardClean
<1>6. CASE /\ bus' = x.bus /\ mmc' = mmc /\ cond' = cond
           /\ pc' \in {"switch_check", "switch_set"}
  <2>1. bus'.card.std = bus.card.std
    BY <1>4, <1>6, FitsStays
  <2>2. CardClean' /\ WidthClean'
    BY <1>5, <1>6, <2>1 DEF CardClean, WidthClean
  <2>. QED  BY <1>4, <1>6, <2>2, ReadyClean
<1>7. CASE FreqDone(mmc, x.bus)
  <2>1. bus.card.std # "MMC_4"
    BY <1>5
  <2>. QED  BY <1>4, <1>7, <2>1, FreqDoneClean, MmcTypeIs, SwitchSteps
<1>. QED  BY <1>1, <1>4, <1>6, <1>7

LEMMA SwitchSetClean ==
  ASSUME BaseInv, Supported, AllClean, NoLoss, sd_change_freq_switch
  PROVE  AllClean' /\ (pc' = "client" => ret' = "ok")
<1>1. PICK x \in mmc_send_cmd(SwitchCommand(SwitchFunction)) :
        \/ x.err # "ok" /\ bus' = x.bus
        \/ \E hs \in HighSpeeds(x.good) :
            FreqDone([mmc EXCEPT !.card_caps = @ \cup IF hs THEN {"HS"} ELSE {}], x.bus)
  BY DEF sd_change_freq_switch
<1>2. pc = "switch_set"
  BY DEF sd_change_freq_switch
<1>3. From(x.bus)
  BY <1>1, WaysOut DEF From
<1>4. /\ x.err = "ok" /\ x.good /\ x.bus.path = Clean
      /\ BusInv(x.bus) /\ Kind(x.bus.card) = Kind(bus.card)
      /\ x.bus.card.width = 1 /\ mmc.bus_width = 1 /\ CleanReady(mmc, x.bus) /\ SdCard(bus.card)
  BY <1>1, <1>2, <1>3, SdRead, HsTimingIs DEF SwitchCommand
<1>5. PICK hs \in HighSpeeds(x.good) :
        FreqDone([mmc EXCEPT !.card_caps = @ \cup IF hs THEN {"HS"} ELSE {}], x.bus)
  BY <1>1, <1>4
<1> DEFINE n == [mmc EXCEPT !.card_caps = @ \cup IF hs THEN {"HS"} ELSE {}]
<1>6. /\ n \in MmcType /\ n.version = mmc.version /\ n.bus_width = mmc.bus_width
      /\ n.capacity = mmc.capacity /\ n.has_init = mmc.has_init
  BY DEF BaseInv, TypeInv, MmcType
<1>7. FreqDone(n, x.bus)
  BY <1>5
<1>. HIDE DEF n
<1>8. CleanReady(n, x.bus) /\ bus.card.std # "MMC_4"
  BY <1>4, <1>6 DEF CleanReady, SdCard, SdVersions
<1>. QED  BY <1>4, <1>6, <1>7, <1>8, FreqDoneClean, SwitchSteps

LEMMA HsExtCsdClean ==
  ASSUME BaseInv, AllClean, NoLoss, mmc_change_freq_ext_csd
  PROVE  AllClean'
<1>1. PICK x \in mmc_send_cmd(ExtCsd("cardtype")) :
       /\ bus' = x.bus
       /\ IF x.err # "ok" THEN StartupFails(x.err)
          ELSE /\ \E hs52 \in HighSpeeds(x.good) : loc' = [loc EXCEPT !.hs52 = hs52]
               /\ pc' = "hs_switch" /\ mmc' = mmc /\ cond' = cond
  BY DEF mmc_change_freq_ext_csd, Goto
<1>2. pc = "hs_ext_csd"
  BY DEF mmc_change_freq_ext_csd
<1>3. bus.card.std = "MMC_4" /\ loc.ext_csd
  BY <1>2 DEF AllClean, WidthClean
<1>4. /\ x.err = "ok" /\ x.good /\ x.bus.path = Clean /\ Kind(x.bus.card) = Kind(bus.card)
  BY <1>1, <1>2, <1>3, HsRead DEF From
<1>5. CleanReady(mmc, bus)
  BY <1>2, ReadyIsClean
<1>6. PICK hs52 \in HighSpeeds(x.good) : loc' = [loc EXCEPT !.hs52 = hs52]
  BY <1>1, <1>4
<1>7. loc'.ext_csd /\ bus'.card.std = "MMC_4"
  BY <1>1, <1>3, <1>4, <1>6, FitsStays DEF BaseInv, TypeInv, LocType
<1>8. pc' = "hs_switch" /\ mmc' = mmc /\ cond' = cond
  BY <1>1, <1>4
<1>9. CardClean' /\ WidthClean'
  BY <1>7, <1>8 DEF CardClean, WidthClean
<1>10. CleanReady(mmc', bus')
  BY <1>1, <1>4, <1>5, <1>8, ReadyFrom
<1>. QED  BY <1>8, <1>9, <1>10, ReadyClean

LEMMA HsCheckClean ==
  ASSUME BaseInv, Supported, AllClean, NoLoss, mmc_change_freq_check
  PROVE  AllClean'
<1>1. PICK x \in mmc_send_cmd(ExtCsd("cardtype")) :
        \/ x.err # "ok" /\ bus' = x.bus
        \/ \E timing \in BOOLEAN :
            FreqDone([mmc EXCEPT !.card_caps =
                        IF ~timing THEN {}
                        ELSE IF loc.hs52 THEN {"HS", "HS_52MHz"} ELSE {"HS"}], x.bus)
  BY DEF mmc_change_freq_check
<1>2. pc = "hs_check"
  BY DEF mmc_change_freq_check
<1>3. bus.card.std = "MMC_4" /\ loc.ext_csd
  BY <1>2 DEF AllClean, WidthClean
<1>4. mmc.bus_width = 1 /\ bus.card.width = 1
  BY <1>2 DEF BaseInv, PlaceInv
<1>5. From(x.bus)
  BY <1>1, WaysOut DEF From
<1>6. /\ x.err = "ok" /\ x.bus.path = Clean /\ Kind(x.bus.card) = Kind(bus.card)
      /\ BusInv(x.bus) /\ x.bus.card.width = 1
  BY <1>1, <1>2, <1>3, <1>4, <1>5, HsRead
<1>7. PICK timing \in BOOLEAN :
         FreqDone([mmc EXCEPT !.card_caps =
                     IF ~timing THEN {}
                     ELSE IF loc.hs52 THEN {"HS", "HS_52MHz"} ELSE {"HS"}], x.bus)
  BY <1>1, <1>6
<1> DEFINE n == [mmc EXCEPT !.card_caps = IF ~timing THEN {}
                     ELSE IF loc.hs52 THEN {"HS", "HS_52MHz"} ELSE {"HS"}]
<1>8. /\ n \in MmcType /\ n.version = mmc.version /\ n.bus_width = mmc.bus_width
      /\ n.capacity = mmc.capacity /\ n.has_init = mmc.has_init
  BY DEF BaseInv, TypeInv, MmcType
<1>9. FreqDone(n, x.bus)
  BY <1>7
<1>. HIDE DEF n
<1>10. CleanReady(n, x.bus)
  BY <1>2, <1>6, <1>8, ReadyIsClean DEF CleanReady
<1>. QED  BY <1>3, <1>4, <1>6, <1>8, <1>9, <1>10, FreqDoneClean

LEMMA HsSwitchClean ==
  ASSUME BaseInv, AllClean, NoLoss, mmc_change_freq_switch
  PROVE  AllClean'
<1> DEFINE m == Plain(SWITCH, HsTiming)
<1>1. PICK x \in mmc_send_cmd(m) :
        IF x.err # "ok" THEN HsSwitched(x.err, x.bus)
        ELSE /\ bus' = x.bus
             /\ loc' = [loc EXCEPT !.after = "hs",
                                   !.timeout = StatusTries, !.retries = StatusRetries]
             /\ pc' = "status" /\ mmc' = mmc /\ cond' = cond
  BY DEF mmc_change_freq_switch, mmc_switch, SwitchReturns, Goto
<1>2. pc = "hs_switch"
  BY DEF mmc_change_freq_switch
<1>3. bus' = x.bus
  BY <1>1 DEF HsSwitched
<1>4. Obeyed(m, x)
  BY <1>3, NamesAre, QuietPlain DEF NoLoss
<1>. HIDE DEF m
<1>5. CleanReady(mmc, bus)
  BY <1>2, ReadyIsClean
<1>6. CleanReady(mmc, x.bus)
  BY <1>4, <1>5 DEF Obeyed, CleanReady
<1>7. CASE x.err # "ok"
  BY <1>1, <1>2, <1>6, <1>7, HsSwitchedClean
<1>8. CASE x.err = "ok"
  <2>1. /\ pc' = "status" /\ mmc' = mmc /\ cond' = cond
        /\ loc' = [loc EXCEPT !.after = "hs",
                              !.timeout = StatusTries, !.retries = StatusRetries]
    BY <1>1, <1>8
  <2>2. loc'.after = "hs" /\ loc'.ext_csd = loc.ext_csd
    BY <2>1 DEF BaseInv, TypeInv, LocType
  <2>3. bus'.card.std = bus.card.std /\ bus.card.std = "MMC_4" /\ loc.ext_csd
    BY <1>2, <1>3, <1>6, FitsStays DEF CleanReady, AllClean, WidthClean
  <2>4. CardClean' /\ WidthClean'
    BY <2>1, <2>2, <2>3 DEF CardClean, WidthClean
  <2>. QED  BY <1>3, <1>6, <2>1, <2>2, <2>4, ReadyClean
<1>. QED  BY <1>7, <1>8

LEMMA WidthSwitchClean ==
  ASSUME BaseInv, AllClean, NoLoss, startup_width_switch
  PROVE  AllClean'
<1> DEFINE m == Plain(SWITCH, Lines(loc.width))
<1>1. PICK x \in mmc_send_cmd(m) :
        IF x.err # "ok" THEN NextWidth(x.bus)
        ELSE /\ bus' = x.bus
             /\ loc' = [loc EXCEPT !.after = "width",
                                   !.timeout = StatusTries, !.retries = StatusRetries]
             /\ pc' = "status" /\ mmc' = mmc /\ cond' = cond
  BY DEF startup_width_switch, mmc_switch, SwitchReturns, WidthSwitched, Goto
<1>2. pc = "width_switch"
  BY DEF startup_width_switch
<1>3. From(x.bus) /\ CommandDid(m, x)
  BY <1>1, NamesAre, PlainDid, WaysOut DEF From
<1>4. x.bus.faults = MaxFaults
  BY <1>3, FromFaults DEF CommandDid, NoLoss
<1>5. Obeyed(m, x)
  BY <1>4, NamesAre, QuietPlain DEF NoLoss
<1>6. m.idx = SWITCH /\ m.arg = Lines(loc.width)
  BY PlainIs
<1>. HIDE DEF m
<1>7. CleanReady(mmc, bus) /\ bus.card.state = "tran" /\ CardInv(bus.card) /\ bus.card \in CardType
  BY <1>2, ReadyIsClean DEF BaseInv, TypeInv, BusInv, CardInv, PlaceInv
<1>8. CleanReady(mmc, x.bus) /\ BusInv(x.bus)
  BY <1>5, <1>7 DEF Obeyed, CleanReady
<1>9. /\ loc.width \in 0 .. 2 /\ mmc.bus_width = 1
      /\ IF bus.card.std = "MMC_4" THEN loc.ext_csd ELSE bus.card.width = 1
  BY <1>2 DEF AllClean, WidthClean, BaseInv, TypeInv, LocType
<1>10. bus.card.std \in {"MMC_3", "MMC_4"} /\ ~SdCard(bus.card)
  <2>1. ~IsSd(mmc.version)
    BY <1>2 DEF BaseInv, PlaceInv
  <2>. QED  BY <1>7, <2>1, StdIs DEF CleanReady
<1>11. Lines(loc.width) \in {1, 4, 8}
  BY <1>9 DEF Lines
<1>12. CASE bus.card.std = "MMC_3"
  <2>1. ~Legal(bus.card, m)
    BY <1>6, <1>7, <1>10, <1>12, SwitchDoes DEF CardInv
  <2>2. x.err # "ok" /\ x.bus.card.width = 1
    BY <1>5, <1>7, <1>9, <1>12, <2>1, AnsweringIs DEF Obeyed
  <2>. QED  BY <1>1, <1>2, <1>8, <1>9, <2>2, NextWidthClean
<1>13. CASE bus.card.std = "MMC_4"
  <2>1. Legal(bus.card, m)
    BY <1>6, <1>7, <1>13, SwitchDoes
  <2>2. x.err = "ok" /\ x.bus.card = [Answering(bus.card) EXCEPT !.width = m.arg]
    BY <1>5, <1>6, <1>11, <2>1, SwitchDoes DEF Obeyed
  <2>3. Turned(bus.card, [Answering(bus.card) EXCEPT !.width = m.arg], bus.card.state, bus.card.rca,
               FALSE, m.arg)
    BY <1>6, <1>7, <1>11, TurnedForms
  <2>4. x.bus.card.width = Lines(loc.width)
    BY <1>6, <2>2, <2>3 DEF Turned
  <2>5. /\ pc' = "status" /\ mmc' = mmc /\ cond' = cond /\ bus' = x.bus
        /\ loc' = [loc EXCEPT !.after = "width",
                              !.timeout = StatusTries, !.retries = StatusRetries]
    BY <1>1, <2>2
  <2>6. loc'.after = "width" /\ loc'.ext_csd = loc.ext_csd /\ loc'.width = loc.width
    BY <2>5 DEF BaseInv, TypeInv, LocType
  <2>7. bus'.card.std = bus.card.std
    BY <1>8, <2>5, FitsStays DEF CleanReady
  <2>8. bus'.card.width = Lines(loc.width)'
    BY <2>4, <2>5, <2>6 DEF Lines
  <2>9. CardClean' /\ WidthClean'
    BY <1>9, <1>13, <2>5, <2>6, <2>7, <2>8 DEF CardClean, WidthClean
  <2>. QED  BY <1>8, <2>5, <2>6, <2>9, ReadyClean
<1>. QED  BY <1>10, <1>12, <1>13

LEMMA BusWidthClean ==
  ASSUME BaseInv, AllClean, NoLoss, startup_bus_width
  PROVE  AllClean' /\ ret' = "ok"
<1> DEFINE m == Plain(SWITCH, 4)
           n == [mmc EXCEPT !.bus_width = 4]
<1>1. PICK x \in mmc_send_cmd(m) :
       IF x.err # "ok" THEN StartupFails(x.err) /\ bus' = x.bus
       ELSE StartupEnds(n, x.bus)
  BY DEF startup_bus_width
<1>2. pc = "bus_width"
  BY DEF startup_bus_width
<1>3. From(x.bus) /\ CommandDid(m, x)
  BY <1>1, NamesAre, PlainDid, WaysOut DEF From
<1>4. x.bus.faults = MaxFaults
  BY <1>3, FromFaults DEF CommandDid, NoLoss
<1>5. Obeyed(m, x)
  BY <1>4, NamesAre, QuietPlain DEF NoLoss
<1>6. m.idx = SWITCH /\ m.arg = 4
  BY PlainIs
<1>. HIDE DEF m
<1>7. /\ CleanReady(mmc, bus) /\ bus.card.state = "tran" /\ bus.card \in CardType /\ bus.card.app
  BY <1>2, ReadyIsClean DEF BaseInv, TypeInv, BusInv, CardInv, PlaceInv, AllClean, CardClean
<1>8. CleanReady(mmc, x.bus) /\ BusInv(x.bus)
  BY <1>5, <1>7 DEF Obeyed, CleanReady
<1>9. Legal(bus.card, m) /\ Effects(bus.card, m) = {[Answering(bus.card) EXCEPT !.width = 4]}
  BY <1>6, <1>7, SwitchDoes
<1>10. x.err = "ok" /\ x.bus.card = [Answering(bus.card) EXCEPT !.width = 4]
  BY <1>5, <1>9 DEF Obeyed
<1>11. Turned(bus.card, [Answering(bus.card) EXCEPT !.width = 4], bus.card.state, bus.card.rca, FALSE, 4)
  BY <1>7, TurnedForms
<1>12. x.bus.card.width = 4
  BY <1>10, <1>11 DEF Turned
<1>13. /\ n \in MmcType /\ n.version = mmc.version /\ n.bus_width = 4
       /\ n.capacity = mmc.capacity /\ n.has_init = mmc.has_init
  BY DEF BaseInv, TypeInv, MmcType
<1>14. StartupEnds(n, x.bus)
  BY <1>1, <1>10
<1>. HIDE DEF n
<1>15. CleanReady(n, x.bus)
  BY <1>8, <1>13 DEF CleanReady
<1>16. AllClean'
  BY <1>8, <1>12, <1>13, <1>14, <1>15, EndsClean
<1>. QED  BY <1>14, <1>16 DEF StartupEnds, InitReturns

LEMMA WidthCheckClean ==
  ASSUME BaseInv, AllClean, NoLoss, startup_width_check
  PROVE  AllClean'
<1> DEFINE n == [mmc EXCEPT !.card_caps = @ \cup WidthCap]
<1>1. PICK x \in mmc_send_cmd(ExtCsd("test_csd")), same \in BOOLEAN :
       /\ (x.err = "ok" /\ x.good /\ loc.ext_csd) => same
       /\ IF x.err = "ok" /\ same THEN StartupEnds(n, x.bus) ELSE NextWidth(x.bus)
  BY DEF startup_width_check
<1>2. pc = "width_check"
  BY DEF startup_width_check
<1>3. bus.card.std = "MMC_4" /\ loc.ext_csd
  BY <1>2 DEF AllClean, WidthClean
<1>4. From(x.bus)
  BY <1>1, WaysOut DEF From
<1>5. /\ x.err = "ok" /\ x.good /\ x.bus.path = Clean
      /\ BusInv(x.bus) /\ Kind(x.bus.card) = Kind(bus.card) /\ x.bus.card.width = bus.card.width
  BY <1>1, <1>2, <1>3, <1>4, HsRead
<1>6. /\ n \in MmcType /\ n.version = mmc.version /\ n.bus_width = mmc.bus_width
      /\ n.capacity = mmc.capacity /\ n.has_init = mmc.has_init
  BY DEF BaseInv, TypeInv, MmcType, WidthCap
<1>7. StartupEnds(n, x.bus)
  BY <1>1, <1>3, <1>5
<1>. HIDE DEF n
<1>8. SameWidth
  BY <1>2 DEF AllClean, PathClean
<1>9. CleanReady(n, x.bus)
  BY <1>2, <1>5, <1>6, ReadyIsClean DEF CleanReady
<1>. QED  BY <1>5, <1>6, <1>7, <1>8, <1>9, EndsClean DEF SameWidth

-----------------------------------------------------------------------------
(* The steps of mmc_bread, when nothing is lost.                           *)

LEMMA PollMild ==
  ASSUME BaseInv, PollForEver
  PROVE  /\ Mild(bus') /\ host' = host /\ bus'.path = bus.path
         /\ pc = "read" => bus'.card.width = bus.card.width
         /\ bus'.faults = bus.faults =>
              ~(Own(DataCommand) /\ OnCard(bus.card, DataCommand, BL))
<1> DEFINE m == DataCommand
           faulty == Own(m) /\ OnCard(bus.card, m, BL)
<1>1. PICK e \in Exchanges(m) :
       /\ e.heard
       /\ faulty => e.faults > 0
       /\ bus' = [card |-> e.card, path |-> bus.path, faults |-> e.faults - IF faulty THEN 1 ELSE 0]
  BY DEF PollForEver
<1>2. pc \in DataPlaces /\ host' = host
  BY DEF PollForEver, DataPlaces
<1>3. BusInv(bus) /\ bus \in BusType /\ CardInv(bus.card)
  BY DEF BaseInv, TypeInv, BusInv
<1>4. m.idx \in {SEND_IF_COND, APP_SEND_SCR, SWITCH, READ_SINGLE_BLOCK, READ_MULTIPLE_BLOCK}
      /\ (pc = "read" => m.idx \in {READ_SINGLE_BLOCK, READ_MULTIPLE_BLOCK})
  <2>1. SWITCH \notin {SEND_IF_COND, APP_SEND_SCR, READ_SINGLE_BLOCK, READ_MULTIPLE_BLOCK}
    BY DEF SEND_IF_COND, APP_SEND_SCR, SWITCH, READ_SINGLE_BLOCK, READ_MULTIPLE_BLOCK
  <2>. QED  BY <1>2, <2>1, DataCommandIs DEF DataPlaces
<1>5. faulty \in BOOLEAN
  BY DEF OnCard
<1>. HIDE DEF m, faulty
<1>6. /\ e.faults \in 0 .. bus.faults /\ e.card \in Taken(bus.card, m) \cup {bus.card}
  BY <1>1, <1>3, ExchangeIs
<1>7. MovesTo(bus.card, m, e.card)
  <2>1. m.idx \in CommandNames /\ m.idx # SEND_RELATIVE_ADDR
    BY <1>4 DEF CommandNames, SEND_IF_COND, APP_SEND_SCR, SWITCH, READ_SINGLE_BLOCK,
                READ_MULTIPLE_BLOCK, SEND_RELATIVE_ADDR
  <2>. QED  BY <1>3, <1>6, <2>1, CardMoves
<1>8. /\ bus'.card = e.card /\ bus'.path = bus.path
      /\ bus'.faults = e.faults - IF faulty THEN 1 ELSE 0
  BY <1>1
<1>9. bus.faults \in Nat
  BY <1>3, MmcAssumption DEF BusType
<1>10. bus'.faults \in 0 .. bus.faults /\ (bus'.faults = bus.faults => ~faulty)
  BY <1>1, <1>6, <1>8, <1>9
<1>11. pc = "read" => bus'.card.width = bus.card.width
  BY <1>4, <1>7, <1>8 DEF MovesTo, GO_IDLE_STATE, SWITCH, READ_SINGLE_BLOCK, READ_MULTIPLE_BLOCK
<1>12. Mild(bus')
  BY <1>7, <1>8, <1>10 DEF Mild, MovesTo
<1>. QED  BY <1>2, <1>8, <1>10, <1>11, <1>12 DEF m, faulty

\* What a step of mmc_bread leaves alone
LEMMA ReadStaysClean ==
  ASSUME AllClean, mmc.has_init, mmc' = mmc, cond' = cond, loc' = loc,
         Kind(bus'.card) = Kind(bus.card), bus'.card.width = bus.card.width,
         pc' \in {"client", "hung"} \cup ReadPlaces,
         cond = "ok" => bus'.path = Clean
  PROVE  AllClean'
<1>1. PathClean'
  BY DEF AllClean, PathClean, SameWidth
<1>2. /\ SdCard(bus.card)' <=> SdCard(bus.card)
      /\ bus'.card.std = bus.card.std /\ Size' = Size
  BY FitsStays
<1>3. VersionClean' /\ CardClean' /\ WidthClean' /\ SizeClean'
  BY <1>2 DEF AllClean, VersionClean, VersionFits, CardClean, WidthClean, SizeClean
<1>. QED  BY <1>1, <1>3 DEF AllClean

LEMMA BreadClean ==
  ASSUME BaseInv, AllClean, NEW start \in Starts, NEW blkcnt \in Counts, NEW dst \in Buffers,
         mmc_bread(start, blkcnt, dst)
  PROVE  AllClean'
<1>1. /\ mmc.has_init /\ mmc' = mmc /\ cond' = cond /\ loc' = loc /\ bus' = bus
      /\ pc' \in {"client", "blocklen"}
  BY DEF mmc_bread, Goto
<1>. QED  BY <1>1, ReadStaysClean DEF AllClean, PathClean

LEMMA RoundPlaces ==
  ASSUME RoundDone
  PROVE  pc' \in {"client", "read"} /\ ret' \in {ret, "blkcnt"} /\ (pc' = "client" => ret' = "blkcnt")
BY DEF RoundDone, BreadReturns, Goto

LEMMA PlainStaysClean ==
  ASSUME BaseInv, AllClean, NoLoss, mmc.has_init, NEW i \in {SET_BLOCKLEN, STOP_TRANSMISSION}, NEW a,
         NEW x \in mmc_send_cmd(Plain(i, a)), bus' = x.bus,
         mmc' = mmc, cond' = cond, loc' = loc, pc' \in {"client", "hung"} \cup ReadPlaces
  PROVE  AllClean'
<1>1. i \in CommandNames /\ i # SEND_RELATIVE_ADDR /\ i # GO_IDLE_STATE /\ i # SWITCH
  BY DEF CommandNames, SET_BLOCKLEN, STOP_TRANSMISSION, SEND_RELATIVE_ADDR, GO_IDLE_STATE, SWITCH
<1>2. CommandDid(Plain(i, a), x) /\ Plain(i, a).idx = i
  BY <1>1, PlainDid, PlainIs
<1>3. Obeyed(Plain(i, a), x)
  BY <1>1, QuietPlain DEF NoLoss
<1>4. Kind(bus'.card) = Kind(bus.card) /\ bus'.card.width = bus.card.width
  BY <1>1, <1>2 DEF CommandDid, MovesTo
<1>5. cond = "ok" => bus'.path = Clean
  BY <1>3 DEF Obeyed, AllClean, PathClean
<1>. QED  BY <1>4, <1>5, ReadStaysClean

LEMMA ReadStepsClean ==
  ASSUME BaseInv, AllClean, NoLoss, mmc_set_blocklen \/ stop_transmission
  PROVE  AllClean'
<1>1. CASE mmc_set_blocklen
  <2>1. PICK x \in mmc_send_cmd(Plain(SET_BLOCKLEN, BL)) :
         /\ bus' = x.bus
         /\ IF x.err # "ok" THEN BreadReturns("0") ELSE Goto("read") /\ UNCHANGED req
    BY <1>1 DEF mmc_set_blocklen
  <2>2. mmc' = mmc /\ cond' = cond /\ loc' = loc /\ mmc.has_init
    BY <1>1 DEF mmc_set_blocklen, BaseInv, PlaceInv
  <2>3. pc' \in {"client", "read"}
    BY <2>1 DEF BreadReturns, Goto
  <2>. QED  BY <2>1, <2>2, <2>3, PlainStaysClean
<1>2. CASE stop_transmission
  <2>1. PICK x \in mmc_send_cmd(Plain(STOP_TRANSMISSION, 0)) :
         /\ bus' = x.bus
         /\ IF x.err # "ok" THEN BreadReturns("0") ELSE RoundDone
    BY <1>2 DEF stop_transmission
  <2>2. mmc' = mmc /\ cond' = cond /\ loc' = loc /\ mmc.has_init
    BY <1>2 DEF stop_transmission, BaseInv, PlaceInv
  <2>3. pc' \in {"client", "read"}
    BY <2>1, RoundPlaces DEF BreadReturns
  <2>. QED  BY <2>1, <2>2, <2>3, PlainStaysClean
<1>. QED  BY <1>1, <1>2

\* The command of a round, sent to a card that waits for it
LEMMA ReadBlocksClean ==
  ASSUME BaseInv, AllClean, NoLoss, mmc_read_blocks
  PROVE  AllClean'
<1>1. PICK x \in mmc_send_cmd(ReadCommand) :
       /\ bus' = x.bus
       /\ IF x.err # "ok" THEN BreadReturns("0") /\ UNCHANGED right
          ELSE IF Cur > 1 THEN Goto("stop") /\ UNCHANGED req ELSE RoundDone
  BY DEF mmc_read_blocks
<1>2. /\ pc = "read" /\ mmc' = mmc /\ cond' = cond /\ loc' = loc
  BY DEF mmc_read_blocks
<1>3. mmc.has_init /\ bus.card.state = "tran"
  BY <1>2 DEF BaseInv, PlaceInv
<1>4. Kind(bus'.card) = Kind(bus.card) /\ bus'.card.width = bus.card.width
  BY <1>1, ReadCommandDid
<1>5. pc' \in {"client", "read", "stop"}
  BY <1>1, RoundPlaces DEF BreadReturns, Goto
<1>6. cond = "ok" => bus'.path = Clean
  <2>1. SUFFICES ASSUME cond = "ok"
                 PROVE  bus'.path = Clean
    OBVIOUS
  <2>2. bus.path = Clean /\ SameWidth
    BY <1>3, <2>1 DEF AllClean, PathClean
  <2> DEFINE i == IF Cur > 1 THEN READ_MULTIPLE_BLOCK ELSE READ_SINGLE_BLOCK
             a == IF mmc.high_capacity THEN req.start ELSE (req.start * BL) % W
  <2>3. i \in {READ_SINGLE_BLOCK, READ_MULTIPLE_BLOCK} /\ ReadCommand = Read(i, a, Cur, req.dst, req.off)
    BY DEF ReadCommand
  <2>. HIDE DEF i, a
  <2>4. req.dst \in Buffers \cup {"none"}
    BY DEF BaseInv, TypeInv, ReqType
  <2>5. Legal(bus.card, Read(i, a, Cur, req.dst, req.off))
    <3>1. Read(i, a, Cur, req.dst, req.off).idx = i
      BY DEF Read
    <3>. QED  BY <1>3, <2>3, <3>1, OthersDo, MultipleDoes
  <2>6. Cur \in 0 .. W - 1 /\ req.off \in 0 .. W - 1
    BY CurIs
  <2>7. x \in mmc_send_cmd(Read(i, a, Cur, req.dst, req.off)) /\ x.bus.faults = MaxFaults
        /\ bus.faults = MaxFaults
    BY <1>1, <2>3 DEF NoLoss
  <2>8. i \in {SEND_IF_COND, SWITCH, APP_SEND_SCR, READ_SINGLE_BLOCK, READ_MULTIPLE_BLOCK}
        /\ req.dst \in Buffers \cup {"none", "scr", "switch_status", "ext_csd", "cardtype", "test_csd"}
    BY <2>3, <2>4
  <2>9. x.bus.path = Clean
    BY <2>2, <2>5, <2>6, <2>7, <2>8, QuietRead
  <2>. QED  BY <1>1, <2>9
<1>. QED  BY <1>2, <1>3, <1>4, <1>5, <1>6, ReadStaysClean

\* Waiting for ever is not for want of a clean path
LEMMA PollClean ==
  ASSUME BaseInv, AllClean, NoLoss, PollForEver
  PROVE  AllClean' /\ pc = "read"
<1>1. /\ pc \in DataPlaces /\ pc' = "hung" /\ mmc' = mmc /\ cond' = cond /\ loc' = loc
  BY DEF PollForEver, DataPlaces
<1>2. pc = "read"
  <2>1. SUFFICES ASSUME pc # "read"
                 PROVE  FALSE
    OBVIOUS
  <2>2. ~mmc.has_init
    BY <1>1, <2>1 DEF DataPlaces, BaseInv, PlaceInv
  <2>3. Own(DataCommand)
    BY <2>2 DEF AllClean, PathClean, Own
  <2>4. DataCommand.idx \in {SEND_IF_COND, APP_SEND_SCR, SWITCH}
    BY <1>1, <2>1, DataCommandIs DEF DataPlaces
  <2>5. OnCard(bus.card, DataCommand, BL)
    BY <2>4 DEF OnCard, SEND_IF_COND, APP_SEND_SCR, SWITCH, READ_SINGLE_BLOCK, READ_MULTIPLE_BLOCK
  <2>. QED  BY <2>3, <2>5, PollMild DEF NoLoss
<1>3. mmc.has_init
  BY <1>2 DEF BaseInv, PlaceInv
<1>4. cond = "ok" => bus'.path = Clean
  BY <1>3, PollMild DEF AllClean, PathClean
<1>. QED  BY <1>1, <1>2, <1>3, <1>4, PollMild, ReadStaysClean DEF Mild

LEMMA ReadStepsMild ==
  ASSUME BaseInv, ReadSteps
  PROVE  Mild(bus') /\ host' = host
<1>1. CASE mmc_set_blocklen
  <2>1. SET_BLOCKLEN \in CommandNames /\ SET_BLOCKLEN # SEND_RELATIVE_ADDR
    BY NamesAre
  <2>. QED  BY <1>1, <2>1, PlainMild DEF mmc_set_blocklen
<1>2. CASE stop_transmission
  <2>1. STOP_TRANSMISSION \in CommandNames /\ STOP_TRANSMISSION # SEND_RELATIVE_ADDR
    BY NamesAre
  <2>. QED  BY <1>2, <2>1, PlainMild DEF stop_transmission
<1>3. CASE mmc_read_blocks
  <2>1. PICK x \in mmc_send_cmd(ReadCommand) : bus' = x.bus
    BY <1>3 DEF mmc_read_blocks
  <2> DEFINE i == IF Cur > 1 THEN READ_MULTIPLE_BLOCK ELSE READ_SINGLE_BLOCK
             a == IF mmc.high_capacity THEN req.start ELSE (req.start * BL) % W
  <2>2. i \in {READ_SINGLE_BLOCK, READ_MULTIPLE_BLOCK} /\ ReadCommand = Read(i, a, Cur, req.dst, req.off)
    BY DEF ReadCommand
  <2>. HIDE DEF i, a
  <2>3. req.dst \in Buffers \cup {"none"}
    BY DEF BaseInv, TypeInv, ReqType
  <2>4. Cur \in 0 .. W - 1 /\ req.off \in 0 .. W - 1
    BY CurIs
  <2>5. Mild(x.bus)
    BY <2>1, <2>2, <2>3, <2>4, ReadMild
  <2>. QED  BY <1>3, <2>1, <2>5 DEF mmc_read_blocks
<1>. QED  BY <1>1, <1>2, <1>3 DEF ReadSteps

LEMMA NextMild ==
  ASSUME BaseInv, [Next]_vars
  PROVE  Mild(bus') /\ host' = host
<1>0. bus.faults \in Nat /\ BusInv(bus)
  BY MmcAssumption DEF BaseInv, TypeInv, BusInv, BusType
<1>00. Mild(bus)
  BY <1>0 DEF Mild
<1>1. CASE mmc_init
  BY <1>0, <1>00, <1>1, FromMild DEF mmc_init, From, Keep
<1>2. CASE \E start \in Starts, blkcnt \in Counts, dst \in Buffers : mmc_bread(start, blkcnt, dst)
  BY <1>00, <1>2 DEF mmc_bread
<1>3. CASE InitSteps
  BY <1>3, InitStepsMild
<1>4. CASE ReadSteps
  BY <1>4, ReadStepsMild
<1>5. CASE PollForEver
  BY <1>5, PollMild
<1>6. CASE UNCHANGED vars
  BY <1>00, <1>6 DEF vars
<1>. QED  BY <1>1, <1>2, <1>3, <1>4, <1>5, <1>6 DEF Next

\* Whoever has lost nothing had lost nothing before
LEMMA QuietWas ==
  ASSUME BaseInv, Mild(bus'), host' = host
  PROVE  /\ bus'.faults = MaxFaults => NoLoss
         /\ Quiet' => Quiet /\ NoLoss
         /\ SdCard(bus.card)' <=> SdCard(bus.card)
<1>1. bus.faults \in 0 .. MaxFaults /\ MaxFaults \in Nat
  BY MmcAssumption DEF BaseInv, TypeInv, BusInv, BusType
<1>2. bus'.faults = MaxFaults => NoLoss
  BY <1>1 DEF Mild, NoLoss
<1>3. /\ SdCard(bus.card)' <=> SdCard(bus.card)
      /\ bus'.card.hc = bus.card.hc /\ Size' = Size
  BY FitsStays DEF Mild
<1>. QED  BY <1>2, <1>3 DEF Quiet, Supported, NoLoss

LEMMA InitStepsClean ==
  ASSUME BaseInv, Supported, AllClean, NoLoss, InitSteps
  PROVE  AllClean'
BY GoIdleClean, IfCondClean, OpCondAppClean, OpCondClean, MmcIdleClean, AskOpCondClean,
   MmcOpCondClean, AllSendCidClean, RelativeAddrClean, SendCsdClean, StatusClean, SelectClean,
   ExtCsdClean, ScrAppClean, ScrClean, SwitchCheckClean, SwitchSetClean, HsExtCsdClean,
   HsSwitchClean, HsCheckClean, BusWidthClean, WidthSwitchClean, WidthCheckClean
   DEF InitSteps

LEMMA StutterClean ==
  ASSUME AllClean, UNCHANGED vars
  PROVE  AllClean'
BY DEF vars, AllClean, PathClean, VersionClean, VersionFits, CardClean, WidthClean, SizeClean,
       SameWidth, Size, SdCard, Lines

LEMMA NextKeepsClean ==
  ASSUME BaseInv, CleanInv, [Next]_vars
  PROVE  CleanInv'
<1> SUFFICES ASSUME Quiet'
             PROVE  AllClean'
  BY DEF CleanInv
<1>0. Quiet /\ NoLoss /\ Supported /\ AllClean
  BY NextMild, QuietWas DEF CleanInv, Quiet
<1>1. CASE mmc_init
  BY <1>0, <1>1, InitClean
<1>2. CASE \E start \in Starts, blkcnt \in Counts, dst \in Buffers : mmc_bread(start, blkcnt, dst)
  BY <1>0, <1>2, BreadClean
<1>3. CASE InitSteps
  BY <1>0, <1>3, InitStepsClean
<1>4. CASE ReadSteps
  BY <1>0, <1>4, ReadStepsClean, ReadBlocksClean DEF ReadSteps
<1>5. CASE PollForEver
  BY <1>0, <1>5, PollClean
<1>6. CASE UNCHANGED vars
  BY <1>0, <1>6, StutterClean
<1>. QED  BY <1>1, <1>2, <1>3, <1>4, <1>5, <1>6 DEF Next

LEMMA AlwaysClean == Spec => []CleanInv
<1>1. Init => CleanInv
  <2> SUFFICES ASSUME Init
               PROVE  AllClean
    BY DEF CleanInv
  <2>1. PICK c \in Cards : bus = [card |-> PoweredUp(c), path |-> Clean, faults |-> MaxFaults]
    BY DEF Init
  <2>2. bus.path = Clean
    BY <2>1
  <2>3. pc = "client" /\ mmc.version = "none" /\ ~mmc.has_init
    BY DEF Init
  <2>. QED  BY <2>2, <2>3 DEF AllClean, PathClean, VersionClean, CardClean, WidthClean, SizeClean
<1>2. BaseInv /\ CleanInv /\ [Next]_vars => CleanInv'
  BY NextKeepsClean
<1>. QED  BY <1>1, <1>2, AlwaysBase, PTL DEF Spec

-----------------------------------------------------------------------------
(* What a read asks for is on the card.                                    *)

\* Blocks within a size that is kept in bytes, modulo w
LEMMA WithinSize ==
  ASSUME NEW w \in Nat \ {0}, NEW bl \in Nat \ {0}, NEW blocks \in Nat, NEW s \in Nat,
         NEW k \in Nat \ {0}, s + k <= ((blocks * bl) % w) \div bl
  PROVE  s + k <= blocks /\ ((s * bl) % w) \div bl = s
<1>1. blocks * bl \in Nat /\ s * bl \in Nat
  OBVIOUS
<1>2. (blocks * bl) % w \in 0 .. w - 1
      /\ blocks * bl = w * ((blocks * bl) \div w) + ((blocks * bl) % w)
      /\ (blocks * bl) \div w \in Nat
  BY <1>1, DivMod
<1> DEFINE cap == (blocks * bl) % w
           t == (blocks * bl) \div w
<1>3. cap \in 0 .. w - 1 /\ t \in Nat /\ blocks * bl = w * t + cap
  BY <1>2
<1>. HIDE DEF cap, t
<1>4. cap <= blocks * bl
  <2>1. 0 * w <= t * w
    BY <1>3, Times
  <2>2. t * w = w * t
    BY <1>3
  <2>. QED  BY <1>1, <1>3, <2>1, <2>2
<1>5. cap \div bl \in Nat /\ cap % bl \in 0 .. bl - 1 /\ cap = bl * (cap \div bl) + (cap % bl)
  <2>1. cap \in Nat
    BY <1>3
  <2>. QED  BY <2>1, DivMod
<1> DEFINE q == cap \div bl
           r == cap % bl
<1>6. q \in Nat /\ r \in 0 .. bl - 1 /\ cap = bl * q + r
  BY <1>5
<1>7. s + k <= q
  BY DEF cap
<1>. HIDE DEF q, r
<1>8. q * bl <= cap
  <2>1. q * bl = bl * q
    BY <1>6
  <2>. QED  BY <1>6, <2>1
<1>9. s + k <= blocks
  <2>1. (blocks + 1) * bl = blocks * bl + bl
    OBVIOUS
  <2>2. q * bl < (blocks + 1) * bl
    BY <1>1, <1>3, <1>4, <1>6, <1>8, <2>1
  <2>3. q < blocks + 1
    BY <1>6, <2>2, TimesBack
  <2>. QED  BY <1>6, <1>7, <2>3
<1>10. (s * bl) % w = s * bl
  <2>1. s * bl <= q * bl
    BY <1>6, <1>7, Times
  <2>2. s * bl \in 0 .. w - 1 /\ s * bl = w * 0 + s * bl
    BY <1>1, <1>3, <1>6, <1>8, <2>1
  <2>. QED  BY <1>1, <2>2, ModIs
<1>11. (s * bl) \div bl = s
  <2>1. s * bl = bl * s + 0 /\ 0 \in 0 .. bl - 1
    OBVIOUS
  <2>. QED  BY <1>1, <2>1, ModIs
<1>. QED  BY <1>9, <1>10, <1>11

\* What is left of a request is within the size, or wraps around
Within ==
  /\ req.todo > 0
  /\ \/ req.first + req.off + req.todo <= mmc.capacity \div BL
     \/ req.first + req.off + req.todo >= W
  /\ req.first + req.off + req.todo < W => req.start = req.first + req.off

RangeInv == pc \in ReadPlaces => Within

LEMMA BreadWithin ==
  ASSUME BaseInv, NEW start \in Starts, NEW blkcnt \in Counts, NEW dst \in Buffers,
         mmc_bread(start, blkcnt, dst)
  PROVE  RangeInv'
<1>1. pc = "client" /\ mmc' = mmc
  BY DEF mmc_bread
<1>2. CASE UNCHANGED pc
  BY <1>1, <1>2 DEF RangeInv
<1>3. CASE ~(UNCHANGED pc)
  <2>1. /\ blkcnt # 0 /\ ~((start + blkcnt) % W > mmc.capacity \div BL)
        /\ req' = [start |-> start, todo |-> blkcnt, off |-> 0, first |-> start,
                   dst |-> dst, path |-> bus.path]
    BY <1>3 DEF mmc_bread, Goto
  <2>2. start \in 0 .. W - 1 /\ blkcnt \in 0 .. W - 1 /\ W \in Nat \ {0} /\ BL \in Nat \ {0}
        /\ mmc.capacity \in Nat
    BY MmcAssumption DEF BaseInv, TypeInv, MmcType
  <2>3. mmc.capacity \div BL \in Nat
    BY <2>2
  <2>4. start + blkcnt >= W \/ start + blkcnt <= mmc.capacity \div BL
    <3>1. CASE start + blkcnt < W
      <4>1. (start + blkcnt) % W = start + blkcnt
        BY <2>2, <3>1
      <4>. QED  BY <2>1, <2>2, <2>3, <4>1
    <3>. QED  BY <2>2, <3>1
  <2>5. req'.todo = blkcnt /\ req'.start = start /\ req'.off = 0 /\ req'.first = start
    BY <2>1
  <2>6. req'.first + req'.off + req'.todo = start + blkcnt /\ req'.start = req'.first + req'.off
        /\ req'.todo > 0
    BY <2>1, <2>2, <2>5
  <2>. QED  BY <1>1, <2>4, <2>6 DEF RangeInv, Within
<1>. QED  BY <1>2, <1>3

LEMMA RoundWithin ==
  ASSUME BaseInv, Within, RoundDone, mmc' = mmc
  PROVE  RangeInv'
<1>1. CASE req.todo = Cur
  BY <1>1 DEF RoundDone, BreadReturns, RangeInv
<1>2. CASE req.todo # Cur
  <2>1. req' = [req EXCEPT !.todo = @ - Cur, !.start = (@ + Cur) % W, !.off = @ + Cur]
    BY <1>2 DEF RoundDone
  <2>2. req'.todo = req.todo - Cur /\ req'.start = (req.start + Cur) % W
        /\ req'.off = req.off + Cur /\ req'.first = req.first
    BY <2>1 DEF BaseInv, TypeInv, ReqType
  <2>3. req'.todo > 0
        /\ req'.first + req'.off + req'.todo = req.first + req.off + req.todo
    BY <1>2, <2>2, CurIs
  <2>4. req.first + req.off + req.todo < W => req'.start = req'.first + req'.off
    <3>1. SUFFICES ASSUME req.first + req.off + req.todo < W
                   PROVE  req'.start = req'.first + req'.off
      OBVIOUS
    <3>2. req.start = req.first + req.off
      BY <3>1 DEF Within
    <3>3. req.start + Cur \in 0 .. W - 1
      BY <3>1, <3>2, CurIs
    <3>4. ASSUME NEW a \in 0 .. W - 1
          PROVE  a % W = a
      BY CurIs
    <3>5. (req.start + Cur) % W = req.start + Cur
      BY <3>3, <3>4
    <3>. QED  BY <2>2, <3>2, <3>5, CurIs
  <2>. QED  BY <2>3, <2>4 DEF Within, RangeInv
<1>. QED  BY <1>1, <1>2

LEMMA NextWithin ==
  ASSUME BaseInv, RangeInv, [Next]_vars
  PROVE  RangeInv'
<1>1. CASE mmc_init
  BY <1>1 DEF mmc_init, RangeInv, Goto
<1>2. CASE \E start \in Starts, blkcnt \in Counts, dst \in Buffers : mmc_bread(start, blkcnt, dst)
  BY <1>2, BreadWithin
<1>3. CASE InitSteps
  BY <1>3, InitStaysOut DEF RangeInv
<1>4. CASE mmc_set_blocklen
  <2>1. pc' = "client" \/ (pc = "blocklen" /\ UNCHANGED <<mmc, req>>)
    BY <1>4 DEF mmc_set_blocklen, BreadReturns, Goto
  <2>. QED  BY <2>1 DEF RangeInv, Within
<1>5. CASE mmc_read_blocks
  <2>1. pc = "read" /\ mmc' = mmc /\ (pc' = "client" \/ UNCHANGED req \/ RoundDone)
    BY <1>5 DEF mmc_read_blocks, BreadReturns
  <2>. QED  BY <2>1, RoundWithin DEF RangeInv, Within
<1>6. CASE stop_transmission
  <2>1. pc = "stop" /\ mmc' = mmc /\ (pc' = "client" \/ RoundDone)
    BY <1>6 DEF stop_transmission, BreadReturns
  <2>. QED  BY <2>1, RoundWithin DEF RangeInv
<1>7. CASE PollForEver
  BY <1>7 DEF PollForEver, RangeInv
<1>8. CASE UNCHANGED vars
  BY <1>8 DEF vars, RangeInv, Within
<1>. QED  BY <1>1, <1>2, <1>3, <1>4, <1>5, <1>6, <1>7, <1>8 DEF Next, ReadSteps

LEMMA AlwaysWithin == Spec => []RangeInv
<1>1. Init => RangeInv
  BY DEF Init, RangeInv
<1>2. BaseInv /\ RangeInv /\ [Next]_vars => RangeInv'
  BY NextWithin
<1>. QED  BY <1>1, <1>2, AlwaysBase, PTL DEF Spec

LEMMA AskedIsOnCard ==
  ASSUME BaseInv, AllClean, RangeInv, pc = "read", cond = "ok",
         req.first + req.off + req.todo < W
  PROVE  OnCard(bus.card, ReadCommand, BL)
<1>1. mmc.has_init
  BY DEF BaseInv, PlaceInv
<1>2. mmc.high_capacity = bus.card.hc /\ mmc.capacity = Size
  BY <1>1 DEF BaseInv, AgreeInv, Agree, AllClean, SizeClean
<1>3. /\ req.todo > 0 /\ req.start = req.first + req.off
      /\ req.first + req.off + req.todo <= mmc.capacity \div BL
  BY CurIs DEF RangeInv, Within
<1>4. bus.card.blocks \in Nat /\ mmc.capacity \in Nat
  BY MmcAssumption DEF BaseInv, TypeInv, BusInv, CardInv, CardType, CardRecords, MmcType
<1>5. mmc.capacity \div BL \in Nat
  BY <1>4, CurIs
<1>6. /\ req.start \in Nat /\ Cur \in Nat \ {0} /\ W \in Nat \ {0} /\ BL \in Nat \ {0}
      /\ req.start + Cur <= mmc.capacity \div BL
  BY <1>3, <1>5, CurIs
<1>7. req.start + Cur <= ((bus.card.blocks * BL) % W) \div BL
  BY <1>2, <1>6 DEF Size
<1>8. req.start + Cur <= bus.card.blocks /\ ((req.start * BL) % W) \div BL = req.start
  <2> DEFINE s == req.start
             k == Cur
             blocks == bus.card.blocks
  <2>1. s \in Nat /\ k \in Nat \ {0} /\ blocks \in Nat /\ W \in Nat \ {0} /\ BL \in Nat \ {0}
    BY <1>4, <1>6
  <2>2. s + k <= ((blocks * BL) % W) \div BL
    BY <1>7
  <2>. HIDE DEF s, k, blocks
  <2>3. s + k <= blocks /\ ((s * BL) % W) \div BL = s
    BY <2>1, <2>2, WithinSize
  <2>. QED  BY <2>3 DEF s, k, blocks
<1>9. /\ ReadCommand.xfer.n = Cur
      /\ ReadCommand.arg = IF mmc.high_capacity THEN req.start ELSE (req.start * BL) % W
  BY DEF ReadCommand, Read
<1>10. bus.card.hc \in BOOLEAN
  BY DEF BaseInv, TypeInv, BusInv, CardInv, CardType, CardRecords
<1>11. Place(bus.card, ReadCommand.arg, BL) = req.start
  BY <1>2, <1>8, <1>9, <1>10 DEF Place
<1>. QED  BY <1>8, <1>9, <1>11 DEF OnCard

\* What is asked of hosts and MMC cards for the driver to get along with them
MmcSupported ==
  \A c \in Cards, h \in Hosts :
    SdCard(c) \/ (NarrowHost(h) /\ (c.hc => 2 * ((c.blocks * BL) % W) > W))

HangInv ==
  (pc = "hung" /\ Quiet /\ cond = "ok") => req.first + req.off + req.todo >= W

LEMMA NextKeepsHang ==
  ASSUME BaseInv, CleanInv, RangeInv, HangInv, [Next]_vars
  PROVE  HangInv'
<1>1. CASE mmc_init
  BY <1>1 DEF mmc_init, Goto, HangInv
<1>2. CASE \E start \in Starts, blkcnt \in Counts, dst \in Buffers : mmc_bread(start, blkcnt, dst)
  BY <1>2 DEF mmc_bread, Goto, HangInv
<1>3. CASE InitSteps
  BY <1>3, InitStaysOut DEF HangInv
<1>4. CASE ReadSteps
  <2>1. pc' # "hung"
    BY <1>4, RoundPlaces DEF ReadSteps, mmc_set_blocklen, mmc_read_blocks, stop_transmission,
                             BreadReturns, Goto
  <2>. QED  BY <2>1 DEF HangInv
<1>5. CASE PollForEver
  <2>1. SUFFICES ASSUME Quiet', cond' = "ok"
                 PROVE  req'.first + req'.off + req'.todo >= W
    BY DEF HangInv
  <2>2. req' = req /\ cond' = cond
    BY <1>5 DEF PollForEver
  <2>3. Quiet /\ NoLoss /\ AllClean
    BY <2>1, NextMild, QuietWas DEF CleanInv
  <2>4. pc = "read" /\ bus.path = Clean
    BY <1>5, <2>1, <2>2, <2>3, PollClean DEF AllClean, PathClean
  <2>5. ~OnCard(bus.card, ReadCommand, BL)
    <3>1. DataCommand = ReadCommand /\ Own(DataCommand)
      BY <2>4, DataCommandIs DEF DataPlaces, Own
    <3>. QED  BY <1>5, <2>3, <3>1, PollMild DEF NoLoss
  <2>6. ~(req.first + req.off + req.todo < W)
    BY <2>1, <2>2, <2>3, <2>4, <2>5, AskedIsOnCard
  <2>. QED  BY <2>2, <2>6, CurIs
<1>6. CASE UNCHANGED vars
  BY <1>6 DEF vars, HangInv, Quiet, Supported, SdCard, NarrowHost, Size
<1>. QED  BY <1>1, <1>2, <1>3, <1>4, <1>5, <1>6 DEF Next

\* Without a fault, and with a host and a card that go together, the driver never
\* waits for data that do not come, but for a request past 2^32 blocks
THEOREM DriverDoesNotHang ==
  ASSUME MmcSupported
  PROVE  Spec => []NoFaultNoHang
<1>1. Init => HangInv
  BY DEF Init, HangInv
<1>2. BaseInv /\ CleanInv /\ RangeInv /\ HangInv /\ [Next]_vars => HangInv'
  BY NextKeepsHang
<1>3. BaseInv => Supported
  <2> SUFFICES ASSUME BaseInv
               PROVE  Supported
    OBVIOUS
  <2>1. PICK k \in Cards : Kind(bus.card) = Kind(k)
    BY DEF BaseInv, TypeInv, BusInv, CardInv
  <2>2. k.std = bus.card.std /\ k.hc = bus.card.hc /\ k.blocks = bus.card.blocks
    BY <2>1 DEF Kind
  <2>3. host \in Hosts
    BY DEF BaseInv, TypeInv
  <2>4. SdCard(k) \/ (NarrowHost(host) /\ (k.hc => 2 * ((k.blocks * BL) % W) > W))
    BY <2>3 DEF MmcSupported
  <2>. QED  BY <2>2, <2>4 DEF Supported, SdCard, Size
<1>4. Supported /\ HangInv => NoFaultNoHang
  BY DEF HangInv, NoFaultNoHang, Quiet
<1>. QED  BY <1>1, <1>2, <1>3, <1>4, AlwaysBase, AlwaysClean, AlwaysWithin, PTL DEF Spec

-----------------------------------------------------------------------------
(* An SD card that answers is initialised.                                 *)

\* mmc_init ends with the operating condition it has
LEMMA EndKeepsCond ==
  ASSUME BaseInv, InitSteps, pc' = "client"
  PROVE  cond' = cond
<1>1. ASSUME NEW m, NEW b, StartupEnds(m, b)
      PROVE  cond' = cond
  BY <1>1 DEF StartupEnds
<1>2. ASSUME NEW m, NEW b, FreqDone(m, b)
      PROVE  cond' = cond
  BY <1>1, <1>2 DEF FreqDone
<1>3. ASSUME NEW b, NextWidth(b)
      PROVE  cond' = cond
  BY <1>1, <1>3 DEF NextWidth
<1>4. ASSUME NEW after, after \in {"hs", "width"}, NEW r, NEW b, SwitchReturns(after, r, b)
      PROVE  cond' = cond
  <2>1. CASE after = "hs"
    BY <1>4, <2>1 DEF SwitchReturns, HsSwitched, StartupFails
  <2>2. CASE after = "width"
    BY <1>1, <1>3, <1>4, <2>2 DEF SwitchReturns, WidthSwitched
  <2>. QED  BY <1>4, <2>1, <2>2
<1>5. CASE mmc_go_idle \/ mmc_send_if_cond \/ mmc_send_op_cond_idle \/ mmc_send_op_cond_ask
  BY <1>5 DEF mmc_go_idle, mmc_send_if_cond, mmc_send_op_cond_idle, mmc_send_op_cond_ask
<1>6. CASE sd_send_op_cond_app
  BY <1>6 DEF sd_send_op_cond_app, SdOpCondFails, Goto
<1>7. CASE sd_send_op_cond
  BY <1>7 DEF sd_send_op_cond, SdOpCondFails, OpCondDone, Goto
<1>8. CASE mmc_send_op_cond
  BY <1>8 DEF mmc_send_op_cond, OpCondDone, Goto
<1>9. CASE all_send_cid \/ send_relative_addr \/ send_csd
  BY <1>9 DEF all_send_cid, send_relative_addr, send_csd, StartupFails
<1>10. CASE mmc_send_status
  <2>1. loc.after \in {"csd", "hs", "width"}
    BY DEF BaseInv, TypeInv, LocType
  <2>2. ASSUME NEW r, NEW b, StatusReturns(r, b)
        PROVE  cond' = cond
    <3>1. CASE loc.after = "csd"
      BY <2>2, <3>1 DEF StatusReturns, TakeCsd, StartupFails
    <3>2. CASE loc.after # "csd"
      <4>1. SwitchReturns(loc.after, r, b) /\ loc.after \in {"hs", "width"}
        BY <2>1, <2>2, <3>2 DEF StatusReturns
      <4>. QED  BY <1>4, <4>1
    <3>. QED  BY <3>1, <3>2
  <2>. QED  BY <1>10, <2>2 DEF mmc_send_status
<1>11. CASE select_card
  BY <1>2, <1>11 DEF select_card, ChangeFreq, StartupFails
<1>12. CASE startup_ext_csd \/ sd_change_freq_app \/ mmc_change_freq_ext_csd \/ startup_app_cmd
  BY <1>12 DEF startup_ext_csd, sd_change_freq_app, mmc_change_freq_ext_csd, startup_app_cmd,
               StartupFails
<1>13. CASE sd_change_freq_scr
  BY <1>2, <1>13 DEF sd_change_freq_scr, StartupFails
<1>14. CASE sd_change_freq_check
  BY <1>2, <1>14 DEF sd_change_freq_check, StartupFails
<1>15. CASE sd_change_freq_switch
  BY <1>2, <1>15 DEF sd_change_freq_switch, StartupFails
<1>16. ASSUME NEW arg, NEW after, after \in {"hs", "width"}, mmc_switch(arg, after)
       PROVE  cond' = cond
  BY <1>4, <1>16 DEF mmc_switch
<1>17. CASE mmc_change_freq_switch
  BY <1>16, <1>17 DEF mmc_change_freq_switch
<1>18. CASE mmc_change_freq_check
  BY <1>2, <1>18 DEF mmc_change_freq_check, StartupFails
<1>19. CASE startup_bus_width
  BY <1>1, <1>19 DEF startup_bus_width, StartupFails
<1>20. CASE startup_width_switch
  BY <1>16, <1>20 DEF startup_width_switch
<1>21. CASE startup_width_check
  BY <1>1, <1>3, <1>21 DEF startup_width_check
<1>. QED
  BY <1>5, <1>6, <1>7, <1>8, <1>9, <1>10, <1>11, <1>12, <1>13, <1>14, <1>15, <1>17, <1>18,
     <1>19, <1>20, <1>21, Zenon DEF InitSteps

\* No step of mmc_init gives an SD card up that is there and answers
LEMMA SdIsKept ==
  ASSUME BaseInv, AllClean, NoLoss, SdCard(bus.card), cond = "ok", InitSteps, pc' = "client"
  PROVE  ret' = "ok"
<1>0. Supported
  BY DEF Supported
<1>1. ~(pc \in {"mmc_go_idle", "mmc_ask_op_cond", "mmc_op_cond"})
  BY DEF BaseInv, PlaceInv
<1>2. ~(pc \in HsPlaces \cup WidthPlaces)
  BY DEF BaseInv, PlaceInv, AgreeInv
<1>3. CASE mmc_go_idle
  BY <1>3, GoIdleClean
<1>4. CASE mmc_send_if_cond \/ send_csd
  BY <1>4 DEF mmc_send_if_cond, send_csd, Goto
<1>5. CASE sd_send_op_cond_app
  BY <1>5 DEF sd_send_op_cond_app, SdOpCondFails, Goto
<1>6. CASE sd_send_op_cond
  BY <1>6 DEF sd_send_op_cond, SdOpCondFails, OpCondDone, Goto
<1>7. CASE mmc_send_op_cond_idle \/ mmc_send_op_cond_ask \/ mmc_send_op_cond
  BY <1>1, <1>7 DEF mmc_send_op_cond_idle, mmc_send_op_cond_ask, mmc_send_op_cond
<1>8. CASE all_send_cid
  BY <1>8, AllSendCidClean
<1>9. CASE send_relative_addr
  BY <1>9, RelativeAddrClean
<1>10. CASE mmc_send_status
  BY <1>10, StatusClean
<1>11. CASE select_card
  BY <1>0, <1>11, SelectClean
<1>12. CASE startup_ext_csd \/ mmc_change_freq_ext_csd \/ mmc_change_freq_switch \/ mmc_change_freq_check
  BY <1>2, <1>12 DEF startup_ext_csd, mmc_change_freq_ext_csd, mmc_change_freq_switch,
                     mmc_change_freq_check
<1>13. CASE sd_change_freq_app \/ startup_app_cmd
  BY <1>13, ScrAppClean
<1>14. CASE sd_change_freq_scr
  BY <1>0, <1>14, ScrClean
<1>15. CASE sd_change_freq_check
  BY <1>0, <1>15, SwitchCheckClean
<1>16. CASE sd_change_freq_switch
  BY <1>0, <1>16, SwitchSetClean
<1>17. CASE startup_bus_width
  BY <1>17, BusWidthClean
<1>18. CASE startup_width_switch \/ startup_width_check
  BY <1>2, <1>18 DEF startup_width_switch, startup_width_check
<1>. QED
  BY <1>3, <1>4, <1>5, <1>6, <1>7, <1>8, <1>9, <1>10, <1>11, <1>12, <1>13, <1>14, <1>15, <1>16,
     <1>17, <1>18, Zenon DEF InitSteps

LEMMA NextKeepsSd ==
  ASSUME BaseInv, CleanInv, [Next]_vars, pc # "client", pc' = "client", ret' \in Errors
  PROVE  bus'.faults < MaxFaults \/ cond' # "ok" \/ ~SdCard(bus.card)
<1> SUFFICES ASSUME ~(bus'.faults < MaxFaults), cond' = "ok", SdCard(bus.card)
             PROVE  FALSE
  OBVIOUS
<1>1. ~mmc_init
  BY DEF mmc_init
<1>2. ~(\E start \in Starts, blkcnt \in Counts, dst \in Buffers : mmc_bread(start, blkcnt, dst))
  BY DEF mmc_bread
<1>3. ~PollForEver /\ ~(UNCHANGED vars)
  BY DEF PollForEver, vars
<1>4. ~ReadSteps
  <2>1. "0" \notin Errors /\ "blkcnt" \notin Errors
    BY DEF Errors
  <2>. QED  BY <2>1, RoundPlaces DEF ReadSteps, mmc_set_blocklen, mmc_read_blocks,
                                     stop_transmission, BreadReturns, Goto
<1>5. InitSteps
  BY <1>1, <1>2, <1>3, <1>4, Zenon DEF Next
<1>6. cond = "ok"
  BY <1>5, EndKeepsCond
<1>7. bus'.faults = MaxFaults
  <2>1. bus.faults \in 0 .. MaxFaults /\ MaxFaults \in Nat
    BY MmcAssumption DEF BaseInv, TypeInv, BusInv, BusType
  <2>. QED  BY <2>1, NextMild DEF Mild
<1>8. NoLoss /\ AllClean
  <2>1. NoLoss
    BY <1>7, NextMild, QuietWas
  <2>. QED  BY <2>1 DEF CleanInv, Quiet, Supported, NoLoss
<1>9. ret' = "ok"
  BY <1>5, <1>6, <1>8, SdIsKept
<1>. QED  BY <1>9 DEF Errors

\* mmc_init gives up an SD card whose operating condition was established only if
\* something was lost on the lines; hosts and MMC cards may be any
THEOREM SdCardIsInitialised == Spec => GoodCardInitialised
<1>1. BaseInv /\ CleanInv /\ [Next]_vars =>
        [(pc # "client" /\ pc' = "client" /\ ret' \in Errors) =>
           \/ bus'.faults < MaxFaults
           \/ cond' # "ok"
           \/ ~SdCard(bus.card)]_vars
  BY NextKeepsSd
<1>. QED  BY <1>1, AlwaysBase, AlwaysClean, PTL DEF Spec, GoodCardInitialised
=============================================================================
