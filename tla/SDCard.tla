------------------------------- MODULE SDCard -------------------------------
(***************************************************************************)
(* External: the SD or MMC card behind the controller, as far as mmc.c can *)
(* tell. A card is a record of what it is                                  *)
(*   std     "SD_1_0", "SD_1_10", "SD_2", "MMC_3" or "MMC_4"               *)
(*   hc, four, hs    high capacity, 4 data lines, high speed               *)
(*   blocks  its size                                                      *)
(* and of the state it is in                                               *)
(*   state   "idle", "ready", "ident", "stby", "tran" or "data"            *)
(*   rca     its relative address, 0 when it has none                      *)
(*   app     the last command was an APP_CMD it answered                   *)
(*   cond    it has seen SEND_IF_COND                                      *)
(*   width   the number of data lines in use                               *)
(* A command is a record with idx and arg. A command that is illegal in    *)
(* the state of the card is not answered.                                  *)
(***************************************************************************)
EXTENDS Integers

(* The command indices of mmc.h.                                           *)
GO_IDLE_STATE == 0
SEND_OP_COND == 1
ALL_SEND_CID == 2
SEND_RELATIVE_ADDR == 3
SWITCH == 6             \* MMC_CMD_SWITCH, SD_CMD_SWITCH_FUNC, SD_CMD_APP_SET_BUS_WIDTH
SELECT_CARD == 7
SEND_IF_COND == 8       \* and MMC_CMD_SEND_EXT_CSD
SEND_CSD == 9
STOP_TRANSMISSION == 12
SEND_STATUS == 13
SET_BLOCKLEN == 16
READ_SINGLE_BLOCK == 17
READ_MULTIPLE_BLOCK == 18
APP_SEND_OP_COND == 41
APP_SEND_SCR == 51
APP_CMD == 55

(* The arguments of SWITCH that make a difference: SD_SWITCH_CHECK and     *)
(* SD_SWITCH_SWITCH, EXT_CSD_HS_TIMING, and the bus width as a number of   *)
(* lines.                                                                  *)
CheckFunction == 100
SwitchFunction == 101
HsTiming == 102

SdVersions == {"SD_1_0", "SD_1_10", "SD_2"}
SdCard(c) == c.std \in SdVersions

CardRecords(sizes) ==
  [std : SdVersions \cup {"MMC_3", "MMC_4"}, hc : BOOLEAN, four : BOOLEAN, hs : BOOLEAN,
   blocks : sizes, state : {"idle", "ready", "ident", "stby", "tran", "data"},
   rca : 0 .. 2, app : BOOLEAN, cond : BOOLEAN, width : {1, 4, 8}]

PoweredUp(c) == [c EXCEPT !.state = "idle", !.rca = 0, !.app = FALSE,
                          !.cond = FALSE, !.width = 1]

Legal(c, m) ==
  CASE m.idx = GO_IDLE_STATE -> TRUE
    [] m.idx = SEND_IF_COND ->
         \/ c.std = "SD_2" /\ c.state = "idle"
         \/ c.std = "MMC_4" /\ c.state = "tran"
    [] m.idx = SEND_OP_COND -> ~SdCard(c) /\ c.state = "idle"
    [] m.idx = APP_SEND_OP_COND -> c.app /\ c.state = "idle"
    [] m.idx = APP_CMD -> SdCard(c) /\ c.state \in {"idle", "stby", "tran"} /\ m.arg = c.rca
    [] m.idx = ALL_SEND_CID -> c.state = "ready"
    [] m.idx = SEND_RELATIVE_ADDR -> c.state = "ident"
    [] m.idx \in {SEND_CSD, SELECT_CARD} -> c.state = "stby" /\ m.arg = c.rca
    [] m.idx = SEND_STATUS -> c.state \in {"stby", "tran", "data"} /\ m.arg = c.rca
    [] m.idx = APP_SEND_SCR -> c.app /\ c.state = "tran"
    [] m.idx = SWITCH -> c.state = "tran" /\ (c.app \/ c.std \in {"SD_1_10", "SD_2", "MMC_4"})
    [] m.idx \in {SET_BLOCKLEN, READ_SINGLE_BLOCK, READ_MULTIPLE_BLOCK} -> c.state = "tran"
    [] m.idx = STOP_TRANSMISSION -> c.state = "data"
    [] OTHER -> FALSE

(* What a legal command may make of the card. A card that is asked for its *)
(* operating condition may not be ready yet, and a high capacity card      *)
(* waits for a host that says it can use one; an SD card picks a new       *)
(* address, an MMC card takes the one it is given.                         *)
Effects(c, m) ==
  LET d == [c EXCEPT !.app = FALSE] IN
  CASE m.idx = GO_IDLE_STATE -> {PoweredUp(c)}
    [] m.idx = SEND_IF_COND -> {[d EXCEPT !.cond = TRUE]}
    [] m.idx \in {SEND_OP_COND, APP_SEND_OP_COND} ->
         {d} \cup (IF m.arg = 0 \/ (c.std = "SD_2" /\ c.hc /\ ~(m.arg = 2 /\ c.cond))
                     THEN {} ELSE {[d EXCEPT !.state = "ready"]})
    [] m.idx = APP_CMD -> {[c EXCEPT !.app = TRUE]}
    [] m.idx = ALL_SEND_CID -> {[d EXCEPT !.state = "ident"]}
    [] m.idx = SEND_RELATIVE_ADDR ->
         {[d EXCEPT !.state = "stby", !.rca = r] :
            r \in IF SdCard(c) THEN {1, 2} ELSE {m.arg}}
    [] m.idx = SELECT_CARD -> {[d EXCEPT !.state = "tran"]}
    [] m.idx = SWITCH /\ m.arg \in {1, 4, 8} -> {[d EXCEPT !.width = m.arg]}
    [] m.idx = READ_MULTIPLE_BLOCK -> {[d EXCEPT !.state = "data"]}
    [] m.idx = STOP_TRANSMISSION -> {[d EXCEPT !.state = "tran"]}
    [] OTHER -> {d}

(* The block an address stands for, BL being the block length.             *)
Place(c, arg, BL) == IF c.hc THEN arg ELSE arg \div BL

(* The blocks a read asks for are on the card.                             *)
OnCard(c, m, BL) ==
  m.idx \in {READ_SINGLE_BLOCK, READ_MULTIPLE_BLOCK} =>
    Place(c, m.arg, BL) + m.xfer.n <= c.blocks
=============================================================================
