---------------------------- MODULE DCacheSystem ----------------------------
(***************************************************************************)
(* The data cache as the CPU is built (cpu_wrapper.sv: CTRL_PLRU_ENABLE    *)
(* and CTRL_DPREF_ENABLE are 1): DCache with the victim that PLRU chooses  *)
(* and the line that Prefetcher offers in place of a free choice.          *)
(***************************************************************************)
EXTENDS DCacheProps

VARIABLES
  record,                              \* PLRU
  pf_state, last_miss_addr, fetch_addr, \* Prefetcher
  newest    \* history: the way of each set that was used last, -1 if none

pfVars == <<pf_state, last_miss_addr, fetch_addr>>
systemVars == <<vars, record, pfVars, newest>>

LineCount == TAG_NUM * GROUP_NUM

P == INSTANCE PLRU
F == INSTANCE Prefetcher

LineNumber(r) == r.tag * GROUP_NUM + r.index
LineAt(n) == [tag |-> n \div GROUP_NUM, index |-> n % GROUP_NUM]

(* ms_valid/ms_addr and rq_valid/rq_addr                                   *)
MissOnBus == IF Miss /\ BusIdle THEN {LineNumber(m1)} ELSE {}
Requested == IF Cached(m1) /\ ~data_delay THEN {LineNumber(m1)} ELSE {}

Offered == IF F!PfValid THEN LineAt(F!PfAddr(Requested)) ELSE NoLine

(* way_to_replace                                                          *)
WayToReplaceLru == P!LruWay(bc.index)
WayToReplace == IF InvalidWays = {} THEN P!LruWay(bc.index) ELSE LeastWay(InvalidWays)

(* lru_valid, lru_index and ask_way                                        *)
RecordUse ==
  IF bus_state = "REFILL"
  THEN /\ P!Access(bc.index, WayToReplace)
       /\ newest' = [newest EXCEPT ![bc.index] = WayToReplace]
  ELSE IF Cached(m1) /\ ~data_delay /\ CacheHit
  THEN /\ P!Access(m1.index, HitWay)
       /\ newest' = [newest EXCEPT ![m1.index] = HitWay]
  ELSE UNCHANGED <<record, newest>>

SystemInit ==
  /\ Init
  /\ P!Init
  /\ F!Init
  /\ newest = [i \in Indices |-> -1]

SystemCycle(req, beat, ack, wready) ==
  /\ Cycle(req, beat, ack, wready, WayToReplace, Offered)
  /\ RecordUse
  /\ F!Step(MissOnBus, Requested, PrefetchTurn(M0(req)) /\ F!PfValid)

SystemNext ==
  \E req \in Offers, beat \in Beats, ack \in Acks, wready \in WReadies :
    SystemCycle(req, beat, ack, wready)

SystemSpec == SystemInit /\ [][SystemNext]_systemVars

-----------------------------------------------------------------------------
SystemTypeOK ==
  /\ record \in [Indices -> P!Record]
  /\ pf_state \in {"IDLE", "MISS", "FETCH", "REST"}
  /\ last_miss_addr \in 0 .. LineCount - 1
  /\ fetch_addr \in 0 .. LineCount - 1

(* The built cache behaves as DCache with a free choice of victim and of   *)
(* prefetched line: it never evicts while a way is free, and prefetches    *)
(* only in its turn.                                                       *)
ImplementsDCache == Spec

(* The way a refill takes from a full set is not the one used last.        *)
VictimIsNotNewest ==
  bus_state = "REFILL" /\ InvalidWays = {} => WayToReplace # newest[bc.index]

(* The bus never spends a burst on the line the program is using: the      *)
(* stream runs ahead of the requests.                                      *)
PrefetchRunsAhead ==
  [][\A line \in Lines :
       /\ BusIdle /\ bus_state' = "RDREQ" /\ ~Miss
       /\ ~bc'.uncache /\ bc'.tag = line.tag /\ bc'.index = line.index
     => ~(Cached(m1) /\ m1.tag = line.tag /\ m1.index = line.index)]_systemVars
=============================================================================
