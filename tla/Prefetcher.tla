----------------------------- MODULE Prefetcher -----------------------------
(***************************************************************************)
(* prefetcher.sv: two misses on consecutive lines start a stream; each     *)
(* line the cache takes from the stream must be asked for before the next  *)
(* one is offered.  A line is a number; the line after the last is line 0, *)
(* as addresses wrap.                                                      *)
(***************************************************************************)
EXTENDS Integers

CONSTANT LineCount  \* number of lines of the physical memory

VARIABLES pf_state, last_miss_addr, fetch_addr

pfVars == <<pf_state, last_miss_addr, fetch_addr>>

NextLine(line) == (line + 1) % LineCount

(* The addresses are written before they are read.                         *)
Init == pf_state = "IDLE" /\ last_miss_addr = 0 /\ fetch_addr = 0

(* A miss or a request of this cycle is a set with at most one line.       *)
PfValid == pf_state = "FETCH"
PfAddrStuck(rq) == fetch_addr
PfAddr(rq) ==
  IF pf_state = "FETCH" /\ fetch_addr \in rq THEN NextLine(fetch_addr) ELSE fetch_addr

Asleep(ms) ==
  /\ pf_state = "IDLE"
  /\ pf_state' = IF ms # {} THEN "MISS" ELSE "IDLE"

Learn(ms) ==
  /\ pf_state = "MISS"
  /\ pf_state' = IF NextLine(last_miss_addr) \in ms THEN "FETCH" ELSE "MISS"

Fetch(ms, answer) ==
  /\ pf_state = "FETCH"
  /\ pf_state' = IF ms # {} /\ fetch_addr \notin ms THEN "MISS"
                 ELSE IF answer THEN "REST" ELSE "FETCH"

Rest(ms, rq) ==
  /\ pf_state = "REST"
  /\ pf_state' = IF fetch_addr \in rq THEN "FETCH"
                 ELSE IF ms # {} THEN "MISS" ELSE "REST"

(* One clock cycle: ms and rq are the miss and the request of the cycle,   *)
(* answer says that the bus takes the offered line.                        *)
Step(ms, rq, answer) ==
  /\ Asleep(ms) \/ Learn(ms) \/ Fetch(ms, answer) \/ Rest(ms, rq)
  /\ last_miss_addr' = IF pf_state' = "MISS" /\ ms # {}
                       THEN CHOOSE line \in ms : TRUE ELSE last_miss_addr
  /\ fetch_addr' =
       IF pf_state = "MISS" /\ pf_state' = "FETCH"
       THEN NextLine(CHOOSE line \in ms : TRUE)
       ELSE IF \/ pf_state = "FETCH" /\ fetch_addr \in ms \cup rq
               \/ pf_state = "REST" /\ fetch_addr \in rq
       THEN NextLine(fetch_addr)
       ELSE fetch_addr
=============================================================================
