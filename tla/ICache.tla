------------------------------- MODULE ICache -------------------------------
(***************************************************************************)
(* The instruction cache of the CPU: new_icache.sv (the request register)  *)
(* around i_cache_axi.sv (RAMs, bus state machine, prefetch), with the     *)
(* request port as mycpu_core.sv shares it between fetches and CACHE       *)
(* operations, and the AXI slave and the memory behind it.                 *)
(*                                                                         *)
(* One step is one clock cycle.  Registers are variables, wires are        *)
(* operators, and the inputs of the cycle are chosen by \E.  The way a     *)
(* refill goes to (refill_way_que, plru.sv) and the line the prefetcher    *)
(* offers are free choices.                                                *)
(***************************************************************************)
EXTENDS Integers, FiniteSets

CONSTANTS
  SET_SIZE,       \* number of ways
  GROUP_NUM,      \* number of sets
  LINE_WORDS,     \* LINE_WIDTH / 32
  TAG_NUM,        \* number of tags in the modelled physical memory
  MaxVersion,     \* times a line of memory may be written
  WrittenLines,   \* lines of memory that are written while the cache runs
  Requests,       \* fetches and CACHE operations that may be offered
  PrefetchLines   \* lines the prefetcher may offer

Ways    == 0 .. SET_SIZE - 1
Indices == 0 .. GROUP_NUM - 1
Words   == 0 .. LINE_WORDS - 1
Tags    == 0 .. TAG_NUM - 1
Lines   == [tag : Tags, index : Indices]

(* What is offered on ibus, with cache_valid as CACHE.                     *)
Request ==
  [valid : BOOLEAN, uncache : BOOLEAN, CACHE : BOOLEAN, cache_op : BOOLEAN,
   tag : Tags, index : Indices, offset : Words, way : Ways]

(* A word of memory, known by its address and by the version of its line.  *)
Content == [tag : Tags, index : Indices, off : Words, ver : 0 .. MaxVersion]
NoWord  == [tag |-> -1, index |-> -1, off |-> -1, ver |-> -1]
LineData == [Words -> Content \cup {NoWord}]

Entry == [valid : BOOLEAN, tag : Tags, data : LineData]
Burst == [uncache : BOOLEAN, tag : Tags, index : Indices, off : Words,
          left : 0 .. LINE_WORDS]

ASSUME SizeAssumption ==
  /\ SET_SIZE \in {2, 4}
  /\ GROUP_NUM \in Nat \ {0}
  /\ LINE_WORDS \in Nat \ {0} /\ LINE_WORDS % 2 = 0
  /\ TAG_NUM \in Nat \ {0}
  /\ MaxVersion \in Nat

(* The fetch unit aligns fetches to 8 bytes; only its uncached fetches ask *)
(* for the upper word of a pair. CACHE operations name cached addresses.   *)
ASSUME InputAssumption ==
  /\ Requests \subseteq {r \in Request : /\ r.valid
                                         /\ r.CACHE => ~r.uncache
                                         /\ ~r.uncache => r.offset % 2 = 0}
  /\ PrefetchLines \subseteq Lines
  /\ WrittenLines \subseteq Lines

VARIABLES
  held,        \* the request in m0 that has to be offered again
  m1,          \* the request register while main_state is LOOK
  rb_CACHE,    \* its CACHE bit, which is used when main_state is IDLE too
  data_delay,  \* m1 has been in its stage for more than one cycle
  d_cache_hit, \* what m1 found in its first cycle
  ram,         \* tag, valid and data RAMs
  out,         \* their registered read ports: way_tagv, way_rdata
  bus_state,
  bc,          \* bc_tag, bc_index, bc_offset, bc_uncache; pf: bc_pf_valid;
               \* seen: bc_pf_data_delay
  fill,        \* refill_data, refill_rdy, refill_offset
  rd,          \* slave: the read burst it is answering
  mem,         \* memory: the version of each line
  floor        \* history: the version of each line when it was last invalidated

cpuVars == <<held, m1, rb_CACHE, data_delay, d_cache_hit>>
busVars == <<bus_state, bc, fill, rd>>
vars == <<cpuVars, ram, out, busVars, mem, floor>>

NoData  == [w \in Words |-> NoWord]
NoReq   == [valid |-> FALSE, uncache |-> FALSE, CACHE |-> FALSE, cache_op |-> FALSE,
            tag |-> 0, index |-> 0, offset |-> 0, way |-> 0]
NoEntry == [valid |-> FALSE, tag |-> 0, data |-> NoData]
NoFetch == [tag |-> 0, index |-> 0, offset |-> 0, uncache |-> FALSE,
            pf |-> FALSE, seen |-> FALSE]
NoFill  == [data |-> NoData, rdy |-> {}, off |-> 0]
NoBurst == [uncache |-> FALSE, tag |-> 0, index |-> 0, off |-> 0, left |-> 0]
NoLine  == [tag |-> -1, index |-> -1]

Init ==
  /\ held = NoReq
  /\ m1 = NoReq
  /\ rb_CACHE = FALSE
  /\ data_delay = FALSE
  /\ d_cache_hit = FALSE
  /\ ram = [w \in Ways |-> [i \in Indices |-> NoEntry]]
  /\ out = [w \in Ways |-> NoEntry]
  /\ bus_state = "IDLE"
  /\ bc = NoFetch
  /\ fill = NoFill
  /\ rd = NoBurst
  /\ mem = [l \in Lines |-> 0]
  /\ floor = [l \in Lines |-> 0]

-----------------------------------------------------------------------------
(* The request in m1 against what the RAM ports delivered.                 *)

Fetch(r)   == r.valid /\ ~r.CACHE
CacheOp(r) == r.valid /\ r.CACHE
LineOf(r)  == [tag |-> r.tag, index |-> r.index]

LeastWay(S) == CHOOSE w \in S : \A v \in S : w <= v

Hits     == {w \in Ways : out[w].valid /\ out[w].tag = m1.tag}
HitWay   == IF Hits = {} THEN 0 ELSE LeastWay(Hits)
CacheHit == Hits # {} /\ ~m1.uncache

(* A request for the line on the bus.                                      *)
Doable ==
  /\ m1.tag = bc.tag /\ m1.index = bc.index /\ ~m1.uncache
  /\ bus_state # "IDLE"

Second(r) == r.offset + 1

(* m1_data_ok; beat: the slave presents read data in this cycle. A fetch   *)
(* of two words waits for the second.                                      *)
DataOk(beat) ==
  /\ m1.valid
  /\ \/ Fetch(m1) /\ CacheHit /\ ~data_delay
     \/ /\ Fetch(m1) /\ Doable
        /\ (fill.off = Second(m1) /\ beat) \/ Second(m1) \in fill.rdy
     \/ ~(Fetch(m1) /\ Doable) /\ bc.uncache /\ beat
     \/ CacheOp(m1)

BeatWord == [tag |-> rd.tag, index |-> rd.index, off |-> rd.off,
             ver |-> mem[[tag |-> rd.tag, index |-> rd.index]]]

(* m1_rdata: the low and the high word of a pair. A word that is read      *)
(* alone comes in the half its address says.                               *)
Rdata ==
  IF CacheHit /\ ~data_delay
    THEN <<out[HitWay].data[m1.offset], out[HitWay].data[Second(m1)]>>
  ELSE IF bc.uncache
    THEN IF m1.offset % 2 = 0 THEN <<BeatWord, NoWord>> ELSE <<NoWord, BeatWord>>
  ELSE IF Second(m1) \in fill.rdy THEN <<fill.data[m1.offset], fill.data[Second(m1)]>>
  ELSE <<fill.data[m1.offset], BeatWord>>

-----------------------------------------------------------------------------
(* The two ports of the RAMs.  A CACHE operation writes in its only cycle  *)
(* in m1 and has priority over a refill.                                   *)

(* The request in m0 when req is offered.                                  *)
M0(req) == IF held.valid THEN held ELSE req

WriteIndex == IF CacheOp(m1) THEN m1.index ELSE bc.index

(* With no request in m0 the port reads the set of the line the prefetcher *)
(* offers.                                                                 *)
ReadIndex(m0, pf) == IF m0.valid THEN m0.index ELSE pf.index
Hazard(m0, pf) == ReadIndex(m0, pf) = WriteIndex
Enb(m0, pf) == ~(Hazard(m0, pf) /\ CacheOp(m1))

(* Mutant of AddrOk: a CACHE operation does not wait for the set being      *)
(* fetched.                                                                 *)
AddrOkDuringFetch(m0, pf) == Enb(m0, pf)

AddrOk(m0, pf) ==
  /\ ~(bus_state # "IDLE" /\ m0.CACHE /\ m0.index = bc.index /\ ~bc.uncache)
  /\ Enb(m0, pf)

(* m0 moves to m1 at the end of the cycle.                                 *)
Enters(m0, pf, beat) == m0.valid /\ AddrOk(m0, pf) /\ (~m1.valid \/ DataOk(beat))

UncachedRead(r) == r.valid /\ r.uncache

(* Mutant of Miss: a miss that finds the bus busy is forgotten.             *)
MissAtOnce == Fetch(m1) /\ ~m1.uncache /\ ~CacheHit /\ ~data_delay

Miss ==
  /\ Fetch(m1) /\ ~m1.uncache
  /\ IF data_delay THEN ~d_cache_hit ELSE ~CacheHit

(* The bus takes an uncached fetch while it is still in m0.                *)
TakesM0(m0) ==
  bus_state = "IDLE" /\ ~Miss /\ UncachedRead(m0) /\ ~UncachedRead(m1)

(* new_icache: main_state and the request register, whose CACHE bit is     *)
(* overwritten by whatever is in m0, accepted or not.  mycpu_core holds a  *)
(* CACHE operation until it is accepted; a fetch may be withdrawn, unless  *)
(* it is uncached and on the bus already.                                  *)
Pipeline(m0, pf, beat) ==
  /\ held' = IF ~Enters(m0, pf, beat) /\ (m0.CACHE \/ TakesM0(m0)) THEN m0 ELSE NoReq
  /\ m1' = IF Enters(m0, pf, beat) THEN m0
           ELSE IF DataOk(beat) THEN NoReq ELSE m1
  /\ rb_CACHE' = IF m0.valid /\ (~m1.valid \/ DataOk(beat)) THEN m0.CACHE ELSE rb_CACHE
  /\ data_delay' = (m1.valid /\ ~DataOk(beat))
  /\ d_cache_hit' = (m1.valid /\ ~DataOk(beat) /\ IF data_delay THEN d_cache_hit ELSE CacheHit)

(* Mutants of Refills: the set being refilled may be read by m0; and a CACHE *)
(* operation that cannot move to m1 is waited for as well.                  *)
RefillsBlindly(m0, beat) == bus_state = "REFILL" /\ ~CacheOp(m1)
RefillsAfterM0(m0, beat) ==
  /\ bus_state = "REFILL" /\ ~CacheOp(m1)
  /\ ~(m0.valid /\ m0.index = bc.index /\ (~m1.valid \/ DataOk(beat)))

(* bus_state leaves REFILL, and the line is written: m1 does not write,    *)
(* and no request that can move to m1 reads the same set.                  *)
Refills(m0, beat) ==
  /\ bus_state = "REFILL" /\ ~CacheOp(m1)
  /\ ~(/\ m0.valid /\ m0.index = bc.index
       /\ ~m1.valid \/ DataOk(beat)
       /\ ~m0.CACHE)

(* What the end of the cycle leaves in way w of the set being written; an  *)
(* entry that is not valid has no content. way_wvalid is the stale bit: a  *)
(* line that is refilled after a CACHE operation is lost.                  *)
Written(w, victim, refills, entry) ==
  IF CacheOp(m1)
  THEN IF (IF m1.cache_op THEN w \in Hits ELSE w = m1.way) THEN NoEntry ELSE entry
  ELSE IF refills /\ w = victim
       THEN IF rb_CACHE THEN NoEntry
            ELSE [valid |-> TRUE, tag |-> bc.tag, data |-> fill.data]
  ELSE entry

(* What is read while it is written is shown as the old content: no        *)
(* request may see it (PortIsCurrent). With no request in m0 and no line   *)
(* offered, nothing looks at the port.                                     *)
RamPorts(m0, pf, beat, victim) ==
  /\ ram' = [w \in Ways |->
               [ram[w] EXCEPT ![WriteIndex] = Written(w, victim, Refills(m0, beat), @)]]
  /\ out' = IF Enb(m0, pf) /\ (m0.valid \/ pf # NoLine)
            THEN [w \in Ways |-> ram[w][ReadIndex(m0, pf)]]
            ELSE out

-----------------------------------------------------------------------------
(* The bus state machine.                                                  *)

BusReset == bc' = NoFetch /\ fill' = NoFill /\ rd' = NoBurst

StartFetch(tag, index, offset, uncache, pf) ==
  /\ bus_state' = "RDREQ"
  /\ bc' = [tag |-> tag, index |-> index, offset |-> offset, uncache |-> uncache,
            pf |-> pf, seen |-> FALSE]
  /\ fill' = [NoFill EXCEPT !.off = offset]
  /\ rd' = rd

IdleMiss ==
  /\ bus_state = "IDLE" /\ Miss
  /\ StartFetch(m1.tag, m1.index, m1.offset, FALSE, FALSE)

IdleUncachedRead(m0) ==
  /\ bus_state = "IDLE" /\ ~Miss
  /\ UncachedRead(m0) \/ UncachedRead(m1)
  /\ LET r == IF UncachedRead(m1) THEN m1 ELSE m0
     IN  StartFetch(r.tag, r.index, r.offset, TRUE, FALSE)

PrefetchTurn(m0) ==
  bus_state = "IDLE" /\ ~Miss /\ ~UncachedRead(m1) /\ ~m0.valid

IdlePrefetch(m0, pf) ==
  /\ PrefetchTurn(m0) /\ pf # NoLine
  /\ StartFetch(pf.tag, pf.index, 0, FALSE, TRUE)

IdleStay(m0, pf) ==
  /\ bus_state = "IDLE" /\ ~Miss /\ ~UncachedRead(m0) /\ ~UncachedRead(m1)
  /\ m0.valid \/ pf = NoLine
  /\ UNCHANGED busVars

(* Mutant of PfOff: a prefetch is never cancelled.                          *)
PfOffNever == FALSE

(* bc_pf_off: the line is in the set already.                              *)
PfOff == \E w \in Ways : out[w].valid /\ out[w].tag = bc.tag

Cancelled == bc.pf /\ ~bc.seen /\ PfOff

ReadRequestCancelled ==
  /\ bus_state = "RDREQ" /\ Cancelled
  /\ bus_state' = "IDLE"
  /\ BusReset

ReadRequest(arready) ==
  /\ bus_state = "RDREQ" /\ ~Cancelled
  /\ bc' = [bc EXCEPT !.seen = bc.pf]
  /\ IF arready
     THEN /\ bus_state' = "READ"
          /\ rd' = [uncache |-> bc.uncache, tag |-> bc.tag, index |-> bc.index,
                    off |-> bc.offset, left |-> IF bc.uncache THEN 1 ELSE LINE_WORDS]
     ELSE UNCHANGED <<bus_state, rd>>
  /\ UNCHANGED fill

(* Mutant of NextWord: the burst does not wrap.                             *)
NextWordUp(o) == o + 1

NextWord(o) == IF o = LINE_WORDS - 1 THEN 0 ELSE o + 1

(* READ: the slave answers a wrapping burst; rready is always up.          *)
ReadUncached(beat) ==
  /\ bus_state = "READ" /\ bc.uncache /\ beat
  /\ bus_state' = "IDLE"
  /\ BusReset

Read(beat) ==
  /\ bus_state = "READ" /\ ~(bc.uncache /\ beat)
  /\ IF beat
     THEN /\ fill' = [data |-> [fill.data EXCEPT ![fill.off] = BeatWord],
                      rdy |-> fill.rdy \cup {fill.off}, off |-> NextWord(fill.off)]
          /\ rd' = IF rd.left = 1 THEN NoBurst
                   ELSE [rd EXCEPT !.left = @ - 1, !.off = NextWord(@)]
          /\ bus_state' = IF rd.left = 1 THEN "REFILL" ELSE "READ"
     ELSE UNCHANGED <<bus_state, fill, rd>>
  /\ UNCHANGED bc

Refill(m0, beat) ==
  /\ bus_state = "REFILL"
  /\ IF Refills(m0, beat)
     THEN bus_state' = "IDLE" /\ BusReset
     ELSE UNCHANGED busVars

BusStep(m0, pf, beat, arready) ==
  \/ IdleMiss
  \/ IdleUncachedRead(m0)
  \/ IdlePrefetch(m0, pf)
  \/ IdleStay(m0, pf)
  \/ ReadRequestCancelled
  \/ ReadRequest(arready)
  \/ ReadUncached(beat)
  \/ Read(beat)
  \/ Refill(m0, beat)

-----------------------------------------------------------------------------
(* Memory, and the history of invalidations.                               *)

(* Another master (the data cache) writes line l.                          *)
Memory(l) ==
  mem' = IF l = NoLine THEN mem ELSE [mem EXCEPT ![l] = @ + 1]

(* The lines the CACHE operation in m1 invalidates.                        *)
Invalidated ==
  IF ~CacheOp(m1) THEN {}
  ELSE IF m1.cache_op THEN {LineOf(m1)}
  ELSE {[tag |-> t, index |-> m1.index] :
          t \in {s \in Tags : ram[m1.way][m1.index].valid /\ ram[m1.way][m1.index].tag = s}}

History == floor' = [l \in Lines |-> IF l \in Invalidated THEN mem[l] ELSE floor[l]]

Cycle(req, pf, beat, arready, victim, written) ==
  /\ Pipeline(M0(req), pf, beat)
  /\ RamPorts(M0(req), pf, beat, victim)
  /\ BusStep(M0(req), pf, beat, arready)
  /\ Memory(written)
  /\ History

(* The inputs that matter in the current state.                            *)
Offers == IF held.valid THEN {NoReq} ELSE Requests \cup {NoReq}
PrefetchOffers(m0) == IF PrefetchTurn(m0) THEN PrefetchLines \cup {NoLine} ELSE {NoLine}
Beats == IF bus_state = "READ" THEN BOOLEAN ELSE {FALSE}
Accepts == IF bus_state = "RDREQ" THEN BOOLEAN ELSE {FALSE}
VictimChoices == IF bus_state = "REFILL" THEN Ways ELSE {0}
Writes == {NoLine} \cup {l \in WrittenLines : mem[l] < MaxVersion}

Next ==
  \E req \in Offers, beat \in Beats, arready \in Accepts, victim \in VictimChoices,
     written \in Writes : \E pf \in PrefetchOffers(M0(req)) :
       Cycle(req, pf, beat, arready, victim, written)

Spec == Init /\ [][Next]_vars

-----------------------------------------------------------------------------
(* Fairness.  The clock runs while there is something to do, and the slave *)
(* accepts every address and presents every beat in the end.               *)

Turn(req, beat, arready) ==
  \E victim \in VictimChoices, written \in Writes, pf \in PrefetchOffers(M0(req)) :
    Cycle(req, pf, beat, arready, victim, written)

ClockCycle ==
  /\ bus_state \in {"IDLE", "REFILL"}
  /\ held.valid \/ m1.valid \/ bus_state = "REFILL"
  /\ \E req \in Offers : Turn(req, FALSE, FALSE)

RequestCycle == bus_state = "RDREQ" /\ \E req \in Offers : Turn(req, FALSE, TRUE)

ReadCycle == bus_state = "READ" /\ \E req \in Offers : Turn(req, TRUE, FALSE)

LiveSpec == Spec /\ WF_vars(ClockCycle) /\ WF_vars(RequestCycle) /\ WF_vars(ReadCycle)

-----------------------------------------------------------------------------
(* Properties.                                                             *)

TypeOK ==
  /\ held \in Requests \cup {NoReq}
  /\ m1 \in Requests \cup {NoReq}
  /\ rb_CACHE \in BOOLEAN
  /\ data_delay \in BOOLEAN
  /\ d_cache_hit \in BOOLEAN
  /\ ram \in [Ways -> [Indices -> Entry]]
  /\ out \in [Ways -> Entry]
  /\ bus_state \in {"IDLE", "RDREQ", "READ", "REFILL"}
  /\ bc \in [tag : Tags, index : Indices, offset : Words, uncache : BOOLEAN,
             pf : BOOLEAN, seen : BOOLEAN]
  /\ fill \in [data : LineData, rdy : SUBSET Words, off : Words]
  /\ rd \in Burst
  /\ mem \in [Lines -> 0 .. MaxVersion]
  /\ floor \in [Lines -> 0 .. MaxVersion]

(* A word that was asked for, as memory held it at some time since its     *)
(* line was last invalidated.                                              *)
Fresh(word, r, o) ==
  /\ word \in Content
  /\ <<word.tag, word.index, word.off>> = <<r.tag, r.index, o>>
  /\ floor[LineOf(r)] <= word.ver /\ word.ver <= mem[LineOf(r)]

(* Whenever a fetch is answered, the words are those it asked for, both of *)
(* them, and never older than the last CACHE operation on their line: code *)
(* that is written and then invalidated is what is executed, with refills, *)
(* prefetches and answers out of the refill buffer under way.              *)
FetchIsFresh ==
  \A beat \in Beats :
    (Fetch(m1) /\ DataOk(beat)) =>
      IF ~m1.uncache
        THEN Fresh(Rdata[1], m1, m1.offset) /\ Fresh(Rdata[2], m1, m1.offset + 1)
        ELSE Rdata[1 + (m1.offset % 2)] = BeatWord /\ LineOf(rd) = LineOf(m1)
               /\ rd.off = m1.offset

(* No two ways of a set hold the same line, whatever is prefetched and     *)
(* whichever way a refill takes.                                           *)
NoDuplicateLine ==
  \A i \in Indices, v, w \in Ways :
    (ram[v][i].valid /\ ram[w][i].valid /\ ram[v][i].tag = ram[w][i].tag) => v = w

(* A request sees the RAM as it is: no refill and no CACHE operation wrote *)
(* its set in the cycle in which it was read.                              *)
PortIsCurrent ==
  (m1.valid /\ ~data_delay) => \A w \in Ways : out[w] = ram[w][m1.index]

(* A fetch that stalls the pipeline is answered.                           *)
StalledFetchAnswered == (m1.valid /\ data_delay) ~> ~(m1.valid /\ data_delay)

(* A CACHE operation that is held back gets its turn, and with it the      *)
(* fetches that wait behind it.                                            *)
HeldRequestEnters == held.valid ~> ~held.valid
=============================================================================
