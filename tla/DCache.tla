------------------------------- MODULE DCache -------------------------------
(***************************************************************************)
(* The data cache of the CPU: new_dcache.sv (request registers and skid    *)
(* buffer) around d_cache_axi.sv (RAMs, bus state machine, uncached write  *)
(* queue) together with the AXI slave and the memory behind it.            *)
(*                                                                         *)
(* One step is one clock cycle.  Registers are variables, wires are        *)
(* operators.  The inputs of a cycle are chosen by \E: the request the     *)
(* pipeline offers, the line the prefetcher offers, the handshakes of the  *)
(* slave and the way the replacement policy picks among valid ways.        *)
(*                                                                         *)
(* Data is modelled one byte lane at a time: every merge in the code is a  *)
(* bitwise mux under a byte strobe, so a word is the value of one lane and *)
(* its strobe is one bit.                                                  *)
(***************************************************************************)
EXTENDS Integers, Sequences, FiniteSets

CONSTANTS
  SET_SIZE,       \* number of ways
  GROUP_NUM,      \* number of sets
  LINE_WORDS,     \* LINE_WIDTH / 32
  TAG_NUM,        \* number of tags in the modelled physical memory
  UW_FIFO_DEPTH,  \* capacity of the uncached write queue
  Vals,           \* values of a byte lane
  Requests,       \* requests the pipeline may offer
  PrefetchLines   \* lines the prefetcher may offer, {} when it is disabled

Ways    == 0 .. SET_SIZE - 1
Indices == 0 .. GROUP_NUM - 1
Words   == 0 .. LINE_WORDS - 1
Tags    == 0 .. TAG_NUM - 1
Lines   == [tag : Tags, index : Indices]
LineData == [Words -> Vals]

(* rq_fifo_t, with the valid bit that main_state or fifo_full supplies.    *)
Request ==
  [valid : BOOLEAN, uncache : BOOLEAN, op : BOOLEAN, CACHE : BOOLEAN,
   cache_op : BOOLEAN, cache_writeback : BOOLEAN, tag : Tags,
   index : Indices, offset : Words, way : Ways, wdata : Vals, wstrb : BOOLEAN]

Entry    == [valid : BOOLEAN, tag : Tags, dirt : BOOLEAN, data : LineData]
WriteReq == [uncache : BOOLEAN, tag : Tags, index : Indices, offset : Words,
             wstrb : BOOLEAN, data : LineData]
Burst    == [uncache : BOOLEAN, tag : Tags, index : Indices, off : Words,
             left : 0 .. LINE_WORDS]

ASSUME SizeAssumption ==
  /\ SET_SIZE \in {2, 4}
  /\ GROUP_NUM \in Nat \ {0}
  /\ LINE_WORDS \in Nat \ {0}
  /\ TAG_NUM \in Nat \ {0}
  /\ UW_FIFO_DEPTH \in Nat \ {0}
  /\ 0 \in Vals

ASSUME InputAssumption ==
  /\ Requests \subseteq {r \in Request : r.valid /\ (r.CACHE => ~r.op)}
  /\ PrefetchLines \subseteq Lines

VARIABLES
  skid,        \* new_dcache: ff_req while fifo_full
  m1,          \* new_dcache: rb_req while main_state is LOOK
  data_delay,  \* m1 has been in its stage for more than one cycle
  d,           \* the d_* registers: what m1 read in its first cycle
  fwd,         \* m1_forward and rdata_t
  ram,         \* tag, valid, dirty and data RAMs
  out,         \* their registered read ports: way_tagv, way_dirt, way_rdata
  uw,          \* uncached writes waiting for the bus
  bus_state,
  bc,          \* bc_tag, bc_index, bc_offset, bc_uncache, bc_ret_off
  fill,        \* refill_data, refill_rdy, refill_strobe, refill_dirty
  wt,          \* the write on the bus: bc_addr/bc_data/... or bc_write_back_*
  wb_cnt,      \* bc_wb_cnt
  rd,          \* slave: the read burst it is answering
  wr,          \* slave: the write burst it is accepting
  mem          \* slave: memory and device registers

cpuVars == <<skid, m1, data_delay, d, fwd>>
busVars == <<bus_state, bc, fill, wt, wb_cnt>>
slaveVars == <<rd, wr, mem>>
vars == <<cpuVars, ram, out, uw, busVars, slaveVars>>

ZeroLine == [w \in Words |-> 0]

NoReq ==
  [valid |-> FALSE, uncache |-> FALSE, op |-> FALSE, CACHE |-> FALSE,
   cache_op |-> FALSE, cache_writeback |-> FALSE, tag |-> 0, index |-> 0,
   offset |-> 0, way |-> 0, wdata |-> 0, wstrb |-> FALSE]
NoEntry == [valid |-> FALSE, tag |-> 0, dirt |-> FALSE, data |-> ZeroLine]
NoLatch == [hit |-> FALSE, dirt |-> FALSE, tag |-> 0, data |-> ZeroLine]
NoFetch == [tag |-> 0, index |-> 0, offset |-> 0, uncache |-> FALSE, ret_off |-> 0]
NoFill  == [data |-> ZeroLine, rdy |-> {}, strobe |-> {}, dirty |-> FALSE]
NoWrite == [uncache |-> FALSE, tag |-> 0, index |-> 0, offset |-> 0,
            wstrb |-> FALSE, data |-> ZeroLine]
NoBurst == [uncache |-> FALSE, tag |-> 0, index |-> 0, off |-> 0, left |-> 0]
NoLine  == [tag |-> -1, index |-> -1]

Init ==
  /\ skid = NoReq
  /\ m1 = NoReq
  /\ data_delay = FALSE
  /\ d = NoLatch
  /\ fwd = [valid |-> FALSE, data |-> 0]
  /\ ram = [w \in Ways |-> [i \in Indices |-> NoEntry]]
  /\ out = [w \in Ways |-> NoEntry]
  /\ uw = <<>>
  /\ bus_state = "IDLE"
  /\ bc = NoFetch
  /\ fill = NoFill
  /\ wt = NoWrite
  /\ wb_cnt = 0
  /\ rd = NoBurst
  /\ wr = NoBurst
  /\ mem = [t \in Tags |-> [i \in Indices |-> ZeroLine]]

-----------------------------------------------------------------------------
(* The request in m1 against what the RAM ports delivered.                 *)

Load(r)  == r.valid /\ ~r.op /\ ~r.CACHE
Store(r) == r.valid /\ r.op
Cached(r) == r.valid /\ ~r.uncache /\ ~r.CACHE

LeastWay(S) == CHOOSE w \in S : \A v \in S : w <= v

Hits     == {w \in Ways : out[w].valid /\ out[w].tag = m1.tag}
HitWay   == IF Hits = {} THEN 0 ELSE LeastWay(Hits)
CacheHit == m1.valid /\ Hits # {} /\ ~m1.uncache

(* The first cycle of a store that hits: the RAM is written at its end.    *)
StoreHit == m1.op /\ CacheHit /\ ~data_delay

InvalidatesNamedWay(w) == m1.CACHE /\ ~data_delay /\ w = m1.way

(* The first cycle of a CACHE operation: it clears a valid bit.            *)
Invalidates(w) ==
  /\ m1.CACHE
  /\ ~data_delay
  /\ IF m1.cache_op THEN CacheHit /\ w \in Hits ELSE w = m1.way

(* The request can be served by the line being fetched.                    *)
Doable ==
  /\ m1.valid /\ m1.tag = bc.tag /\ m1.index = bc.index /\ ~m1.uncache
  /\ bus_state \in {"RDREQ", "READ"}

rready == ~(Store(m1) /\ Doable)

UwFull == Len(uw) = UW_FIFO_DEPTH
UwPushUnguarded == Store(m1) /\ m1.uncache
UwPush == Store(m1) /\ m1.uncache /\ ~UwFull

Lane(old, new, strobe) == IF strobe THEN new ELSE old

(* m1_data_ok; beat: the slave presents read data in this cycle.           *)
DataOk(beat) ==
  /\ m1.valid
  /\ \/ ~m1.CACHE /\ CacheHit /\ ~data_delay
     \/ Load(m1) /\ ~m1.uncache /\ fwd.valid
     \/ /\ Load(m1) /\ Doable
        /\ (beat /\ bc.ret_off = m1.offset) \/ m1.offset \in fill.rdy
     \/ Store(m1) /\ ~m1.uncache /\ (bus_state = "IDLE" \/ Doable)
     \/ Store(m1) /\ m1.uncache /\ ~UwFull
     \/ ~(Load(m1) /\ Doable) /\ bc.uncache /\ beat /\ rready
     \/ /\ m1.CACHE
        /\ \/ ~m1.cache_writeback
           \/ ~m1.cache_op /\ ~data_delay /\ ~out[m1.way].dirt
           \/ m1.cache_op /\ ~data_delay /\ ~(out[HitWay].dirt /\ CacheHit)
           \/ bus_state = "IDLE"

BeatData == mem[rd.tag][rd.index][rd.off]
BeatOverStore == BeatData
MergedBeat ==
  Lane(BeatData, fill.data[bc.ret_off], bc.ret_off \in fill.strobe)

(* m1_rdata, the value a load returns in the cycle its DataOk is true.     *)
Rdata(beat) ==
  IF fwd.valid THEN fwd.data
  ELSE IF CacheHit /\ ~data_delay THEN out[HitWay].data[m1.offset]
  ELSE IF bc.uncache THEN BeatData
  ELSE IF beat /\ bc.ret_off = m1.offset THEN MergedBeat
  ELSE fill.data[m1.offset]

-----------------------------------------------------------------------------
(* The read port of the RAMs is shared by m0 (tags of the next request)    *)
(* and the bus controller (tags of the set it is about to refill).         *)

(* The request in m0 when the pipeline offers req.                         *)
M0(req) == IF skid.valid THEN skid ELSE req

BlockedWhileIdle(m0) == m0.CACHE /\ m0.index = bc.index

Blocked(m0) ==
  /\ m0.CACHE /\ m0.index = bc.index /\ ~bc.uncache
  /\ bus_state \in {"RDREQ", "READ"}

(* rprio = RP_RTAGV *)
ReadsTags(m0, beat) == m0.valid /\ (~m1.valid \/ DataOk(beat)) /\ ~Blocked(m0)

WriteIndex == IF bus_state = "REFILL" THEN bc.index ELSE m1.index
ReadIndex(m0, beat) == IF ReadsTags(m0, beat) THEN m0.index ELSE bc.index
Hazard(m0, beat) == ReadIndex(m0, beat) = WriteIndex

Enb(m0, beat) ==
  Hazard(m0, beat) =>
    /\ ~StoreHit
    /\ ~(m1.CACHE /\ ~data_delay /\ (m1.cache_op => CacheHit))
    /\ bus_state # "REFILL"

M0ForwardAnyTag(m0, beat) ==
  Hazard(m0, beat) /\ StoreHit /\ m0.offset = m1.offset

M0Forward(m0, beat) ==
  /\ Hazard(m0, beat) /\ StoreHit
  /\ m0.offset = m1.offset /\ m0.tag = m1.tag

AddrOk(m0, beat) ==
  /\ ~Blocked(m0)
  /\ \/ Enb(m0, beat) /\ ReadsTags(m0, beat)
     \/ M0Forward(m0, beat) /\ Load(m0) /\ ~m0.uncache

(* m0 moves to m1 at the end of the cycle.                                 *)
Enters(m0, beat) == AddrOk(m0, beat) /\ (~m1.valid \/ DataOk(beat))

ReadsVictimsBlindly(m0, beat) == ~ReadsTags(m0, beat)

(* The bus controller gets the read port, as READ needs to go to REFILL.   *)
ReadsVictims(m0, beat) == ~ReadsTags(m0, beat) /\ Enb(m0, beat)

(* new_dcache: the skid buffer, main_state and rb_req; d_cache_axi: the    *)
(* registers that keep what the request read in its first cycle.  They are *)
(* only read while that request is in m1, so they are cleared when it goes.*)
Pipeline(m0, beat) ==
  /\ skid' = IF Enters(m0, beat) THEN NoReq ELSE m0
  /\ m1' = IF Enters(m0, beat) THEN m0
           ELSE IF DataOk(beat) THEN NoReq ELSE m1
  /\ data_delay' = ~Enters(m0, beat)
  /\ d' = IF Enters(m0, beat) \/ DataOk(beat) \/ ~m1.valid THEN NoLatch
          ELSE IF data_delay THEN d
          ELSE LET w == IF m1.cache_op THEN HitWay ELSE m1.way
               IN  IF m1.CACHE
                   THEN [hit |-> CacheHit, dirt |-> out[w].dirt,
                         tag |-> out[w].tag, data |-> out[w].data]
                   ELSE [NoLatch EXCEPT !.hit = CacheHit]
  /\ fwd' = IF M0Forward(m0, beat) /\ m0.valid
            THEN [valid |-> TRUE,
                  data |-> Lane(out[HitWay].data[m1.offset], m1.wdata, m1.wstrb)]
            ELSE [valid |-> FALSE, data |-> 0]

-----------------------------------------------------------------------------
(* Replacement.  way_to_replace is the first invalid way of the set on the *)
(* read port; among valid ways the PLRU or LFSR choice is left open.       *)

InvalidWays == {w \in Ways : ~out[w].valid}
Victims == IF InvalidWays = {} THEN Ways ELSE {LeastWay(InvalidWays)}

DuplicationUnchecked == FALSE

(* refill_off: the fetched line is in the set already.                     *)
Duplication == \E w \in Ways : out[w].valid /\ out[w].tag = bc.tag
Refills == bus_state = "REFILL" /\ ~Duplication

(* What the end of the cycle leaves in way w of the set being written.     *)
Written(w, victim, entry) ==
  IF Refills
  THEN IF w = victim
       THEN [valid |-> TRUE, tag |-> bc.tag, dirt |-> fill.dirty, data |-> fill.data]
       ELSE entry
  ELSE IF StoreHit /\ w \in Hits
       THEN [entry EXCEPT !.dirt = TRUE,
                          !.data[m1.offset] = Lane(@, m1.wdata, m1.wstrb)]
  ELSE IF Invalidates(w)
       THEN [entry EXCEPT !.valid = FALSE, !.tag = bc.tag,
                          !.dirt = @ /\ m1.cache_op /\ w # HitWay]
  ELSE entry

RamPorts(m0, beat, victim) ==
  /\ ram' = [w \in Ways |->
               [ram[w] EXCEPT ![WriteIndex] = Written(w, victim, @)]]
  /\ out' = IF Enb(m0, beat)
            THEN [w \in Ways |-> ram[w][ReadIndex(m0, beat)]]
            ELSE out

-----------------------------------------------------------------------------
(* The bus state machine.                                                  *)

Miss ==
  /\ Cached(m1)
  /\ IF data_delay THEN ~d.hit ELSE ~CacheHit

CacheWriteback == m1.CACHE /\ m1.cache_writeback

(* The line a CACHE operation names, as read in its first cycle.           *)
CacheWay   == IF m1.cache_op THEN HitWay ELSE m1.way
CacheDirtyNow == out[CacheWay].dirt /\ (m1.cache_op => CacheHit)
CacheDirty ==
  IF data_delay THEN d.dirt /\ (m1.cache_op => d.hit)
  ELSE out[CacheWay].dirt /\ (m1.cache_op => CacheHit)

UncachedRead(r) == r.valid /\ r.uncache /\ ~r.op

UwReq == [uncache |-> TRUE, tag |-> m1.tag, index |-> m1.index,
          offset |-> m1.offset, wstrb |-> m1.wstrb,
          data |-> [ZeroLine EXCEPT ![m1.offset] = m1.wdata]]
UwAfterPush == IF UwPush THEN Append(uw, UwReq) ELSE uw

(* On the way to IDLE the code clears bc_tag, bc_index, refill_strobe,     *)
(* refill_dirty and bc_cache_inst; the registers it leaves alone are       *)
(* written before they are read again, so they are cleared here as well.   *)
BusReset == bc' = NoFetch /\ fill' = NoFill /\ wt' = NoWrite /\ wb_cnt' = 0

StartFetchAtZero(tag, index, offset, uncache) ==
  /\ bus_state' = "RDREQ"
  /\ bc' = [tag |-> tag, index |-> index, offset |-> offset,
            uncache |-> uncache, ret_off |-> 0]
  /\ UNCHANGED <<wt, wb_cnt, slaveVars>>

StartFetch(tag, index, offset, uncache) ==
  /\ bus_state' = "RDREQ"
  /\ bc' = [tag |-> tag, index |-> index, offset |-> offset,
            uncache |-> uncache, ret_off |-> IF uncache THEN 0 ELSE offset]
  /\ UNCHANGED <<wt, wb_cnt, slaveVars>>

StartWrite(w) ==
  /\ bus_state' = "WTREQ" /\ wt' = w /\ wb_cnt' = 0
  /\ UNCHANGED <<bc, fill, slaveVars>>

(* A store that hits the line on the bus is merged into the refill data.   *)
MergeClean(f) ==
  [f EXCEPT !.data[m1.offset] = Lane(@, m1.wdata, m1.wstrb),
            !.strobe = IF m1.wstrb THEN @ \cup {m1.offset} ELSE @]
Merge(f) ==
  [f EXCEPT !.data[m1.offset] = Lane(@, m1.wdata, m1.wstrb),
            !.strobe = IF m1.wstrb THEN @ \cup {m1.offset} ELSE @,
            !.dirty = TRUE]
MergeStore(f) == IF Store(m1) /\ Doable THEN Merge(f) ELSE f

BusIdle == bus_state = "IDLE"

IdleMiss ==
  /\ BusIdle /\ Miss
  /\ StartFetch(m1.tag, m1.index, m1.offset, FALSE)
  /\ fill' = IF m1.op THEN Merge(NoFill) ELSE NoFill
  /\ uw' = uw

IdleCacheWriteback ==
  /\ BusIdle /\ CacheWriteback /\ CacheDirty
  /\ StartWrite([uncache |-> FALSE, index |-> m1.index, offset |-> 0, wstrb |-> TRUE,
                 tag  |-> IF data_delay THEN d.tag ELSE out[CacheWay].tag,
                 data |-> IF data_delay THEN d.data ELSE out[CacheWay].data])
  /\ uw' = uw

IdleUncachedBypass ==
  /\ BusIdle /\ ~Miss /\ ~CacheWriteback
  /\ UwAfterPush # <<>>
  /\ StartWrite(IF UwPush THEN UwReq ELSE Head(uw))
  /\ uw' = IF UwPush THEN uw ELSE Tail(uw)

(* The queue keeps its order; a write that finds it empty bypasses it.     *)
IdleUncachedWrite ==
  /\ BusIdle /\ ~Miss /\ ~CacheWriteback
  /\ UwAfterPush # <<>>
  /\ StartWrite(Head(UwAfterPush))
  /\ uw' = Tail(UwAfterPush)

IdleUncachedReadOvertakes(m0) ==
  /\ BusIdle /\ ~Miss /\ ~CacheWriteback
  /\ UncachedRead(m0) \/ UncachedRead(m1)
  /\ LET r == IF UncachedRead(m1) THEN m1 ELSE m0
     IN  StartFetch(r.tag, r.index, r.offset, TRUE)
  /\ uw' = UwAfterPush /\ UNCHANGED fill

IdleUncachedReadOfM0(m0) ==
  /\ BusIdle /\ ~Miss /\ ~CacheWriteback /\ UwAfterPush = <<>>
  /\ UncachedRead(m0)
  /\ StartFetch(m0.tag, m0.index, m0.offset, TRUE)
  /\ UNCHANGED <<fill, uw>>

IdleUncachedRead(m0) ==
  /\ BusIdle /\ ~Miss /\ ~CacheWriteback /\ UwAfterPush = <<>>
  /\ UncachedRead(m0) \/ UncachedRead(m1)
  /\ LET r == IF UncachedRead(m1) THEN m1 ELSE m0
     IN  StartFetch(r.tag, r.index, r.offset, TRUE)
  /\ UNCHANGED <<fill, uw>>

PrefetchTurn(m0) ==
  /\ BusIdle /\ ~Miss /\ ~CacheWriteback /\ UwAfterPush = <<>>
  /\ ~UncachedRead(m0) /\ ~UncachedRead(m1)

IdlePrefetch(m0, pf) ==
  /\ PrefetchTurn(m0) /\ pf # NoLine
  /\ StartFetch(pf.tag, pf.index, 0, FALSE)
  /\ UNCHANGED <<fill, uw>>

IdleStay(m0, pf) ==
  /\ \/ BusIdle /\ CacheWriteback /\ ~CacheDirty
     \/ PrefetchTurn(m0) /\ pf = NoLine
  /\ BusReset
  /\ UNCHANGED <<bus_state, uw, slaveVars>>

(* RDREQ: arvalid is up until the slave accepts the address.               *)
ReadRequest(arready) ==
  /\ bus_state = "RDREQ"
  /\ fill' = MergeStore(fill)
  /\ IF arready
     THEN /\ bus_state' = "READ"
          /\ rd' = [uncache |-> bc.uncache, tag |-> bc.tag, index |-> bc.index,
                    off |-> bc.offset, left |-> IF bc.uncache THEN 1 ELSE LINE_WORDS]
     ELSE UNCHANGED <<bus_state, rd>>
  /\ UNCHANGED <<bc, wt, wb_cnt, wr, mem>>

(* READ: the slave answers a wrapping burst that starts at the word asked  *)
(* for.  The line goes to the RAM when m0 leaves the read port free.       *)
Received(beat) == beat /\ rready
LastBeat(beat) == Received(beat) /\ rd.left = 1

SlaveReads(beat) ==
  rd' = IF Received(beat)
        THEN IF rd.left = 1 THEN NoBurst
             ELSE [rd EXCEPT !.left = @ - 1, !.off = (@ + 1) % LINE_WORDS]
        ELSE rd

ReadUncached(beat) ==
  /\ bus_state = "READ" /\ bc.uncache /\ LastBeat(beat)
  /\ bus_state' = "IDLE"
  /\ BusReset
  /\ SlaveReads(beat)
  /\ UNCHANGED <<wr, mem>>

Read(m0, beat) ==
  /\ bus_state = "READ" /\ ~(bc.uncache /\ LastBeat(beat))
  /\ bus_state' = IF (LastBeat(beat) \/ rd.left = 0) /\ ReadsVictims(m0, beat)
                  THEN "REFILL" ELSE "READ"
  /\ IF Received(beat) /\ ~bc.uncache
     THEN /\ fill' = [fill EXCEPT !.data[bc.ret_off] = MergedBeat,
                                  !.rdy = @ \cup {bc.ret_off}]
          /\ bc' = [bc EXCEPT !.ret_off = (@ + 1) % LINE_WORDS]
     ELSE /\ fill' = MergeStore(fill)
          /\ bc' = bc
  /\ SlaveReads(beat)
  /\ UNCHANGED <<wt, wb_cnt, wr, mem>>

(* REFILL: Written puts the line in the RAM, a dirty victim is saved.      *)
Refill(victim) ==
  /\ bus_state = "REFILL"
  /\ IF out[victim].dirt /\ ~Duplication
     THEN StartWrite([uncache |-> FALSE, tag |-> out[victim].tag, index |-> bc.index,
                      offset |-> 0, wstrb |-> TRUE, data |-> out[victim].data])
     ELSE bus_state' = "IDLE" /\ BusReset /\ UNCHANGED slaveVars

(* The slave takes one data beat of burst b if the cache drives one.       *)
WBeatValid == IF wt.uncache THEN wb_cnt = 0 ELSE wb_cnt < LINE_WORDS
WData == wt.data[IF wt.uncache THEN wt.offset ELSE wb_cnt]

SlaveWrites(b, wready) ==
  IF wready /\ WBeatValid
  THEN /\ mem' = [mem EXCEPT ![b.tag][b.index][b.off] = Lane(@, WData, wt.wstrb)]
       /\ wr' = [b EXCEPT !.off = (@ + 1) % LINE_WORDS, !.left = @ - 1]
       /\ wb_cnt' = wb_cnt + 1
  ELSE wr' = b /\ UNCHANGED <<mem, wb_cnt>>

(* WTREQ: the slave takes no data before the address (see README).         *)
WriteRequest(awready, wready) ==
  /\ bus_state = "WTREQ"
  /\ IF awready
     THEN /\ bus_state' = "WRITE_BACK"
          /\ SlaveWrites([uncache |-> wt.uncache, tag |-> wt.tag, index |-> wt.index,
                          off |-> wt.offset,
                          left |-> IF wt.uncache THEN 1 ELSE LINE_WORDS], wready)
     ELSE UNCHANGED <<bus_state, wb_cnt, wr, mem>>
  /\ UNCHANGED <<bc, fill, wt, rd>>

WriteBack(wready) ==
  /\ bus_state = "WRITE_BACK" /\ wr.left > 0
  /\ SlaveWrites(wr, wready)
  /\ UNCHANGED <<bus_state, bc, fill, wt, rd>>

AwaitsResponse == bus_state = "WRITE_BACK" /\ wr.left = 0

WriteResponse(bvalid) ==
  /\ AwaitsResponse
  /\ IF bvalid
     THEN bus_state' = "IDLE" /\ BusReset /\ wr' = NoBurst
     ELSE UNCHANGED <<busVars, wr>>
  /\ UNCHANGED <<rd, mem>>

-----------------------------------------------------------------------------
(* A clock cycle.  In every state but IDLE the uncached queue only grows.  *)

BusStep(m0, beat, ack, wready, victim, pf) ==
  \/ IdleMiss
  \/ IdleCacheWriteback
  \/ IdleUncachedWrite
  \/ IdleUncachedRead(m0)
  \/ IdlePrefetch(m0, pf)
  \/ IdleStay(m0, pf)
  \/ /\ uw' = UwAfterPush
     /\ \/ ReadRequest(ack)
        \/ ReadUncached(beat)
        \/ Read(m0, beat)
        \/ Refill(victim)
        \/ WriteRequest(ack, wready)
        \/ WriteBack(wready)
        \/ WriteResponse(ack)

Cycle(req, beat, ack, wready, victim, pf) ==
  /\ Pipeline(M0(req), beat)
  /\ RamPorts(M0(req), beat, victim)
  /\ BusStep(M0(req), beat, ack, wready, victim, pf)

(* The inputs that matter in the current state.                            *)
Offers   == IF skid.valid THEN {NoReq} ELSE Requests \cup {NoReq}
Beats    == IF bus_state = "READ" /\ rd.left > 0 THEN BOOLEAN ELSE {FALSE}
Acks     == IF bus_state \in {"RDREQ", "WTREQ"} \/ AwaitsResponse THEN BOOLEAN
            ELSE {FALSE}
WReadies == IF bus_state = "WTREQ" \/ (bus_state = "WRITE_BACK" /\ wr.left > 0)
            THEN BOOLEAN ELSE {FALSE}
VictimChoices == IF bus_state = "REFILL" THEN Victims ELSE {0}
PrefetchOffers == IF BusIdle THEN PrefetchLines \cup {NoLine} ELSE {NoLine}

Next ==
  \E req \in Offers, beat \in Beats, ack \in Acks, wready \in WReadies,
     victim \in VictimChoices, pf \in PrefetchOffers :
       Cycle(req, beat, ack, wready, victim, pf)

Spec == Init /\ [][Next]_vars
=============================================================================
