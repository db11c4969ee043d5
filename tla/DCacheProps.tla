----------------------------- MODULE DCacheProps -----------------------------
(***************************************************************************)
(* What makes the data cache correct: the properties the runs check and    *)
(* the mapping to ProgramMemory.                                           *)
(***************************************************************************)
EXTENDS DCache

TypeOK ==
  /\ skid \in Requests \cup {NoReq}
  /\ m1 \in Requests \cup {NoReq}
  /\ data_delay \in BOOLEAN
  /\ d \in [hit : BOOLEAN, dirt : BOOLEAN, tag : Tags, data : LineData]
  /\ fwd \in [valid : BOOLEAN, data : Vals]
  /\ ram \in [Ways -> [Indices -> Entry]]
  /\ out \in [Ways -> Entry]
  /\ uw \in Seq(WriteReq) /\ Len(uw) <= UW_FIFO_DEPTH
  /\ bus_state \in {"IDLE", "RDREQ", "READ", "REFILL", "WTREQ", "WRITE_BACK"}
  /\ bc \in [tag : Tags, index : Indices, offset : Words, uncache : BOOLEAN,
             ret_off : Words]
  /\ fill \in [data : LineData, rdy : SUBSET Words, strobe : SUBSET Words,
               dirty : BOOLEAN]
  /\ wt \in WriteReq
  /\ wb_cnt \in 0 .. LINE_WORDS
  /\ rd \in Burst
  /\ wr \in Burst
  /\ mem \in [Tags -> [Indices -> LineData]]

-----------------------------------------------------------------------------
(* The memory as the program sees it.                                      *)

Present(t, i)  == \E w \in Ways : ram[w][i].valid /\ ram[w][i].tag = t
HolderOf(t, i) == CHOOSE w \in Ways : ram[w][i].valid /\ ram[w][i].tag = t

Fetching(t, i) ==
  /\ bus_state \in {"RDREQ", "READ", "REFILL"} /\ ~bc.uncache
  /\ bc.tag = t /\ bc.index = i

(* A line a CACHE operation took out of the RAM and has still to write.    *)
Extracted(t, i) ==
  CacheWriteback /\ data_delay /\ CacheDirty /\ d.tag = t /\ m1.index = i

Writing == bus_state \in {"WTREQ", "WRITE_BACK"}
WritingLine(t, i) == Writing /\ ~wt.uncache /\ wt.tag = t /\ wt.index = i

(* The newest value of a word, wherever it is.                             *)
ProgramWord(t, i, o) ==
  IF Extracted(t, i) THEN d.data[o]
  ELSE IF Present(t, i) THEN ram[HolderOf(t, i)][i].data[o]
  ELSE IF Fetching(t, i) /\ o \in fill.strobe THEN fill.data[o]
  ELSE IF WritingLine(t, i) /\ o >= wb_cnt THEN wt.data[o]
  ELSE mem[t][i][o]

ProgramView ==
  [t \in Tags |-> [i \in Indices |-> [o \in Words |-> ProgramWord(t, i, o)]]]

Posted ==
  LET waiting == IF Writing /\ wt.uncache /\ wb_cnt = 0 THEN <<wt>> \o uw ELSE uw
  IN  [k \in 1 .. Len(waiting) |->
         [tag |-> waiting[k].tag, index |-> waiting[k].index,
          offset |-> waiting[k].offset, wstrb |-> waiting[k].wstrb,
          wdata |-> waiting[k].data[waiting[k].offset]]]

Held(r) == IF r.valid THEN <<r>> ELSE <<>>
Queue   == Held(m1) \o Held(skid)

PM == INSTANCE ProgramMemory WITH
        queue <- Queue, posted <- Posted, amem <- ProgramView, pmem <- mem

(* Every cycle of the cache is a step of a plain memory that completes     *)
(* requests in order: stores take effect once, in order; hits, misses,     *)
(* refills, evictions, prefetches and write-backs never change what the    *)
(* program sees; posted uncached stores are performed once and in order.   *)
ImplementsProgramMemory == PM!Spec

(* A load returns the newest value of its word, in whatever cycle the      *)
(* cache says the data is valid.                                           *)
LoadReturnsLatest ==
  \A beat \in Beats :
    Load(m1) /\ DataOk(beat) => Rdata(beat) = ProgramWord(m1.tag, m1.index, m1.offset)

-----------------------------------------------------------------------------
(* No two ways of a set hold the same line: the hit logic ORs the ways.    *)
NoDuplicateLine ==
  \A i \in Indices, v, w \in Ways :
    ram[v][i].valid /\ ram[w][i].valid /\ ram[v][i].tag = ram[w][i].tag => v = w

(* In REFILL the read port holds the tags of the set being refilled, and   *)
(* no request is in the first cycle of m1, so the write port is free.      *)
RefillOwnsPorts ==
  bus_state = "REFILL" =>
    /\ data_delay
    /\ \A w \in Ways : out[w] = ram[w][bc.index]

(* The cache counts the beats of a burst exactly as the slave does.        *)
BeatsAligned ==
  /\ bus_state = "READ" /\ ~bc.uncache /\ rd.left > 0 => bc.ret_off = rd.off
  /\ bus_state = "WRITE_BACK" /\ ~wt.uncache => wb_cnt + wr.left = LINE_WORDS

(* An uncached read goes on the bus only for the oldest request, once all  *)
(* uncached writes before it have been performed.                          *)
UncachedReadInOrder ==
  bus_state \in {"RDREQ", "READ"} /\ bc.uncache =>
    /\ Posted = <<>>
    /\ LET r == IF m1.valid THEN m1 ELSE skid
       IN  Load(r) /\ r.uncache /\ <<r.tag, r.index, r.offset>> = <<bc.tag, bc.index, bc.offset>>

(* A clean line is a copy of memory: dropping it loses nothing.            *)
CleanMatchesMemory ==
  \A i \in Indices, w \in Ways :
    ram[w][i].valid /\ ~ram[w][i].dirt => ram[w][i].data = mem[ram[w][i].tag][i]

(* A hit invalidation that completes leaves no way holding the line,       *)
(* unless the line was on its way in.                                      *)
HitInvalidateRemoves ==
  [][\A t \in Tags, i \in Indices :
       /\ m1.CACHE /\ m1.cache_op /\ ~m1.uncache /\ m1.tag = t /\ m1.index = i
       /\ DataOk(FALSE) /\ ~Fetching(t, i)
     => ~Present(t, i)']_vars

-----------------------------------------------------------------------------
(* Liveness.  The clock runs while there is something to do, and the slave *)
(* answers every handshake in the end.                                     *)

ClockCycle ==
  /\ bus_state \in {"IDLE", "REFILL"}
  /\ skid.valid \/ m1.valid \/ uw # <<>> \/ bus_state = "REFILL"
  /\ Next

SlaveCycle ==
  /\ bus_state \notin {"IDLE", "REFILL"}
  /\ \E req \in Offers, ack \in Acks \ {FALSE}, wready \in WReadies :
       Cycle(req, FALSE, ack, wready, 0, NoLine)

ReadCycle ==
  /\ bus_state = "READ"
  /\ \E req \in Offers : Cycle(req, rd.left > 0, FALSE, FALSE, 0, NoLine)

WriteCycle ==
  /\ bus_state = "WRITE_BACK" /\ wr.left > 0
  /\ \E req \in Offers : Cycle(req, FALSE, FALSE, TRUE, 0, NoLine)

LiveSpec ==
  Spec /\ WF_vars(ClockCycle) /\ WF_vars(SlaveCycle)
       /\ WF_vars(ReadCycle) /\ WF_vars(WriteCycle)

(* A request that stalls the pipeline in m1 completes.                     *)
StalledRequestCompletes ==
  (m1.valid /\ data_delay) ~> ~(m1.valid /\ data_delay)

(* A request accepted into the skid buffer gets to m1.                     *)
AcceptedRequestEnters == skid.valid ~> ~skid.valid
=============================================================================
