---------------------------- MODULE MemoryProofs ----------------------------
(***************************************************************************)
(* The data cache as a memory, for every size, every set of requests and   *)
(* every set of prefetched lines, and at the end as an implementation of   *)
(* ProgramMemory, for every program of loads and stores, cached and        *)
(* uncached.                                                               *)
(***************************************************************************)
EXTENDS DCacheProofs, SequenceTheorems

-----------------------------------------------------------------------------
(* Whether an access is cached depends on its address, and what the        *)
(* prefetcher fetches is cached.                                           *)

Device(t, i) == \E r \in Requests : r.uncache /\ r.tag = t /\ r.index = i

ByAddress ==
  /\ \A r \in Requests : ~r.uncache => ~Device(r.tag, r.index)
  /\ \A l \in PrefetchLines : ~Device(l.tag, l.index)

-----------------------------------------------------------------------------
(* The inductive invariant, in parts.                                      *)

(* In its first cycle a request sees the RAM as it is, or has been handed  *)
(* the word a store wrote just before it.                                  *)
PortInv ==
  m1.valid /\ ~data_delay =>
    IF fwd.valid
    THEN /\ Load(m1) /\ ~m1.uncache
         /\ \E w \in Ways :
              /\ ram[w][m1.index].valid /\ ram[w][m1.index].tag = m1.tag
              /\ ram[w][m1.index].data[m1.offset] = fwd.data
    ELSE \A w \in Ways : out[w] = ram[w][m1.index]

(* A load or store that waits in m1 missed, and still does: if its line is *)
(* fetched, it is served before the line goes to the RAM.                  *)
WaitInv ==
  /\ m1.valid /\ data_delay => ~fwd.valid
  /\ Cached(m1) /\ data_delay =>
       /\ ~Present(m1.tag, m1.index)
       /\ bus_state = "REFILL" => ~(m1.tag = bc.tag /\ m1.index = bc.index)

FetchingLine == bus_state \in {"RDREQ", "READ", "REFILL"} /\ ~bc.uncache

CacheableInv ==
  /\ \A w \in Ways, i \in Indices : ram[w][i].valid => ~Device(ram[w][i].tag, i)
  /\ FetchingLine => ~Device(bc.tag, bc.index)

(* The words of a line in the order of the burst.                          *)
Dist(b, o) == IF o >= b THEN o - b ELSE o - b + LINE_WORDS

FetchInv ==
  /\ bus_state = "IDLE" => fill = NoFill
  /\ bus_state = "READ" /\ rd.left > 0 =>
       /\ rd.tag = bc.tag /\ rd.index = bc.index
       /\ bc.uncache => rd.off = bc.offset
  /\ bus_state = "READ" /\ ~bc.uncache =>
       \A o \in Words : o \notin fill.rdy => Dist(bc.ret_off, o) < rd.left
  /\ bus_state = "REFILL" => ~bc.uncache /\ fill.rdy = Words

(* A word of the line on its way is what memory holds, or was stored since.*)
FillInv ==
  FetchingLine =>
    \A o \in fill.rdy : o \notin fill.strobe => fill.data[o] = mem[bc.tag][bc.index][o]

DataInv == PortInv /\ WaitInv /\ CacheableInv /\ FetchInv /\ FillInv
SafeInv == IInv /\ BeatInv /\ UncachedInv

-----------------------------------------------------------------------------
(* The RAM ports.                                                          *)

(* When the port is enabled it delivers what the RAM holds afterwards.     *)
LEMMA PortsFollow ==
  ASSUME TypeOK, NEW m0 \in Requests \cup {NoReq}, NEW beat \in BOOLEAN,
         NEW victim \in Ways, RamPorts(m0, beat, victim), Enb(m0, beat), NEW w \in Ways
  PROVE  out'[w] = ram'[w][ReadIndex(m0, beat)]
<1> DEFINE i == ReadIndex(m0, beat)
<1>1. out'[w] = ram[w][i]
  BY DEF RamPorts
<1>2. i \in Indices /\ WriteIndex \in Indices /\ ram[w] \in [Indices -> Entry]
  BY RequestTypes DEF TypeOK, ReadIndex, WriteIndex, Request
<1>3. CASE i # WriteIndex
  BY <1>1, <1>2, <1>3 DEF RamPorts
<1>4. CASE i = WriteIndex
  <2>1. ~StoreHit /\ ~Invalidates(w) /\ ~Refills
    BY <1>4 DEF Enb, Hazard, Invalidates, Refills
  <2>2. Written(w, victim, ram[w][i]) = ram[w][i]
    BY <2>1 DEF Written
  <2> QED BY <1>1, <1>2, <1>4, <2>2 DEF RamPorts
<1> QED BY <1>3, <1>4

(* What a cycle does to an entry of the RAM.                               *)
LEMMA RamChange ==
  ASSUME TypeOK, RefillOwnsPorts, NEW m0, NEW beat, NEW victim \in Ways,
         RamPorts(m0, beat, victim), NEW w \in Ways, NEW i \in Indices
  PROVE  \/ ram'[w][i] = ram[w][i] /\ ~(StoreHit /\ w \in Hits /\ i = m1.index)
         \/ /\ Refills /\ i = bc.index /\ w = victim
            /\ ram'[w][i] = [valid |-> TRUE, tag |-> bc.tag, dirt |-> fill.dirty,
                             data |-> fill.data]
         \/ /\ StoreHit /\ w \in Hits /\ i = m1.index
            /\ ram'[w][i] = [ram[w][i] EXCEPT !.dirt = TRUE,
                  !.data[m1.offset] = Lane(@, m1.wdata, m1.wstrb)]
         \/ m1.CACHE /\ ~data_delay /\ ~ram'[w][i].valid
<1>1. ram[w] \in [Indices -> Entry] /\ ram[w][i] \in Entry
  BY DEF TypeOK
<1>2. ram'[w] = [ram[w] EXCEPT ![WriteIndex] = Written(w, victim, @)]
  BY DEF RamPorts
<1>3. bus_state = "REFILL" => ~StoreHit
  BY DEF RefillOwnsPorts, StoreHit
<1>4. CASE i # WriteIndex
  BY <1>1, <1>2, <1>3, <1>4 DEF WriteIndex
<1>5. CASE i = WriteIndex
  <2>1. ram'[w][i] = Written(w, victim, ram[w][i])
    BY <1>1, <1>2, <1>5
  <2>2. CASE Refills
    <3>1. i = bc.index /\ ~StoreHit
      BY <1>3, <1>5, <2>2 DEF Refills, WriteIndex
    <3> QED BY <2>1, <2>2, <3>1 DEF Written
  <2>3. CASE ~Refills /\ StoreHit /\ w \in Hits
    <3>1. i = m1.index
      BY <1>3, <1>5, <2>3 DEF WriteIndex
    <3> QED BY <2>1, <2>3, <3>1 DEF Written
  <2>4. CASE ~Refills /\ ~(StoreHit /\ w \in Hits) /\ Invalidates(w)
    <3>1. ram'[w][i] = [ram[w][i] EXCEPT !.valid = FALSE, !.tag = bc.tag,
                          !.dirt = @ /\ m1.cache_op /\ w # HitWay]
      BY <2>1, <2>4 DEF Written
    <3> QED BY <1>1, <2>4, <3>1 DEF Invalidates, Entry
  <2>5. CASE ~Refills /\ ~(StoreHit /\ w \in Hits) /\ ~Invalidates(w)
    BY <2>1, <2>5 DEF Written
  <2> QED BY <2>2, <2>3, <2>4, <2>5
<1> QED BY <1>4, <1>5

(* A line gets into the RAM only by a refill.                              *)
LEMMA PresentComesFromRefill ==
  ASSUME TypeOK, RefillOwnsPorts, NEW m0, NEW beat, NEW victim \in Ways,
         RamPorts(m0, beat, victim), NEW w \in Ways, NEW i \in Indices, ram'[w][i].valid
  PROVE  \/ ram[w][i].valid /\ ram'[w][i].tag = ram[w][i].tag
         \/ Refills /\ ram'[w][i].tag = bc.tag /\ i = bc.index
<1>1. ram[w][i] \in Entry
  BY DEF TypeOK
<1>2. CASE ram'[w][i] = [ram[w][i] EXCEPT !.dirt = TRUE,
                !.data[m1.offset] = Lane(@, m1.wdata, m1.wstrb)]
  BY <1>1, <1>2 DEF Entry
<1>3. CASE Refills /\ i = bc.index
           /\ ram'[w][i] = [valid |-> TRUE, tag |-> bc.tag, dirt |-> fill.dirty,
                            data |-> fill.data]
  BY <1>3
<1>4. CASE ram'[w][i] = ram[w][i]
  BY <1>4
<1>5. \/ ram'[w][i] = ram[w][i]
      \/ /\ Refills /\ i = bc.index
         /\ ram'[w][i] = [valid |-> TRUE, tag |-> bc.tag, dirt |-> fill.dirty,
                          data |-> fill.data]
      \/ ram'[w][i] = [ram[w][i] EXCEPT !.dirt = TRUE,
                !.data[m1.offset] = Lane(@, m1.wdata, m1.wstrb)]
  BY RamChange
<1> QED BY <1>2, <1>3, <1>4, <1>5

-----------------------------------------------------------------------------
(* The request in m1 and the RAM.                                          *)

(* A store in its first cycle has the current entries on the ports.        *)
LEMMA StorePorts ==
  ASSUME PortInv, m1.valid, ~data_delay, m1.op, NEW w \in Ways
  PROVE  out[w] = ram[w][m1.index] /\ ~fwd.valid
BY DEF PortInv, Load

LEMMA HitStoreLeaves ==
  ASSUME NEW beat, StoreHit, TypeOK PROVE DataOk(beat)
<1>1. ~m1.CACHE /\ m1.valid
  BY InputAssumption DEF StoreHit, CacheHit, TypeOK, NoReq
<1> QED BY <1>1 DEF StoreHit, CacheHit, DataOk

(* What a store writes is what it hands to the load behind it.             *)
LEMMA StoreHitWrites ==
  ASSUME TypeOK, RefillOwnsPorts, PortInv, NEW m0, NEW beat, NEW victim \in Ways,
         RamPorts(m0, beat, victim), StoreHit, NEW w \in Hits
  PROVE  /\ ram[w][m1.index].valid /\ ram[w][m1.index].tag = m1.tag
         /\ ram'[w][m1.index].valid /\ ram'[w][m1.index].tag = m1.tag
         /\ ram'[w][m1.index].dirt
         /\ ram'[w][m1.index].data =
              [out[w].data EXCEPT ![m1.offset] = Lane(@, m1.wdata, m1.wstrb)]
<1>1. w \in Ways /\ m1.valid /\ m1.op /\ ~data_delay /\ m1 \in Request /\ ~m1.CACHE
  BY M1Type, InputAssumption DEF Hits, StoreHit, CacheHit, TypeOK, NoReq
<1>2. out[w] = ram[w][m1.index] /\ out[w] \in Entry /\ m1.index \in Indices
  BY <1>1, StorePorts DEF TypeOK, Request
<1>3. ram'[w][m1.index] = [ram[w][m1.index] EXCEPT !.dirt = TRUE,
                  !.data[m1.offset] = Lane(@, m1.wdata, m1.wstrb)]
  <2>1. bus_state # "REFILL"
    BY <1>1 DEF RefillOwnsPorts
  <2> QED BY <1>1, <1>2, <2>1, RamChange DEF Refills
<1>4. out[w].valid /\ out[w].tag = m1.tag
  BY DEF Hits
<1> QED BY <1>2, <1>3, <1>4 DEF Entry

LEMMA PortCycle ==
  ASSUME TypeOK, RefillOwnsPorts, PortInv, NEW m0 \in Requests \cup {NoReq},
         NEW beat \in BOOLEAN, NEW victim \in Ways,
         Pipeline(m0, beat), RamPorts(m0, beat, victim)
  PROVE  PortInv'
<1> SUFFICES ASSUME m1'.valid, ~data_delay'
             PROVE  IF fwd'.valid
                    THEN /\ Load(m1)' /\ ~m1'.uncache
                         /\ \E w \in Ways :
                              /\ ram'[w][m1'.index].valid /\ ram'[w][m1'.index].tag = m1'.tag
                              /\ ram'[w][m1'.index].data[m1'.offset] = fwd'.data
                    ELSE \A w \in Ways : out'[w] = ram'[w][m1'.index]
  BY DEF PortInv
<1>1. Enters(m0, beat) /\ m1' = m0 /\ m0.valid
  BY DEF Pipeline
<1>2. CASE M0Forward(m0, beat)
  <2>1. /\ StoreHit /\ ~Enb(m0, beat) /\ m0.tag = m1.tag /\ m0.offset = m1.offset
        /\ ReadIndex(m0, beat) = m1.index
    BY <1>2 DEF M0Forward, Enb, Hazard, WriteIndex, RefillOwnsPorts, StoreHit
  <2>2. Load(m0) /\ ~m0.uncache
    BY <1>1, <2>1 DEF Enters, AddrOk
  <2>3. m0.index = m1.index
    <3>1. DataOk(beat)
      BY <2>1, HitStoreLeaves
    <3>2. ReadsTags(m0, beat)
      BY <1>1, <3>1 DEF ReadsTags, Enters, AddrOk
    <3> QED BY <2>1, <3>2 DEF ReadIndex
  <2>4. HitWay \in Hits /\ HitWay \in Ways /\ Hits \subseteq Ways
    <3>1. Hits # {} /\ Hits \subseteq Ways
      BY <2>1 DEF StoreHit, CacheHit, Hits
    <3> QED BY <3>1, LeastWayInSet DEF HitWay
  <2>5. /\ ram'[HitWay][m1.index].valid /\ ram'[HitWay][m1.index].tag = m1.tag
        /\ ram'[HitWay][m1.index].data =
              [out[HitWay].data EXCEPT ![m1.offset] = Lane(@, m1.wdata, m1.wstrb)]
    BY <2>1, <2>4, StoreHitWrites
  <2>6. out[HitWay].data \in [Words -> Vals] /\ m1.offset \in Words
    BY <2>4, M1Type DEF TypeOK, Entry, LineData, Request
  <2>7. fwd' = [valid |-> TRUE,
                data |-> Lane(out[HitWay].data[m1.offset], m1.wdata, m1.wstrb)]
    BY <1>1, <1>2 DEF Pipeline
  <2>8. ram'[HitWay][m0.index].data[m0.offset] = fwd'.data
    BY <2>1, <2>3, <2>5, <2>6, <2>7
  <2>9. /\ ram'[HitWay][m1'.index].valid /\ ram'[HitWay][m1'.index].tag = m1'.tag
        /\ ram'[HitWay][m1'.index].data[m1'.offset] = fwd'.data
    BY <1>1, <2>1, <2>3, <2>5, <2>8
  <2>10. Load(m1)' /\ ~m1'.uncache
    BY <1>1, <2>2 DEF Load
  <2>11. fwd'.valid
    BY <2>7
  <2> QED BY <2>4, <2>9, <2>10, <2>11
<1>3. CASE ~M0Forward(m0, beat)
  <2>1. Enb(m0, beat) /\ ReadsTags(m0, beat)
    BY <1>1, <1>3 DEF Enters, AddrOk
  <2>2. ReadIndex(m0, beat) = m1'.index
    BY <1>1, <2>1 DEF ReadIndex
  <2>3. ~fwd'.valid
    BY <1>3 DEF Pipeline
  <2> QED BY <2>1, <2>2, <2>3, PortsFollow
<1> QED BY <1>2, <1>3

-----------------------------------------------------------------------------
(* The line on its way.                                                    *)

(* A cycle that leaves a line on its way has started to fetch it, or goes  *)
(* on fetching it.                                                         *)
LEMMA FetchChange ==
  ASSUME TypeOK, NEW m0, NEW beat, NEW ack, NEW wready, NEW victim, NEW pf,
         BusStep(m0, beat, ack, wready, victim, pf), FetchingLine'
  PROVE  \/ IdleMiss
         \/ IdlePrefetch(m0, pf)
         \/ /\ FetchingLine
            /\ ReadRequest(ack) \/ Read(m0, beat)
            /\ bc'.tag = bc.tag /\ bc'.index = bc.index /\ mem' = mem
<1>1. CASE IdleUncachedRead(m0)
  BY <1>1 DEF IdleUncachedRead, StartFetch, FetchingLine
<1>2. CASE IdleCacheWriteback \/ IdleUncachedWrite \/ Refill(victim)
  BY <1>2 DEF IdleCacheWriteback, IdleUncachedWrite, Refill, StartWrite, FetchingLine
<1>3. CASE IdleStay(m0, pf) \/ ReadUncached(beat)
  BY <1>3 DEF IdleStay, PrefetchTurn, BusIdle, ReadUncached, FetchingLine
<1>4. CASE WriteRequest(ack, wready) \/ WriteBack(wready) \/ WriteResponse(ack)
  BY <1>4
  DEF WriteRequest, WriteBack, WriteResponse, AwaitsResponse, busVars, FetchingLine
<1>5. CASE ReadRequest(ack)
  BY <1>5 DEF ReadRequest, FetchingLine
<1>6. CASE Read(m0, beat)
  <2>1. bc'.tag = bc.tag /\ bc'.index = bc.index /\ bc'.uncache = bc.uncache
    BY <1>6 DEF Read, TypeOK
  <2> QED BY <1>6, <2>1 DEF Read, FetchingLine
<1> QED BY <1>1, <1>2, <1>3, <1>4, <1>5, <1>6 DEF BusStep

(* A refill follows the last beat of a line.                               *)
LEMMA ReadEnds ==
  ASSUME TypeOK, UncachedInv, NEW m0, NEW beat \in BOOLEAN, NEW ack, NEW wready,
         NEW victim, NEW pf,
         BusStep(m0, beat, ack, wready, victim, pf), bus_state' = "REFILL"
  PROVE  /\ Read(m0, beat) /\ bus_state = "READ" /\ ~bc.uncache
         /\ LastBeat(beat) \/ rd.left = 0
         /\ bc'.tag = bc.tag /\ bc'.index = bc.index /\ ~bc'.uncache
<1>1. Read(m0, beat)
  BY DEF BusStep, IdleMiss, IdleCacheWriteback, IdleUncachedWrite, IdleUncachedRead,
         IdlePrefetch, IdleStay, PrefetchTurn, StartFetch, StartWrite, BusIdle,
         ReadRequest, ReadUncached, Refill, WriteRequest, WriteBack, WriteResponse,
         AwaitsResponse, busVars
<1>2. bc'.tag = bc.tag /\ bc'.index = bc.index /\ bc'.uncache = bc.uncache
  BY <1>1 DEF Read, TypeOK
<1>3. bus_state = "READ" /\ (LastBeat(beat) \/ rd.left = 0)
  BY <1>1 DEF Read
<1>4. ~bc.uncache
  <2>1. bc.uncache => rd.left = 1
    BY <1>3 DEF UncachedInv, ReadingUncached
  <2> QED BY <1>1, <1>3, <2>1 DEF Read
<1> QED BY <1>1, <1>2, <1>3, <1>4

(* The line of a load or store that waits is not in the RAM.               *)
LEMMA WaitingMissed ==
  ASSUME TypeOK, PortInv, WaitInv, NEW beat, Cached(m1), ~DataOk(beat)
  PROVE  ~Present(m1.tag, m1.index)
<1>1. CASE data_delay
  BY <1>1 DEF WaitInv
<1>2. CASE ~data_delay
  <2>1. ~CacheHit
    BY <1>2 DEF DataOk, Cached
  <2>2. ~fwd.valid
    BY <1>2 DEF PortInv, DataOk, Cached
  <2>3. Hits = {} /\ \A w \in Ways : out[w] = ram[w][m1.index]
    BY <1>2, <2>1, <2>2 DEF PortInv, CacheHit, Cached
  <2> QED BY <2>3 DEF Hits, Present
<1> QED BY <1>1, <1>2

LEMMA DistFacts ==
  ASSUME NEW b \in Words, NEW o \in Words
  PROVE  /\ Dist(b, o) \in 0 .. LINE_WORDS - 1
         /\ Dist(b, o) = 0 => b = o
         /\ b # o => Dist((b + 1) % LINE_WORDS, o) = Dist(b, o) - 1
<1>1. LINE_WORDS \in Nat /\ LINE_WORDS > 0 /\ b \in 0 .. LINE_WORDS - 1 /\ o \in 0 .. LINE_WORDS - 1
  BY SizeAssumption DEF Words
<1>2. (b + 1) % LINE_WORDS = IF b + 1 = LINE_WORDS THEN 0 ELSE b + 1
  BY <1>1
<1> QED BY <1>1, <1>2 DEF Dist

(* A load or store of the line being fetched is served before the refill.  *)
LEMMA ServedBeforeRefill ==
  ASSUME TypeOK, UncachedInv, FetchInv, NEW m0, NEW beat \in BOOLEAN, NEW ack,
         NEW wready, NEW victim, NEW pf, BusStep(m0, beat, ack, wready, victim, pf),
         bus_state' = "REFILL", Cached(m1), m1.tag = bc.tag, m1.index = bc.index
  PROVE  DataOk(beat)
<1>1. bus_state = "READ" /\ ~bc.uncache /\ (LastBeat(beat) \/ rd.left = 0)
  BY ReadEnds
<1>2. Doable
  BY <1>1 DEF Doable, Cached
<1>3. CASE m1.op
  BY <1>2, <1>3 DEF DataOk, Store, Cached
<1>4. CASE ~m1.op
  <2>1. m1.offset \in Words /\ bc.ret_off \in Words /\ rd.left \in Nat
    BY M1Type DEF TypeOK, Request, Burst
  <2>2. m1.offset \notin fill.rdy => Dist(bc.ret_off, m1.offset) < rd.left
    BY <1>1, <2>1 DEF FetchInv
  <2>3. m1.offset \notin fill.rdy => beat /\ bc.ret_off = m1.offset
    <3>1. LastBeat(beat) => beat /\ rd.left = 1
      BY DEF LastBeat, Received
    <3> QED BY <1>1, <2>1, <2>2, <3>1, DistFacts
  <2> QED BY <1>2, <1>4, <2>3 DEF DataOk, Load, Cached
<1> QED BY <1>3, <1>4

LEMMA WaitCycle ==
  ASSUME TypeOK, RefillOwnsPorts, UncachedInv, PortInv, WaitInv, FetchInv,
         NEW m0 \in Requests \cup {NoReq}, NEW beat \in BOOLEAN, NEW ack, NEW wready,
         NEW victim \in Ways, NEW pf, Pipeline(m0, beat), RamPorts(m0, beat, victim),
         BusStep(m0, beat, ack, wready, victim, pf)
  PROVE  WaitInv'
<1>1. ASSUME m1'.valid, data_delay' PROVE m1' = m1 /\ m1.valid /\ ~DataOk(beat)
  <2>1. ~Enters(m0, beat)
    BY <1>1 DEF Pipeline
  <2> QED BY <1>1, <2>1 DEF Pipeline, NoReq
<1>2. ASSUME m1'.valid, data_delay' PROVE ~fwd'.valid
  BY <1>1, <1>2, HitStoreLeaves DEF Pipeline, M0Forward
<1> SUFFICES ASSUME Cached(m1)', data_delay'
             PROVE  /\ ~Present(m1.tag, m1.index)'
                    /\ bus_state' = "REFILL" => ~(m1'.tag = bc'.tag /\ m1'.index = bc'.index)
  BY <1>2 DEF WaitInv
<1>3. m1' = m1 /\ Cached(m1) /\ ~DataOk(beat)
  BY <1>1 DEF Cached
<1>4. ~Present(m1.tag, m1.index)
  BY <1>3, WaitingMissed
<1>5. ASSUME Present(m1.tag, m1.index)' PROVE FALSE
  <2>1. PICK w \in Ways : ram'[w][m1.index].valid /\ ram'[w][m1.index].tag = m1.tag
    BY <1>3, <1>5 DEF Present
  <2>2. m1.index \in Indices
    BY M1Type DEF Request
  <2>3. Refills /\ m1.tag = bc.tag /\ m1.index = bc.index
    BY <1>4, <2>1, <2>2, PresentComesFromRefill DEF Present
  <2> QED BY <1>3, <2>3 DEF Refills, RefillOwnsPorts, WaitInv
<1>6. ASSUME bus_state' = "REFILL", m1'.tag = bc'.tag, m1'.index = bc'.index PROVE FALSE
  <2>1. bc'.tag = bc.tag /\ bc'.index = bc.index
    BY <1>6, ReadEnds
  <2> QED BY <1>3, <1>6, <2>1, ServedBeforeRefill
<1> QED BY <1>5, <1>6

LEMMA CacheableCycle ==
  ASSUME ByAddress, TypeOK, RefillOwnsPorts, CacheableInv, FetchInv,
         NEW m0 \in Requests \cup {NoReq}, NEW beat \in BOOLEAN, NEW ack, NEW wready,
         NEW victim \in Ways, NEW pf \in PrefetchLines \cup {NoLine},
         RamPorts(m0, beat, victim), BusStep(m0, beat, ack, wready, victim, pf)
  PROVE  CacheableInv'
<1>1. ASSUME NEW w \in Ways, NEW i \in Indices, ram'[w][i].valid
      PROVE  ~Device(ram'[w][i].tag, i)
  <2>1. Refills => FetchingLine
    BY DEF Refills, FetchInv, FetchingLine
  <2> QED BY <1>1, <2>1, PresentComesFromRefill DEF CacheableInv
<1>2. ASSUME FetchingLine' PROVE ~Device(bc'.tag, bc'.index)
  <2>1. CASE IdleMiss
    <3>1. bc'.tag = m1.tag /\ bc'.index = m1.index /\ m1 \in Requests /\ ~m1.uncache
      BY <2>1 DEF IdleMiss, StartFetch, Miss, Cached, TypeOK, NoReq
    <3> QED BY <3>1 DEF ByAddress
  <2>2. CASE IdlePrefetch(m0, pf)
    <3>1. bc'.tag = pf.tag /\ bc'.index = pf.index /\ pf \in PrefetchLines
      BY <2>2 DEF IdlePrefetch, StartFetch
    <3> QED BY <3>1 DEF ByAddress
  <2>3. CASE FetchingLine /\ bc'.tag = bc.tag /\ bc'.index = bc.index
    BY <2>3 DEF CacheableInv
  <2> QED BY <1>2, <2>1, <2>2, <2>3, FetchChange
<1>3. ASSUME NEW t, NEW i PROVE Device(t, i)' = Device(t, i)
  BY DEF Device
<1> QED BY <1>1, <1>2, <1>3 DEF CacheableInv

LEMMA MergeFacts ==
  ASSUME TypeOK, NEW f \in FillType
  PROVE  /\ MergeStore(f).rdy = f.rdy
         /\ \A o \in Words : o \notin MergeStore(f).strobe =>
              o \notin f.strobe /\ MergeStore(f).data[o] = f.data[o]
<1>1. m1.offset \in Words /\ f.data \in [Words -> Vals]
  BY M1Type DEF Request, FillType, LineData
<1>2. Merge(f).rdy = f.rdy
  BY DEF Merge, FillType
<1>3. ASSUME NEW o \in Words, o \notin Merge(f).strobe
      PROVE  o \notin f.strobe /\ Merge(f).data[o] = f.data[o]
  <2>1. Merge(f).strobe = IF m1.wstrb THEN f.strobe \cup {m1.offset} ELSE f.strobe
    BY DEF Merge, FillType
  <2>2. Merge(f).data = [f.data EXCEPT ![m1.offset] = Lane(@, m1.wdata, m1.wstrb)]
    BY DEF Merge, FillType
  <2> QED BY <1>1, <1>3, <2>1, <2>2 DEF Lane
<1> QED BY <1>2, <1>3 DEF MergeStore

(* A beat of a line goes to the word it is for, and a store waits for it.  *)
LEMMA ReadBeat ==
  ASSUME TypeOK, NEW m0, NEW beat \in BOOLEAN, Read(m0, beat)
  PROVE  \/ /\ Received(beat) /\ ~bc.uncache /\ ~(Store(m1) /\ Doable)
            /\ bc'.ret_off = (bc.ret_off + 1) % LINE_WORDS
            /\ fill'.rdy = fill.rdy \cup {bc.ret_off}
            /\ fill'.strobe = fill.strobe /\ fill'.dirty = fill.dirty
            /\ fill'.data = [fill.data EXCEPT ![bc.ret_off] = MergedBeat]
            /\ rd' = IF rd.left = 1 THEN NoBurst
                     ELSE [rd EXCEPT !.left = @ - 1, !.off = (@ + 1) % LINE_WORDS]
         \/ /\ ~(Received(beat) /\ ~bc.uncache)
            /\ bc' = bc /\ fill' = MergeStore(fill)
            /\ ~bc.uncache => rd' = rd
<1>1. CASE Received(beat) /\ ~bc.uncache
  BY <1>1 DEF Read, SlaveReads, Received, rready, TypeOK
<1>2. CASE ~(Received(beat) /\ ~bc.uncache)
  BY <1>2 DEF Read, SlaveReads
<1> QED BY <1>1, <1>2

(* The state a cycle that reads leaves behind.                             *)
LEMMA ReadingFrom ==
  ASSUME NEW m0, NEW beat, NEW ack, NEW wready, NEW victim, NEW pf,
         BusStep(m0, beat, ack, wready, victim, pf), bus_state' = "READ"
  PROVE  ReadRequest(ack) \/ Read(m0, beat)
BY DEF BusStep, IdleMiss, IdleCacheWriteback, IdleUncachedWrite, IdleUncachedRead,
       IdlePrefetch, IdleStay, PrefetchTurn, StartFetch, StartWrite, BusIdle,
       ReadUncached, Refill, WriteRequest, WriteBack, WriteResponse,
       AwaitsResponse, busVars

LEMMA IdleFrom ==
  ASSUME NEW m0, NEW beat, NEW ack, NEW wready, NEW victim, NEW pf,
         BusStep(m0, beat, ack, wready, victim, pf), bus_state' = "IDLE"
  PROVE  BusReset
BY DEF BusStep, IdleMiss, IdleCacheWriteback, IdleUncachedWrite, IdleUncachedRead,
       IdlePrefetch, IdleStay, PrefetchTurn, StartFetch, StartWrite, BusIdle,
       ReadRequest, Read, ReadUncached, Refill, WriteRequest, WriteBack, WriteResponse,
       AwaitsResponse, busVars

(* Every word not received yet is still to come.                           *)
LEMMA WordsToCome ==
  ASSUME TypeOK, UncachedInv, FetchInv, NEW m0, NEW beat \in BOOLEAN, beat => rd.left > 0,
         Read(m0, beat), ~bc.uncache, NEW o \in Words, o \notin fill'.rdy
  PROVE  Dist(bc'.ret_off, o) < rd'.left
<1>1. bus_state = "READ" /\ bc.ret_off \in Words /\ rd \in Burst /\ fill \in FillType
  BY DEF Read, TypeOK, FillType
<1>2. CASE Received(beat)
  <2>1. /\ bc'.ret_off = (bc.ret_off + 1) % LINE_WORDS
        /\ fill'.rdy = fill.rdy \cup {bc.ret_off}
        /\ rd' = IF rd.left = 1 THEN NoBurst
                 ELSE [rd EXCEPT !.left = @ - 1, !.off = (@ + 1) % LINE_WORDS]
    BY <1>2, ReadBeat
  <2>2. o # bc.ret_off /\ Dist(bc.ret_off, o) < rd.left
    BY <1>1, <2>1 DEF FetchInv
  <2>3. Dist(bc'.ret_off, o) = Dist(bc.ret_off, o) - 1 /\ Dist(bc.ret_off, o) \in Nat
        /\ Dist(bc.ret_off, o) # 0
    BY <1>1, <2>1, <2>2, DistFacts
  <2>4. rd.left \in Nat /\ rd.left > 1
    BY <1>1, <2>2, <2>3 DEF Burst
  <2>5. rd'.left = rd.left - 1
    BY <1>1, <2>1, <2>4 DEF Burst
  <2> QED BY <2>2, <2>3, <2>4, <2>5
<1>3. CASE ~Received(beat)
  <2>1. bc' = bc /\ fill' = MergeStore(fill) /\ rd' = rd
    BY <1>3, ReadBeat
  <2>2. fill'.rdy = fill.rdy
    BY <1>1, <2>1, MergeFacts
  <2> QED BY <1>1, <2>1, <2>2 DEF FetchInv
<1> QED BY <1>2, <1>3

LEMMA FetchCycle ==
  ASSUME TypeOK, TypeOK', UncachedInv, FetchInv, NEW m0, NEW beat \in BOOLEAN,
         beat => rd.left > 0, NEW ack, NEW wready, NEW victim, NEW pf,
         BusStep(m0, beat, ack, wready, victim, pf)
  PROVE  FetchInv'
<1>1. bus_state' = "IDLE" => fill' = NoFill
  BY IdleFrom DEF BusReset
<1>2. ASSUME bus_state' = "READ", rd'.left > 0
      PROVE  /\ rd'.tag = bc'.tag /\ rd'.index = bc'.index
             /\ bc'.uncache => rd'.off = bc'.offset
  <2>1. CASE ReadRequest(ack)
    BY <1>2, <2>1 DEF ReadRequest
  <2>2. CASE Read(m0, beat)
    <3>1. /\ bc'.tag = bc.tag /\ bc'.index = bc.index /\ bc'.uncache = bc.uncache
          /\ bc'.offset = bc.offset /\ bus_state = "READ"
      BY <2>2 DEF Read, TypeOK
    <3>2. \/ rd' = rd
          \/ /\ rd' = [rd EXCEPT !.left = @ - 1, !.off = (@ + 1) % LINE_WORDS]
             /\ ~bc.uncache
      <4>1. bc.uncache => rd.left = 1
        BY <3>1 DEF UncachedInv, ReadingUncached
      <4> QED BY <1>2, <2>2, <4>1 DEF Read, SlaveReads, LastBeat, NoBurst
    <3>3. rd.left > 0
      <4>1. rd \in Burst
        BY DEF TypeOK
      <4>2. CASE rd' = rd
        BY <1>2, <4>2
      <4>3. CASE rd' = [rd EXCEPT !.left = @ - 1, !.off = (@ + 1) % LINE_WORDS]
        <5>1. rd'.left = rd.left - 1 /\ rd.left \in Int
          BY <4>1, <4>3, SizeAssumption DEF Burst
        <5> QED BY <1>2, <5>1
      <4> QED BY <3>2, <4>2, <4>3
    <3>4. rd.tag = bc.tag /\ rd.index = bc.index /\ (bc.uncache => rd.off = bc.offset)
      BY <3>1, <3>3 DEF FetchInv
    <3>5. rd'.tag = rd.tag /\ rd'.index = rd.index /\ (bc.uncache => rd'.off = rd.off)
      BY <3>2 DEF TypeOK, Burst
    <3> QED BY <3>1, <3>4, <3>5
  <2> QED BY <1>2, <2>1, <2>2, ReadingFrom
<1>3. ASSUME bus_state' = "READ", ~bc'.uncache, NEW o \in Words, o \notin fill'.rdy
      PROVE  Dist(bc'.ret_off, o) < rd'.left
  <2>1. CASE ReadRequest(ack)
    <3>1. rd'.left = LINE_WORDS
      BY <1>3, <2>1 DEF ReadRequest
    <3>2. bc'.ret_off \in Words
      BY DEF TypeOK
    <3> QED BY <3>1, <3>2, DistFacts, SizeAssumption
  <2>2. CASE Read(m0, beat)
    <3>1. ~bc.uncache
      BY <1>3, <2>2 DEF Read, TypeOK
    <3> QED BY <1>3, <2>2, <3>1, WordsToCome
  <2> QED BY <1>3, <2>1, <2>2, ReadingFrom
<1>4. ASSUME bus_state' = "REFILL" PROVE ~bc'.uncache /\ fill'.rdy = Words
  <2>1. Read(m0, beat) /\ ~bc.uncache /\ (LastBeat(beat) \/ rd.left = 0) /\ ~bc'.uncache
    BY <1>4, ReadEnds
  <2>2. rd'.left = 0
    BY <2>1 DEF Read, SlaveReads, LastBeat, Received, NoBurst
  <2>3. \A o \in Words : o \notin fill'.rdy => Dist(bc'.ret_off, o) < 0
    BY <2>1, <2>2, WordsToCome
  <2>4. bc'.ret_off \in Words /\ fill'.rdy \subseteq Words
    BY DEF TypeOK
  <2>5. ASSUME NEW o \in Words PROVE ~(Dist(bc'.ret_off, o) < 0)
    BY <2>4, DistFacts
  <2> QED BY <2>1, <2>3, <2>4, <2>5
<1> QED BY <1>1, <1>2, <1>3, <1>4 DEF FetchInv, Dist

LEMMA FillCycle ==
  ASSUME TypeOK, BeatInv, FetchInv, FillInv, NEW m0, NEW beat \in BOOLEAN,
         beat => bus_state = "READ" /\ rd.left > 0, NEW ack, NEW wready, NEW victim, NEW pf,
         BusStep(m0, beat, ack, wready, victim, pf)
  PROVE  FillInv'
<1> SUFFICES ASSUME FetchingLine', NEW o \in fill'.rdy, o \notin fill'.strobe
             PROVE  fill'.data[o] = mem'[bc'.tag][bc'.index][o]
  BY DEF FillInv
<1>1. CASE IdleMiss
  <2>1. fill'.rdy = {}
    BY <1>1, NoFillType, MergeFacts DEF IdleMiss, Merge, NoFill
  <2> QED BY <2>1
<1>2. CASE IdlePrefetch(m0, pf)
  BY <1>2 DEF IdlePrefetch, BusIdle, PrefetchTurn, FetchInv, NoFill
<1>3. CASE /\ FetchingLine
           /\ ReadRequest(ack) \/ Read(m0, beat)
           /\ bc'.tag = bc.tag /\ bc'.index = bc.index /\ mem' = mem
  <2>1. fill \in FillType /\ bc.ret_off \in Words /\ ~bc.uncache
    BY <1>3 DEF TypeOK, FillType, FetchingLine
  <2>2. CASE fill' = MergeStore(fill)
    <3>1. o \in fill.rdy /\ o \in Words /\ o \notin fill.strobe /\ fill'.data[o] = fill.data[o]
      BY <2>1, <2>2, MergeFacts DEF FillType
    <3> QED BY <1>3, <3>1 DEF FillInv
  <2>3. CASE /\ Read(m0, beat) /\ Received(beat)
             /\ fill'.rdy = fill.rdy \cup {bc.ret_off} /\ fill'.strobe = fill.strobe
             /\ fill'.data = [fill.data EXCEPT ![bc.ret_off] = MergedBeat]
    <3>1. CASE o = bc.ret_off
      <4>1. bus_state = "READ" /\ rd.left > 0
        BY <2>3 DEF Received
      <4>2. rd.tag = bc.tag /\ rd.index = bc.index /\ rd.off = bc.ret_off
        BY <2>1, <4>1 DEF FetchInv, BeatInv, BeatsAligned
      <4>3. fill'.data[o] = MergedBeat
        BY <2>1, <2>3, <3>1 DEF FillType, LineData
      <4> QED BY <1>3, <2>3, <3>1, <4>2, <4>3 DEF MergedBeat, BeatData, Lane
    <3>2. CASE o # bc.ret_off
      <4>1. fill'.data[o] = fill.data[o] /\ o \in fill.rdy
        BY <2>1, <2>3, <3>2 DEF FillType, LineData
      <4> QED BY <1>3, <2>3, <4>1 DEF FillInv
    <3> QED BY <3>1, <3>2
  <2> QED BY <1>3, <2>1, <2>2, <2>3, ReadBeat DEF ReadRequest
<1> QED BY <1>1, <1>2, <1>3, FetchChange

-----------------------------------------------------------------------------
(* A load returns the newest value.                                        *)

LEMMA DataInit == Init => DataInv
BY DEF Init, DataInv, PortInv, WaitInv, CacheableInv, FetchInv, FillInv, FetchingLine,
       Cached, NoReq, NoEntry, BeatInv

LEMMA SafeStep ==
  OpsAreCached /\ SafeInv /\ [Next]_vars => SafeInv'
BY StepInv, BeatStep, UncachedStep DEF SafeInv, IInv

LEMMA DataStep ==
  ASSUME OpsAreCached, ByAddress, SafeInv, DataInv, [Next]_vars PROVE DataInv'
<1>1. TypeOK /\ RefillOwnsPorts /\ BeatInv /\ UncachedInv
  BY DEF SafeInv, IInv
<1>2. TypeOK'
  BY <1>1, StepType
<1>3. CASE Next
  <2>1. PICK req \in Offers, beat \in Beats, ack \in Acks, wready \in WReadies,
             victim \in VictimChoices, pf \in PrefetchOffers :
               Cycle(req, beat, ack, wready, victim, pf)
    BY <1>3 DEF Next
  <2> DEFINE m0 == M0(req)
  <2>2. /\ m0 \in Requests \cup {NoReq}
        /\ beat \in BOOLEAN /\ (beat => bus_state = "READ" /\ rd.left > 0)
        /\ victim \in Ways /\ pf \in PrefetchLines \cup {NoLine}
    BY <1>1, InputTypes DEF Beats
  <2>3. /\ Pipeline(m0, beat) /\ RamPorts(m0, beat, victim)
        /\ BusStep(m0, beat, ack, wready, victim, pf)
    BY <2>1 DEF Cycle
  <2> HIDE DEF m0
  <2>4. PortInv'
    BY <1>1, <2>2, <2>3, PortCycle DEF DataInv
  <2>5. WaitInv'
    BY <1>1, <2>2, <2>3, WaitCycle DEF DataInv
  <2>6. CacheableInv'
    BY <1>1, <2>2, <2>3, CacheableCycle DEF DataInv
  <2>7. FetchInv'
    BY <1>1, <1>2, <2>2, <2>3, FetchCycle DEF DataInv
  <2>8. FillInv'
    BY <1>1, <2>2, <2>3, FillCycle DEF DataInv
  <2> QED BY <2>4, <2>5, <2>6, <2>7, <2>8 DEF DataInv
<1>4. CASE UNCHANGED vars
  BY <1>4
  DEF vars, cpuVars, busVars, slaveVars, DataInv, PortInv, WaitInv, CacheableInv, FetchInv,
      FillInv, FetchingLine, Cached, Load, Present, Device, Dist
<1> QED BY <1>3, <1>4

LEMMA HolderIs ==
  ASSUME NoDuplicateLine, NEW w \in Ways, NEW i \in Indices, ram[w][i].valid
  PROVE  Present(ram[w][i].tag, i) /\ HolderOf(ram[w][i].tag, i) = w
BY DEF NoDuplicateLine, Present, HolderOf

LEMMA LoadLatest == SafeInv /\ DataInv => LoadReturnsLatest
<1> SUFFICES ASSUME SafeInv, DataInv, NEW beat \in Beats, Load(m1), DataOk(beat)
             PROVE  Rdata(beat) = ProgramWord(m1.tag, m1.index, m1.offset)
  BY DEF LoadReturnsLatest
<1>1. /\ TypeOK /\ NoDuplicateLine /\ BeatInv /\ UncachedInv
      /\ PortInv /\ WaitInv /\ CacheableInv /\ FetchInv /\ FillInv
  BY DEF SafeInv, IInv, DataInv
<1>2. m1 \in Request /\ m1 \in Requests /\ m1.valid /\ ~m1.CACHE /\ ~m1.op
  BY <1>1, M1Type DEF TypeOK, Load, NoReq
<1>3. ~Extracted(m1.tag, m1.index)
  BY <1>2 DEF Extracted, CacheWriteback
<1>4. bus_state = "READ" \/ ~beat
  BY DEF Beats
<1>5. CASE fwd.valid
  <2>1. ~data_delay
    BY <1>1, <1>2, <1>5 DEF WaitInv
  <2>2. PICK w \in Ways : /\ ram[w][m1.index].valid /\ ram[w][m1.index].tag = m1.tag
                         /\ ram[w][m1.index].data[m1.offset] = fwd.data
    BY <1>1, <1>2, <1>5, <2>1 DEF PortInv
  <2>3. Present(m1.tag, m1.index) /\ HolderOf(m1.tag, m1.index) = w
    BY <1>1, <1>2, <2>2, HolderIs DEF Request
  <2> QED BY <1>3, <1>5, <2>2, <2>3 DEF Rdata, ProgramWord
<1>6. CASE ~fwd.valid /\ CacheHit /\ ~data_delay
  <2>1. Hits # {} /\ Hits \subseteq Ways
    BY <1>6 DEF CacheHit, Hits
  <2>2. HitWay \in Ways /\ out[HitWay].valid /\ out[HitWay].tag = m1.tag
    BY <2>1, LeastWayInSet DEF HitWay, Hits
  <2>3. out[HitWay] = ram[HitWay][m1.index]
    BY <1>1, <1>2, <1>6, <2>2 DEF PortInv
  <2>4. Present(m1.tag, m1.index) /\ HolderOf(m1.tag, m1.index) = HitWay
    BY <1>1, <1>2, <2>2, <2>3, HolderIs DEF Request
  <2> QED BY <1>3, <1>6, <2>3, <2>4 DEF Rdata, ProgramWord
<1>7. CASE ~fwd.valid /\ ~(CacheHit /\ ~data_delay) /\ bc.uncache
  <2>1. m1.uncache /\ bus_state = "READ" /\ beat
    <3>1. ReadingUncached => m1.uncache
      BY <1>1, <1>2 DEF UncachedInv, Oldest
    <3>2. ~Doable
      BY <1>7, <3>1 DEF Doable, ReadingUncached
    <3>3. beat
      BY <1>2, <1>7, <3>2 DEF DataOk, Store
    <3> QED BY <1>4, <1>7, <3>1, <3>3 DEF ReadingUncached
  <2>2. <<m1.tag, m1.index, m1.offset>> = <<bc.tag, bc.index, bc.offset>>
    BY <1>1, <1>2, <1>7, <2>1 DEF UncachedInv, Oldest, ReadingUncached
  <2>3. rd.tag = m1.tag /\ rd.index = m1.index /\ rd.off = m1.offset
    <3>1. rd.left > 0
      BY <2>1 DEF Beats
    <3> QED BY <1>1, <1>7, <2>1, <2>2, <3>1 DEF FetchInv
  <2>4. ~Present(m1.tag, m1.index)
    <3>1. Device(m1.tag, m1.index) /\ m1.index \in Indices
      BY <1>2, <2>1 DEF Device, Request
    <3> QED BY <1>1, <3>1 DEF CacheableInv, Present
  <2>5. ~Fetching(m1.tag, m1.index) /\ ~WritingLine(m1.tag, m1.index)
    BY <1>7, <2>1 DEF Fetching, WritingLine, Writing
  <2> QED BY <1>3, <1>7, <2>3, <2>4, <2>5 DEF Rdata, BeatData, ProgramWord
<1>8. CASE ~fwd.valid /\ ~(CacheHit /\ ~data_delay) /\ ~bc.uncache
  <2>1. /\ Doable /\ ~m1.uncache
        /\ (beat /\ bc.ret_off = m1.offset) \/ m1.offset \in fill.rdy
    BY <1>2, <1>8 DEF DataOk, Store, Doable
  <2>2. bc.tag = m1.tag /\ bc.index = m1.index /\ bus_state \in {"RDREQ", "READ"}
    BY <2>1 DEF Doable
  <2>3. ~Present(m1.tag, m1.index)
    <3>1. CASE data_delay
      BY <1>1, <1>2, <2>1, <3>1 DEF WaitInv, Cached
    <3>2. CASE ~data_delay
      <4>1. Hits = {} /\ \A w \in Ways : out[w] = ram[w][m1.index]
        BY <1>1, <1>2, <1>8, <2>1, <3>2 DEF PortInv, CacheHit
      <4> QED BY <4>1 DEF Hits, Present
    <3> QED BY <3>1, <3>2
  <2>4. Fetching(m1.tag, m1.index) /\ ~WritingLine(m1.tag, m1.index) /\ FetchingLine
    BY <1>8, <2>2 DEF Fetching, WritingLine, Writing, FetchingLine
  <2>5. ProgramWord(m1.tag, m1.index, m1.offset) =
          IF m1.offset \in fill.strobe THEN fill.data[m1.offset]
          ELSE mem[m1.tag][m1.index][m1.offset]
    BY <1>3, <2>3, <2>4 DEF ProgramWord
  <2>6. CASE beat /\ bc.ret_off = m1.offset
    <3>1. bus_state = "READ" /\ rd.left > 0
      BY <2>6 DEF Beats
    <3>2. rd.tag = bc.tag /\ rd.index = bc.index /\ rd.off = bc.ret_off
      BY <1>1, <1>8, <3>1 DEF FetchInv, BeatInv, BeatsAligned
    <3> QED BY <1>8, <2>2, <2>5, <2>6, <3>2 DEF Rdata, MergedBeat, BeatData, Lane
  <2>7. CASE ~(beat /\ bc.ret_off = m1.offset)
    BY <1>1, <1>8, <2>1, <2>2, <2>4, <2>5, <2>7 DEF Rdata, FillInv
  <2> QED BY <2>6, <2>7
<1> QED BY <1>5, <1>6, <1>7, <1>8

(* Whenever the data cache says that the data of a load is valid, it is    *)
(* the newest value of the word: from the RAM, from the store just before  *)
(* it, from the beat on the bus, from the line being assembled with the    *)
(* stores merged into it, or from the device.                              *)
THEOREM LoadsReturnLatest ==
  ASSUME OpsAreCached, ByAddress PROVE Spec => []LoadReturnsLatest
<1>1. Init => SafeInv /\ DataInv
  BY InitInv, BeatInit, UncachedInit, DataInit DEF SafeInv
<1>2. SafeInv /\ DataInv /\ [Next]_vars => (SafeInv /\ DataInv)'
  BY SafeStep, DataStep
<1> QED BY <1>1, <1>2, LoadLatest, PTL DEF Spec

-----------------------------------------------------------------------------
(* The writes on the bus and what the RAM may drop, for programs of loads  *)
(* and stores, cached and uncached.                                        *)

NoCacheOps == \A r \in Requests : ~r.CACHE

(* Uncached writes are for devices; a line written back is in no way.  The *)
(* slave has taken as many words as the cache has sent.                    *)
WriteInv ==
  /\ \A k \in 1 .. Len(uw) : uw[k].uncache /\ Device(uw[k].tag, uw[k].index)
  /\ Writing /\ wt.uncache => Device(wt.tag, wt.index)
  /\ Writing /\ ~wt.uncache =>
       /\ ~Device(wt.tag, wt.index) /\ ~Present(wt.tag, wt.index)
       /\ wt.wstrb /\ wt.offset = 0
  /\ bus_state = "WRITE_BACK" =>
       /\ wr.left > 0 => /\ wr.tag = wt.tag /\ wr.index = wt.index
                         /\ wr.off = IF wt.uncache THEN wt.offset ELSE wb_cnt
       /\ wt.uncache => wb_cnt + wr.left = 1

CleanInv ==
  /\ CleanMatchesMemory
  /\ \A w \in Ways, i \in Indices : ram[w][i].dirt => ram[w][i].valid
  /\ FetchingLine /\ fill.strobe # {} => fill.dirty

MemoryInv == SafeInv /\ DataInv /\ WriteInv /\ CleanInv

LEMMA NoOps ==
  ASSUME NoCacheOps, TypeOK
  PROVE  ~m1.CACHE /\ ~CacheWriteback /\ OpsAreCached
BY DEF NoCacheOps, TypeOK, NoReq, CacheWriteback, OpsAreCached

(* The word the bus is to write next, and the memory once it is written.   *)
NextWritten == IF wt.uncache THEN wt.offset ELSE wb_cnt
Performed ==
  [mem EXCEPT ![wt.tag][wt.index][NextWritten] =
     Lane(@, wt.data[NextWritten], wt.wstrb)]

Accepts == Writing /\ WBeatValid /\ mem' = Performed /\ wb_cnt' = wb_cnt + 1

LEMMA SlaveWritesWord ==
  ASSUME TypeOK, NEW b \in Burst, NEW wready, SlaveWrites(b, wready), b.left > 0,
         b.tag = wt.tag, b.index = wt.index, b.off = NextWritten,
         IF wt.uncache THEN wb_cnt + b.left = 1 ELSE wb_cnt + b.left = LINE_WORDS
  PROVE  /\ \/ WBeatValid /\ mem' = Performed /\ wb_cnt' = wb_cnt + 1
            \/ mem' = mem /\ wb_cnt' = wb_cnt
         /\ wr'.left > 0 => /\ wr'.tag = wt.tag /\ wr'.index = wt.index
                           /\ wr'.off = IF wt.uncache THEN wt.offset ELSE wb_cnt'
         /\ wt.uncache => wb_cnt' + wr'.left = 1
<1>1. CASE wready /\ WBeatValid
  <2>1. mem' = Performed /\ wb_cnt' = wb_cnt + 1
    BY <1>1 DEF SlaveWrites, Performed, WData, NextWritten
  <2>2. wr' = [b EXCEPT !.off = (@ + 1) % LINE_WORDS, !.left = @ - 1]
    BY <1>1 DEF SlaveWrites
  <2>3. /\ wr'.left = b.left - 1 /\ wr'.off = (b.off + 1) % LINE_WORDS
        /\ wr'.tag = b.tag /\ wr'.index = b.index
    BY <2>2 DEF Burst
  <2>4. b.left \in Nat /\ wb_cnt \in Nat /\ LINE_WORDS \in Nat
    BY SizeAssumption DEF TypeOK, Burst
  <2>5. CASE wt.uncache
    BY <1>1, <2>1, <2>3, <2>4, <2>5
  <2>6. CASE ~wt.uncache
    <3>1. wr'.left > 0 => wb_cnt + 1 < LINE_WORDS
      BY <2>3, <2>4, <2>6
    <3>2. wb_cnt + 1 < LINE_WORDS => (wb_cnt + 1) % LINE_WORDS = wb_cnt + 1
      BY <2>4
    <3> QED BY <1>1, <2>1, <2>3, <2>6, <3>1, <3>2 DEF NextWritten
  <2> QED BY <2>5, <2>6
<1>2. CASE ~(wready /\ WBeatValid)
  BY <1>2 DEF SlaveWrites, NextWritten
<1> QED BY <1>1, <1>2

(* A cycle of a write: it ends, nothing happens, or a word is written.     *)
LEMMA WriteChange ==
  ASSUME TypeOK, BeatInv, WriteInv, NEW m0, NEW beat, NEW ack \in BOOLEAN, NEW wready, NEW victim,
         NEW pf, BusStep(m0, beat, ack, wready, victim, pf), Writing
  PROVE  /\ uw' = UwAfterPush
         /\ \/ /\ bus_state' = "IDLE" /\ mem' = mem
               /\ wb_cnt = IF wt.uncache THEN 1 ELSE LINE_WORDS
            \/ Writing' /\ wt' = wt /\ mem' = mem /\ wb_cnt' = wb_cnt
            \/ Writing' /\ wt' = wt /\ Accepts
         /\ bus_state' = "WRITE_BACK" =>
              /\ wr'.left > 0 => /\ wr'.tag = wt.tag /\ wr'.index = wt.index
                                /\ wr'.off = IF wt.uncache THEN wt.offset ELSE wb_cnt'
              /\ wt.uncache => wb_cnt' + wr'.left = 1
<1>1. /\ uw' = UwAfterPush
      /\ WriteRequest(ack, wready) \/ WriteBack(wready) \/ WriteResponse(ack)
  BY DEF BusStep, IdleMiss, IdleCacheWriteback, IdleUncachedWrite, IdleUncachedRead,
         IdlePrefetch, IdleStay, PrefetchTurn, BusIdle, ReadRequest, Read, ReadUncached,
         Refill, Writing
<1>2. CASE WriteRequest(ack, wready) /\ ack
  <2> DEFINE b == [uncache |-> wt.uncache, tag |-> wt.tag, index |-> wt.index,
                   off |-> wt.offset, left |-> IF wt.uncache THEN 1 ELSE LINE_WORDS]
  <2>1. b \in Burst /\ b.left > 0
    BY SizeAssumption DEF TypeOK, WriteReq, Burst
  <2>2. wb_cnt = 0 /\ bus_state' = "WRITE_BACK" /\ wt' = wt /\ SlaveWrites(b, wready)
    BY <1>2 DEF WriteRequest, BeatInv
  <2>3. /\ b.tag = wt.tag /\ b.index = wt.index /\ b.off = NextWritten
        /\ IF wt.uncache THEN wb_cnt + b.left = 1 ELSE wb_cnt + b.left = LINE_WORDS
    BY <2>2, SizeAssumption DEF NextWritten, WriteInv
  <2> HIDE DEF b
  <2> QED BY <1>1, <2>1, <2>2, <2>3, SlaveWritesWord DEF Accepts, Writing
<1>3. CASE WriteRequest(ack, wready) /\ ~ack
  BY <1>1, <1>3 DEF WriteRequest, Writing
<1>4. CASE WriteBack(wready)
  <2>1. wr \in Burst /\ wr.left > 0 /\ SlaveWrites(wr, wready) /\ bus_state = "WRITE_BACK"
        /\ wt' = wt /\ bus_state' = bus_state
    BY <1>4 DEF WriteBack, TypeOK
  <2>2. /\ wr.tag = wt.tag /\ wr.index = wt.index /\ wr.off = NextWritten
        /\ IF wt.uncache THEN wb_cnt + wr.left = 1 ELSE wb_cnt + wr.left = LINE_WORDS
    BY <2>1 DEF WriteInv, NextWritten, BeatInv, BeatsAligned
  <2> QED BY <1>1, <2>1, <2>2, SlaveWritesWord DEF Accepts, Writing
<1>5. CASE WriteResponse(ack) /\ ack
  <2>1. wr.left = 0 /\ bus_state = "WRITE_BACK" /\ bus_state' = "IDLE" /\ mem' = mem
    BY <1>5 DEF WriteResponse, AwaitsResponse
  <2>2. wb_cnt = IF wt.uncache THEN 1 ELSE LINE_WORDS
    BY <2>1, SizeAssumption DEF WriteInv, BeatInv, BeatsAligned, TypeOK
  <2> QED BY <1>1, <2>1, <2>2
<1>6. CASE WriteResponse(ack) /\ ~ack
  BY <1>1, <1>6 DEF WriteResponse, AwaitsResponse, busVars, Writing, WriteInv
<1> QED BY <1>1, <1>2, <1>3, <1>4, <1>5, <1>6

(* In every other state memory is left alone.                              *)
LEMMA MemoryKept ==
  ASSUME NEW m0, NEW beat, NEW ack, NEW wready, NEW victim, NEW pf,
         BusStep(m0, beat, ack, wready, victim, pf), ~Writing
  PROVE  mem' = mem
BY DEF BusStep, IdleMiss, IdleCacheWriteback, IdleUncachedWrite, IdleUncachedRead,
       IdlePrefetch, IdleStay, PrefetchTurn, StartFetch, StartWrite, BusIdle, slaveVars,
       ReadRequest, Read, ReadUncached, Refill, WriteRequest, WriteBack, WriteResponse,
       AwaitsResponse, Writing

(* Without CACHE operations only stores that hit and refills change the    *)
(* RAM.                                                                    *)
LEMMA RamKept ==
  ASSUME NoCacheOps, TypeOK, RefillOwnsPorts, NEW m0, NEW beat, NEW victim \in Ways,
         RamPorts(m0, beat, victim), ~Refills, NEW w \in Ways, NEW i \in Indices
  PROVE  /\ ram'[w][i].valid = ram[w][i].valid /\ ram'[w][i].tag = ram[w][i].tag
         /\ IF StoreHit /\ w \in Hits /\ i = m1.index
            THEN /\ ram'[w][i].dirt
                 /\ ram'[w][i].data =
                      [ram[w][i].data EXCEPT ![m1.offset] = Lane(@, m1.wdata, m1.wstrb)]
            ELSE ram'[w][i] = ram[w][i]
<1>1. ram[w][i] \in Entry
  BY DEF TypeOK
<1>2. CASE /\ StoreHit /\ w \in Hits /\ i = m1.index
           /\ ram'[w][i] = [ram[w][i] EXCEPT !.dirt = TRUE,
                  !.data[m1.offset] = Lane(@, m1.wdata, m1.wstrb)]
  BY <1>1, <1>2 DEF Entry
<1>3. CASE ram'[w][i] = ram[w][i] /\ ~(StoreHit /\ w \in Hits /\ i = m1.index)
  BY <1>3
<1> QED BY <1>2, <1>3, RamChange, NoOps

(* The refill puts the fetched line in the victim and nothing else.        *)
LEMMA RamRefilled ==
  ASSUME NoCacheOps, TypeOK, RefillOwnsPorts, NEW m0, NEW beat, NEW victim \in Ways,
         RamPorts(m0, beat, victim), Refills, NEW w \in Ways, NEW i \in Indices
  PROVE  ram'[w][i] = IF w = victim /\ i = bc.index
                      THEN [valid |-> TRUE, tag |-> bc.tag, dirt |-> fill.dirty,
                            data |-> fill.data]
                      ELSE ram[w][i]
<1>1. ram[w] \in [Indices -> Entry] /\ bus_state = "REFILL" /\ WriteIndex = bc.index
  BY DEF TypeOK, Refills, WriteIndex
<1>2. ram'[w] = [ram[w] EXCEPT ![bc.index] = Written(w, victim, @)]
  BY <1>1 DEF RamPorts
<1>3. Written(w, victim, ram[w][bc.index]) =
        IF w = victim
        THEN [valid |-> TRUE, tag |-> bc.tag, dirt |-> fill.dirty, data |-> fill.data]
        ELSE ram[w][bc.index]
  BY DEF Written
<1> QED BY <1>1, <1>2, <1>3

(* What the ports show in REFILL.                                          *)
LEMMA RefillView ==
  ASSUME TypeOK, RefillOwnsPorts, FetchInv, bus_state = "REFILL"
  PROVE  /\ bc.index \in Indices /\ FetchingLine /\ ~Writing /\ ~StoreHit
         /\ \A w \in Ways : out[w] = ram[w][bc.index]
         /\ Refills <=> ~Present(bc.tag, bc.index)
BY DEF TypeOK, RefillOwnsPorts, FetchInv, FetchingLine, Writing, StoreHit, Refills,
       Duplication, Present

(* Only the start of a write puts one on the bus.                          *)
LEMMA WriteStarts ==
  ASSUME NoCacheOps, TypeOK, NEW m0, NEW beat, NEW ack, NEW wready, NEW victim, NEW pf,
         BusStep(m0, beat, ack, wready, victim, pf), ~Writing, Writing'
  PROVE  \/ IdleUncachedWrite
         \/ /\ bus_state = "REFILL" /\ out[victim].dirt /\ ~Duplication /\ uw' = UwAfterPush
            /\ StartWrite([uncache |-> FALSE, tag |-> out[victim].tag, index |-> bc.index,
                           offset |-> 0, wstrb |-> TRUE, data |-> out[victim].data])
<1>1. ~IdleCacheWriteback
  BY NoOps DEF IdleCacheWriteback
<1>2. ~(\/ IdleMiss \/ IdleUncachedRead(m0) \/ IdlePrefetch(m0, pf) \/ IdleStay(m0, pf)
        \/ ReadRequest(ack) \/ ReadUncached(beat) \/ Read(m0, beat)
        \/ WriteRequest(ack, wready) \/ WriteBack(wready) \/ WriteResponse(ack))
  BY DEF IdleMiss, IdleUncachedRead, IdlePrefetch, IdleStay, PrefetchTurn, StartFetch,
         BusIdle, ReadRequest, ReadUncached, Read, WriteRequest, WriteBack, WriteResponse,
         AwaitsResponse, Writing
<1> QED BY <1>1, <1>2 DEF BusStep, Refill, Writing

QueuedForDevices(q) == \A k \in 1 .. Len(q) : q[k].uncache /\ Device(q[k].tag, q[k].index)

LEMMA PushedForDevice ==
  ASSUME TypeOK, QueuedForDevices(uw) PROVE QueuedForDevices(UwAfterPush)
<1>1. uw \in Seq(WriteReq) /\ UwReq \in WriteReq
  BY UwReqType DEF TypeOK
<1>2. CASE UwPush
  <2>1. UwReq.uncache /\ Device(UwReq.tag, UwReq.index)
    BY <1>2 DEF UwPush, UwReq, Device, Store, TypeOK, NoReq
  <2>2. UwAfterPush = Append(uw, UwReq)
    BY <1>2 DEF UwAfterPush
  <2> QED BY <1>1, <2>1, <2>2 DEF QueuedForDevices
<1>3. CASE ~UwPush
  BY <1>3 DEF UwAfterPush
<1> QED BY <1>2, <1>3

LEMMA QueueFrom ==
  ASSUME NEW m0, NEW beat, NEW ack, NEW wready, NEW victim, NEW pf,
         BusStep(m0, beat, ack, wready, victim, pf)
  PROVE  \/ uw' = uw
         \/ uw' = UwAfterPush
         \/ IdleUncachedWrite
BY DEF BusStep, IdleMiss, IdleCacheWriteback, IdleUncachedRead, IdlePrefetch, IdleStay

LEMMA WritesCycle ==
  ASSUME NoCacheOps, TypeOK, TypeOK', RefillOwnsPorts, NoDuplicateLine, BeatInv,
         CacheableInv, FetchInv, WriteInv, CleanInv,
         NEW m0, NEW beat, NEW ack \in BOOLEAN, NEW wready,
         NEW victim \in Ways, NEW pf, RamPorts(m0, beat, victim),
         BusStep(m0, beat, ack, wready, victim, pf)
  PROVE  WriteInv'
<1> USE DEF QueuedForDevices
<1>1. QueuedForDevices(UwAfterPush) /\ UwAfterPush \in Seq(WriteReq)
  BY PushedForDevice, UwAfterPushType DEF WriteInv
<1>2. CASE IdleUncachedWrite
  <2> DEFINE q == UwAfterPush
  <2>1. uw' = Tail(q) /\ wt' = Head(q) /\ bus_state' = "WTREQ" /\ q # <<>>
    BY <1>2 DEF IdleUncachedWrite, StartWrite
  <2> HIDE DEF q
  <2>2. Head(q) = q[1] /\ 1 \in 1 .. Len(q)
    BY <1>1, <2>1 DEF q
  <2>3. Len(Tail(q)) = Len(q) - 1 /\ \A k \in 1 .. Len(q) - 1 : Tail(q)[k] = q[k + 1]
    BY <1>1, <2>1 DEF q
  <2>4. \A k \in 1 .. Len(uw') : uw'[k].uncache /\ Device(uw'[k].tag, uw'[k].index)
    <3>1. Len(q) \in Nat /\ QueuedForDevices(q)
      BY <1>1 DEF q
    <3> QED BY <2>1, <2>3, <3>1
  <2>5. wt'.uncache /\ Device(wt'.tag, wt'.index)
    BY <1>1, <2>1, <2>2 DEF q
  <2> QED BY <2>1, <2>4, <2>5 DEF WriteInv, Writing, Device
<1>3. CASE ~IdleUncachedWrite
  <2>1. QueuedForDevices(uw')
    BY <1>1, <1>3, QueueFrom DEF WriteInv
  <2>2. CASE Writing /\ Writing'
    <3>1. ~Refills /\ wt' = wt
      BY <2>2, WriteChange DEF Writing, Refills
    <3>2. ASSUME ~wt.uncache PROVE ~Present(wt.tag, wt.index)'
      <4>1. wt.index \in Indices
        BY DEF TypeOK, WriteReq
      <4>2. \A w \in Ways : /\ ram'[w][wt.index].valid = ram[w][wt.index].valid
                            /\ ram'[w][wt.index].tag = ram[w][wt.index].tag
        BY <3>1, <4>1, RamKept
      <4>3. ~Present(wt.tag, wt.index)
        BY <2>2, <3>2 DEF WriteInv
      <4> QED BY <3>1, <4>2, <4>3 DEF Present
    <3> QED BY <2>1, <2>2, <3>1, <3>2, WriteChange DEF WriteInv, Device, Writing
  <2>3. CASE ~Writing /\ Writing'
    <3>1. /\ bus_state = "REFILL" /\ out[victim].dirt /\ ~Duplication
          /\ wt' = [uncache |-> FALSE, tag |-> out[victim].tag, index |-> bc.index,
                    offset |-> 0, wstrb |-> TRUE, data |-> out[victim].data]
          /\ bus_state' = "WTREQ"
      BY <1>3, <2>3, WriteStarts DEF StartWrite
    <3>2. Refills /\ bc.index \in Indices /\ out[victim] = ram[victim][bc.index]
      BY <3>1, RefillView DEF Refills
    <3>3. ram[victim][bc.index].valid /\ out[victim].tag # bc.tag
      BY <3>1, <3>2 DEF CleanInv, Duplication
    <3>4. ~Device(wt'.tag, wt'.index)
      BY <3>1, <3>2, <3>3 DEF CacheableInv
    <3>5. ASSUME NEW w \in Ways, ram'[w][bc.index].valid
          PROVE  ram'[w][bc.index].tag # wt'.tag
      <4>1. CASE w = victim
        BY <3>1, <3>2, <3>3, <4>1, RamRefilled
      <4>2. CASE w # victim
        BY <3>1, <3>2, <3>3, <3>5, <4>2, RamRefilled DEF NoDuplicateLine
      <4> QED BY <4>1, <4>2
    <3>6. ~Present(wt.tag, wt.index)'
      BY <3>1, <3>5 DEF Present
    <3> QED BY <2>1, <3>1, <3>4, <3>6 DEF WriteInv, Device
  <2>4. CASE ~Writing'
    BY <2>1, <2>4 DEF WriteInv, Writing, Device
  <2> QED BY <2>2, <2>3, <2>4
<1> QED BY <1>2, <1>3

(* A word that is written belongs to no line of the RAM.                   *)
LEMMA WritesMissRam ==
  ASSUME TypeOK, CacheableInv, WriteInv, Writing, Accepts,
         NEW w \in Ways, NEW i \in Indices, ram[w][i].valid
  PROVE  mem'[ram[w][i].tag][i] = mem[ram[w][i].tag][i]
<1> DEFINE t == ram[w][i].tag
<1>1. ~(wt.tag = t /\ wt.index = i)
  BY DEF WriteInv, CacheableInv, Present
<1>2. t \in Tags /\ wt.tag \in Tags /\ wt.index \in Indices
  BY DEF TypeOK, Entry, WriteReq
<1> QED BY <1>1, <1>2 DEF Accepts, Performed, TypeOK

LEMMA CleanKept ==
  ASSUME NoCacheOps, TypeOK, RefillOwnsPorts, PortInv, CacheableInv, FetchInv, FillInv,
         WriteInv, BeatInv, CleanInv, NEW m0, NEW beat, NEW ack \in BOOLEAN, NEW wready,
         NEW victim \in Ways, NEW pf, RamPorts(m0, beat, victim),
         BusStep(m0, beat, ack, wready, victim, pf)
  PROVE  /\ CleanMatchesMemory'
         /\ \A w \in Ways, i \in Indices : ram'[w][i].dirt => ram'[w][i].valid
<1> SUFFICES ASSUME NEW w \in Ways, NEW i \in Indices
             PROVE  /\ ram'[w][i].dirt => ram'[w][i].valid
                    /\ ram'[w][i].valid /\ ~ram'[w][i].dirt =>
                         ram'[w][i].data = mem'[ram'[w][i].tag][i]
  BY DEF CleanMatchesMemory
<1>1. ram[w][i].valid => mem'[ram[w][i].tag][i] = mem[ram[w][i].tag][i]
  BY WritesMissRam, MemoryKept, WriteChange
<1>2. CASE ram'[w][i] = ram[w][i]
  BY <1>1, <1>2 DEF CleanInv, CleanMatchesMemory
<1>3. CASE Refills
  <2>1. FetchingLine /\ mem' = mem /\ bc.index \in Indices
    BY <1>3, RefillView, MemoryKept DEF Refills
  <2>2. CASE w = victim /\ i = bc.index
    <3>1. ram'[w][i] = [valid |-> TRUE, tag |-> bc.tag, dirt |-> fill.dirty,
                        data |-> fill.data]
      <4>1. ram'[w][i] = IF w = victim /\ i = bc.index
                         THEN [valid |-> TRUE, tag |-> bc.tag, dirt |-> fill.dirty,
                               data |-> fill.data]
                         ELSE ram[w][i]
        BY ZenonT(60), <1>3, RamRefilled
      <4> QED BY <2>2, <4>1
    <3>2. ASSUME ~fill.dirty PROVE fill.data = mem[bc.tag][bc.index]
      <4>1. fill.strobe = {} /\ fill.rdy = Words
        BY <1>3, <2>1, <3>2 DEF CleanInv, FetchInv, Refills
      <4>2. fill.data \in [Words -> Vals] /\ mem[bc.tag][bc.index] \in [Words -> Vals]
        BY DEF TypeOK, LineData
      <4>3. \A o \in Words : fill.data[o] = mem[bc.tag][bc.index][o]
        BY <2>1, <4>1 DEF FillInv
      <4> QED BY <4>2, <4>3
    <3> QED BY <2>1, <2>2, <3>1, <3>2
  <2>3. CASE ~(w = victim /\ i = bc.index)
    BY <1>2, <1>3, <2>3, RamRefilled
  <2> QED BY <2>2, <2>3
<1>4. CASE StoreHit /\ w \in Hits /\ i = m1.index /\ ~Refills
  <2>1. ram'[w][i].dirt /\ ram'[w][i].valid = ram[w][i].valid
    BY <1>4, RamKept
  <2>2. ram[w][i].valid
    BY <1>4, StoreHitWrites
  <2> QED BY <2>1, <2>2
<1> QED BY <1>2, <1>3, <1>4, RamKept

LEMMA MergeDirties ==
  ASSUME TypeOK, NEW f \in FillType, f.strobe # {} => f.dirty
  PROVE  /\ Merge(f).dirty
         /\ MergeStore(f).strobe # {} => MergeStore(f).dirty
<1>1. Merge(f).dirty
  BY DEF Merge, FillType
<1> QED BY <1>1 DEF MergeStore

LEMMA DirtyCycle ==
  ASSUME TypeOK, FetchInv, CleanInv, NEW m0, NEW beat \in BOOLEAN, NEW ack, NEW wready,
         NEW victim, NEW pf, BusStep(m0, beat, ack, wready, victim, pf),
         FetchingLine', fill'.strobe # {}
  PROVE  fill'.dirty
<1>1. CASE IdleMiss
  <2>1. NoFill \in FillType /\ NoFill.strobe = {}
    BY NoFillType DEF NoFill
  <2> QED BY <1>1, <2>1, MergeDirties DEF IdleMiss
<1>2. CASE IdlePrefetch(m0, pf)
  BY <1>2 DEF IdlePrefetch, BusIdle, PrefetchTurn, FetchInv, NoFill
<1>3. CASE FetchingLine /\ (ReadRequest(ack) \/ Read(m0, beat))
  <2>1. fill \in FillType /\ (fill.strobe # {} => fill.dirty)
    BY <1>3 DEF CleanInv, TypeOK, FillType
  <2>2. CASE fill' = MergeStore(fill)
    BY <2>1, <2>2, MergeDirties
  <2>3. CASE fill'.strobe = fill.strobe /\ fill'.dirty = fill.dirty
    BY <2>1, <2>3
  <2> QED BY <1>3, <2>2, <2>3, ReadBeat DEF ReadRequest
<1> QED BY <1>1, <1>2, <1>3, FetchChange

LEMMA CleanCycle ==
  ASSUME NoCacheOps, TypeOK, RefillOwnsPorts, PortInv, CacheableInv, FetchInv, FillInv,
         WriteInv, BeatInv, CleanInv, NEW m0, NEW beat \in BOOLEAN, NEW ack \in BOOLEAN,
         NEW wready, NEW victim \in Ways, NEW pf, RamPorts(m0, beat, victim),
         BusStep(m0, beat, ack, wready, victim, pf)
  PROVE  CleanInv'
BY CleanKept, DirtyCycle DEF CleanInv

LEMMA MemoryInit == Init => MemoryInv
<1> SUFFICES ASSUME Init PROVE MemoryInv
  OBVIOUS
<1>1. SafeInv /\ DataInv
  BY InitInv, BeatInit, UncachedInit, DataInit DEF SafeInv
<1>2. WriteInv
  BY DEF Init, WriteInv, Writing
<1>3. CleanInv
  BY DEF Init, CleanInv, CleanMatchesMemory, NoEntry, FetchingLine
<1> QED BY <1>1, <1>2, <1>3 DEF MemoryInv

LEMMA MemoryStep ==
  ASSUME NoCacheOps, ByAddress, MemoryInv, [Next]_vars PROVE MemoryInv'
<1>1. /\ TypeOK /\ RefillOwnsPorts /\ NoDuplicateLine /\ BeatInv /\ PortInv
      /\ CacheableInv /\ FetchInv /\ FillInv /\ WriteInv /\ CleanInv
  BY DEF MemoryInv, SafeInv, IInv, DataInv
<1>2. OpsAreCached
  BY <1>1, NoOps
<1>3. SafeInv' /\ DataInv'
  BY <1>2, SafeStep, DataStep DEF MemoryInv
<1>4. TypeOK'
  BY <1>1, StepType
<1>5. CASE Next
  <2>1. PICK req \in Offers, beat \in Beats, ack \in Acks, wready \in WReadies,
             victim \in VictimChoices, pf \in PrefetchOffers :
               Cycle(req, beat, ack, wready, victim, pf)
    BY <1>5 DEF Next
  <2>2. beat \in BOOLEAN /\ ack \in BOOLEAN /\ victim \in Ways
    BY <1>1, InputTypes
  <2>3. /\ RamPorts(M0(req), beat, victim)
        /\ BusStep(M0(req), beat, ack, wready, victim, pf)
    BY <2>1 DEF Cycle
  <2>4. WriteInv'
    BY <1>1, <1>4, <2>2, <2>3, WritesCycle
  <2>5. CleanInv'
    BY <1>1, <2>2, <2>3, CleanCycle
  <2> QED BY <1>3, <2>4, <2>5 DEF MemoryInv
<1>6. CASE UNCHANGED vars
  <2>1. WriteInv'
    BY <1>1, <1>6 DEF vars, cpuVars, busVars, slaveVars, WriteInv, Writing, Device, Present
  <2>2. CleanInv'
    BY <1>1, <1>6 DEF vars, cpuVars, busVars, slaveVars, CleanInv, CleanMatchesMemory, FetchingLine
  <2> QED BY <1>3, <2>1, <2>2 DEF MemoryInv
<1> QED BY <1>5, <1>6

(* A clean line is a copy of memory, so the refill that drops it loses     *)
(* nothing.                                                                *)
THEOREM CleanLinesMatch ==
  ASSUME NoCacheOps, ByAddress PROVE Spec => []CleanMatchesMemory
<1>1. MemoryInv => CleanMatchesMemory
  BY DEF MemoryInv, CleanInv
<1>2. MemoryInv /\ [Next]_vars => MemoryInv'
  BY MemoryStep
<1> QED BY <1>1, <1>2, MemoryInit, PTL DEF Spec

-----------------------------------------------------------------------------
(* The newest value of a word that no way of the RAM holds.                *)

Below(t, i, o) ==
  IF Fetching(t, i) /\ o \in fill.strobe THEN fill.data[o]
  ELSE IF WritingLine(t, i) /\ o >= wb_cnt THEN wt.data[o]
  ELSE mem[t][i][o]

(* A device word is written, and a store is merged into a line on its way. *)
Performs(t, i, o) ==
  /\ Accepts /\ wt.uncache /\ wt.wstrb
  /\ wt.tag = t /\ wt.index = i /\ wt.offset = o
At(t, i, o) == m1.tag = t /\ m1.index = i /\ m1.offset = o
Merges(t, i, o) ==
  /\ Cached(m1) /\ m1.op /\ m1.wstrb /\ At(t, i, o)
  /\ (BusIdle /\ Miss) \/ Doable

LEMMA BelowWriting ==
  ASSUME TypeOK, BeatInv, WriteInv, NEW m0, NEW beat, NEW ack \in BOOLEAN, NEW wready,
         NEW victim, NEW pf, BusStep(m0, beat, ack, wready, victim, pf), Writing,
         NEW t \in Tags, NEW i \in Indices, NEW o \in Words
  PROVE  Below(t, i, o)' = IF Performs(t, i, o) THEN wt.data[o] ELSE Below(t, i, o)
<1>1. ~Fetching(t, i)
  BY DEF Writing, Fetching
<1>2. LINE_WORDS \in Nat /\ wb_cnt \in Nat /\ o \in Nat /\ o < LINE_WORDS
  BY SizeAssumption DEF TypeOK, Words
<1>3. CASE bus_state' = "IDLE" /\ mem' = mem /\ wb_cnt = (IF wt.uncache THEN 1 ELSE LINE_WORDS)
  <2>1. ~Accepts
    BY <1>2, <1>3, SizeAssumption DEF Accepts, WBeatValid
  <2>2. Below(t, i, o) = mem[t][i][o]
    BY <1>1, <1>2, <1>3 DEF Below, WritingLine
  <2>3. ~Fetching(t, i)' /\ ~WritingLine(t, i)'
    BY <1>3 DEF Fetching, WritingLine, Writing
  <2> QED BY <1>3, <2>1, <2>2, <2>3 DEF Below, Performs
<1>4. CASE Writing' /\ wt' = wt /\ mem' = mem /\ wb_cnt' = wb_cnt
  <2>1. ~Accepts /\ ~Fetching(t, i)' /\ WritingLine(t, i)' = WritingLine(t, i)
    BY <1>2, <1>4 DEF Accepts, Fetching, WritingLine, Writing
  <2> QED BY <1>1, <1>4, <2>1 DEF Below, Performs
<1>5. CASE Writing' /\ wt' = wt /\ Accepts
  <2>1. ~Fetching(t, i)' /\ WritingLine(t, i)' = WritingLine(t, i)
    BY <1>5 DEF Fetching, WritingLine, Writing
  <2>2. Below(t, i, o)' = IF WritingLine(t, i) /\ o >= wb_cnt + 1 THEN wt.data[o] ELSE mem'[t][i][o]
    BY <1>5, <2>1 DEF Below, Accepts
  <2>3. Below(t, i, o) = IF WritingLine(t, i) /\ o >= wb_cnt THEN wt.data[o] ELSE mem[t][i][o]
    BY <1>1 DEF Below
  <2>4. NextWritten \in Words
    BY <1>2, <1>5, SizeAssumption DEF NextWritten, Accepts, WBeatValid, TypeOK, WriteReq, Words
  <2>5. mem'[t][i][o] = IF wt.tag = t /\ wt.index = i /\ NextWritten = o /\ wt.wstrb
                        THEN wt.data[o] ELSE mem[t][i][o]
    BY <1>5, <2>4 DEF Accepts, Performed, Lane, TypeOK, WriteReq, LineData
  <2>6. CASE wt.uncache
    BY <1>5, <2>2, <2>3, <2>5, <2>6 DEF Performs, NextWritten, WritingLine
  <2>7. CASE ~wt.uncache
    BY <1>2, <2>2, <2>3, <2>5, <2>7 DEF Performs, NextWritten, WritingLine, WriteInv
  <2> QED BY <2>6, <2>7
<1> QED BY <1>3, <1>4, <1>5, WriteChange

LEMMA MergedWord ==
  ASSUME TypeOK, NEW f \in FillType, NEW o \in Words
  PROVE  /\ o \in Merge(f).strobe <=> o \in f.strobe \/ (m1.wstrb /\ m1.offset = o)
         /\ Merge(f).data[o] = IF m1.wstrb /\ m1.offset = o THEN m1.wdata ELSE f.data[o]
<1>1. m1.offset \in Words /\ f.data \in [Words -> Vals]
  BY M1Type DEF Request, FillType, LineData
<1>2. Merge(f).strobe = IF m1.wstrb THEN f.strobe \cup {m1.offset} ELSE f.strobe
  BY DEF Merge, FillType
<1>3. Merge(f).data = [f.data EXCEPT ![m1.offset] = Lane(@, m1.wdata, m1.wstrb)]
  BY DEF Merge, FillType
<1> QED BY <1>1, <1>2, <1>3 DEF Lane

LEMMA BelowFetching ==
  ASSUME TypeOK, UncachedInv, NEW m0, NEW beat \in BOOLEAN, NEW ack, NEW wready,
         NEW victim, NEW pf, BusStep(m0, beat, ack, wready, victim, pf),
         bus_state \in {"RDREQ", "READ"},
         NEW t \in Tags, NEW i \in Indices, NEW o \in Words
  PROVE  Below(t, i, o)' = IF Merges(t, i, o) THEN m1.wdata ELSE Below(t, i, o)
<1>1. ~Writing /\ mem' = mem
  BY MemoryKept DEF Writing
<1>2. ReadRequest(ack) \/ Read(m0, beat) \/ ReadUncached(beat)
  BY DEF BusStep, IdleMiss, IdleCacheWriteback, IdleUncachedWrite, IdleUncachedRead,
         IdlePrefetch, IdleStay, PrefetchTurn, BusIdle, Refill, WriteRequest, WriteBack,
         WriteResponse, AwaitsResponse
<1>3. ~WritingLine(t, i) /\ ~WritingLine(t, i)'
  BY <1>1, <1>2 DEF WritingLine, Writing, ReadRequest, Read, ReadUncached
<1>4. bc.uncache => ~Doable
  BY DEF UncachedInv, ReadingUncached, Oldest, Doable
<1>5. Merges(t, i, o) <=> Store(m1) /\ Doable /\ m1.wstrb /\ At(t, i, o)
  <2>1. m1.op => ~m1.CACHE
    BY InputAssumption DEF TypeOK, NoReq
  <2> QED BY <2>1 DEF Merges, Cached, Store, Doable, BusIdle
<1>6. CASE bc.uncache
  <2>1. ~Fetching(t, i) /\ ~Fetching(t, i)'
    <3>1. CASE ReadUncached(beat)
      BY <1>6, <3>1 DEF ReadUncached, Fetching
    <3>2. CASE ~ReadUncached(beat)
      BY <1>2, <1>6, <3>2 DEF ReadRequest, Read, Fetching, TypeOK
    <3> QED BY <3>1, <3>2
  <2> QED BY <1>1, <1>3, <1>4, <1>5, <1>6, <2>1 DEF Below
<1>7. CASE ~bc.uncache
  <2>1. ReadRequest(ack) \/ Read(m0, beat)
    BY <1>2, <1>7 DEF ReadUncached
  <2>2. Fetching(t, i)' <=> bc.tag = t /\ bc.index = i
    BY <1>7, <2>1 DEF ReadRequest, Read, Fetching, TypeOK
  <2>3. Fetching(t, i) <=> bc.tag = t /\ bc.index = i
    BY <1>7 DEF Fetching
  <2>4. fill \in FillType
    BY DEF TypeOK, FillType
  <2>5. CASE fill' = MergeStore(fill)
    <3>1. CASE Store(m1) /\ Doable
      <4>1. fill' = Merge(fill)
        BY <2>5, <3>1 DEF MergeStore
      <4>2. m1.tag = bc.tag /\ m1.index = bc.index
        BY <3>1 DEF Doable
      <4>3. /\ o \in fill'.strobe <=> o \in fill.strobe \/ (m1.wstrb /\ m1.offset = o)
            /\ fill'.data[o] = IF m1.wstrb /\ m1.offset = o THEN m1.wdata ELSE fill.data[o]
        BY <2>4, <4>1, MergedWord
      <4> QED BY <1>1, <1>3, <1>5, <2>2, <2>3, <3>1, <4>2, <4>3 DEF Below, At
    <3>2. CASE ~(Store(m1) /\ Doable)
      BY <1>1, <1>3, <1>5, <2>2, <2>3, <2>5, <3>2 DEF Below, MergeStore
    <3> QED BY <3>1, <3>2
  <2>6. CASE /\ ~(Store(m1) /\ Doable) /\ Read(m0, beat) /\ fill'.strobe = fill.strobe
             /\ fill'.data = [fill.data EXCEPT ![bc.ret_off] = MergedBeat]
    <3>1. ASSUME o \in fill.strobe PROVE fill'.data[o] = fill.data[o]
      BY <2>4, <2>6, <3>1 DEF FillType, LineData, MergedBeat, Lane
    <3> QED BY <1>1, <1>3, <1>5, <2>2, <2>3, <2>6, <3>1 DEF Below
  <2> QED BY <2>1, <2>5, <2>6, ReadBeat DEF ReadRequest
<1> QED BY <1>6, <1>7

LEMMA BelowIdle ==
  ASSUME NoCacheOps, TypeOK, FetchInv, WriteInv, WriteInv', NEW m0, NEW beat, NEW ack,
         NEW wready, NEW victim, NEW pf, BusStep(m0, beat, ack, wready, victim, pf), BusIdle,
         NEW t \in Tags, NEW i \in Indices, NEW o \in Words
  PROVE  Below(t, i, o)' = IF Merges(t, i, o) THEN m1.wdata ELSE Below(t, i, o)
<1>1. ~Writing /\ mem' = mem /\ ~Doable /\ Below(t, i, o) = mem[t][i][o]
  BY MemoryKept DEF Writing, BusIdle, Doable, Below, Fetching, WritingLine
<1>2. CASE IdleMiss
  <2>1. bus_state' = "RDREQ" /\ bc'.tag = m1.tag /\ bc'.index = m1.index /\ ~bc'.uncache
    BY <1>2 DEF IdleMiss, StartFetch
  <2>2. Fetching(t, i)' <=> m1.tag = t /\ m1.index = i
    BY <2>1 DEF Fetching
  <2>3. ~WritingLine(t, i)'
    BY <2>1 DEF WritingLine, Writing
  <2>4. NoFill \in FillType /\ NoFill.strobe = {}
    BY NoFillType DEF NoFill
  <2>5. Merges(t, i, o) <=> m1.op /\ m1.wstrb /\ At(t, i, o)
    BY <1>2 DEF Merges, IdleMiss, Miss
  <2>6. CASE m1.op
    <3>1. fill' = Merge(NoFill)
      BY <1>2, <2>6 DEF IdleMiss
    <3>2. /\ o \in fill'.strobe <=> m1.wstrb /\ m1.offset = o
          /\ m1.wstrb /\ m1.offset = o => fill'.data[o] = m1.wdata
      BY <2>4, <3>1, MergedWord
    <3> QED BY <1>1, <2>2, <2>3, <2>5, <2>6, <3>2 DEF Below, At
  <2>7. CASE ~m1.op
    <3>1. fill'.strobe = {}
      BY <1>2, <2>4, <2>7 DEF IdleMiss
    <3> QED BY <1>1, <2>3, <2>5, <2>7, <3>1 DEF Below
  <2> QED BY <2>6, <2>7
<1>3. CASE ~IdleMiss
  <2>1. ~Miss
    BY <1>1, <1>3, NoOps
    DEF BusStep, BusIdle, IdleCacheWriteback, IdleUncachedWrite, IdleUncachedRead,
        IdlePrefetch, IdleStay, PrefetchTurn, ReadRequest, ReadUncached, Read, Refill,
        WriteRequest, WriteBack, WriteResponse, AwaitsResponse
  <2>2. ~(Fetching(t, i)' /\ o \in fill'.strobe)
    <3>1. CASE IdlePrefetch(m0, pf)
      BY <3>1 DEF IdlePrefetch, PrefetchTurn, BusIdle, FetchInv, NoFill
    <3>2. CASE ~IdlePrefetch(m0, pf)
      <4>1. ~FetchingLine'
        BY <1>3, <3>2, FetchChange DEF BusIdle, FetchingLine
      <4> QED BY <4>1 DEF Fetching, FetchingLine
    <3> QED BY <3>1, <3>2
  <2>3. ~WritingLine(t, i)'
    <3>1. Writing' => IdleUncachedWrite
      BY <1>1, WriteStarts DEF BusIdle
    <3>2. IdleUncachedWrite => wt'.uncache
      <4>1. ASSUME IdleUncachedWrite PROVE wt'.uncache
        <5>1. wt' = Head(UwAfterPush) /\ UwAfterPush # <<>> /\ UwAfterPush \in Seq(WriteReq)
          BY <4>1, UwAfterPushType DEF IdleUncachedWrite, StartWrite
        <5>2. QueuedForDevices(UwAfterPush)
          BY PushedForDevice DEF WriteInv, QueuedForDevices
        <5> QED BY <5>1, <5>2 DEF QueuedForDevices
      <4> QED BY <4>1
    <3> QED BY <3>1, <3>2 DEF WritingLine
  <2> QED BY <1>1, <2>1, <2>2, <2>3 DEF Below, Merges
<1> QED BY <1>2, <1>3

-----------------------------------------------------------------------------
(* The newest value of every word, from cycle to cycle.                    *)

(* A cached store completes.                                               *)
Stores(beat, t, i, o) ==
  Cached(m1) /\ DataOk(beat) /\ m1.op /\ m1.wstrb /\ At(t, i, o)

LEMMA View ==
  ASSUME NoCacheOps, TypeOK, NEW t, NEW i, NEW o
  PROVE  ProgramWord(t, i, o) =
           IF Present(t, i) THEN ram[HolderOf(t, i)][i].data[o] ELSE Below(t, i, o)
<1>1. ~Extracted(t, i)
  BY NoOps DEF Extracted
<1> QED BY <1>1 DEF ProgramWord, Below

LEMMA ViewNext ==
  ASSUME NoCacheOps, TypeOK', NEW t, NEW i, NEW o
  PROVE  ProgramWord(t, i, o)' =
           IF Present(t, i)' THEN ram'[HolderOf(t, i)'][i].data[o] ELSE Below(t, i, o)'
<1>1. ~m1'.CACHE
  BY DEF NoCacheOps, TypeOK, NoReq
<1>2. ~Extracted(t, i)'
  BY <1>1 DEF Extracted, CacheWriteback
<1> QED BY <1>2 DEF ProgramWord, Below

LEMMA HolderNext ==
  ASSUME NoDuplicateLine', NEW w \in Ways, NEW i \in Indices, NEW t,
         ram'[w][i].valid, ram'[w][i].tag = t
  PROVE  Present(t, i)' /\ HolderOf(t, i)' = w
BY DEF NoDuplicateLine, Present, HolderOf

(* The way and the word a store writes in its first cycle.                 *)
StoresAt(w, i, o) ==
  StoreHit /\ w \in Hits /\ i = m1.index /\ m1.wstrb /\ m1.offset = o

(* A store whose line is in the RAM writes it there, any other is merged   *)
(* into the line on its way.                                               *)
LEMMA StoresInRam ==
  ASSUME NoCacheOps, TypeOK, RefillOwnsPorts, PortInv, WaitInv, NEW beat \in Beats,
         NEW w \in Ways, NEW i \in Indices, NEW t, ram[w][i].valid, ram[w][i].tag = t, NEW o
  PROVE  Stores(beat, t, i, o) <=> StoresAt(w, i, o)
<1>1. ASSUME Stores(beat, t, i, o)
      PROVE  StoresAt(w, i, o)
  <2>1. m1.tag = t /\ m1.index = i /\ Present(m1.tag, m1.index)
    BY <1>1 DEF Stores, At, Present
  <2>2. ~data_delay
    BY <1>1, <2>1 DEF WaitInv, Stores
  <2>3. out[w] = ram[w][i]
    BY <1>1, <2>1, <2>2, StorePorts DEF Stores, Cached
  <2> QED BY <1>1, <2>1, <2>2, <2>3 DEF Stores, At, Cached, StoreHit, CacheHit, Hits, StoresAt
<1>2. ASSUME StoresAt(w, i, o) PROVE Stores(beat, t, i, o)
  <2>1. m1.valid /\ m1.op /\ ~m1.uncache /\ ~data_delay /\ ~m1.CACHE
    BY <1>2, NoOps DEF StoresAt, StoreHit, CacheHit
  <2>2. out[w] = ram[w][i] /\ out[w].tag = m1.tag
    BY <1>2, <2>1, StorePorts DEF StoresAt, Hits
  <2>3. DataOk(beat)
    BY <1>2, HitStoreLeaves DEF StoresAt
  <2> QED BY <1>2, <2>1, <2>2, <2>3 DEF Stores, StoresAt, At, Cached
<1> QED BY <1>1, <1>2

LEMMA StoresBelow ==
  ASSUME NoCacheOps, TypeOK, UncachedInv, PortInv, WaitInv, NEW beat \in Beats,
         NEW t \in Tags, NEW i \in Indices, NEW o, ~Present(t, i)
  PROVE  Stores(beat, t, i, o) <=> Merges(t, i, o)
<1>1. ASSUME Merges(t, i, o) PROVE Stores(beat, t, i, o)
  BY <1>1 DEF Merges, Stores, DataOk, BusIdle, Store, Cached
<1>2. ASSUME Stores(beat, t, i, o) PROVE Merges(t, i, o)
  <2>1. m1.valid /\ m1.op /\ ~m1.uncache /\ ~m1.CACHE /\ ~Present(m1.tag, m1.index)
    BY <1>2 DEF Stores, Cached, At
  <2>2. ~data_delay => ~CacheHit
    <3>1. ASSUME ~data_delay, CacheHit PROVE FALSE
      <4>1. PICK w \in Ways : out[w].valid /\ out[w].tag = m1.tag
        BY <3>1 DEF CacheHit, Hits
      <4>2. out[w] = ram[w][m1.index]
        BY <2>1, <3>1, StorePorts
      <4> QED BY <2>1, <4>1, <4>2 DEF Present
    <3> QED BY <3>1
  <2>3. ~(bc.uncache /\ beat)
    BY <2>1 DEF UncachedInv, ReadingUncached, Oldest, Load, Beats
  <2>4. bus_state = "IDLE" \/ Doable
    BY <1>2, <2>1, <2>2, <2>3 DEF Stores, DataOk, Load, Store
  <2>5. bus_state = "IDLE" => Miss
    BY <1>2, <2>1, <2>2 DEF Miss, UncachedInv, Stores
  <2> QED BY <1>2, <2>4, <2>5 DEF Stores, Merges, BusIdle
<1> QED BY <1>1, <1>2

LEMMA ViewStep ==
  ASSUME NoCacheOps, MemoryInv, MemoryInv', NEW m0, NEW beat \in Beats, NEW ack \in BOOLEAN,
         NEW wready, NEW victim \in Ways, NEW pf, RamPorts(m0, beat, victim),
         BusStep(m0, beat, ack, wready, victim, pf), bus_state # "REFILL",
         NEW t \in Tags, NEW i \in Indices, NEW o \in Words
  PROVE  ProgramWord(t, i, o)' = IF Performs(t, i, o) THEN wt.data[o]
                                 ELSE IF Stores(beat, t, i, o) THEN m1.wdata
                                 ELSE ProgramWord(t, i, o)
<1>1. /\ TypeOK /\ TypeOK' /\ RefillOwnsPorts /\ NoDuplicateLine /\ NoDuplicateLine'
      /\ BeatInv /\ UncachedInv /\ PortInv /\ WaitInv /\ CacheableInv /\ FetchInv
      /\ WriteInv /\ WriteInv' /\ ~Refills /\ beat \in BOOLEAN
  BY DEF MemoryInv, SafeInv, IInv, DataInv, Refills, Beats
<1>2. CASE Present(t, i)
  <2>1. PICK w \in Ways : ram[w][i].valid /\ ram[w][i].tag = t
    BY <1>2 DEF Present
  <2>2. /\ ram'[w][i].valid /\ ram'[w][i].tag = t
        /\ IF StoreHit /\ w \in Hits /\ i = m1.index
           THEN ram'[w][i].data =
                  [ram[w][i].data EXCEPT ![m1.offset] = Lane(@, m1.wdata, m1.wstrb)]
           ELSE ram'[w][i] = ram[w][i]
    BY <1>1, <2>1, RamKept
  <2>3. HolderOf(t, i) = w
    BY <1>1, <2>1, HolderIs
  <2>4. Present(t, i)' /\ HolderOf(t, i)' = w
    BY <1>1, <2>2, HolderNext
  <2>5. ProgramWord(t, i, o) = ram[w][i].data[o] /\ ProgramWord(t, i, o)' = ram'[w][i].data[o]
    BY <1>1, <1>2, <2>3, <2>4, View, ViewNext
  <2>6. ~Performs(t, i, o)
    BY <1>1, <2>1 DEF Performs, Accepts, WriteInv, CacheableInv
  <2>7. Stores(beat, t, i, o) <=> StoresAt(w, i, o)
    BY <1>1, <2>1, StoresInRam
  <2>8. ram[w][i].data \in [Words -> Vals] /\ m1.offset \in Words
    <3>1. ram[w][i] \in Entry /\ m1 \in Request
      BY <1>1, M1Type DEF TypeOK
    <3> QED BY <3>1 DEF Entry, LineData, Request
  <2> QED BY <2>2, <2>5, <2>6, <2>7, <2>8 DEF Lane, StoresAt
<1>3. CASE ~Present(t, i)
  <2>1. ~Present(t, i)'
    BY ZenonT(60), <1>1, <1>3, RamKept DEF Present
  <2>2. ProgramWord(t, i, o) = Below(t, i, o) /\ ProgramWord(t, i, o)' = Below(t, i, o)'
    BY <1>1, <1>3, <2>1, View, ViewNext
  <2>3. Stores(beat, t, i, o) <=> Merges(t, i, o)
    BY <1>1, <1>3, StoresBelow
  <2>4. CASE Writing
    <3>1. ~Merges(t, i, o)
      BY <2>4 DEF Writing, Merges, BusIdle, Doable
    <3> QED BY <1>1, <2>2, <2>3, <2>4, <3>1, BelowWriting
  <2>5. CASE ~Writing
    <3>1. ~Performs(t, i, o)
      BY <2>5 DEF Performs, Accepts
    <3>2. bus_state \in {"RDREQ", "READ"} \/ BusIdle
      BY <1>1, <2>5 DEF Writing, BusIdle, TypeOK
    <3> QED BY <1>1, <2>2, <2>3, <3>1, <3>2, BelowFetching, BelowIdle
  <2> QED BY <2>4, <2>5
<1> QED BY <1>2, <1>3

(* A refill moves values, it changes none: the fetched line goes to the    *)
(* RAM, the victim to the bus when it is dirty.                            *)
LEMMA ViewRefill ==
  ASSUME NoCacheOps, MemoryInv, MemoryInv', NEW m0, NEW beat, NEW ack, NEW wready,
         NEW victim \in Ways, NEW pf, RamPorts(m0, beat, victim),
         BusStep(m0, beat, ack, wready, victim, pf), bus_state = "REFILL",
         NEW t \in Tags, NEW i \in Indices, NEW o \in Words
  PROVE  ProgramWord(t, i, o)' = ProgramWord(t, i, o)
<1>1. /\ TypeOK /\ TypeOK' /\ RefillOwnsPorts /\ NoDuplicateLine /\ NoDuplicateLine'
      /\ FetchInv /\ FillInv /\ CleanInv
  BY DEF MemoryInv, SafeInv, IInv, DataInv
<1>2. /\ bc.index \in Indices /\ FetchingLine /\ ~Writing /\ ~StoreHit
      /\ \A w \in Ways : out[w] = ram[w][bc.index]
      /\ Refills <=> ~Present(bc.tag, bc.index)
  BY <1>1, RefillView
<1>3. mem' = mem /\ Refill(victim)
  BY <1>2, MemoryKept
  DEF BusStep, IdleMiss, IdleCacheWriteback, IdleUncachedWrite, IdleUncachedRead,
      IdlePrefetch, IdleStay, PrefetchTurn, BusIdle, ReadRequest, Read, ReadUncached,
      WriteRequest, WriteBack, WriteResponse, AwaitsResponse
<1>4. Below(t, i, o) = IF bc.tag = t /\ bc.index = i /\ o \in fill.strobe
                       THEN fill.data[o] ELSE mem[t][i][o]
  BY <1>2 DEF Below, Fetching, FetchingLine, WritingLine
<1>5. LINE_WORDS \in Nat /\ o \in Nat
  BY SizeAssumption DEF Words
<1>6. Below(t, i, o)' = IF /\ Refills /\ out[victim].dirt
                           /\ out[victim].tag = t /\ bc.index = i
                        THEN out[victim].data[o] ELSE mem[t][i][o]
  <2>1. CASE Refills /\ out[victim].dirt
    <3>1. /\ bus_state' = "WTREQ" /\ wb_cnt' = 0
          /\ wt' = [uncache |-> FALSE, tag |-> out[victim].tag, index |-> bc.index,
                    offset |-> 0, wstrb |-> TRUE, data |-> out[victim].data]
      BY <1>3, <2>1 DEF Refill, Refills, StartWrite
    <3>2. ~Fetching(t, i)' /\ (WritingLine(t, i)' <=> out[victim].tag = t /\ bc.index = i)
      BY <3>1 DEF Fetching, WritingLine, Writing
    <3>3. o >= wb_cnt' /\ wt'.data[o] = out[victim].data[o]
      BY <1>5, <3>1
    <3> QED BY <1>3, <2>1, <3>2, <3>3 DEF Below
  <2>2. CASE ~(Refills /\ out[victim].dirt)
    <3>1. bus_state' = "IDLE"
      BY <1>3, <2>2 DEF Refill, Refills
    <3> QED BY <1>3, <2>2, <3>1 DEF Below, Fetching, WritingLine, Writing
  <2> QED BY <2>1, <2>2
<1>7. CASE ~Refills
  <2>1. \A w \in Ways : ram'[w][i] = ram[w][i]
    BY <1>1, <1>2, <1>7, RamKept
  <2>2. CASE Present(t, i)
    <3>1. PICK w \in Ways : ram[w][i].valid /\ ram[w][i].tag = t
      BY <2>2 DEF Present
    <3>2. HolderOf(t, i) = w /\ Present(t, i)' /\ HolderOf(t, i)' = w
      BY <1>1, <2>1, <3>1, HolderIs, HolderNext
    <3> QED BY <1>1, <2>1, <2>2, <3>2, View, ViewNext
  <2>3. CASE ~Present(t, i)
    <3>1. ~Present(t, i)'
      BY <2>1, <2>3 DEF Present
    <3>2. ~(bc.tag = t /\ bc.index = i)
      BY <1>2, <1>7, <2>3
    <3> QED BY <1>1, <1>4, <1>6, <1>7, <2>3, <3>1, <3>2, View, ViewNext
  <2> QED BY <2>2, <2>3
<1>8. CASE Refills
  <2>1. ASSUME NEW w \in Ways
        PROVE  ram'[w][i] = IF w = victim /\ i = bc.index
                            THEN [valid |-> TRUE, tag |-> bc.tag, dirt |-> fill.dirty,
                                  data |-> fill.data]
                            ELSE ram[w][i]
    BY ZenonT(60), <1>1, <1>8, RamRefilled
  <2>2. CASE bc.tag = t /\ bc.index = i
    <3>1. ~Present(t, i)
      BY <1>2, <1>8, <2>2
    <3>2. ProgramWord(t, i, o) = fill.data[o]
      <4>1. bus_state = "REFILL" /\ fill.rdy = Words
        BY <1>1, <1>8 DEF FetchInv, Refills
      <4> QED BY <1>1, <1>2, <1>4, <2>2, <3>1, <4>1, View DEF FillInv
    <3>3. ram'[victim][i].valid /\ ram'[victim][i].tag = t /\ ram'[victim][i].data = fill.data
      BY <2>1, <2>2
    <3>4. Present(t, i)' /\ HolderOf(t, i)' = victim
      BY <1>1, <3>3, HolderNext
    <3> QED BY <1>1, <3>2, <3>3, <3>4, ViewNext
  <2>3. CASE ~(bc.tag = t /\ bc.index = i) /\ Present(t, i)
    <3>1. PICK w \in Ways : ram[w][i].valid /\ ram[w][i].tag = t
      BY <2>3 DEF Present
    <3>2. ProgramWord(t, i, o) = ram[w][i].data[o]
      <4>1. HolderOf(t, i) = w
        BY <1>1, <3>1, HolderIs
      <4> QED BY <1>1, <2>3, <4>1, View
    <3>3. CASE w = victim /\ i = bc.index
      <4>1. out[victim] = ram[w][i]
        BY <1>2, <3>3
      <4>2. ~Present(t, i)'
        <5>1. ASSUME NEW v \in Ways, ram'[v][i].valid, ram'[v][i].tag = t PROVE FALSE
          <6>1. v # victim
            BY <2>1, <2>3, <3>3, <5>1
          <6>2. ram'[v][i] = ram[v][i]
            BY <2>1, <6>1
          <6> QED BY <1>1, <3>1, <3>3, <5>1, <6>1, <6>2 DEF NoDuplicateLine
        <5> QED BY <5>1 DEF Present
      <4>3. ProgramWord(t, i, o)' = IF out[victim].dirt THEN out[victim].data[o] ELSE mem[t][i][o]
        BY <1>1, <1>6, <1>8, <3>1, <3>3, <4>1, <4>2, ViewNext
      <4>4. ~out[victim].dirt => ram[w][i].data = mem[t][i]
        BY <1>1, <3>1, <4>1 DEF CleanInv, CleanMatchesMemory
      <4> QED BY <3>2, <4>1, <4>3, <4>4
    <3>4. CASE ~(w = victim /\ i = bc.index)
      <4>1. ram'[w][i] = ram[w][i]
        BY <2>1, <3>4
      <4>2. Present(t, i)' /\ HolderOf(t, i)' = w
        BY <1>1, <3>1, <4>1, HolderNext
      <4> QED BY <1>1, <3>2, <4>1, <4>2, ViewNext
    <3> QED BY <3>3, <3>4
  <2>4. CASE ~(bc.tag = t /\ bc.index = i) /\ ~Present(t, i)
    <3>1. ~Present(t, i)'
      <4>1. ASSUME NEW v \in Ways, ram'[v][i].valid, ram'[v][i].tag = t PROVE FALSE
        <5>1. ~(v = victim /\ i = bc.index)
          BY <2>1, <2>4, <4>1
        <5>2. ram'[v][i] = ram[v][i]
          BY <2>1, <5>1
        <5> QED BY <2>4, <4>1, <5>2 DEF Present
      <4> QED BY <4>1 DEF Present
    <3>2. ~(out[victim].dirt /\ out[victim].tag = t /\ bc.index = i)
      BY <1>1, <1>2, <2>4 DEF CleanInv, Present
    <3> QED BY <1>1, <1>4, <1>6, <2>4, <3>1, <3>2, View, ViewNext
  <2> QED BY <2>2, <2>3, <2>4
<1> QED BY <1>7, <1>8

-----------------------------------------------------------------------------
(* The requests the cache holds.                                           *)

Completes(beat) == m1.valid /\ DataOk(beat)

LEMMA InFront ==
  ASSUME NEW S, NEW a \in S, NEW q \in Seq(S)
  PROVE  /\ <<a>> \o q \in Seq(S) /\ <<a>> \o q # <<>>
         /\ Head(<<a>> \o q) = a /\ Tail(<<a>> \o q) = q
<1> DEFINE c == <<a>> \o q
<1>1. <<a>> \in Seq(S) /\ Len(<<a>>) = 1 /\ <<a>>[1] = a
  OBVIOUS
<1>2. /\ c \in Seq(S) /\ Len(c) = 1 + Len(q) /\ Len(q) \in Nat
      /\ \A k \in 1 .. 1 + Len(q) : c[k] = IF k <= 1 THEN <<a>>[k] ELSE q[k - 1]
  BY <1>1, ConcatProperties, LenProperties
<1> HIDE DEF c
<1>3. c # <<>> /\ Head(c) = a
  BY <1>1, <1>2
<1>4. /\ Tail(c) \in Seq(S) /\ Len(Tail(c)) = Len(q)
      /\ \A k \in 1 .. Len(q) : Tail(c)[k] = c[k + 1]
  BY <1>2, <1>3, HeadTailProperties
<1>5. \A k \in 1 .. Len(q) : c[k + 1] = q[k]
  BY <1>2
<1>6. Tail(c) = q
  BY <1>4, <1>5, SeqEqual
<1> QED BY <1>2, <1>3, <1>6 DEF c

LEMMA SameHeadTail ==
  ASSUME NEW S, NEW p \in Seq(S), NEW q \in Seq(S), p # <<>>, q # <<>>,
         Head(p) = Head(q), Tail(p) = Tail(q)
  PROVE  p = q
<1>1. /\ Len(p) \in Nat \ {0} /\ Len(q) \in Nat \ {0}
      /\ p[1] = Head(p) /\ q[1] = Head(q)
  BY EmptySeq
<1>2. /\ Len(Tail(p)) = Len(p) - 1 /\ Len(Tail(q)) = Len(q) - 1
      /\ \A k \in 1 .. Len(p) - 1 : Tail(p)[k] = p[k + 1]
      /\ \A k \in 1 .. Len(q) - 1 : Tail(q)[k] = q[k + 1]
  BY HeadTailProperties
<1>3. Len(p) = Len(q)
  <2>1. Len(p) - 1 = Len(q) - 1
    BY <1>2
  <2>2. Len(p) \in Int /\ Len(q) \in Int
    BY <1>1
  <2> QED BY <2>1, <2>2
<1>4. ASSUME NEW k \in 1 .. Len(p) PROVE p[k] = q[k]
  <2>1. CASE k = 1
    BY <1>1, <2>1
  <2>2. CASE k # 1
    <3>1. k - 1 \in 1 .. Len(p) - 1 /\ (k - 1) + 1 = k
      BY <1>1, <2>2
    <3> QED BY <1>2, <1>3, <3>1
  <2> QED BY <2>1, <2>2
<1> QED BY <1>3, <1>4, SeqEqual

LEMMA HeldQueue ==
  ASSUME TypeOK
  PROVE  /\ Queue \in Seq(Request)
         /\ m1.valid => Queue # <<>> /\ Head(Queue) = m1 /\ Tail(Queue) = Held(skid)
         /\ ~m1.valid => Queue = Held(skid)
<1>1. m1 \in Request /\ skid \in Request
  BY RequestTypes DEF TypeOK
<1>2. \A r \in Request : Held(r) \in Seq(Request) /\ Held(r) \o <<>> = Held(r)
                         /\ <<>> \o Held(r) = Held(r)
  BY EmptySeq, ConcatEmptySeq DEF Held
<1>3. CASE m1.valid
  <2>1. Queue = <<m1>> \o Held(skid)
    BY <1>3 DEF Queue, Held
  <2>2. Held(skid) \in Seq(Request)
    BY <1>1, <1>2
  <2> QED BY <1>1, <1>3, <2>1, <2>2, InFront
<1>4. CASE ~m1.valid
  <2>1. Queue = Held(skid)
    BY <1>1, <1>2, <1>4 DEF Queue, Held
  <2> QED BY <1>1, <1>2, <1>4, <2>1
<1> QED BY <1>3, <1>4

(* What waits before m1 next is the skid buffer or the request offered,    *)
(* and it goes to m1 only when m1 is free or completes.                    *)
LEMMA QueueStep ==
  ASSUME TypeOK, TypeOK', NEW req \in Offers, NEW beat, Pipeline(M0(req), beat)
  PROVE  Queue' = (IF Completes(beat) THEN Tail(Queue) ELSE Queue) \o Held(req)
<1> DEFINE m0 == M0(req)
<1>1. req \in Request /\ skid \in Request /\ m1 \in Request /\ NoReq \in Request
  BY RequestTypes, InputAssumption DEF TypeOK, Offers
<1>2. Held(m0) = Held(skid) \o Held(req)
  <2>1. CASE skid.valid
    <3>1. Held(m0) = <<skid>> /\ Held(skid) = <<skid>> /\ Held(req) = <<>>
      BY <2>1 DEF M0, Held, Offers, NoReq
    <3>2. <<skid>> \o <<>> = <<skid>>
      BY <1>1
    <3> QED BY <3>1, <3>2
  <2>2. CASE ~skid.valid
    <3>1. Held(m0) = Held(req) /\ Held(skid) = <<>>
      BY <2>2 DEF M0, Held
    <3>2. Held(req) \in Seq(Request)
      BY <1>1, EmptySeq DEF Held
    <3>3. <<>> \o Held(req) = Held(req)
      BY <3>2, ConcatEmptySeq
    <3> QED BY <3>1, <3>3
  <2> QED BY <2>1, <2>2
<1>3. m0 \in Request
  BY <1>1 DEF M0
<1>4. DataOk(beat) => m1.valid
  BY DEF DataOk
<1>5. \A r \in Request : /\ Held(r) \in Seq(Request)
                         /\ Held(r) \o <<>> = Held(r) /\ <<>> \o Held(r) = Held(r)
  BY EmptySeq, ConcatEmptySeq DEF Held
<1>6. Held(NoReq) = <<>>
  BY DEF Held, NoReq
<1> HIDE DEF m0
<1>7. CASE Enters(m0, beat)
  <2>1. m1' = m0 /\ skid' = NoReq
    BY <1>7 DEF Pipeline, m0
  <2>2. Queue' = Held(m0) \o <<>>
    BY <1>6, <2>1 DEF Queue, Held
  <2>3. ~m1.valid \/ Completes(beat)
    BY <1>7 DEF Enters, Completes
  <2> QED BY <1>2, <1>3, <1>5, <2>2, <2>3, HeldQueue DEF Completes
<1>8. CASE ~Enters(m0, beat)
  <2>1. skid' = m0 /\ m1' = IF DataOk(beat) THEN NoReq ELSE m1
    BY <1>8 DEF Pipeline, m0
  <2>2. Queue' = Held(IF DataOk(beat) THEN NoReq ELSE m1) \o Held(m0)
    BY <2>1 DEF Queue, Held
  <2>3. CASE m1.valid /\ ~DataOk(beat)
    <3>1. Queue' = Held(m1) \o (Held(skid) \o Held(req))
      BY <1>2, <2>2, <2>3
    <3>2. Held(m1) \in Seq(Request) /\ Held(skid) \in Seq(Request) /\ Held(req) \in Seq(Request)
      BY <1>1, <1>5
    <3>3. Held(m1) \o (Held(skid) \o Held(req)) = (Held(m1) \o Held(skid)) \o Held(req)
      BY <3>2, ConcatAssociative
    <3> QED BY <2>3, <3>1, <3>3 DEF Queue, Completes
  <2>4. CASE m1.valid /\ DataOk(beat)
    BY <1>2, <1>3, <1>5, <1>6, <2>2, <2>4, HeldQueue DEF Completes
  <2>5. CASE ~m1.valid
    <3>1. Queue' = Held(m0)
      BY <1>3, <1>4, <1>5, <2>2, <2>5 DEF Held
    <3> QED BY <1>2, <2>5, <3>1, HeldQueue DEF Completes
  <2> QED BY <2>3, <2>4, <2>5
<1> QED BY <1>7, <1>8
-----------------------------------------------------------------------------
(* The uncached writes that wait for the bus or are on it, unaccepted.     *)

Waiting == IF Writing /\ wt.uncache /\ wb_cnt = 0 THEN <<wt>> \o uw ELSE uw

AsPosted(w) == [tag |-> w.tag, index |-> w.index, offset |-> w.offset,
                wstrb |-> w.wstrb, wdata |-> w.data[w.offset]]
Posts == {AsPosted(w) : w \in WriteReq}
PostedFrom(q) == [k \in 1 .. Len(q) |-> AsPosted(q[k])]

LEMMA PostedIs == Posted = PostedFrom(Waiting)
BY DEF Posted, PostedFrom, AsPosted, Waiting

LEMMA PostedType ==
  ASSUME NEW q \in Seq(WriteReq)
  PROVE  /\ PostedFrom(q) \in Seq(Posts)
         /\ Len(PostedFrom(q)) = Len(q)
         /\ \A k \in 1 .. Len(q) : PostedFrom(q)[k] = AsPosted(q[k])
<1>1. Len(q) \in Nat /\ \A k \in 1 .. Len(q) : q[k] \in WriteReq
  OBVIOUS
<1> QED BY <1>1 DEF PostedFrom, Posts

LEMMA PostedMoves ==
  ASSUME NEW q \in Seq(WriteReq), NEW w \in WriteReq
  PROVE  /\ PostedFrom(q \o <<>>) = PostedFrom(q) \o <<>>
         /\ PostedFrom(q \o <<w>>) = PostedFrom(q) \o <<AsPosted(w)>>
         /\ q # <<>> => /\ PostedFrom(q) # <<>>
                        /\ Head(PostedFrom(q)) = AsPosted(Head(q))
                        /\ PostedFrom(Tail(q)) = Tail(PostedFrom(q))
<1>1. /\ PostedFrom(q) \in Seq(Posts) /\ Len(PostedFrom(q)) = Len(q) /\ Len(q) \in Nat
      /\ \A k \in 1 .. Len(q) : PostedFrom(q)[k] = AsPosted(q[k])
  BY PostedType, LenProperties
<1>2. /\ <<w>> \in Seq(WriteReq) /\ Len(<<w>>) = 1 /\ <<w>>[1] = w
      /\ <<AsPosted(w)>> \in Seq(Posts) /\ Len(<<AsPosted(w)>>) = 1
      /\ <<AsPosted(w)>>[1] = AsPosted(w)
  BY DEF Posts
<1>3. PostedFrom(q \o <<>>) = PostedFrom(q) \o <<>>
  BY <1>1, ConcatEmptySeq
<1>4. PostedFrom(q \o <<w>>) = PostedFrom(q) \o <<AsPosted(w)>>
  <2> DEFINE l == PostedFrom(q \o <<w>>)
             r == PostedFrom(q) \o <<AsPosted(w)>>
  <2>1. /\ q \o <<w>> \in Seq(WriteReq) /\ Len(q \o <<w>>) = Len(q) + 1
        /\ \A k \in 1 .. Len(q) + 1 : (q \o <<w>>)[k] = IF k <= Len(q) THEN q[k] ELSE w
    BY <1>1, <1>2, ConcatProperties
  <2>2. /\ l \in Seq(Posts) /\ Len(l) = Len(q) + 1
        /\ \A k \in 1 .. Len(q) + 1 : l[k] = AsPosted((q \o <<w>>)[k])
    BY <2>1, PostedType
  <2>3. /\ r \in Seq(Posts) /\ Len(r) = Len(q) + 1
        /\ \A k \in 1 .. Len(q) + 1 :
             r[k] = IF k <= Len(q) THEN PostedFrom(q)[k] ELSE AsPosted(w)
    BY <1>1, <1>2, ConcatProperties
  <2> HIDE DEF l, r
  <2>4. ASSUME NEW k \in 1 .. Len(q) + 1 PROVE l[k] = r[k]
    BY <1>1, <2>1, <2>2, <2>3
  <2>5. l = r
    BY <2>2, <2>3, <2>4, SeqEqual
  <2> QED BY <2>5 DEF l, r
<1>5. ASSUME q # <<>>
      PROVE  /\ PostedFrom(q) # <<>> /\ Head(PostedFrom(q)) = AsPosted(Head(q))
             /\ PostedFrom(Tail(q)) = Tail(PostedFrom(q))
  <2> DEFINE l == PostedFrom(Tail(q))
             r == Tail(PostedFrom(q))
  <2>1. Len(q) > 0 /\ PostedFrom(q) # <<>>
    BY <1>1, <1>5
  <2>2. Head(PostedFrom(q)) = AsPosted(Head(q))
    BY <1>1, <2>1
  <2>3. /\ Tail(q) \in Seq(WriteReq) /\ Len(Tail(q)) = Len(q) - 1
        /\ \A k \in 1 .. Len(q) - 1 : Tail(q)[k] = q[k + 1]
    BY <1>1, <1>5, HeadTailProperties
  <2>4. /\ l \in Seq(Posts) /\ Len(l) = Len(q) - 1
        /\ \A k \in 1 .. Len(q) - 1 : l[k] = AsPosted(Tail(q)[k])
    BY <2>3, PostedType
  <2>5. /\ r \in Seq(Posts) /\ Len(r) = Len(q) - 1
        /\ \A k \in 1 .. Len(q) - 1 : r[k] = PostedFrom(q)[k + 1]
    BY <1>1, <2>1, HeadTailProperties
  <2> HIDE DEF l, r
  <2>6. ASSUME NEW k \in 1 .. Len(q) - 1 PROVE l[k] = r[k]
    <3>1. k + 1 \in 1 .. Len(q)
      BY <1>1
    <3> QED BY <1>1, <2>3, <2>4, <2>5, <3>1
  <2>7. l = r
    BY <2>4, <2>5, <2>6, SeqEqual
  <2> QED BY <2>1, <2>2, <2>7 DEF l, r
<1> QED BY <1>3, <1>4, <1>5
(* A cycle in which the slave accepts the data of an uncached write, and   *)
(* what a cycle posts.                                                     *)
Performing == Accepts /\ wt.uncache
Pushed == IF UwPush THEN <<UwReq>> ELSE <<>>

LEMMA PushedLast ==
  ASSUME TypeOK
  PROVE  /\ uw \in Seq(WriteReq) /\ Pushed \in Seq(WriteReq) /\ UwAfterPush = uw \o Pushed
         /\ UwAfterPush = <<>> => ~UwPush
<1>1. uw \in Seq(WriteReq) /\ UwReq \in WriteReq
  BY UwReqType DEF TypeOK
<1>2. Append(uw, UwReq) = uw \o <<UwReq>> /\ Append(uw, UwReq) # <<>> /\ uw \o <<>> = uw
  BY <1>1, AppendIsConcat, AppendProperties, ConcatEmptySeq
<1> QED BY <1>1, <1>2 DEF Pushed, UwAfterPush

LEMMA WaitingType ==
  ASSUME TypeOK, BeatInv
  PROVE  /\ Waiting \in Seq(WriteReq)
         /\ Performing => /\ Waiting = <<wt>> \o uw
                          /\ Waiting # <<>> /\ Head(Waiting) = wt /\ Tail(Waiting) = uw
<1>1. wt \in WriteReq /\ uw \in Seq(WriteReq) /\ wb_cnt \in Nat
  BY DEF TypeOK
<1>2. /\ <<wt>> \o uw \in Seq(WriteReq) /\ <<wt>> \o uw # <<>>
      /\ Head(<<wt>> \o uw) = wt /\ Tail(<<wt>> \o uw) = uw
  BY <1>1, InFront
<1>3. Performing => Waiting = <<wt>> \o uw
  BY DEF Performing, Accepts, WBeatValid, Waiting
<1> QED BY <1>1, <1>2, <1>3 DEF Waiting

(* Outside of a write the queue only grows, or its head goes on the bus.   *)
LEMMA WaitingStarts ==
  ASSUME NoCacheOps, TypeOK, WriteInv, NEW m0, NEW beat, NEW ack, NEW wready, NEW victim,
         NEW pf, BusStep(m0, beat, ack, wready, victim, pf), ~Writing
  PROVE  Waiting' = UwAfterPush
<1>1. uw \in Seq(WriteReq) /\ (~UwPush => UwAfterPush = uw)
  BY DEF UwAfterPush, TypeOK
<1>2. CASE IdleUncachedWrite
  <2> DEFINE q == UwAfterPush
  <2>1. q \in Seq(WriteReq) /\ q # <<>> /\ QueuedForDevices(q)
    BY <1>2, PushedForDevice, UwAfterPushType DEF IdleUncachedWrite, WriteInv, QueuedForDevices
  <2>2. uw' = Tail(q) /\ wt' = Head(q) /\ bus_state' = "WTREQ" /\ wb_cnt' = 0
    BY <1>2 DEF IdleUncachedWrite, StartWrite
  <2> HIDE DEF q
  <2>3. Head(q) = q[1] /\ 1 \in 1 .. Len(q) /\ Head(q) \in WriteReq /\ Tail(q) \in Seq(WriteReq)
    BY <2>1
  <2>4. wt'.uncache
    BY <2>1, <2>2, <2>3 DEF QueuedForDevices
  <2>5. Waiting' = <<Head(q)>> \o Tail(q)
    BY <2>2, <2>4 DEF Waiting, Writing
  <2>6. <<Head(q)>> \o Tail(q) = q
    <3>1. /\ <<Head(q)>> \o Tail(q) \in Seq(WriteReq) /\ <<Head(q)>> \o Tail(q) # <<>>
          /\ Head(<<Head(q)>> \o Tail(q)) = Head(q) /\ Tail(<<Head(q)>> \o Tail(q)) = Tail(q)
      BY <2>3, InFront
    <3> QED BY <2>1, <3>1, SameHeadTail
  <2> QED BY <2>5, <2>6 DEF q
<1>3. CASE ~IdleUncachedWrite
  <2>1. uw' = UwAfterPush
    <3>1. Miss => ~UwPush
      BY DEF Miss, Cached, UwPush
    <3>2. ~CacheWriteback
      BY NoOps
    <3>3. UwAfterPush = <<>> => ~UwPush
      BY PushedLast
    <3> QED BY <1>1, <1>3, <3>1, <3>2, <3>3
        DEF BusStep, IdleMiss, IdleCacheWriteback, IdleUncachedRead, IdlePrefetch, IdleStay,
            PrefetchTurn
  <2>2. ~Writing' \/ ~wt'.uncache
    <3>1. CASE Writing'
      BY <1>3, <3>1, WriteStarts DEF StartWrite
    <3> QED BY <3>1
  <2> QED BY <2>1, <2>2 DEF Waiting
<1> QED BY <1>2, <1>3

LEMMA WaitingStep ==
  ASSUME NoCacheOps, TypeOK, BeatInv, WriteInv, NEW m0, NEW beat, NEW ack \in BOOLEAN,
         NEW wready, NEW victim, NEW pf, BusStep(m0, beat, ack, wready, victim, pf)
  PROVE  Waiting' = (IF Performing THEN Tail(Waiting) ELSE Waiting) \o Pushed
<1>1. CASE ~Writing
  <2>1. ~Performing /\ Waiting = uw
    BY <1>1 DEF Performing, Accepts, Waiting
  <2> QED BY <1>1, <2>1, WaitingStarts, PushedLast
<1>2. CASE Writing
  <2>1. uw' = uw \o Pushed /\ uw \in Seq(WriteReq) /\ Pushed \in Seq(WriteReq)
        /\ wt \in WriteReq /\ wb_cnt \in Nat /\ LINE_WORDS > 0 /\ LINE_WORDS \in Nat
    BY <1>2, WriteChange, PushedLast, SizeAssumption DEF TypeOK
  <2>2. CASE /\ bus_state' = "IDLE" /\ mem' = mem
             /\ wb_cnt = IF wt.uncache THEN 1 ELSE LINE_WORDS
    <3>1. ~Performing
      BY <2>2 DEF Performing, Accepts, WBeatValid
    <3>2. Waiting = uw /\ Waiting' = uw'
      BY <2>2 DEF Waiting, Writing
    <3> QED BY <2>1, <3>1, <3>2
  <2>3. CASE Writing' /\ wt' = wt /\ mem' = mem /\ wb_cnt' = wb_cnt
    <3>1. ~Performing
      BY <2>1, <2>3 DEF Performing, Accepts
    <3>2. CASE wt.uncache /\ wb_cnt = 0
      <4>1. Waiting = <<wt>> \o uw /\ Waiting' = <<wt>> \o (uw \o Pushed)
        BY <1>2, <2>1, <2>3, <3>2 DEF Waiting
      <4>2. <<wt>> \in Seq(WriteReq)
        BY <2>1
      <4>3. <<wt>> \o (uw \o Pushed) = (<<wt>> \o uw) \o Pushed
        BY <2>1, <4>2, ConcatAssociative
      <4> QED BY <3>1, <4>1, <4>3
    <3>3. CASE ~(wt.uncache /\ wb_cnt = 0)
      BY <2>1, <2>3, <3>1, <3>3 DEF Waiting
    <3> QED BY <3>2, <3>3
  <2>4. CASE Writing' /\ wt' = wt /\ Accepts
    <3>1. wb_cnt' # 0
      BY <2>1, <2>4 DEF Accepts
    <3>2. Waiting' = uw'
      BY <3>1 DEF Waiting
    <3>3. CASE wt.uncache
      BY <2>1, <2>4, <3>2, <3>3, WaitingType DEF Performing
    <3>4. CASE ~wt.uncache
      BY <2>1, <3>2, <3>4 DEF Waiting, Performing
    <3> QED BY <3>3, <3>4
  <2> QED BY <1>2, <2>2, <2>3, <2>4, WriteChange
<1> QED BY <1>1, <1>2
-----------------------------------------------------------------------------
(* The memory behind the cache and the memory the program sees.            *)

LEMMA ViewType ==
  ASSUME TypeOK PROVE ProgramView \in [Tags -> [Indices -> LineData]]
<1>1. ASSUME NEW t \in Tags, NEW i \in Indices, NEW o \in Words
      PROVE  ProgramWord(t, i, o) \in Vals
  <2>1. d.data[o] \in Vals /\ fill.data[o] \in Vals /\ wt.data[o] \in Vals /\ mem[t][i][o] \in Vals
    BY DEF TypeOK, LineData, WriteReq
  <2>2. Present(t, i) => ram[HolderOf(t, i)][i].data[o] \in Vals
    <3>1. Present(t, i) => HolderOf(t, i) \in Ways
      BY DEF Present, HolderOf
    <3> QED BY <3>1 DEF TypeOK, Entry, LineData
  <2> QED BY <2>1, <2>2 DEF ProgramWord
<1> QED BY <1>1 DEF ProgramView, LineData

(* A store changes one word, and that if its strobe is on.                 *)
LEMMA PutWord ==
  ASSUME NEW M \in [Tags -> [Indices -> LineData]], NEW r,
         r.tag \in Tags, r.index \in Indices, r.offset \in Words, r.wdata \in Vals,
         r.wstrb \in BOOLEAN
  PROVE  /\ PM!Put(M, r) \in [Tags -> [Indices -> LineData]]
         /\ \A t \in Tags, i \in Indices, o \in Words :
              PM!Put(M, r)[t][i][o] =
                IF r.wstrb /\ r.tag = t /\ r.index = i /\ r.offset = o
                THEN r.wdata ELSE M[t][i][o]
BY DEF PM!Put, LineData

LEMMA SameWords ==
  ASSUME NEW M \in [Tags -> [Indices -> LineData]], NEW N \in [Tags -> [Indices -> LineData]],
         \A t \in Tags, i \in Indices, o \in Words : M[t][i][o] = N[t][i][o]
  PROVE  M = N
<1>1. ASSUME NEW t \in Tags, NEW i \in Indices PROVE M[t][i] = N[t][i]
  <2>1. M[t][i] \in [Words -> Vals] /\ N[t][i] \in [Words -> Vals]
    BY DEF LineData
  <2> QED BY <2>1
<1>2. ASSUME NEW t \in Tags PROVE M[t] = N[t]
  <2>1. M[t] \in [Indices -> LineData] /\ N[t] \in [Indices -> LineData]
    OBVIOUS
  <2> QED BY <1>1, <2>1
<1> QED BY <1>2

LEMMA WritesBack ==
  ASSUME NEW t \in Tags, NEW i \in Indices, NEW o \in Words
  PROVE  [mem EXCEPT ![t][i][o] = ProgramView[t][i][o]] \in PM!WriteBacks
<1> DEFINE Word(a, b, c) == [mem EXCEPT ![a][b][c] = ProgramView[a][b][c]]
<1>1. PM!WriteBacks = {Word(a, b, c) : a \in Tags, b \in Indices, c \in Words}
  BY DEF PM!WriteBacks
<1> HIDE DEF Word
<1>2. Word(t, i, o) \in {Word(a, b, c) : a \in Tags, b \in Indices, c \in Words}
  OBVIOUS
<1>3. Word(t, i, o) = [mem EXCEPT ![t][i][o] = ProgramView[t][i][o]]
  BY DEF Word
<1> QED BY <1>1, <1>2, <1>3

(* The memory behind the cache changes by a posted write or by a word of a *)
(* line that is written back, and that word is the newest.                 *)
LEMMA MemoryBehind ==
  ASSUME NoCacheOps, MemoryInv, NEW m0, NEW beat, NEW ack \in BOOLEAN, NEW wready,
         NEW victim, NEW pf, BusStep(m0, beat, ack, wready, victim, pf)
  PROVE  mem' \in IF Performing THEN {PM!Put(mem, AsPosted(wt))}
                  ELSE {mem} \cup PM!WriteBacks
<1>1. TypeOK /\ BeatInv /\ WriteInv /\ LINE_WORDS \in Nat
  BY SizeAssumption DEF MemoryInv, SafeInv, IInv
<1>2. /\ wt.tag \in Tags /\ wt.index \in Indices /\ wt.offset \in Words
      /\ wt.wstrb \in BOOLEAN /\ wb_cnt \in Nat /\ mem \in [Tags -> [Indices -> LineData]]
  BY <1>1 DEF TypeOK, WriteReq
<1>3. CASE Performing
  <2>1. mem' = [mem EXCEPT ![wt.tag][wt.index][wt.offset] =
                  Lane(@, wt.data[wt.offset], wt.wstrb)]
    BY <1>3 DEF Performing, Accepts, Performed, NextWritten
  <2>2. CASE wt.wstrb
    BY <1>3, <2>1, <2>2 DEF Lane, PM!Put, AsPosted
  <2>3. CASE ~wt.wstrb
    <3>1. mem' = mem
      BY <1>2, <2>1, <2>3 DEF Lane, LineData
    <3> QED BY <1>2, <1>3, <2>3, <3>1 DEF PM!Put, AsPosted
  <2> QED BY <1>2, <2>2, <2>3
<1>4. CASE Accepts /\ ~wt.uncache
  <2>1. Writing /\ wb_cnt \in Words /\ NextWritten = wb_cnt /\ wt.wstrb
    BY <1>1, <1>2, <1>4 DEF Accepts, WBeatValid, NextWritten, Words, WriteInv
  <2>2. mem' = [mem EXCEPT ![wt.tag][wt.index][wb_cnt] = wt.data[wb_cnt]]
    BY <1>4, <2>1 DEF Accepts, Performed, Lane
  <2>3. ProgramWord(wt.tag, wt.index, wb_cnt) = wt.data[wb_cnt]
    <3>1. ~Present(wt.tag, wt.index) /\ ~Fetching(wt.tag, wt.index)
          /\ WritingLine(wt.tag, wt.index)
      BY <1>1, <1>4, <2>1 DEF WriteInv, Fetching, Writing, WritingLine
    <3>2. ~Extracted(wt.tag, wt.index)
      BY <1>1, NoOps DEF Extracted
    <3> QED BY <1>2, <3>1, <3>2 DEF ProgramWord
  <2>4. ProgramView[wt.tag][wt.index][wb_cnt] = wt.data[wb_cnt]
    BY <1>2, <2>1, <2>3 DEF ProgramView
  <2>5. [mem EXCEPT ![wt.tag][wt.index][wb_cnt] = ProgramView[wt.tag][wt.index][wb_cnt]]
           \in PM!WriteBacks
    BY <1>2, <2>1, WritesBack
  <2> QED BY <1>4, <2>2, <2>4, <2>5 DEF Performing
<1>5. CASE ~Accepts
  <2>1. mem' = mem
    BY <1>1, <1>5, WriteChange, MemoryKept
  <2> QED BY <1>5, <2>1 DEF Performing
<1> QED BY <1>3, <1>4, <1>5 DEF Performing
(* The memory the program sees, after the store that completes and after   *)
(* the device write that is performed.                                     *)
Stored(beat) ==
  IF Completes(beat) /\ m1.op /\ ~m1.uncache THEN PM!Put(ProgramView, m1) ELSE ProgramView
AfterCycle(beat) ==
  IF Performing THEN PM!Put(Stored(beat), AsPosted(wt)) ELSE Stored(beat)

LEMMA WordAfterCycle ==
  ASSUME NoCacheOps, TypeOK, NEW beat
  PROVE  /\ AfterCycle(beat) \in [Tags -> [Indices -> LineData]]
         /\ \A t \in Tags, i \in Indices, o \in Words :
              AfterCycle(beat)[t][i][o] =
                IF Performs(t, i, o) THEN wt.data[o]
                ELSE IF Stores(beat, t, i, o) THEN m1.wdata
                ELSE ProgramWord(t, i, o)
<1> DEFINE Memory == [Tags -> [Indices -> LineData]]
           p == AsPosted(wt)
<1>1. ProgramView \in Memory
  BY ViewType
<1>2. /\ m1.tag \in Tags /\ m1.index \in Indices /\ m1.offset \in Words
      /\ m1.wdata \in Vals /\ m1.wstrb \in BOOLEAN /\ ~m1.CACHE
  BY M1Type, NoOps DEF Request
<1>3. /\ p.tag = wt.tag /\ p.index = wt.index /\ p.offset = wt.offset
      /\ p.wdata = wt.data[wt.offset] /\ p.wstrb = wt.wstrb
  BY DEF AsPosted
<1>4. /\ p.tag \in Tags /\ p.index \in Indices /\ p.offset \in Words
      /\ p.wdata \in Vals /\ p.wstrb \in BOOLEAN
  BY <1>3 DEF TypeOK, WriteReq, LineData
<1> HIDE DEF p
<1>5. Stored(beat) \in Memory
  BY <1>1, <1>2, PutWord DEF Stored
<1>6. ASSUME NEW t \in Tags, NEW i \in Indices, NEW o \in Words
      PROVE  Stored(beat)[t][i][o] =
               IF Stores(beat, t, i, o) THEN m1.wdata ELSE ProgramWord(t, i, o)
  <2>1. ProgramView[t][i][o] = ProgramWord(t, i, o)
    BY DEF ProgramView
  <2>2. PM!Put(ProgramView, m1)[t][i][o] =
          IF m1.wstrb /\ At(t, i, o) THEN m1.wdata ELSE ProgramWord(t, i, o)
    BY <1>1, <1>2, <2>1, PutWord DEF At
  <2>3. Stores(beat, t, i, o) <=> /\ Completes(beat) /\ m1.op /\ ~m1.uncache
                                  /\ m1.wstrb /\ At(t, i, o)
    BY <1>2 DEF Stores, Completes, Cached
  <2> QED BY <2>1, <2>2, <2>3 DEF Stored
<1>7. AfterCycle(beat) \in Memory
  BY <1>4, <1>5, PutWord DEF AfterCycle, p
<1>8. ASSUME NEW t \in Tags, NEW i \in Indices, NEW o \in Words
      PROVE  AfterCycle(beat)[t][i][o] =
               IF Performs(t, i, o) THEN wt.data[o] ELSE Stored(beat)[t][i][o]
  <2>1. PM!Put(Stored(beat), p)[t][i][o] =
          IF p.wstrb /\ p.tag = t /\ p.index = i /\ p.offset = o
          THEN p.wdata ELSE Stored(beat)[t][i][o]
    BY <1>4, <1>5, PutWord
  <2>2. AfterCycle(beat) = IF Performing THEN PM!Put(Stored(beat), p) ELSE Stored(beat)
    BY DEF AfterCycle, p
  <2> QED BY <1>3, <2>1, <2>2 DEF Performs, Performing
<1> QED BY <1>6, <1>7, <1>8

(* No store completes while a line goes to the RAM.                        *)
LEMMA NoStoreInRefill ==
  ASSUME NoCacheOps, TypeOK, RefillOwnsPorts, NEW beat \in Beats, bus_state = "REFILL",
         NEW t, NEW i, NEW o
  PROVE  ~Stores(beat, t, i, o)
BY DEF Stores, DataOk, RefillOwnsPorts, Beats, Cached, Load, Store, Doable

LEMMA ViewCycle ==
  ASSUME NoCacheOps, MemoryInv, MemoryInv', NEW m0, NEW beat \in Beats, NEW ack \in BOOLEAN,
         NEW wready, NEW victim \in Ways, NEW pf, RamPorts(m0, beat, victim),
         BusStep(m0, beat, ack, wready, victim, pf)
  PROVE  ProgramView' = AfterCycle(beat)
<1>1. TypeOK /\ RefillOwnsPorts
  BY DEF MemoryInv, SafeInv, IInv
<1>2. ASSUME NEW t \in Tags, NEW i \in Indices, NEW o \in Words
      PROVE  ProgramWord(t, i, o)' = AfterCycle(beat)[t][i][o]
  <2>1. CASE bus_state = "REFILL"
    <3>1. ~Performs(t, i, o) /\ ~Stores(beat, t, i, o)
      BY <1>1, <2>1, NoStoreInRefill DEF Performs, Accepts, Writing
    <3> QED BY <1>1, <2>1, <3>1, ViewRefill, WordAfterCycle
  <2>2. CASE bus_state # "REFILL"
    BY ZenonT(60), <1>1, <2>2, ViewStep, WordAfterCycle
  <2> QED BY <2>1, <2>2
<1>3. AfterCycle(beat) \in [Tags -> [Indices -> LineData]]
  BY <1>1, WordAfterCycle
<1>4. ProgramView' \in [Tags -> [Indices -> LineData]]
  <2>1. ASSUME NEW t \in Tags, NEW i \in Indices, NEW o \in Words
        PROVE  ProgramWord(t, i, o)' \in Vals
    BY <1>2, <1>3 DEF LineData
  <2> QED BY <2>1 DEF ProgramView, LineData
<1>5. ASSUME NEW t \in Tags, NEW i \in Indices, NEW o \in Words
      PROVE  ProgramView'[t][i][o] = AfterCycle(beat)[t][i][o]
  BY <1>2 DEF ProgramView
<1> QED BY <1>3, <1>4, <1>5, SameWords
-----------------------------------------------------------------------------
(* A cycle of the cache is a step of ProgramMemory.                        *)

(* A device answers a load when nothing posted is left.                    *)
LEMMA DevicesReadInOrder ==
  ASSUME UncachedInv, NEW beat \in Beats, Completes(beat), PM!UncachedLoad(m1)
  PROVE  Posted = <<>>
<1>1. Load(m1) /\ m1.uncache
  BY DEF Completes, PM!UncachedLoad, Load
<1>2. beat /\ bc.uncache
  BY <1>1, UncachedLoadWaits DEF Completes, Beats
<1>3. bus_state = "READ"
  BY <1>2 DEF Beats
<1>4. uw = <<>> /\ ~Writing
  BY <1>2, <1>3 DEF UncachedInv, ReadingUncached, Writing
<1> QED BY <1>4 DEF Posted

(* An uncached store completes in the cycle it is pushed.                  *)
LEMMA PushedIsPosted ==
  ASSUME NoCacheOps, TypeOK, UncachedInv, NEW beat \in Beats
  PROVE  /\ UwPush <=> Completes(beat) /\ PM!UncachedStore(m1)
         /\ AsPosted(UwReq) = PM!Post(m1)
<1>1. UwPush => Completes(beat) /\ PM!UncachedStore(m1)
  BY DEF UwPush, Store, Completes, DataOk, PM!UncachedStore
<1>2. ASSUME Completes(beat), PM!UncachedStore(m1) PROVE UwPush
  <2>1. Store(m1) /\ m1.uncache /\ ~m1.CACHE /\ ~Load(m1)
    BY <1>2, NoOps DEF Completes, PM!UncachedStore, Store, Load
  <2>2. ~(bc.uncache /\ beat)
    BY <2>1 DEF UncachedInv, ReadingUncached, Oldest, Store, Load, Beats
  <2>3. ~UwFull
    BY <1>2, <2>1, <2>2 DEF Completes, DataOk, CacheHit
  <2> QED BY <2>1, <2>3 DEF UwPush
<1>3. UwReq.data[m1.offset] = m1.wdata
  BY M1Type DEF UwReq, ZeroLine, Request
<1>4. AsPosted(UwReq) = PM!Post(m1)
  BY <1>3 DEF AsPosted, PM!Post, UwReq
<1> QED BY <1>1, <1>2, <1>4

LEMMA PostedStep ==
  ASSUME NoCacheOps, MemoryInv, NEW m0, NEW beat \in Beats, NEW ack \in BOOLEAN,
         NEW wready, NEW victim, NEW pf, BusStep(m0, beat, ack, wready, victim, pf)
  PROVE  /\ Posted' = (IF Performing THEN Tail(Posted) ELSE Posted)
                      \o (IF Completes(beat) /\ PM!UncachedStore(m1)
                          THEN <<PM!Post(m1)>> ELSE <<>>)
         /\ Performing => Posted # <<>> /\ Head(Posted) = AsPosted(wt)
<1>1. TypeOK /\ BeatInv /\ WriteInv /\ UncachedInv
  BY DEF MemoryInv, SafeInv, IInv
<1>2. /\ Waiting \in Seq(WriteReq) /\ UwReq \in WriteReq
      /\ Performing => /\ Waiting # <<>> /\ Head(Waiting) = wt
                       /\ Tail(Waiting) \in Seq(WriteReq)
  BY <1>1, WaitingType, UwReqType, HeadTailProperties
<1> DEFINE q == IF Performing THEN Tail(Waiting) ELSE Waiting
<1>3. q \in Seq(WriteReq)
  BY <1>2
<1>4. Waiting' = q \o Pushed
  BY <1>1, WaitingStep
<1>5. Posted' = PostedFrom(q \o Pushed)
  BY ZenonT(60), <1>4 DEF Posted, PostedFrom, AsPosted, Waiting
<1>6. PostedFrom(q) = IF Performing THEN Tail(Posted) ELSE Posted
  BY <1>2, PostedMoves, PostedIs
<1> HIDE DEF q
<1>7. Posted' = PostedFrom(q) \o (IF UwPush THEN <<AsPosted(UwReq)>> ELSE <<>>)
  BY <1>2, <1>3, <1>5, PostedMoves DEF Pushed
<1>8. Performing => Posted # <<>> /\ Head(Posted) = AsPosted(wt)
  BY <1>2, PostedMoves, PostedIs
<1> QED BY <1>1, <1>6, <1>7, <1>8, PushedIsPosted

LEMMA CycleImplements ==
  ASSUME NoCacheOps, MemoryInv, MemoryInv', NEW req \in Offers, NEW beat \in Beats,
         NEW ack \in BOOLEAN, NEW wready, NEW victim \in Ways, NEW pf,
         Cycle(req, beat, ack, wready, victim, pf)
  PROVE  PM!Next
<1> DEFINE done    == Completes(beat)
           perform == Performing
           taken   == Held(req)
<1>1. TypeOK /\ TypeOK' /\ UncachedInv
  BY DEF MemoryInv, SafeInv, IInv
<1>2. /\ Pipeline(M0(req), beat) /\ RamPorts(M0(req), beat, victim)
      /\ BusStep(M0(req), beat, ack, wready, victim, pf)
  BY DEF Cycle
<1>3. done => Queue # <<>> /\ Head(Queue) = m1
  BY <1>1, HeldQueue DEF Completes
<1>4. done /\ PM!UncachedLoad(m1) => Posted = <<>>
  BY <1>1, DevicesReadInOrder
<1>5. Queue' = (IF done THEN Tail(Queue) ELSE Queue) \o taken
  BY <1>1, <1>2, QueueStep
<1>6. taken \in {<<>>} \cup {<<r>> : r \in Requests}
  BY DEF Held, Offers, NoReq
<1>7. /\ Posted' = (IF perform THEN Tail(Posted) ELSE Posted)
                   \o (IF done /\ PM!UncachedStore(m1) THEN <<PM!Post(m1)>> ELSE <<>>)
      /\ perform => Posted # <<>> /\ Head(Posted) = AsPosted(wt)
  BY <1>2, PostedStep
<1>8. mem' \in IF perform THEN {PM!Put(mem, AsPosted(wt))} ELSE {mem} \cup PM!WriteBacks
  BY <1>2, MemoryBehind
<1>9. ProgramView' = IF perform THEN PM!Put(Stored(beat), AsPosted(wt)) ELSE Stored(beat)
  BY <1>2, ViewCycle DEF AfterCycle
<1>10. Stored(beat) \in IF done THEN PM!Results(m1) ELSE {ProgramView}
  BY <1>1, NoOps DEF Stored, PM!Results
<1>11. done \in BOOLEAN /\ perform \in BOOLEAN
  BY DEF Completes, Performing, Accepts, DataOk
<1> HIDE DEF done, perform, taken
<1>12. /\ done => Queue # <<>> /\ (PM!UncachedLoad(Head(Queue)) => Posted = <<>>)
       /\ perform => Posted # <<>>
       /\ Posted' = (IF perform THEN Tail(Posted) ELSE Posted)
                    \o (IF done /\ PM!UncachedStore(Head(Queue))
                        THEN <<PM!Post(Head(Queue))>> ELSE <<>>)
  BY <1>3, <1>4, <1>7
<1>13. /\ mem' \in IF perform THEN {PM!Put(mem, Head(Posted))} ELSE {mem} \cup PM!WriteBacks
       /\ \E m \in IF done THEN PM!Results(Head(Queue)) ELSE {ProgramView} :
            ProgramView' = IF perform THEN PM!Put(m, Head(Posted)) ELSE m
  BY <1>3, <1>7, <1>8, <1>9, <1>10
<1> QED BY <1>5, <1>6, <1>11, <1>12, <1>13 DEF PM!Next

LEMMA InitImplements == Init => PM!Init
<1> SUFFICES ASSUME Init PROVE PM!Init
  OBVIOUS
<1>1. Queue = <<>> /\ Posted = <<>>
  BY DEF Init, Queue, Held, NoReq, Posted, Writing
<1>2. \A t \in Tags, i \in Indices, o \in Words : ProgramWord(t, i, o) = mem[t][i][o]
  BY DEF Init, ProgramWord, Extracted, CacheWriteback, NoReq, Present, NoEntry, Fetching,
         WritingLine, Writing
<1>3. TypeOK
  BY InitType
<1>4. mem \in [Tags -> [Indices -> LineData]] /\ ProgramView \in [Tags -> [Indices -> LineData]]
  BY <1>3, ViewType DEF TypeOK
<1>5. \A t \in Tags, i \in Indices, o \in Words : mem[t][i][o] = ProgramView[t][i][o]
  BY <1>2 DEF ProgramView
<1>6. mem = ProgramView
  BY <1>4, <1>5, SameWords
<1> QED BY <1>1, <1>6 DEF PM!Init

LEMMA StepImplements ==
  ASSUME NoCacheOps, MemoryInv, MemoryInv', [Next]_vars PROVE [PM!Next]_(PM!vars)
<1>1. CASE Next
  <2>1. PICK req \in Offers, beat \in Beats, ack \in Acks, wready \in WReadies,
             victim \in VictimChoices, pf \in PrefetchOffers :
               Cycle(req, beat, ack, wready, victim, pf)
    BY <1>1 DEF Next
  <2>2. ack \in BOOLEAN /\ victim \in Ways
    BY InputTypes DEF MemoryInv, SafeInv, IInv
  <2> QED BY <2>1, <2>2, CycleImplements
<1>2. CASE UNCHANGED vars
  <2>1. Queue' = Queue /\ Posted' = Posted /\ mem' = mem
    BY <1>2 DEF vars, cpuVars, busVars, slaveVars, Queue, Held, Posted, Writing
  <2>2. \A t \in Tags, i \in Indices, o \in Words :
          ProgramWord(t, i, o)' = ProgramWord(t, i, o)
    BY <1>2 DEF vars, cpuVars, busVars, slaveVars, ProgramWord, Extracted, CacheWriteback,
       CacheDirty, CacheWay, HitWay, Hits, CacheHit, Present, HolderOf, Fetching, WritingLine,
       Writing
  <2>3. ProgramView' = ProgramView
    BY <2>2 DEF ProgramView
  <2> QED BY <2>1, <2>3 DEF PM!vars
<1> QED BY <1>1, <1>2

(* Requests complete in order, each once, on one memory: stores take       *)
(* effect once and in order, hits, misses, refills, evictions, prefetches  *)
(* and write-backs never change what the program sees, and posted uncached *)
(* stores are performed once, in order, before any later uncached load.    *)
THEOREM CacheImplementsMemory ==
  ASSUME NoCacheOps, ByAddress PROVE Spec => ImplementsProgramMemory
<1>1. MemoryInv /\ [Next]_vars => MemoryInv'
  BY MemoryStep
<1>2. Init => PM!Init
  BY InitImplements
<1>3. MemoryInv /\ MemoryInv' /\ [Next]_vars => [PM!Next]_(PM!vars)
  BY StepImplements
<1> QED BY <1>1, <1>2, <1>3, MemoryInit, PTL DEF Spec, ImplementsProgramMemory, PM!Spec
=============================================================================
