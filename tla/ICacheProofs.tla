---------------------------- MODULE ICacheProofs ----------------------------
(***************************************************************************)
(* Theorems about ICache, for every size the code supports and every set   *)
(* of requests, prefetched and written lines.                              *)
(***************************************************************************)
EXTENDS ICache, TLAPS

-----------------------------------------------------------------------------
(* The inductive invariant, in parts.                                      *)

InRam(t, i) == \E w \in Ways : ram[w][i].valid /\ ram[w][i].tag = t

(* A CACHE operation is in m1 for one cycle, and hits complete at once.    *)
StallInv ==
  (m1.valid /\ data_delay) =>
    /\ ~m1.CACHE /\ ~d_cache_hit
    /\ ~m1.uncache => ~InRam(m1.tag, m1.index)

(* The set a CACHE operation writes is not the set being fetched.          *)
CacheOpInv ==
  CacheOp(m1) => bus_state = "IDLE" \/ bc.uncache \/ m1.index # bc.index

(* A read of the bus that no line is refilled from is the one of the       *)
(* uncached fetch in m1, or on its way to m1.                              *)
UncachedInv ==
  (bus_state # "IDLE" /\ bc.uncache) =>
    /\ bus_state \in {"RDREQ", "READ"}
    /\ \E r \in {m1, held} :
         /\ UncachedRead(r) /\ ~r.CACHE
         /\ LineOf(r) = LineOf(bc) /\ r.offset = bc.offset
         /\ r = m1 \/ (~m1.valid /\ bus_state = "RDREQ")

(* A line is fetched because it is not in its set; a prefetch looks in its *)
(* first cycle.                                                            *)
Unseen == bus_state = "RDREQ" /\ bc.pf /\ ~bc.seen

FillInv ==
  (bus_state # "IDLE" /\ ~bc.uncache) =>
    /\ bc.offset % 2 = 0
    /\ ~Unseen => ~InRam(bc.tag, bc.index)
    /\ Unseen => \A w \in Ways :
         (ram[w][bc.index].valid /\ ram[w][bc.index].tag = bc.tag)
           => (out[w].valid /\ out[w].tag = bc.tag)

(* The words of a line in the order of the burst.                          *)
Dist(b, o) == IF o >= b THEN o - b ELSE o - b + LINE_WORDS

(* The beats counted by the cache, by the slave, and the words received.   *)
BurstInv ==
  /\ bus_state = "RDREQ" => fill.rdy = {} /\ fill.off = bc.offset
  /\ bus_state = "READ" =>
       /\ LineOf(rd) = LineOf(bc) /\ rd.off = fill.off /\ rd.left > 0
       /\ bc.uncache => rd.off = bc.offset
       /\ ~bc.uncache => Dist(bc.offset, fill.off) = LINE_WORDS - rd.left
       /\ \A o \in Words : o \in fill.rdy => ~bc.uncache /\ Dist(bc.offset, o) < LINE_WORDS - rd.left
       /\ ~bc.uncache => \A o \in Words : Dist(bc.offset, o) < LINE_WORDS - rd.left => o \in fill.rdy
  /\ bus_state = "REFILL" => fill.rdy = Words

(* What the RAM and the refill buffer hold is fresh.                       *)
RamFresh ==
  \A w \in Ways, i \in Indices : ram[w][i].valid =>
    \A o \in Words :
      Fresh(ram[w][i].data[o], [tag |-> ram[w][i].tag, index |-> i], o)
FillFresh ==
  (bus_state # "IDLE" /\ ~bc.uncache) => \A o \in fill.rdy : Fresh(fill.data[o], bc, o)

FloorInv == \A l \in Lines : floor[l] <= mem[l]

PortInv == PortIsCurrent /\ StallInv /\ CacheOpInv /\ UncachedInv
IInv == TypeOK /\ PortInv /\ BurstInv /\ FillInv /\ NoDuplicateLine

-----------------------------------------------------------------------------
(* Types.                                                                  *)

(* The inputs of a cycle.                                                  *)
Inputs(req, pf, beat, arready, victim, written) ==
  /\ req \in Offers /\ pf \in PrefetchOffers(M0(req)) /\ beat \in Beats
  /\ arready \in Accepts /\ victim \in VictimChoices /\ written \in Writes

LEMMA RequestTypes ==
  /\ Requests \cup {NoReq} \subseteq Request
  /\ \A r \in Requests \cup {NoReq} : ~r.uncache => r.offset % 2 = 0
  /\ \A r \in Requests \cup {NoReq} : r.CACHE => ~r.uncache
  /\ LINE_WORDS \in Nat /\ LINE_WORDS > 1
  /\ 0 \in Ways /\ 0 \in Indices /\ 0 \in Words /\ 0 \in Tags
<1>1. LINE_WORDS \in Nat /\ LINE_WORDS > 1
  BY SizeAssumption DEF SizeAssumption
<1>2. 0 \in Ways /\ 0 \in Indices /\ 0 \in Words /\ 0 \in Tags
  BY <1>1, SizeAssumption DEF SizeAssumption, Ways, Indices, Words, Tags
<1>3. NoReq \in Request /\ ~NoReq.CACHE /\ NoReq.offset % 2 = 0
  BY <1>2 DEF NoReq, Request
<1> QED BY <1>1, <1>2, <1>3, InputAssumption DEF InputAssumption

LEMMA InputTypes ==
  ASSUME TypeOK,
         NEW req, NEW pf, NEW beat, NEW arready, NEW victim, NEW written,
         Inputs(req, pf, beat, arready, victim, written)
  PROVE  /\ M0(req) \in Requests \cup {NoReq}
         /\ pf = NoLine \/ (pf \in Lines /\ PrefetchTurn(M0(req)))
         /\ beat \in BOOLEAN /\ (beat => bus_state = "READ")
         /\ arready \in BOOLEAN
         /\ victim \in Ways
         /\ written = NoLine \/ (written \in Lines /\ mem[written] < MaxVersion)
<1> USE DEF Inputs
<1>1. M0(req) \in Requests \cup {NoReq}
  BY DEF TypeOK, M0, Offers
<1>2. pf = NoLine \/ (pf \in Lines /\ PrefetchTurn(M0(req)))
  BY InputAssumption DEF InputAssumption, PrefetchOffers
<1>3. beat \in BOOLEAN /\ (beat => bus_state = "READ") /\ arready \in BOOLEAN
  BY DEF Beats, Accepts
<1>4. victim \in Ways
  BY RequestTypes DEF VictimChoices
<1>5. written = NoLine \/ (written \in Lines /\ mem[written] < MaxVersion)
  BY InputAssumption DEF InputAssumption, Writes
<1> QED BY <1>1, <1>2, <1>3, <1>4, <1>5

LEMMA InitType == Init => TypeOK
<1> SUFFICES ASSUME Init PROVE TypeOK
  OBVIOUS
<1>1. NoData \in LineData
  BY DEF NoData, LineData
<1>2. NoEntry \in Entry
  BY <1>1, RequestTypes DEF NoEntry, Entry
<1>3. NoFetch \in [tag : Tags, index : Indices, offset : Words, uncache : BOOLEAN,
                   pf : BOOLEAN, seen : BOOLEAN]
  BY RequestTypes DEF NoFetch
<1>4. NoFill \in [data : LineData, rdy : SUBSET Words, off : Words]
  BY <1>1, RequestTypes DEF NoFill
<1>5. NoBurst \in Burst
  BY RequestTypes DEF NoBurst, Burst
<1>6. 0 \in 0 .. MaxVersion
  BY SizeAssumption DEF SizeAssumption
<1> QED BY <1>2, <1>3, <1>4, <1>5, <1>6 DEF Init, TypeOK

LEMMA BeatWordType ==
  ASSUME TypeOK PROVE BeatWord \in Content
<1>1. rd \in Burst /\ [tag |-> rd.tag, index |-> rd.index] \in Lines
  BY DEF TypeOK, Burst, Lines
<1>2. mem[[tag |-> rd.tag, index |-> rd.index]] \in 0 .. MaxVersion
  BY <1>1 DEF TypeOK
<1> QED BY <1>1, <1>2 DEF BeatWord, Content, Burst

LEMMA NextWordType ==
  ASSUME NEW o \in Words PROVE NextWord(o) \in Words
BY RequestTypes DEF NextWord, Words

LEMMA RamType ==
  ASSUME TypeOK, NEW m0, NEW pf, NEW beat, NEW victim \in Ways,
         m0 \in Requests \cup {NoReq}, pf = NoLine \/ pf \in Lines,
         RamPorts(m0, pf, beat, victim)
  PROVE  ram' \in [Ways -> [Indices -> Entry]] /\ out' \in [Ways -> Entry]
<1> DEFINE E(w) == Written(w, victim, Refills(m0, beat), ram[w][WriteIndex])
<1>1. WriteIndex \in Indices
  BY RequestTypes DEF TypeOK, WriteIndex, Request
<1>2. NoEntry \in Entry
  BY InitType, RequestTypes DEF NoEntry, Entry, NoData, LineData
<1>3. ASSUME NEW w \in Ways PROVE E(w) \in Entry
  <2>1. ram[w][WriteIndex] \in Entry
    BY <1>1 DEF TypeOK
  <2>2. [valid |-> TRUE, tag |-> bc.tag, data |-> fill.data] \in Entry
    BY DEF TypeOK, Entry
  <2> QED BY <1>2, <2>1, <2>2 DEF Written
<1>4. ram' = [w \in Ways |-> [ram[w] EXCEPT ![WriteIndex] = E(w)]]
  BY DEF RamPorts
<1>5. ram' \in [Ways -> [Indices -> Entry]]
  <2> SUFFICES ASSUME NEW w \in Ways
               PROVE [ram[w] EXCEPT ![WriteIndex] = E(w)] \in [Indices -> Entry]
    BY <1>4
  <2> HIDE DEF E
  <2> QED BY <1>1, <1>3 DEF TypeOK
<1>6. out' \in [Ways -> Entry]
  <2>1. CASE Enb(m0, pf) /\ (m0.valid \/ pf # NoLine)
    <3>1. ReadIndex(m0, pf) \in Indices
      BY <2>1, RequestTypes DEF ReadIndex, Lines, Request
    <3> QED BY <2>1, <3>1 DEF RamPorts, TypeOK
  <2>2. CASE ~(Enb(m0, pf) /\ (m0.valid \/ pf # NoLine))
    BY <2>2 DEF RamPorts, TypeOK
  <2> QED BY <2>1, <2>2
<1> QED BY <1>5, <1>6

BusTypeOK ==
  /\ bus_state \in {"IDLE", "RDREQ", "READ", "REFILL"}
  /\ bc \in [tag : Tags, index : Indices, offset : Words, uncache : BOOLEAN,
             pf : BOOLEAN, seen : BOOLEAN]
  /\ fill \in [data : LineData, rdy : SUBSET Words, off : Words]
  /\ rd \in Burst

LEMMA StartType ==
  ASSUME TypeOK, NEW tag \in Tags, NEW index \in Indices, NEW offset \in Words,
         NEW uncache \in BOOLEAN, NEW pf \in BOOLEAN,
         StartFetch(tag, index, offset, uncache, pf)
  PROVE  BusTypeOK'
<1>1. NoData \in LineData
  BY DEF NoData, LineData
<1> QED BY <1>1 DEF StartFetch, BusTypeOK, TypeOK, NoFill

LEMMA ResetType == BusReset /\ bus_state' = "IDLE" => BusTypeOK'
<1>1. NoData \in LineData
  BY DEF NoData, LineData
<1> QED
  BY <1>1, RequestTypes DEF BusReset, BusTypeOK, NoFetch, NoFill, NoBurst, Burst

LEMMA BusType ==
  ASSUME TypeOK, BurstInv, NEW m0, NEW pf, NEW beat \in BOOLEAN, NEW arready \in BOOLEAN,
         m0 \in Requests \cup {NoReq}, pf = NoLine \/ pf \in Lines,
         BusStep(m0, pf, beat, arready)
  PROVE  BusTypeOK'
<1>1. CASE IdleMiss
  <2>1. m1 \in Request
    BY RequestTypes DEF TypeOK
  <2> QED BY <1>1, <2>1, StartType DEF IdleMiss, Request
<1>2. CASE IdleUncachedRead(m0)
  <2>1. m1 \in Request /\ m0 \in Request
    BY RequestTypes DEF TypeOK
  <2>2. PICK r \in Request : StartFetch(r.tag, r.index, r.offset, TRUE, FALSE)
    BY <1>2, <2>1 DEF IdleUncachedRead
  <2> QED BY <2>2, StartType DEF Request
<1>3. CASE IdlePrefetch(m0, pf)
  <2>1. pf \in Lines /\ StartFetch(pf.tag, pf.index, 0, FALSE, TRUE)
    BY <1>3 DEF IdlePrefetch
  <2> QED BY <2>1, StartType, RequestTypes DEF Lines
<1>4. CASE IdleStay(m0, pf)
  BY <1>4 DEF IdleStay, busVars, BusTypeOK, TypeOK
<1>5. CASE ReadRequestCancelled
  BY <1>5, ResetType DEF ReadRequestCancelled
<1>6. CASE ReadRequest(arready)
  BY <1>6, RequestTypes DEF ReadRequest, BusTypeOK, TypeOK, Burst
<1>7. CASE ReadUncached(beat)
  BY <1>7, ResetType DEF ReadUncached
<1>8. CASE Read(beat)
  <2>1. CASE beat
    <3>1. fill' = [data |-> [fill.data EXCEPT ![fill.off] = BeatWord],
                   rdy |-> fill.rdy \cup {fill.off}, off |-> NextWord(fill.off)]
      BY <1>8, <2>1 DEF Read
    <3>2. fill' \in [data : LineData, rdy : SUBSET Words, off : Words]
      BY <3>1, BeatWordType, NextWordType DEF TypeOK, LineData
    <3>3. rd \in Burst /\ rd.left > 0 /\ NextWord(rd.off) \in Words
      BY <1>8, NextWordType DEF Read, BurstInv, TypeOK, Burst
    <3>4. rd' \in Burst
      <4>1. CASE rd.left = 1
        <5>1. NoBurst \in Burst
          BY RequestTypes DEF NoBurst, Burst
        <5> QED BY <1>8, <2>1, <4>1, <5>1 DEF Read
      <4>2. CASE rd.left # 1
        <5>1. rd.left - 1 \in 0 .. LINE_WORDS
          BY <3>3, RequestTypes DEF Burst
        <5> QED BY <1>8, <2>1, <3>3, <4>2, <5>1 DEF Read, Burst
      <4> QED BY <4>1, <4>2
    <3> QED BY <1>8, <2>1, <3>2, <3>4 DEF Read, BusTypeOK, TypeOK
  <2>2. CASE ~beat
    BY <1>8, <2>2 DEF Read, BusTypeOK, TypeOK
  <2> QED BY <2>1, <2>2
<1>9. CASE Refill(m0, beat)
  <2>1. CASE Refills(m0, beat)
    BY <1>9, <2>1, ResetType DEF Refill
  <2>2. CASE ~Refills(m0, beat)
    BY <1>9, <2>2 DEF Refill, busVars, BusTypeOK, TypeOK
  <2> QED BY <2>1, <2>2
<1> QED
  BY <1>1, <1>2, <1>3, <1>4, <1>5, <1>6, <1>7, <1>8, <1>9 DEF BusStep

LEMMA StepType ==
  ASSUME TypeOK, BurstInv,
         NEW req, NEW pf, NEW beat, NEW arready, NEW victim, NEW written,
         Inputs(req, pf, beat, arready, victim, written),
         Cycle(req, pf, beat, arready, victim, written)
  PROVE  TypeOK'
<1> DEFINE m0 == M0(req)
<1>1. /\ m0 \in Requests \cup {NoReq}
      /\ pf = NoLine \/ pf \in Lines
      /\ beat \in BOOLEAN /\ arready \in BOOLEAN /\ victim \in Ways
      /\ written = NoLine \/ (written \in Lines /\ mem[written] < MaxVersion)
  BY InputTypes
<1> HIDE DEF m0
<1>2. Pipeline(m0, pf, beat) /\ RamPorts(m0, pf, beat, victim)
      /\ BusStep(m0, pf, beat, arready) /\ Memory(written) /\ History
  BY DEF Cycle, m0
<1>3. held' \in Requests \cup {NoReq} /\ m1' \in Requests \cup {NoReq}
  BY <1>1, <1>2 DEF Pipeline, TypeOK
<1>4. rb_CACHE' \in BOOLEAN /\ data_delay' \in BOOLEAN /\ d_cache_hit' \in BOOLEAN
  <2>1. m0 \in Request /\ m1 \in Request
    BY <1>1, RequestTypes DEF TypeOK
  <2>2. rb_CACHE' \in BOOLEAN
    BY <1>2, <2>1 DEF Pipeline, TypeOK, Request
  <2>3. data_delay' \in BOOLEAN
    BY <1>2 DEF Pipeline
  <2>4. d_cache_hit' \in BOOLEAN
    BY <1>2 DEF Pipeline
  <2> QED BY <2>2, <2>3, <2>4
<1>5. ram' \in [Ways -> [Indices -> Entry]] /\ out' \in [Ways -> Entry]
  BY <1>1, <1>2, RamType
<1>6. BusTypeOK'
  BY <1>1, <1>2, BusType
<1>7. mem' \in [Lines -> 0 .. MaxVersion]
  BY <1>1, <1>2, SizeAssumption DEF Memory, TypeOK, SizeAssumption
<1>8. floor' \in [Lines -> 0 .. MaxVersion]
  BY <1>2 DEF History, TypeOK
<1> QED BY <1>3, <1>4, <1>5, <1>6, <1>7, <1>8 DEF TypeOK, BusTypeOK

-----------------------------------------------------------------------------
(* The request in m1 and the read port.                                    *)

LEMMA InitInv == Init => IInv
<1> SUFFICES ASSUME Init PROVE IInv
  OBVIOUS
<1>1. TypeOK
  BY InitType
<1>2. PortInv
  BY DEF Init, PortInv, PortIsCurrent, StallInv, CacheOpInv, UncachedInv, CacheOp, NoReq
<1>3. BurstInv /\ FillInv
  BY DEF Init, BurstInv, FillInv
<1>4. NoDuplicateLine
  BY DEF Init, NoDuplicateLine, NoEntry
<1> QED BY <1>1, <1>2, <1>3, <1>4 DEF IInv

(* The second word of a pair is in the line.                               *)
LEMMA SecondType ==
  ASSUME NEW r \in Requests \cup {NoReq}, ~r.uncache
  PROVE  Second(r) \in Words
<1>1. r.offset \in Words /\ r.offset % 2 = 0
  BY RequestTypes DEF Request
<1>2. LINE_WORDS \in Nat /\ LINE_WORDS % 2 = 0
  BY SizeAssumption DEF SizeAssumption
<1> QED BY <1>1, <1>2 DEF Second, Words

(* A cached fetch that stays in m1 asks for a line that is not in the RAM. *)
LEMMA StalledNotInRam ==
  ASSUME TypeOK, PortInv, Fetch(m1), ~m1.uncache,
         data_delay \/ ~CacheHit
  PROVE  ~InRam(m1.tag, m1.index)
<1>1. CASE data_delay
  BY <1>1 DEF PortInv, StallInv, Fetch
<1>2. CASE ~data_delay
  <2>1. Hits = {}
    BY <1>2 DEF CacheHit
  <2>2. \A w \in Ways : out[w] = ram[w][m1.index]
    BY <1>2 DEF PortInv, PortIsCurrent, Fetch
  <2> QED BY <2>1, <2>2 DEF Hits, InRam
<1> QED BY <1>1, <1>2

(* In every cycle a line can only come into the RAM by the refill.         *)
LEMMA RamGains ==
  ASSUME TypeOK, NEW m0, NEW pf, NEW beat, NEW victim \in Ways,
         RamPorts(m0, pf, beat, victim),
         NEW w \in Ways, NEW i \in Indices, ram'[w][i].valid
  PROVE  \/ ram'[w][i] = ram[w][i]
         \/ /\ Refills(m0, beat) /\ w = victim /\ i = bc.index /\ ~CacheOp(m1)
            /\ ram'[w][i] = [valid |-> TRUE, tag |-> bc.tag, data |-> fill.data]
<1>1. WriteIndex \in Indices
  BY RequestTypes DEF TypeOK, WriteIndex, Request
<1>2. ram'[w] = [ram[w] EXCEPT ![WriteIndex] =
                   Written(w, victim, Refills(m0, beat), ram[w][WriteIndex])]
  BY DEF RamPorts
<1>3. CASE i # WriteIndex
  BY <1>1, <1>2, <1>3 DEF TypeOK
<1>4. CASE i = WriteIndex
  <2>1. ram'[w][i] = Written(w, victim, Refills(m0, beat), ram[w][i])
    BY <1>1, <1>2, <1>4 DEF TypeOK
  <2>2. ~NoEntry.valid
    BY DEF NoEntry
  <2> QED BY <1>4, <2>1, <2>2 DEF Written, WriteIndex
<1> QED BY <1>3, <1>4

LEMMA RefillsInRefill ==
  ASSUME NEW m0, NEW beat, Refills(m0, beat) PROVE bus_state = "REFILL" /\ ~CacheOp(m1)
BY DEF Refills

(* A request that enters m1 reads a set that is not written.               *)
LEMMA StepPort ==
  ASSUME TypeOK, PortInv, NEW m0, NEW pf, NEW beat, NEW victim \in Ways,
         m0 \in Requests \cup {NoReq},
         Pipeline(m0, pf, beat), RamPorts(m0, pf, beat, victim)
  PROVE  PortIsCurrent'
<1> SUFFICES ASSUME m1'.valid, ~data_delay' PROVE \A w \in Ways : out'[w] = ram'[w][m1'.index]
  BY DEF PortIsCurrent
<1>1. Enters(m0, pf, beat)
  BY DEF Pipeline, NoReq
<1>2. m1' = m0 /\ m0.valid /\ Enb(m0, pf) /\ AddrOk(m0, pf) /\ (~m1.valid \/ DataOk(beat))
  BY <1>1 DEF Pipeline, Enters, AddrOk
<1>3. m0.index \in Indices
  BY RequestTypes DEF Request
<1>4. \A w \in Ways : out'[w] = ram[w][m0.index]
  BY <1>2 DEF RamPorts, ReadIndex
<1>5. ASSUME NEW w \in Ways PROVE ram'[w][m0.index] = ram[w][m0.index]
  <2>1. WriteIndex \in Indices
    BY RequestTypes DEF TypeOK, WriteIndex, Request
  <2>2. ram'[w] = [ram[w] EXCEPT ![WriteIndex] =
                     Written(w, victim, Refills(m0, beat), ram[w][WriteIndex])]
    BY DEF RamPorts
  <2>3. CASE WriteIndex # m0.index
    BY <1>3, <2>1, <2>2, <2>3 DEF TypeOK
  <2>4. CASE WriteIndex = m0.index
    <3>1. ~CacheOp(m1) /\ bc.index = m0.index
      BY <1>2, <2>4 DEF Enb, Hazard, ReadIndex, WriteIndex
    <3>2. ~Refills(m0, beat)
      <4> SUFFICES ASSUME Refills(m0, beat) PROVE FALSE
        OBVIOUS
      <4>1. m0.CACHE /\ bus_state = "REFILL"
        BY <1>2, <3>1 DEF Refills
      <4>2. ~bc.uncache
        BY <4>1 DEF PortInv, UncachedInv
      <4> QED BY <1>2, <3>1, <4>1, <4>2 DEF AddrOk
    <3>3. Written(w, victim, Refills(m0, beat), ram[w][WriteIndex]) = ram[w][WriteIndex]
      BY <3>1, <3>2 DEF Written
    <3> QED BY <1>3, <2>1, <2>2, <2>4, <3>3 DEF TypeOK
  <2> QED BY <2>3, <2>4
<1> QED BY <1>2, <1>4, <1>5

(* A request that stays in m1 is a fetch, and its line does not come into  *)
(* the RAM: the refill would have answered it.                             *)
LEMMA StepStall ==
  ASSUME TypeOK, PortInv, BurstInv,
         NEW m0, NEW pf, NEW beat, NEW victim \in Ways,
         Pipeline(m0, pf, beat), RamPorts(m0, pf, beat, victim)
  PROVE  StallInv'
<1> SUFFICES ASSUME m1'.valid, data_delay'
             PROVE /\ ~m1'.CACHE /\ ~d_cache_hit'
                   /\ ~m1'.uncache => ~InRam(m1.tag, m1.index)'
  BY DEF StallInv
<1>1. m1.valid /\ ~DataOk(beat)
  BY DEF Pipeline
<1>2. m1' = m1
  BY <1>1 DEF Pipeline, Enters
<1>3. ~m1.CACHE /\ Fetch(m1)
  <2>1. ~CacheOp(m1)
    BY <1>1 DEF DataOk
  <2> QED BY <1>1, <2>1 DEF CacheOp, Fetch
<1>4. ~d_cache_hit'
  <2>1. CASE data_delay
    BY <1>1, <2>1 DEF Pipeline, PortInv, StallInv
  <2>2. CASE ~data_delay
    BY <1>1, <1>3, <2>2 DEF Pipeline, DataOk
  <2> QED BY <2>1, <2>2
<1>5. ASSUME ~m1.uncache, NEW w \in Ways, ram'[w][m1.index].valid,
             ram'[w][m1.index].tag = m1.tag
      PROVE FALSE
  <2>1. ~InRam(m1.tag, m1.index)
    BY <1>1, <1>3, <1>5, StalledNotInRam DEF DataOk
  <2>2. m1.index \in Indices
    BY RequestTypes DEF TypeOK, Request
  <2>3. Refills(m0, beat) /\ m1.index = bc.index /\ m1.tag = bc.tag
    BY <1>5, <2>1, <2>2, RamGains DEF InRam
  <2>4. bus_state = "REFILL" /\ fill.rdy = Words
    BY <2>3 DEF Refills, BurstInv
  <2>5. Second(m1) \in Words
    BY <1>5, SecondType DEF TypeOK
  <2> QED BY <1>1, <1>3, <1>5, <2>3, <2>4, <2>5 DEF DataOk, Doable
<1> QED BY <1>2, <1>3, <1>4, <1>5 DEF InRam

(* No request leaves m1 in the cycle in which its miss takes the bus.      *)
LEMMA MissStays ==
  ASSUME TypeOK, NEW beat, beat => bus_state = "READ", bus_state = "IDLE", Miss
  PROVE  m1.valid /\ ~DataOk(beat)
<1>1. ~beat /\ ~Doable
  BY DEF Doable
<1>2. Fetch(m1) /\ ~(CacheHit /\ ~data_delay) /\ ~CacheOp(m1)
  BY DEF Miss, Fetch, CacheOp
<1> QED BY <1>1, <1>2 DEF DataOk, Fetch

(* While a line is on the bus, CACHE operations of its set do not enter m1.*)
LEMMA StepCacheOp ==
  ASSUME TypeOK, PortInv, NEW m0, NEW pf, NEW beat, NEW arready,
         m0 \in Requests \cup {NoReq}, beat => bus_state = "READ",
         Pipeline(m0, pf, beat), BusStep(m0, pf, beat, arready)
  PROVE  CacheOpInv'
<1> SUFFICES ASSUME CacheOp(m1)', bus_state' # "IDLE", ~bc'.uncache
             PROVE m1'.index # bc'.index
  BY DEF CacheOpInv
<1>1. ~(m1.valid /\ ~DataOk(beat))
  <2> SUFFICES ASSUME m1.valid, ~DataOk(beat) PROVE FALSE
    OBVIOUS
  <2>1. m1' = m1
    BY DEF Pipeline, Enters
  <2> QED BY <2>1 DEF DataOk, CacheOp
<1>2. Enters(m0, pf, beat) /\ m1' = m0 /\ m0.valid /\ m0.CACHE
  BY <1>1 DEF Pipeline, CacheOp, NoReq
<1>3. bus_state # "IDLE" /\ bc'.index = bc.index /\ bc'.uncache = bc.uncache
  <2>1. CASE IdleMiss
    BY <1>1, <2>1, MissStays DEF IdleMiss
  <2>2. CASE IdleUncachedRead(m0)
    BY <2>2 DEF IdleUncachedRead, StartFetch
  <2>3. CASE IdlePrefetch(m0, pf)
    BY <1>2, <2>3 DEF IdlePrefetch, PrefetchTurn
  <2>4. CASE IdleStay(m0, pf)
    BY <2>4 DEF IdleStay, busVars
  <2>5. CASE ReadRequestCancelled \/ ReadUncached(beat)
    BY <2>5 DEF ReadRequestCancelled, ReadUncached
  <2>6. CASE ReadRequest(arready)
    BY <2>6 DEF ReadRequest, TypeOK
  <2>7. CASE Read(beat)
    BY <2>7 DEF Read
  <2>8. CASE Refill(m0, beat)
    BY <2>8 DEF Refill, busVars
  <2> QED
    BY <2>1, <2>2, <2>3, <2>4, <2>5, <2>6, <2>7, <2>8 DEF BusStep
<1> QED BY <1>2, <1>3 DEF Enters, AddrOk

(* The uncached fetch that is on the bus stays in m0 or m1.                *)
LEMMA StepUncached ==
  ASSUME TypeOK, PortInv, BurstInv, NEW req, NEW pf, NEW beat, NEW arready,
         M0(req) \in Requests \cup {NoReq}, beat => bus_state = "READ",
         Pipeline(M0(req), pf, beat), BusStep(M0(req), pf, beat, arready)
  PROVE  UncachedInv'
<1> SUFFICES ASSUME bus_state' # "IDLE", bc'.uncache
             PROVE /\ bus_state' \in {"RDREQ", "READ"}
                   /\ \E r \in {m1', held'} :
                        /\ UncachedRead(r) /\ ~r.CACHE
                        /\ LineOf(r) = LineOf(bc)' /\ r.offset = bc'.offset
                        /\ r = m1' \/ (~m1'.valid /\ bus_state' = "RDREQ")
  BY DEF UncachedInv, LineOf, UncachedRead
<1> DEFINE m0 == M0(req)
<1> HIDE DEF m0
<1>0. m0 \in Requests \cup {NoReq} /\ m1 \in Requests \cup {NoReq}
  BY DEF m0, TypeOK
<1>1. CASE IdleUncachedRead(m0)
  <2> DEFINE r == IF UncachedRead(m1) THEN m1 ELSE m0
  <2>1. /\ bus_state = "IDLE" /\ bus_state' = "RDREQ" /\ ~Miss
        /\ LineOf(bc)' = LineOf(r) /\ bc'.offset = r.offset
        /\ UncachedRead(r)
    BY <1>1 DEF IdleUncachedRead, StartFetch, LineOf
  <2>2. ~r.CACHE
    BY <1>0, <2>1, RequestTypes DEF UncachedRead
  <2>3. CASE UncachedRead(m1)
    <3>1. ~DataOk(beat)
      BY <2>1, <2>2, <2>3 DEF DataOk, CacheHit, Doable, CacheOp, UncachedRead
    <3>2. m1' = m1
      BY <2>3, <3>1 DEF Pipeline, Enters, UncachedRead, m0
    <3> QED BY <2>1, <2>2, <2>3, <3>2
  <2>4. CASE ~UncachedRead(m1)
    <3>1. r = m0 /\ TakesM0(m0)
      BY <2>1, <2>4 DEF TakesM0
    <3>2. CASE Enters(m0, pf, beat)
      BY <2>1, <2>2, <3>1, <3>2 DEF Pipeline, m0
    <3>3. CASE ~Enters(m0, pf, beat)
      <4>1. held' = m0
        BY <3>1, <3>3 DEF Pipeline, m0
      <4>2. ~m1.valid \/ DataOk(beat)
        <5> SUFFICES ASSUME m1.valid, ~m1.uncache, ~CacheOp(m1) PROVE DataOk(beat)
          BY <2>4 DEF UncachedRead, DataOk
        <5>1. Fetch(m1)
          BY DEF CacheOp, Fetch
        <5>2. ~data_delay /\ CacheHit
          BY <2>1, <5>1 DEF Miss, PortInv, StallInv, TypeOK
        <5> QED BY <5>1, <5>2 DEF DataOk
      <4>3. ~m1'.valid
        BY <3>3, <4>2 DEF Pipeline, m0, NoReq
      <4> QED BY <2>1, <2>2, <3>1, <4>1, <4>3
    <3> QED BY <3>2, <3>3
  <2> QED BY <2>3, <2>4
<1>2. CASE ReadRequest(arready) \/ Read(beat)
  <2>1. /\ bus_state \in {"RDREQ", "READ"} /\ bc.uncache /\ LineOf(bc)' = LineOf(bc)
        /\ bc'.offset = bc.offset /\ ~(bus_state = "READ" /\ beat)
    BY <1>2 DEF ReadRequest, Read, LineOf, TypeOK
  <2>2. ~beat
    BY <2>1
  <2>3. bus_state' \in {"RDREQ", "READ"}
    BY <1>2, <2>2 DEF ReadRequest, Read
  <2>4. PICK r \in {m1, held} :
          /\ UncachedRead(r) /\ ~r.CACHE
          /\ LineOf(r) = LineOf(bc) /\ r.offset = bc.offset
          /\ r = m1 \/ (~m1.valid /\ bus_state = "RDREQ")
    BY <2>1 DEF PortInv, UncachedInv
  <2>5. CASE r = m1
    <3>1. ~DataOk(beat)
      BY <2>2, <2>4, <2>5 DEF DataOk, CacheHit, Doable, CacheOp, UncachedRead
    <3>2. m1' = m1
      BY <2>4, <2>5, <3>1 DEF Pipeline, Enters, UncachedRead, m0
    <3> QED BY <2>1, <2>3, <2>4, <2>5, <3>2
  <2>6. CASE r # m1
    <3>1. r = held /\ ~m1.valid /\ held.valid
      BY <2>4, <2>6 DEF UncachedRead
    <3>2. m0 = held
      BY <3>1 DEF M0, m0
    <3>3. Enters(m0, pf, beat)
      BY <2>4, <3>1, <3>2 DEF Enters, AddrOk, Enb, CacheOp
    <3>4. m1' = r
      BY <3>1, <3>2, <3>3 DEF Pipeline, m0
    <3> QED BY <2>1, <2>3, <2>4, <3>4
  <2> QED BY <2>5, <2>6
<1>3. CASE IdleMiss \/ IdlePrefetch(m0, pf)
  BY <1>3 DEF IdleMiss, IdlePrefetch, StartFetch
<1>4. CASE IdleStay(m0, pf)
  BY <1>4 DEF IdleStay, busVars
<1>5. CASE ReadRequestCancelled \/ ReadUncached(beat)
  BY <1>5 DEF ReadRequestCancelled, ReadUncached
<1>6. CASE Refill(m0, beat)
  BY <1>6 DEF Refill, busVars, BusReset, NoFetch, PortInv, UncachedInv
<1> QED
  BY <1>1, <1>2, <1>3, <1>4, <1>5, <1>6 DEF BusStep, m0

-----------------------------------------------------------------------------
(* The burst.                                                              *)

(* The burst visits every word once.                                       *)
LEMMA DistNext ==
  ASSUME NEW b \in Words, NEW o \in Words
  PROVE  /\ Dist(b, o) \in 0 .. LINE_WORDS - 1
         /\ Dist(b, b) = 0
         /\ Dist(b, o) < LINE_WORDS - 1 => Dist(b, NextWord(o)) = Dist(b, o) + 1
         /\ \A p \in Words : Dist(b, p) = Dist(b, o) => p = o
BY RequestTypes DEF Dist, Words, NextWord

LEMMA ReadBurst ==
  ASSUME TypeOK, BurstInv, NEW beat \in BOOLEAN, Read(beat)
  PROVE  BurstInv'
<1>1. CASE ~beat
  BY <1>1 DEF Read, BurstInv, LineOf
<1>2. CASE beat
  <2> DEFINE b == bc.offset
             o == fill.off
             n == LINE_WORDS - rd.left
  <2>1. /\ bus_state = "READ" /\ ~bc.uncache /\ bc' = bc
        /\ fill'.rdy = fill.rdy \cup {o} /\ fill'.off = NextWord(o)
    BY <1>2 DEF Read
  <2>2. /\ LineOf(rd) = LineOf(bc) /\ rd.off = o /\ rd.left > 0
        /\ Dist(b, o) = n
        /\ \A w \in Words : w \in fill.rdy <=> Dist(b, w) < n
    BY <2>1 DEF BurstInv
  <2>3. b \in Words /\ o \in Words /\ rd.left \in 0 .. LINE_WORDS /\ fill.rdy \subseteq Words
    BY DEF TypeOK, Burst
  <2>4. /\ \A w \in Words : Dist(b, w) \in 0 .. LINE_WORDS - 1
        /\ \A w \in Words : Dist(b, w) = n => w = o
    BY <2>2, <2>3, DistNext
  <2>5. \A w \in Words : w \in fill'.rdy <=> Dist(b, w) < n + 1
    <3> TAKE w \in Words
    <3> HIDE DEF b, o
    <3>1. w \in fill'.rdy <=> w \in fill.rdy \/ w = o
      BY <2>1
    <3>2. Dist(b, w) \in Int /\ n \in Int
      BY <2>3, <2>4, RequestTypes
    <3> QED BY <2>2, <2>4, <3>1, <3>2
  <2>6. CASE rd.left = 1
    <3>1. bus_state' = "REFILL"
      BY <1>2, <2>6 DEF Read
    <3>2. \A w \in Words : w \in fill'.rdy
      BY <2>3, <2>4, <2>5, <2>6, RequestTypes
    <3>3. fill'.rdy = Words
      BY <2>1, <2>3, <3>2
    <3> QED BY <3>1, <3>3 DEF BurstInv
  <2>7. CASE rd.left # 1
    <3>1. bus_state' = "READ" /\ rd' = [rd EXCEPT !.left = @ - 1, !.off = NextWord(@)]
      BY <1>2, <2>7 DEF Read
    <3>2. /\ rd'.left = rd.left - 1 /\ rd'.off = NextWord(o)
          /\ rd'.tag = rd.tag /\ rd'.index = rd.index
      BY <2>2, <3>1 DEF TypeOK, Burst
    <3>3. LINE_WORDS - rd'.left = n + 1 /\ rd'.left > 0 /\ n < LINE_WORDS - 1
      BY <2>2, <2>3, <2>7, <3>2, RequestTypes
    <3>4. Dist(b, NextWord(o)) = n + 1
      BY <2>2, <2>3, <3>3, DistNext
    <3>5. LineOf(rd)' = LineOf(bc)'
      BY <2>1, <2>2, <3>2 DEF LineOf
    <3> QED BY <2>1, <2>5, <3>1, <3>2, <3>3, <3>4, <3>5 DEF BurstInv
  <2> QED BY <2>6, <2>7
<1> QED BY <1>1, <1>2

LEMMA StepBurst ==
  ASSUME TypeOK, BurstInv, NEW m0, NEW pf, NEW beat \in BOOLEAN, NEW arready,
         BusStep(m0, pf, beat, arready)
  PROVE  BurstInv'
<1>1. CASE IdleMiss \/ IdleUncachedRead(m0) \/ IdlePrefetch(m0, pf)
  BY <1>1 DEF IdleMiss, IdleUncachedRead, IdlePrefetch, StartFetch, NoFill, BurstInv
<1>2. CASE IdleStay(m0, pf)
  BY <1>2 DEF IdleStay, busVars, BurstInv
<1>3. CASE ReadRequestCancelled \/ ReadUncached(beat)
  BY <1>3 DEF ReadRequestCancelled, ReadUncached, BurstInv
<1>4. CASE ReadRequest(arready)
  <2>1. /\ fill' = fill /\ fill.rdy = {} /\ fill.off = bc.offset
        /\ LineOf(bc)' = LineOf(bc) /\ bc'.offset = bc.offset /\ bc'.uncache = bc.uncache
        /\ bus_state = "RDREQ" /\ bus_state' \in {"RDREQ", "READ"}
    BY <1>4 DEF ReadRequest, BurstInv, LineOf, TypeOK
  <2>2. CASE bus_state' = "RDREQ"
    BY <2>1, <2>2 DEF BurstInv
  <2>3. CASE bus_state' = "READ"
    <3>1. rd' = [uncache |-> bc.uncache, tag |-> bc.tag, index |-> bc.index,
                 off |-> bc.offset, left |-> IF bc.uncache THEN 1 ELSE LINE_WORDS]
      BY <1>4, <2>1, <2>3 DEF ReadRequest
    <3>2. LineOf(rd)' = LineOf(bc)' /\ rd'.off = bc.offset
      BY <2>1, <3>1 DEF LineOf
    <3>3. rd'.left > 0 /\ (~bc.uncache => LINE_WORDS - rd'.left = 0)
      BY <3>1, RequestTypes
    <3>4. bc.offset \in Words
      BY DEF TypeOK
    <3>5. Dist(bc.offset, bc.offset) = 0
      BY <3>4, DistNext
    <3>6. \A o \in Words : ~(Dist(bc.offset, o) < 0)
      BY <3>4, DistNext, RequestTypes
    <3> QED BY <2>1, <2>3, <3>2, <3>3, <3>5, <3>6 DEF BurstInv
  <2> QED BY <2>1, <2>2, <2>3
<1>5. CASE Read(beat)
  BY <1>5, ReadBurst
<1>6. CASE Refill(m0, beat)
  BY <1>6 DEF Refill, busVars, BurstInv
<1> QED BY <1>1, <1>2, <1>3, <1>4, <1>5, <1>6 DEF BusStep

-----------------------------------------------------------------------------
(* The line on the bus.                                                    *)

LEMMA StaysOut ==
  ASSUME TypeOK, NEW m0, NEW pf, NEW beat, NEW victim \in Ways,
         RamPorts(m0, pf, beat, victim), ~Refills(m0, beat),
         NEW t, NEW i \in Indices, ~InRam(t, i)
  PROVE  ~\E w \in Ways : ram'[w][i].valid /\ ram'[w][i].tag = t
<1> SUFFICES ASSUME NEW w \in Ways, ram'[w][i].valid, ram'[w][i].tag = t PROVE FALSE
  OBVIOUS
<1>1. ram'[w][i] = ram[w][i]
  BY RamGains
<1> QED BY <1>1 DEF InRam

(* What the next line was looked up for in is what its set holds.          *)
LEMMA PrefetchLooks ==
  ASSUME TypeOK, PortInv, NEW m0, NEW pf \in Lines, NEW beat, NEW victim \in Ways,
         RamPorts(m0, pf, beat, victim), bus_state = "IDLE", ~m0.valid, pf # NoLine,
         NEW w \in Ways, ram'[w][pf.index].valid
  PROVE  out'[w] = ram'[w][pf.index]
<1>1. pf.index \in Indices
  BY DEF Lines
<1>2. ram'[w][pf.index] = ram[w][pf.index]
  BY <1>1, RamGains, RefillsInRefill
<1>3. CASE Enb(m0, pf)
  BY <1>2, <1>3 DEF RamPorts, ReadIndex
<1>4. CASE ~Enb(m0, pf)
  <2>1. CacheOp(m1) /\ pf.index = m1.index
    BY <1>4 DEF Enb, Hazard, ReadIndex, WriteIndex
  <2>2. m1.valid /\ ~data_delay
    BY <2>1 DEF PortInv, StallInv, CacheOp
  <2>3. out[w] = ram[w][m1.index]
    BY <2>2 DEF PortInv, PortIsCurrent
  <2> QED BY <1>2, <1>4, <2>1, <2>3 DEF RamPorts
<1> QED BY <1>3, <1>4

LEMMA StepFill ==
  ASSUME TypeOK, PortInv, FillInv, NEW m0, NEW pf, NEW beat, NEW arready,
         NEW victim \in Ways,
         m0 \in Requests \cup {NoReq}, pf = NoLine \/ pf \in Lines,
         RamPorts(m0, pf, beat, victim), BusStep(m0, pf, beat, arready)
  PROVE  FillInv'
<1> DEFINE InRamNext(t, i) == \E w \in Ways : ram'[w][i].valid /\ ram'[w][i].tag = t
<1> SUFFICES ASSUME bus_state' # "IDLE", ~bc'.uncache
             PROVE /\ bc'.offset % 2 = 0
                   /\ ~Unseen' => ~InRamNext(bc'.tag, bc'.index)
                   /\ Unseen' => \A w \in Ways :
                        (ram'[w][bc'.index].valid /\ ram'[w][bc'.index].tag = bc'.tag)
                          => (out'[w].valid /\ out'[w].tag = bc'.tag)
  BY DEF FillInv, InRam
<1>0. bc.index \in Indices /\ m1.index \in Indices
  BY RequestTypes DEF TypeOK, Request
<1>1. CASE IdleMiss
  <2>1. /\ bc' = [tag |-> m1.tag, index |-> m1.index, offset |-> m1.offset,
                  uncache |-> FALSE, pf |-> FALSE, seen |-> FALSE]
        /\ bus_state = "IDLE" /\ Miss
    BY <1>1 DEF IdleMiss, StartFetch
  <2>2. m1.offset % 2 = 0
    BY <2>1, RequestTypes DEF Miss, TypeOK
  <2>3. ~InRam(m1.tag, m1.index)
    BY <2>1, StalledNotInRam DEF Miss
  <2>4. ~Refills(m0, beat)
    BY <2>1 DEF Refills
  <2>5. ~InRamNext(m1.tag, m1.index)
    BY <1>0, <2>3, <2>4, StaysOut
  <2> QED BY <2>1, <2>2, <2>5 DEF Unseen
<1>2. CASE IdleUncachedRead(m0)
  BY <1>2 DEF IdleUncachedRead, StartFetch
<1>3. CASE IdlePrefetch(m0, pf)
  <2>1. /\ bc' = [tag |-> pf.tag, index |-> pf.index, offset |-> 0,
                  uncache |-> FALSE, pf |-> TRUE, seen |-> FALSE]
        /\ bus_state' = "RDREQ"
        /\ bus_state = "IDLE" /\ ~m0.valid /\ pf # NoLine /\ pf \in Lines
    BY <1>3 DEF IdlePrefetch, StartFetch, PrefetchTurn
  <2>2. \A w \in Ways : ram'[w][pf.index].valid => out'[w] = ram'[w][pf.index]
    BY <2>1, PrefetchLooks
  <2>3. Unseen'
    BY <2>1 DEF Unseen
  <2>4. bc'.offset = 0 /\ bc'.index = pf.index
    BY <2>1
  <2> QED BY <2>2, <2>3, <2>4
<1>4. CASE IdleStay(m0, pf)
  BY <1>4 DEF IdleStay, busVars
<1>5. CASE ReadRequestCancelled \/ ReadUncached(beat)
  BY <1>5 DEF ReadRequestCancelled, ReadUncached
<1>6. CASE ReadRequest(arready)
  <2>1. /\ bus_state = "RDREQ" /\ ~Cancelled
        /\ bc' = [bc EXCEPT !.seen = bc.pf]
    BY <1>6 DEF ReadRequest
  <2>2. /\ bc'.tag = bc.tag /\ bc'.index = bc.index /\ bc'.offset = bc.offset
        /\ bc'.uncache = bc.uncache /\ bc'.pf = bc.pf /\ bc'.seen = bc.pf
    BY <2>1 DEF TypeOK
  <2>3. ~InRam(bc.tag, bc.index)
    <3>1. CASE Unseen
      BY <2>1, <2>2, <3>1 DEF Unseen, Cancelled, PfOff, FillInv, InRam
    <3>2. CASE ~Unseen
      BY <2>1, <2>2, <3>2 DEF FillInv
    <3> QED BY <3>1, <3>2
  <2>4. ~Refills(m0, beat)
    BY <2>1 DEF Refills
  <2>5. ~InRamNext(bc.tag, bc.index)
    BY <1>0, <2>3, <2>4, StaysOut
  <2>6. ~Unseen'
    BY <2>2 DEF Unseen
  <2> QED BY <2>1, <2>2, <2>5, <2>6 DEF FillInv
<1>7. CASE Read(beat) \/ Refill(m0, beat)
  <2>1. /\ bus_state \in {"READ", "REFILL"} /\ bus_state' \in {"READ", "REFILL"}
        /\ bc' = bc /\ ~Refills(m0, beat)
    BY <1>7 DEF Read, Refill, Refills, busVars
  <2>2. ~InRam(bc.tag, bc.index) /\ bc.offset % 2 = 0
    BY <2>1 DEF FillInv, Unseen
  <2>3. ~InRamNext(bc.tag, bc.index)
    BY <1>0, <2>1, <2>2, StaysOut
  <2> QED BY <2>1, <2>2, <2>3 DEF Unseen
<1> QED BY <1>1, <1>2, <1>3, <1>4, <1>5, <1>6, <1>7 DEF BusStep

(* A refill brings a line that is in no way of its set.                    *)
LEMMA StepNoDup ==
  ASSUME TypeOK, PortInv, FillInv, NoDuplicateLine,
         NEW m0, NEW pf, NEW beat, NEW victim \in Ways,
         RamPorts(m0, pf, beat, victim)
  PROVE  NoDuplicateLine'
<1> SUFFICES ASSUME NEW i \in Indices, NEW v \in Ways, NEW w \in Ways,
                    ram'[v][i].valid, ram'[w][i].valid, ram'[v][i].tag = ram'[w][i].tag,
                    v # w
             PROVE FALSE
  BY DEF NoDuplicateLine
<1> DEFINE New(u) == /\ Refills(m0, beat) /\ u = victim /\ i = bc.index /\ ~CacheOp(m1)
                     /\ ram'[u][i] = [valid |-> TRUE, tag |-> bc.tag, data |-> fill.data]
<1>1. ram'[v][i] = ram[v][i] \/ New(v)
  BY ZenonT(60), RamGains
<1>2. ram'[w][i] = ram[w][i] \/ New(w)
  BY RamGains
<1>3. Refills(m0, beat) => ~InRam(bc.tag, bc.index)
  BY DEF Refills, FillInv, Unseen, PortInv, UncachedInv
<1>4. CASE New(v)
  BY <1>2, <1>3, <1>4 DEF InRam
<1>5. CASE New(w)
  BY <1>1, <1>3, <1>5 DEF InRam
<1>6. CASE ram'[v][i] = ram[v][i] /\ ram'[w][i] = ram[w][i]
  BY <1>6 DEF NoDuplicateLine
<1> QED BY <1>1, <1>2, <1>4, <1>5, <1>6

-----------------------------------------------------------------------------
(* The invariant.                                                          *)

LEMMA StepInv ==
  ASSUME IInv, NEW req, NEW pf, NEW beat, NEW arready, NEW victim, NEW written,
         Inputs(req, pf, beat, arready, victim, written),
         Cycle(req, pf, beat, arready, victim, written)
  PROVE  IInv'
<1> DEFINE m0 == M0(req)
<1>1. TypeOK /\ PortInv /\ BurstInv /\ FillInv /\ NoDuplicateLine
  BY DEF IInv
<1>2. /\ m0 \in Requests \cup {NoReq}
      /\ pf = NoLine \/ pf \in Lines
      /\ beat \in BOOLEAN /\ (beat => bus_state = "READ") /\ victim \in Ways
  BY <1>1, InputTypes
<1>3. Pipeline(m0, pf, beat) /\ RamPorts(m0, pf, beat, victim)
      /\ BusStep(m0, pf, beat, arready)
  BY DEF Cycle
<1>4. TypeOK'
  BY <1>1, StepType
<1>5. UncachedInv'
  BY <1>1, <1>2, <1>3, StepUncached
<1> HIDE DEF m0
<1>6. PortIsCurrent' /\ StallInv'
  BY <1>1, <1>2, <1>3, StepPort, StepStall
<1>7. CacheOpInv'
  BY <1>1, <1>2, <1>3, StepCacheOp
<1>8. BurstInv'
  BY <1>1, <1>2, <1>3, StepBurst
<1>9. FillInv'
  BY <1>1, <1>2, <1>3, StepFill
<1>10. NoDuplicateLine'
  BY <1>1, <1>2, <1>3, StepNoDup
<1> QED BY <1>4, <1>5, <1>6, <1>7, <1>8, <1>9, <1>10 DEF IInv, PortInv

LEMMA StutterInv == IInv /\ UNCHANGED vars => IInv'
<1> SUFFICES ASSUME IInv, UNCHANGED vars PROVE IInv'
  OBVIOUS
<1> USE DEF vars, cpuVars, busVars
<1>1. TypeOK'
  BY DEF IInv, TypeOK
<1>2. PortInv'
  BY DEF IInv, PortInv, PortIsCurrent, StallInv, CacheOpInv, UncachedInv, InRam, CacheOp,
         LineOf
<1>3. BurstInv' /\ FillInv'
  BY DEF IInv, BurstInv, FillInv, Unseen, InRam, LineOf
<1>4. NoDuplicateLine'
  BY DEF IInv, NoDuplicateLine
<1> QED BY <1>1, <1>2, <1>3, <1>4 DEF IInv

LEMMA Inductive == Spec => []IInv
<1>1. Init => IInv
  BY InitInv
<1>2. IInv /\ [Next]_vars => IInv'
  <2> SUFFICES ASSUME IInv, [Next]_vars PROVE IInv'
    OBVIOUS
  <2>1. CASE Next
    <3>1. PICK req \in Offers, beat \in Beats, arready \in Accepts,
               victim \in VictimChoices, written \in Writes :
            \E pf \in PrefetchOffers(M0(req)) : Cycle(req, pf, beat, arready, victim, written)
      BY <2>1 DEF Next
    <3>2. PICK pf \in PrefetchOffers(M0(req)) :
            Cycle(req, pf, beat, arready, victim, written)
      BY <3>1
    <3> QED BY <3>2, StepInv DEF Inputs
  <2> QED BY <2>1, StutterInv
<1> QED BY <1>1, <1>2, PTL DEF Spec

(* Every variable keeps its type: requests stay requests, the beat counter *)
(* of the slave and the word the burst is at stay in the line.             *)
THEOREM TypeCorrect == Spec => []TypeOK
<1>1. IInv => TypeOK
  BY DEF IInv
<1> QED BY <1>1, Inductive, PTL

(* The RAM read of a request is not overtaken by a write of its set: the   *)
(* exit condition of REFILL and the read enable keep them apart.           *)
THEOREM PortStaysCurrent == Spec => []PortIsCurrent
<1>1. IInv => PortIsCurrent
  BY DEF IInv, PortInv
<1> QED BY <1>1, Inductive, PTL

(* No line is in two ways, whichever way every refill takes and whatever   *)
(* is prefetched.                                                          *)
THEOREM NoDuplicates == Spec => []NoDuplicateLine
<1>1. IInv => NoDuplicateLine
  BY DEF IInv
<1> QED BY <1>1, Inductive, PTL

-----------------------------------------------------------------------------
(* Freshness.                                                              *)

FreshInv == FloorInv /\ RamFresh /\ FillFresh

LEMMA LineTypes ==
  ASSUME TypeOK
  PROVE  LineOf(m1) \in Lines /\ LineOf(bc) \in Lines /\ LineOf(rd) \in Lines
BY RequestTypes DEF TypeOK, LineOf, Lines, Request, Burst

(* Versions only grow; a line that is not invalidated keeps its floor.     *)
LEMMA MemoryGrows ==
  ASSUME TypeOK, FloorInv, NEW written, Memory(written), History,
         written = NoLine \/ written \in Lines, NEW l \in Lines
  PROVE  /\ mem[l] \in Nat /\ mem'[l] \in Nat /\ floor[l] \in Nat /\ floor'[l] \in Nat
         /\ mem[l] <= mem'[l] /\ floor'[l] <= mem[l]
         /\ l \notin Invalidated => floor'[l] = floor[l]
<1>1. mem[l] \in Nat /\ floor[l] \in Nat
  BY SizeAssumption DEF TypeOK, SizeAssumption
<1>2. mem'[l] = mem[l] \/ mem'[l] = mem[l] + 1
  BY DEF Memory, TypeOK
<1>3. floor'[l] = IF l \in Invalidated THEN mem[l] ELSE floor[l]
  BY DEF History
<1>4. floor[l] <= mem[l]
  BY DEF FloorInv
<1> QED BY <1>1, <1>2, <1>3, <1>4

LEMMA StaysFresh ==
  ASSUME TypeOK, FloorInv, NEW written, Memory(written), History,
         written = NoLine \/ written \in Lines,
         NEW r, LineOf(r) \in Lines, LineOf(r) \notin Invalidated,
         NEW word, NEW o, Fresh(word, r, o)
  PROVE  /\ word \in Content
         /\ <<word.tag, word.index, word.off>> = <<r.tag, r.index, o>>
         /\ floor'[LineOf(r)] <= word.ver /\ word.ver <= mem'[LineOf(r)]
<1>1. word.ver \in Nat
  BY SizeAssumption DEF Fresh, Content, SizeAssumption
<1> QED BY <1>1, MemoryGrows DEF Fresh

(* A valid entry whose line a CACHE operation invalidates does not survive *)
(* the cycle.                                                              *)
LEMMA InvalidatedGone ==
  ASSUME TypeOK, PortInv, NoDuplicateLine,
         NEW m0, NEW pf, NEW beat, NEW victim \in Ways,
         RamPorts(m0, pf, beat, victim),
         NEW w \in Ways, NEW i \in Indices, ram[w][i].valid,
         [tag |-> ram[w][i].tag, index |-> i] \in Invalidated
  PROVE  ~ram'[w][i].valid
<1>1. CacheOp(m1)
  BY DEF Invalidated
<1>2. i = m1.index /\ m1.way \in Ways
  BY RequestTypes DEF Invalidated, LineOf, TypeOK, Request
<1>3. IF m1.cache_op THEN w \in Hits ELSE w = m1.way
  <2>1. CASE m1.cache_op
    <3>1. out[w] = ram[w][i]
      BY <1>1, <1>2 DEF PortInv, PortIsCurrent, StallInv, CacheOp
    <3> QED BY <1>1, <1>2, <2>1, <3>1 DEF Invalidated, LineOf, Hits
  <2>2. CASE ~m1.cache_op
    <3>1. ram[m1.way][i].valid /\ ram[m1.way][i].tag = ram[w][i].tag
      BY <1>1, <1>2, <2>2 DEF Invalidated
    <3> QED BY <1>2, <2>2, <3>1 DEF NoDuplicateLine
  <2> QED BY <2>1, <2>2
<1>4. ram'[w] = [ram[w] EXCEPT ![WriteIndex] =
                   Written(w, victim, Refills(m0, beat), ram[w][WriteIndex])]
  BY DEF RamPorts
<1>5. WriteIndex = i
  BY <1>1, <1>2 DEF WriteIndex
<1>6. ram'[w][i] = NoEntry
  BY <1>1, <1>3, <1>4, <1>5 DEF Written, TypeOK
<1> QED BY <1>6 DEF NoEntry

LEMMA StepRamFresh ==
  ASSUME TypeOK, PortInv, BurstInv, NoDuplicateLine, FreshInv,
         NEW m0, NEW pf, NEW beat, NEW victim \in Ways, NEW written,
         RamPorts(m0, pf, beat, victim), Memory(written), History,
         written = NoLine \/ written \in Lines,
         ram' \in [Ways -> [Indices -> Entry]]
  PROVE  RamFresh'
<1> SUFFICES ASSUME NEW w \in Ways, NEW i \in Indices, ram'[w][i].valid, NEW o \in Words
             PROVE Fresh(ram[w][i].data[o], [tag |-> ram[w][i].tag, index |-> i], o)'
  BY DEF RamFresh
<1> DEFINE r == [tag |-> ram'[w][i].tag, index |-> i]
           word == ram'[w][i].data[o]
<1>1. r \in Lines /\ LineOf(r) = r
  BY DEF Entry, Lines, LineOf
<1>2. Fresh(word, r, o) /\ r \notin Invalidated
  <2>1. CASE ram'[w][i] = ram[w][i]
    <3>1. Fresh(word, r, o)
      BY <2>1 DEF FreshInv, RamFresh
    <3> QED BY <2>1, <3>1, InvalidatedGone
  <2>2. CASE /\ Refills(m0, beat) /\ i = bc.index /\ ~CacheOp(m1)
             /\ ram'[w][i] = [valid |-> TRUE, tag |-> bc.tag, data |-> fill.data]
    <3>1. bus_state = "REFILL" /\ ~bc.uncache /\ fill.rdy = Words
      BY <2>2 DEF Refills, PortInv, UncachedInv, BurstInv
    <3>2. Fresh(fill.data[o], bc, o)
      BY <3>1 DEF FreshInv, FillFresh
    <3>3. word = fill.data[o] /\ r.tag = bc.tag /\ r.index = bc.index
      BY <2>2
    <3>4. Fresh(word, r, o)
      BY <3>2, <3>3 DEF Fresh, LineOf
    <3> QED BY <2>2, <3>4 DEF Invalidated
  <2> QED BY <2>1, <2>2, RamGains
<1> HIDE DEF r, word
<1>3. /\ word \in Content
      /\ <<word.tag, word.index, word.off>> = <<r.tag, r.index, o>>
      /\ floor'[LineOf(r)] <= word.ver /\ word.ver <= mem'[LineOf(r)]
  BY <1>1, <1>2, StaysFresh DEF FreshInv
<1> QED BY <1>3 DEF Fresh, LineOf, r, word

LEMMA StepFillFresh ==
  ASSUME TypeOK, PortInv, BurstInv, FreshInv,
         NEW m0, NEW pf, NEW beat \in BOOLEAN, NEW arready, NEW written,
         BusStep(m0, pf, beat, arready), Memory(written), History,
         written = NoLine \/ written \in Lines
  PROVE  FillFresh'
<1> SUFFICES ASSUME bus_state' # "IDLE", ~bc'.uncache, NEW o \in fill'.rdy
             PROVE Fresh(fill.data[o], bc, o)'
  BY DEF FillFresh
<1>1. CASE IdleMiss \/ IdleUncachedRead(m0) \/ IdlePrefetch(m0, pf)
  BY <1>1 DEF IdleMiss, IdleUncachedRead, IdlePrefetch, StartFetch, NoFill
<1>2. CASE IdleStay(m0, pf) \/ ReadRequestCancelled \/ ReadUncached(beat)
  BY <1>2 DEF IdleStay, busVars, ReadRequestCancelled, ReadUncached
<1>3. CASE ReadRequest(arready)
  BY <1>3 DEF ReadRequest, BurstInv
<1>4. CASE Read(beat) \/ Refill(m0, beat)
  <2>1. bc' = bc /\ bus_state \in {"READ", "REFILL"} /\ ~bc.uncache
    BY <1>4 DEF Read, Refill, busVars
  <2>2. LineOf(bc) \in Lines /\ LineOf(bc) \notin Invalidated
    BY <2>1, LineTypes DEF PortInv, CacheOpInv, Invalidated, LineOf
  <2>3. CASE o \in fill.rdy /\ fill'.data[o] = fill.data[o]
    <3>1. Fresh(fill.data[o], bc, o)
      BY <2>1, <2>3 DEF FreshInv, FillFresh
    <3>2. /\ fill.data[o] \in Content
          /\ <<fill.data[o].tag, fill.data[o].index, fill.data[o].off>>
               = <<bc.tag, bc.index, o>>
          /\ floor'[LineOf(bc)] <= fill.data[o].ver
          /\ fill.data[o].ver <= mem'[LineOf(bc)]
      BY <2>2, <3>1, StaysFresh DEF FreshInv
    <3> QED BY <2>1, <2>3, <3>2 DEF Fresh, LineOf
  <2>4. CASE ~(o \in fill.rdy /\ fill'.data[o] = fill.data[o])
    <3>1. /\ bus_state = "READ"
          /\ fill' = [data |-> [fill.data EXCEPT ![fill.off] = BeatWord],
                      rdy |-> fill.rdy \cup {fill.off}, off |-> NextWord(fill.off)]
      BY <1>4, <2>4 DEF Read, Refill, busVars
    <3>2. o = fill.off /\ fill'.data[o] = BeatWord
      BY <2>4, <3>1 DEF TypeOK, LineData
    <3>3. LineOf(rd) = LineOf(bc) /\ rd.off = fill.off
      BY <3>1 DEF BurstInv
    <3>4. /\ <<BeatWord.tag, BeatWord.index, BeatWord.off>> = <<bc.tag, bc.index, o>>
          /\ BeatWord.ver = mem[LineOf(bc)]
      BY <3>2, <3>3 DEF BeatWord, LineOf
    <3>5. floor'[LineOf(bc)] <= mem[LineOf(bc)] /\ mem[LineOf(bc)] <= mem'[LineOf(bc)]
      BY <2>2, MemoryGrows DEF FreshInv
    <3> QED BY <2>1, <3>2, <3>4, <3>5, BeatWordType DEF Fresh, LineOf
  <2> QED BY <2>3, <2>4
<1> QED BY <1>1, <1>2, <1>3, <1>4 DEF BusStep

LEMMA StepFresh ==
  ASSUME IInv, FreshInv, NEW req, NEW pf, NEW beat, NEW arready, NEW victim, NEW written,
         Inputs(req, pf, beat, arready, victim, written),
         Cycle(req, pf, beat, arready, victim, written)
  PROVE  FreshInv'
<1> DEFINE m0 == M0(req)
<1>1. TypeOK /\ PortInv /\ BurstInv /\ NoDuplicateLine /\ FloorInv
  BY DEF IInv, FreshInv
<1>2. beat \in BOOLEAN /\ victim \in Ways /\ (written = NoLine \/ written \in Lines)
  BY <1>1, InputTypes
<1>3. /\ RamPorts(m0, pf, beat, victim) /\ BusStep(m0, pf, beat, arready)
      /\ Memory(written) /\ History
  BY DEF Cycle
<1>4. ram' \in [Ways -> [Indices -> Entry]]
  BY <1>1, StepType DEF TypeOK
<1> HIDE DEF m0
<1>5. FloorInv'
  <2> SUFFICES ASSUME NEW l \in Lines PROVE floor'[l] <= mem'[l]
    BY DEF FloorInv
  <2> QED BY <1>1, <1>2, <1>3, MemoryGrows
<1>6. RamFresh'
  BY <1>1, <1>2, <1>3, <1>4, StepRamFresh
<1>7. FillFresh'
  BY <1>1, <1>2, <1>3, StepFillFresh
<1> QED BY <1>5, <1>6, <1>7 DEF FreshInv

LEMMA LeastWayMember ==
  ASSUME NEW S, S \subseteq Ways, S # {}
  PROVE  LeastWay(S) \in S
<1>1. \E w \in S : \A v \in S : w <= v
  <2>1. Ways \in {{0, 1}, {0, 1, 2, 3}}
    <3>1. CASE SET_SIZE = 2
      BY <3>1 DEF Ways
    <3>2. CASE SET_SIZE = 4
      BY <3>2 DEF Ways
    <3> QED BY <3>1, <3>2, SizeAssumption DEF SizeAssumption
  <2>2. S \subseteq {0, 1, 2, 3}
    BY <2>1
  <2>3. CASE 0 \in S
    <3>1. \A v \in S : 0 <= v
      BY <2>2
    <3> QED BY <2>3, <3>1
  <2>4. CASE 0 \notin S /\ 1 \in S
    <3>1. \A v \in S : 1 <= v
      BY <2>2, <2>4
    <3> QED BY <2>4, <3>1
  <2>5. CASE 0 \notin S /\ 1 \notin S /\ 2 \in S
    <3>1. \A v \in S : 2 <= v
      BY <2>2, <2>5
    <3> QED BY <2>5, <3>1
  <2>6. CASE 0 \notin S /\ 1 \notin S /\ 2 \notin S
    <3>1. S = {3}
      BY <2>2, <2>6
    <3> QED BY <3>1
  <2> QED BY <2>3, <2>4, <2>5, <2>6
<1> QED BY <1>1 DEF LeastWay

(* The lower word of a pair comes before the upper one in the burst.       *)
LEMMA PairInOrder ==
  ASSUME NEW b \in Words, b % 2 = 0, NEW o \in Words, o % 2 = 0, o + 1 \in Words
  PROVE  Dist(b, o) + 1 = Dist(b, o + 1)
<1>1. b \in Nat /\ o \in Nat /\ LINE_WORDS \in Nat
  BY RequestTypes DEF Words
<1>2. b # o + 1
  BY <1>1
<1> QED BY <1>1, <1>2 DEF Dist

(* A hit.                                                                  *)
LEMMA HitFresh ==
  ASSUME TypeOK, PortInv, FreshInv, Fetch(m1), CacheHit, ~data_delay, NEW o \in Words
  PROVE  Fresh(out[HitWay].data[o], m1, o)
<1>1. Hits # {} /\ Hits \subseteq Ways
  BY DEF CacheHit, Hits
<1>2. HitWay \in Hits
  BY <1>1, LeastWayMember DEF HitWay
<1>3. HitWay \in Ways /\ out[HitWay].valid /\ out[HitWay].tag = m1.tag
  BY <1>2 DEF Hits
<1>4. out[HitWay] = ram[HitWay][m1.index] /\ m1.index \in Indices
  BY <1>3, RequestTypes DEF PortInv, PortIsCurrent, Fetch, TypeOK, Request
<1>5. Fresh(ram[HitWay][m1.index].data[o],
            [tag |-> ram[HitWay][m1.index].tag, index |-> m1.index], o)
  BY <1>3, <1>4 DEF FreshInv, RamFresh
<1> QED BY <1>3, <1>4, <1>5 DEF Fresh, LineOf

(* An answer out of the refill buffer, the second word of it perhaps from  *)
(* the bus.                                                                *)
LEMMA BufferFresh ==
  ASSUME TypeOK, PortInv, BurstInv, FillInv, FreshInv, NEW beat \in BOOLEAN,
         beat => bus_state = "READ",
         Fetch(m1), ~m1.uncache, Doable, ~bc.uncache,
         (fill.off = Second(m1) /\ beat) \/ Second(m1) \in fill.rdy
  PROVE  /\ Fresh(fill.data[m1.offset], m1, m1.offset)
         /\ Second(m1) \in fill.rdy => Fresh(fill.data[Second(m1)], m1, Second(m1))
         /\ Second(m1) \notin fill.rdy => Fresh(BeatWord, m1, Second(m1))
<1> DEFINE b == bc.offset
           o == m1.offset
           n == LINE_WORDS - rd.left
<1>1. /\ b \in Words /\ b % 2 = 0 /\ o \in Words /\ o % 2 = 0 /\ o + 1 \in Words
      /\ rd.left \in 0 .. LINE_WORDS
  BY SecondType, RequestTypes DEF FillInv, Doable, TypeOK, Request, Second, Burst
<1>2. Dist(b, o) + 1 = Dist(b, o + 1) /\ Dist(b, o) \in Nat /\ Dist(b, o + 1) \in Nat
  BY <1>1, PairInOrder, DistNext, RequestTypes
<1>3. o \in fill.rdy
  <2>1. CASE bus_state = "REFILL"
    BY <1>1, <2>1 DEF BurstInv
  <2>2. CASE bus_state = "RDREQ"
    BY <2>2 DEF BurstInv
  <2>3. CASE bus_state = "READ"
    <3>1. \A w \in Words : w \in fill.rdy <=> Dist(b, w) < n
      BY <2>3 DEF BurstInv
    <3>2. Dist(b, o + 1) <= n
      <4>1. CASE o + 1 \in fill.rdy
        BY <1>1, <1>2, <3>1, <4>1, RequestTypes
      <4>2. CASE fill.off = o + 1
        BY <1>1, <2>3, <4>2, RequestTypes DEF BurstInv
      <4> QED BY <4>1, <4>2 DEF Second
    <3> QED BY <1>1, <1>2, <3>1, <3>2, RequestTypes
  <2> QED BY <2>1, <2>2, <2>3 DEF Doable, TypeOK
<1>4. m1.tag = bc.tag /\ m1.index = bc.index /\ bus_state # "IDLE"
  BY DEF Doable
<1>5. \A w \in fill.rdy : Fresh(fill.data[w], m1, w)
  BY <1>4 DEF FreshInv, FillFresh, Fresh, LineOf
<1>6. ASSUME Second(m1) \notin fill.rdy PROVE Fresh(BeatWord, m1, Second(m1))
  <2>1. fill.off = Second(m1) /\ bus_state = "READ"
    BY <1>6
  <2>2. LineOf(rd) = LineOf(bc) /\ rd.off = Second(m1)
    BY <2>1 DEF BurstInv
  <2>3. BeatWord.tag = m1.tag /\ BeatWord.index = m1.index /\ BeatWord.off = Second(m1)
        /\ BeatWord.ver = mem[LineOf(m1)]
    BY <1>4, <2>2 DEF BeatWord, LineOf
  <2>4. floor[LineOf(m1)] <= mem[LineOf(m1)] /\ mem[LineOf(m1)] <= mem[LineOf(m1)]
    BY LineTypes, SizeAssumption DEF FreshInv, FloorInv, TypeOK, SizeAssumption
  <2> QED BY <2>3, <2>4, BeatWordType DEF Fresh
<1> QED BY <1>3, <1>5, <1>6

(* Every answer.                                                           *)
LEMMA AnswerFresh ==
  ASSUME IInv, FreshInv PROVE FetchIsFresh
<1> SUFFICES ASSUME NEW beat \in Beats, Fetch(m1), DataOk(beat)
             PROVE IF ~m1.uncache
                   THEN /\ Fresh(Rdata[1], m1, m1.offset)
                        /\ Fresh(Rdata[2], m1, m1.offset + 1)
                   ELSE /\ Rdata[1 + (m1.offset % 2)] = BeatWord
                        /\ LineOf(rd) = LineOf(m1) /\ rd.off = m1.offset
  BY DEF FetchIsFresh
<1>1. TypeOK /\ PortInv /\ BurstInv /\ FillInv
  BY DEF IInv
<1>2. beat \in BOOLEAN /\ (beat => bus_state = "READ") /\ ~CacheOp(m1) /\ m1.valid
  BY DEF Beats, Fetch, CacheOp
<1>3. CASE ~m1.uncache
  <2>1. m1.offset \in Words /\ Second(m1) \in Words
    BY <1>1, <1>3, SecondType, RequestTypes DEF TypeOK, Request
  <2>2. CASE CacheHit /\ ~data_delay
    <3>1. Rdata = <<out[HitWay].data[m1.offset], out[HitWay].data[Second(m1)]>>
      BY <2>2 DEF Rdata
    <3> QED BY <1>1, <1>3, <2>1, <2>2, <3>1, HitFresh DEF Second
  <2>3. CASE ~(CacheHit /\ ~data_delay)
    <3>1. ~(bus_state # "IDLE" /\ bc.uncache)
      BY <1>1, <1>2, <1>3 DEF PortInv, UncachedInv, UncachedRead
    <3>2. Doable /\ ((fill.off = Second(m1) /\ beat) \/ Second(m1) \in fill.rdy)
      BY <1>2, <2>3, <3>1 DEF DataOk
    <3>3. ~bc.uncache
      BY <3>1, <3>2 DEF Doable
    <3>4. Rdata = IF Second(m1) \in fill.rdy
                  THEN <<fill.data[m1.offset], fill.data[Second(m1)]>>
                  ELSE <<fill.data[m1.offset], BeatWord>>
      BY <2>3, <3>3 DEF Rdata
    <3> QED BY <1>1, <1>2, <1>3, <3>2, <3>3, <3>4, BufferFresh DEF Second
  <2> QED BY <2>2, <2>3
<1>4. CASE m1.uncache
  <2>1. ~CacheHit /\ ~Doable
    BY <1>4 DEF CacheHit, Doable
  <2>2. bc.uncache /\ beat /\ bus_state = "READ"
    BY <1>2, <2>1 DEF DataOk
  <2>3. LineOf(m1) = LineOf(bc) /\ m1.offset = bc.offset
    BY <1>1, <2>2 DEF PortInv, UncachedInv
  <2>4. LineOf(rd) = LineOf(bc) /\ rd.off = bc.offset
    BY <1>1, <2>2 DEF BurstInv
  <2>5. m1.offset \in Int
    BY <1>1, RequestTypes DEF TypeOK, Request, Words
  <2>6. Rdata = IF m1.offset % 2 = 0 THEN <<BeatWord, NoWord>> ELSE <<NoWord, BeatWord>>
    BY <2>1, <2>2 DEF Rdata
  <2>7. m1.offset % 2 = 0 \/ m1.offset % 2 = 1
    BY <2>5
  <2>8. Rdata[1 + (m1.offset % 2)] = BeatWord
    BY <2>6, <2>7
  <2> QED BY <1>4, <2>3, <2>4, <2>8
<1> QED BY <1>3, <1>4

LEMMA InitFresh == Init => FreshInv
<1> SUFFICES ASSUME Init PROVE FreshInv
  OBVIOUS
<1>1. FloorInv /\ FillFresh
  BY DEF Init, FloorInv, FillFresh
<1>2. RamFresh
  BY DEF Init, RamFresh, NoEntry
<1> QED BY <1>1, <1>2 DEF FreshInv

LEMMA StutterFresh == FreshInv /\ UNCHANGED vars => FreshInv'
BY DEF FreshInv, FloorInv, RamFresh, FillFresh, Fresh, LineOf, vars, cpuVars, busVars

(* A fetch is never answered with a word of another address, nor with one  *)
(* older than the last CACHE operation on its line.                        *)
THEOREM FetchesAreFresh == Spec => []FetchIsFresh
<1>1. Init => FreshInv
  BY InitFresh
<1>2. IInv /\ FreshInv /\ [Next]_vars => FreshInv'
  <2> SUFFICES ASSUME IInv, FreshInv, [Next]_vars PROVE FreshInv'
    OBVIOUS
  <2>1. CASE Next
    <3>1. PICK req \in Offers, beat \in Beats, arready \in Accepts,
               victim \in VictimChoices, written \in Writes :
            \E pf \in PrefetchOffers(M0(req)) : Cycle(req, pf, beat, arready, victim, written)
      BY <2>1 DEF Next
    <3>2. PICK pf \in PrefetchOffers(M0(req)) :
            Cycle(req, pf, beat, arready, victim, written)
      BY <3>1
    <3> QED BY <3>2, StepFresh DEF Inputs
  <2> QED BY <2>1, StutterFresh
<1>3. IInv /\ FreshInv => FetchIsFresh
  BY AnswerFresh
<1> QED BY <1>1, <1>2, <1>3, Inductive, PTL DEF Spec
=============================================================================
