---------------------------- MODULE DCacheProofs ----------------------------
(***************************************************************************)
(* Theorems about DCache, for every size, every set of requests and every  *)
(* set of prefetched lines: type correctness, RefillOwnsPorts,             *)
(* NoDuplicateLine, BeatsAligned and UncachedReadInOrder.                  *)
(***************************************************************************)
EXTENDS DCacheProps, TLAPS

-----------------------------------------------------------------------------
(* Constants and helpers.                                                  *)

(* The priority encoders of hit_way and way_to_replace return a way.       *)
LEMMA LeastWayInSet ==
  ASSUME NEW S, S \subseteq Ways, S # {}
  PROVE  LeastWay(S) \in S
<1>1. \E w \in S : \A v \in S : w <= v
  <2>1. S \subseteq {0, 1, 2, 3}
    BY SizeAssumption DEF Ways
  <2>2. CASE 0 \in S
    BY <2>1, <2>2
  <2>3. CASE 0 \notin S /\ 1 \in S
    BY <2>1, <2>3
  <2>4. CASE 0 \notin S /\ 1 \notin S /\ 2 \in S
    BY <2>1, <2>4
  <2>5. CASE 0 \notin S /\ 1 \notin S /\ 2 \notin S
    <3>1. S = {2} \/ S = {3} \/ S = {2, 3}
      BY <2>1, <2>5
    <3> QED BY <3>1
  <2> QED BY <2>2, <2>3, <2>4, <2>5
<1> QED BY <1>1 DEF LeastWay

(* Zero is a value of every address part.                                  *)
LEMMA Zeros ==
  0 \in Ways /\ 0 \in Indices /\ 0 \in Words /\ 0 \in Tags /\ 0 \in Vals
BY SizeAssumption DEF Ways, Indices, Words, Tags

(* Every request the model handles is well formed.                         *)
LEMMA RequestTypes ==
  ASSUME NEW r \in Requests \cup {NoReq}
  PROVE  r \in Request
<1>1. CASE r \in Requests
  BY <1>1, InputAssumption
<1>2. CASE r = NoReq
  BY <1>2, Zeros DEF Request, NoReq
<1> QED BY <1>1, <1>2

LEMMA HitWayType == HitWay \in Ways
<1>1. Hits \subseteq Ways
  BY DEF Hits
<1> QED BY <1>1, LeastWayInSet, Zeros DEF HitWay

LEMMA CacheWayType ==
  ASSUME TypeOK PROVE CacheWay \in Ways
BY HitWayType, RequestTypes DEF TypeOK, CacheWay, Request

LEMMA VictimType == Victims \subseteq Ways
<1>1. InvalidWays \subseteq Ways
  BY DEF InvalidWays
<1> QED BY <1>1, LeastWayInSet DEF Victims

(* A burst wraps inside its line.                                          *)
LEMMA NextWord ==
  ASSUME NEW o \in Words PROVE (o + 1) % LINE_WORDS \in Words
BY SizeAssumption DEF Words

LEMMA ZeroTypes ==
  /\ ZeroLine \in LineData
  /\ NoEntry \in Entry
  /\ NoLatch \in [hit : BOOLEAN, dirt : BOOLEAN, tag : Tags, data : LineData]
  /\ NoWrite \in WriteReq
  /\ NoBurst \in Burst
<1>1. ZeroLine \in LineData
  BY Zeros DEF ZeroLine, LineData
<1> QED
  BY <1>1, Zeros, SizeAssumption DEF NoEntry, Entry, NoLatch, NoWrite, WriteReq, NoBurst, Burst

-----------------------------------------------------------------------------
(* Types of the parts of a cycle.                                          *)

LEMMA LaneType ==
  ASSUME NEW old \in Vals, NEW new \in Vals, NEW strobe
  PROVE  Lane(old, new, strobe) \in Vals
BY DEF Lane

LEMMA PipelineType ==
  ASSUME TypeOK, NEW m0 \in Requests \cup {NoReq}, NEW beat \in BOOLEAN,
         Pipeline(m0, beat)
  PROVE  /\ skid' \in Requests \cup {NoReq}
         /\ m1' \in Requests \cup {NoReq}
         /\ data_delay' \in BOOLEAN
         /\ d' \in [hit : BOOLEAN, dirt : BOOLEAN, tag : Tags, data : LineData]
         /\ fwd' \in [valid : BOOLEAN, data : Vals]
<1>1. skid' \in Requests \cup {NoReq} /\ m1' \in Requests \cup {NoReq}
  BY DEF Pipeline, TypeOK
<1>2. data_delay' \in BOOLEAN
  BY DEF Pipeline, AddrOk, Enters
<1>3. m1 \in Request
  BY RequestTypes DEF TypeOK
<1>4. d' \in [hit : BOOLEAN, dirt : BOOLEAN, tag : Tags, data : LineData]
  <2> DEFINE w == IF m1.cache_op THEN HitWay ELSE m1.way
  <2>1. w \in Ways
    BY <1>3, HitWayType DEF Request
  <2>2. out[w] \in Entry /\ CacheHit \in BOOLEAN
    BY <2>1, <1>3 DEF TypeOK, CacheHit, Request
  <2>3. [hit |-> CacheHit, dirt |-> out[w].dirt, tag |-> out[w].tag, data |-> out[w].data]
          \in [hit : BOOLEAN, dirt : BOOLEAN, tag : Tags, data : LineData]
    BY <2>2 DEF Entry
  <2>4. [NoLatch EXCEPT !.hit = CacheHit]
          \in [hit : BOOLEAN, dirt : BOOLEAN, tag : Tags, data : LineData]
    BY <2>2, ZeroTypes, Zeros DEF NoLatch
  <2>5. d \in [hit : BOOLEAN, dirt : BOOLEAN, tag : Tags, data : LineData]
    BY DEF TypeOK
  <2> QED BY <2>3, <2>4, <2>5, ZeroTypes DEF Pipeline
<1>5. fwd' \in [valid : BOOLEAN, data : Vals]
  <2>1. out[HitWay].data[m1.offset] \in Vals
    BY <1>3, HitWayType DEF TypeOK, Entry, LineData, Request
  <2>2. Lane(out[HitWay].data[m1.offset], m1.wdata, m1.wstrb) \in Vals
    BY <2>1, <1>3 DEF Lane, Request
  <2> QED BY <2>2, Zeros DEF Pipeline
<1> QED BY <1>1, <1>2, <1>4, <1>5

LEMMA WrittenType ==
  ASSUME TypeOK, NEW w \in Ways, NEW victim \in Ways, NEW entry \in Entry
  PROVE  Written(w, victim, entry) \in Entry
<1>1. m1 \in Request
  BY RequestTypes DEF TypeOK
<1>2. [valid |-> TRUE, tag |-> bc.tag, dirt |-> fill.dirty, data |-> fill.data] \in Entry
  BY DEF TypeOK, Entry
<1>3. Lane(entry.data[m1.offset], m1.wdata, m1.wstrb) \in Vals
  BY <1>1, LaneType DEF Entry, LineData, Request
<1>4. [entry EXCEPT !.dirt = TRUE,
                    !.data[m1.offset] = Lane(@, m1.wdata, m1.wstrb)] \in Entry
  BY <1>1, <1>3 DEF Entry, LineData, Request
<1>5. [entry EXCEPT !.valid = FALSE, !.tag = bc.tag,
                    !.dirt = @ /\ m1.cache_op /\ w # HitWay] \in Entry
  BY <1>1 DEF TypeOK, Entry, Request
<1> QED BY <1>2, <1>4, <1>5 DEF Written

LEMMA RamPortsType ==
  ASSUME TypeOK, NEW m0 \in Requests \cup {NoReq}, NEW beat \in BOOLEAN,
         NEW victim \in Ways, RamPorts(m0, beat, victim)
  PROVE  /\ ram' \in [Ways -> [Indices -> Entry]]
         /\ out' \in [Ways -> Entry]
<1>1. m0 \in Request /\ m1 \in Request
  BY RequestTypes DEF TypeOK
<1>2. WriteIndex \in Indices /\ ReadIndex(m0, beat) \in Indices
  BY <1>1 DEF TypeOK, WriteIndex, ReadIndex, Request
<1>3. ram' \in [Ways -> [Indices -> Entry]]
  <2>1. ASSUME NEW w \in Ways
        PROVE  [ram[w] EXCEPT ![WriteIndex] = Written(w, victim, @)] \in [Indices -> Entry]
    <3>1. ram[w] \in [Indices -> Entry] /\ ram[w][WriteIndex] \in Entry
      BY <1>2 DEF TypeOK
    <3>2. Written(w, victim, ram[w][WriteIndex]) \in Entry
      BY <3>1, WrittenType
    <3> QED BY <3>1, <3>2
  <2> QED BY <2>1 DEF RamPorts
<1>4. out' \in [Ways -> Entry]
  BY <1>2 DEF RamPorts, TypeOK
<1> QED BY <1>3, <1>4

-----------------------------------------------------------------------------
(* Types of the bus side.                                                  *)

BusTypeOK ==
  /\ uw \in Seq(WriteReq) /\ Len(uw) <= UW_FIFO_DEPTH
  /\ bus_state \in {"IDLE", "RDREQ", "READ", "REFILL", "WTREQ", "WRITE_BACK"}
  /\ bc \in [tag : Tags, index : Indices, offset : Words, uncache : BOOLEAN,
             ret_off : Words]
  /\ fill \in [data : LineData, rdy : SUBSET Words, strobe : SUBSET Words,
               dirty : BOOLEAN]
  /\ wt \in WriteReq
  /\ wb_cnt \in 0 .. LINE_WORDS
  /\ rd \in Burst
  /\ wr \in Burst
  /\ mem \in [Tags -> [Indices -> LineData]]

LEMMA BusTypes == TypeOK => BusTypeOK
BY DEF TypeOK, BusTypeOK

FillType == [data : LineData, rdy : SUBSET Words, strobe : SUBSET Words, dirty : BOOLEAN]
BcType == [tag : Tags, index : Indices, offset : Words, uncache : BOOLEAN, ret_off : Words]

LEMMA NoFillType == NoFill \in FillType /\ NoFetch \in BcType
BY Zeros, ZeroTypes DEF NoFill, FillType, NoFetch, BcType

LEMMA M1Type == TypeOK => m1 \in Request
BY RequestTypes DEF TypeOK

LEMMA MergeType ==
  ASSUME TypeOK, NEW f \in FillType PROVE Merge(f) \in FillType /\ MergeStore(f) \in FillType
<1>1. m1 \in Request
  BY M1Type
<1>2. Lane(f.data[m1.offset], m1.wdata, m1.wstrb) \in Vals
  BY <1>1, LaneType DEF FillType, LineData, Request
<1>3. [f.data EXCEPT ![m1.offset] = Lane(f.data[m1.offset], m1.wdata, m1.wstrb)] \in LineData
  BY <1>1, <1>2 DEF FillType, LineData, Request
<1>4. (IF m1.wstrb THEN f.strobe \cup {m1.offset} ELSE f.strobe) \in SUBSET Words
  BY <1>1 DEF FillType, Request
<1>5. Merge(f) \in FillType
  BY <1>3, <1>4 DEF Merge, FillType
<1> QED BY <1>5 DEF MergeStore

LEMMA UwReqType == TypeOK => UwReq \in WriteReq
<1> SUFFICES ASSUME TypeOK PROVE UwReq \in WriteReq
  OBVIOUS
<1>1. m1 \in Request
  BY M1Type
<1>2. [ZeroLine EXCEPT ![m1.offset] = m1.wdata] \in LineData
  BY <1>1, ZeroTypes DEF LineData, Request
<1> QED BY <1>1, <1>2 DEF UwReq, WriteReq, Request

LEMMA UwAfterPushType ==
  ASSUME TypeOK
  PROVE  UwAfterPush \in Seq(WriteReq) /\ Len(UwAfterPush) <= UW_FIFO_DEPTH
<1>1. uw \in Seq(WriteReq) /\ Len(uw) \in Nat /\ Len(uw) <= UW_FIFO_DEPTH
  BY DEF TypeOK
<1>2. CASE UwPush
  <2>1. Len(uw) # UW_FIFO_DEPTH
    BY <1>2 DEF UwPush, UwFull
  <2>2. Append(uw, UwReq) \in Seq(WriteReq) /\ Len(Append(uw, UwReq)) = Len(uw) + 1
    BY <1>1, UwReqType
  <2> QED BY <1>1, <1>2, <2>1, <2>2, SizeAssumption DEF UwAfterPush
<1>3. CASE ~UwPush
  BY <1>1, <1>3 DEF UwAfterPush
<1> QED BY <1>2, <1>3

LEMMA BusResetType ==
  ASSUME BusReset
  PROVE  bc' \in BcType /\ fill' \in FillType /\ wt' \in WriteReq /\ wb_cnt' \in 0 .. LINE_WORDS
BY NoFillType, ZeroTypes, SizeAssumption DEF BusReset

LEMMA IdleMissType == TypeOK /\ IdleMiss => BusTypeOK'
<1> SUFFICES ASSUME TypeOK, IdleMiss PROVE BusTypeOK'
  OBVIOUS
<1>1. m1 \in Request /\ BusTypeOK
  BY M1Type, BusTypes
<1>2. fill' \in FillType
  BY NoFillType, MergeType DEF IdleMiss
<1>3. bc' \in BcType
  BY <1>1 DEF IdleMiss, StartFetch, BcType, Request
<1> QED
  BY <1>1, <1>2, <1>3
  DEF IdleMiss, StartFetch, slaveVars, BusTypeOK, FillType, BcType

LEMMA StartWriteType ==
  ASSUME TypeOK, NEW w \in WriteReq, StartWrite(w), uw' \in Seq(WriteReq),
         Len(uw') <= UW_FIFO_DEPTH
  PROVE  BusTypeOK'
BY BusTypes, SizeAssumption DEF StartWrite, slaveVars, BusTypeOK

LEMMA IdleCacheWritebackType == TypeOK /\ IdleCacheWriteback => BusTypeOK'
<1> SUFFICES ASSUME TypeOK, IdleCacheWriteback PROVE BusTypeOK'
  OBVIOUS
<1>1. m1 \in Request /\ CacheWay \in Ways
  BY M1Type, CacheWayType
<1> DEFINE w == [uncache |-> FALSE, index |-> m1.index, offset |-> 0, wstrb |-> TRUE,
                 tag  |-> IF data_delay THEN d.tag ELSE out[CacheWay].tag,
                 data |-> IF data_delay THEN d.data ELSE out[CacheWay].data]
<1>2. w \in WriteReq
  BY <1>1, Zeros DEF TypeOK, Entry, WriteReq, Request
<1>3. uw' \in Seq(WriteReq) /\ Len(uw') <= UW_FIFO_DEPTH
  BY DEF IdleCacheWriteback, TypeOK
<1>4. StartWrite(w)
  BY DEF IdleCacheWriteback
<1> QED BY <1>2, <1>3, <1>4, StartWriteType

LEMMA IdleUncachedWriteType == TypeOK /\ IdleUncachedWrite => BusTypeOK'
<1> SUFFICES ASSUME TypeOK, IdleUncachedWrite PROVE BusTypeOK'
  OBVIOUS
<1> DEFINE q == UwAfterPush
<1>1. q \in Seq(WriteReq) /\ q # <<>> /\ Len(q) <= UW_FIFO_DEPTH
  BY UwAfterPushType DEF IdleUncachedWrite
<1>2. StartWrite(Head(q)) /\ uw' = Tail(q)
  BY DEF IdleUncachedWrite
<1> HIDE DEF q
<1>3. Head(q) \in WriteReq /\ Tail(q) \in Seq(WriteReq) /\ Len(Tail(q)) <= UW_FIFO_DEPTH
  BY <1>1, SizeAssumption
<1> QED BY <1>2, <1>3, StartWriteType

LEMMA IdleUncachedReadType ==
  ASSUME TypeOK, NEW m0 \in Requests \cup {NoReq}, IdleUncachedRead(m0)
  PROVE  BusTypeOK'
<1>1. m0 \in Request /\ m1 \in Request /\ BusTypeOK
  BY M1Type, RequestTypes, BusTypes
<1>2. bc' \in BcType
  BY <1>1, Zeros DEF IdleUncachedRead, StartFetch, BcType, Request
<1> QED
  BY <1>1, <1>2 DEF IdleUncachedRead, StartFetch, slaveVars, BusTypeOK, BcType

LEMMA IdlePrefetchType ==
  ASSUME TypeOK, NEW m0, NEW pf \in PrefetchLines \cup {NoLine}, IdlePrefetch(m0, pf)
  PROVE  BusTypeOK'
<1>1. pf \in Lines
  BY InputAssumption DEF IdlePrefetch
<1>2. bc' \in BcType
  BY <1>1, Zeros DEF IdlePrefetch, StartFetch, BcType, Lines
<1> QED
  BY <1>2, BusTypes DEF IdlePrefetch, StartFetch, slaveVars, BusTypeOK, BcType

LEMMA IdleStayType ==
  ASSUME TypeOK, NEW m0, NEW pf, IdleStay(m0, pf) PROVE BusTypeOK'
BY BusTypes, BusResetType DEF IdleStay, slaveVars, BusTypeOK, FillType, BcType

(* In the other states the queue takes what m1 pushes.                     *)
LEMMA ReadRequestType ==
  ASSUME TypeOK, NEW ack \in BOOLEAN, ReadRequest(ack), uw' = UwAfterPush
  PROVE  BusTypeOK'
<1>1. fill' \in FillType
  BY MergeType DEF ReadRequest, TypeOK, FillType
<1>2. rd' \in Burst
  <2>1. [uncache |-> bc.uncache, tag |-> bc.tag, index |-> bc.index, off |-> bc.offset,
         left |-> IF bc.uncache THEN 1 ELSE LINE_WORDS] \in Burst
    BY SizeAssumption DEF TypeOK, Burst
  <2> QED BY <2>1 DEF ReadRequest, TypeOK
<1> QED
  BY <1>1, <1>2, BusTypes, UwAfterPushType DEF ReadRequest, BusTypeOK, FillType

LEMMA SlaveReadsType ==
  ASSUME TypeOK, NEW beat \in BOOLEAN, beat => rd.left > 0, SlaveReads(beat)
  PROVE  rd' \in Burst
<1>1. rd \in Burst
  BY DEF TypeOK
<1>2. CASE Received(beat) /\ rd.left # 1
  <2>1. rd.left - 1 \in 0 .. LINE_WORDS
    BY <1>1, <1>2, SizeAssumption DEF Burst, Received
  <2>2. (rd.off + 1) % LINE_WORDS \in Words
    BY <1>1, NextWord DEF Burst
  <2>3. rd' = [rd EXCEPT !.left = rd.left - 1, !.off = (rd.off + 1) % LINE_WORDS]
    BY <1>2 DEF SlaveReads
  <2> QED BY <1>1, <2>1, <2>2, <2>3 DEF Burst
<1>3. CASE ~(Received(beat) /\ rd.left # 1)
  BY <1>1, <1>3, ZeroTypes DEF SlaveReads
<1> QED BY <1>2, <1>3

LEMMA ReadUncachedType ==
  ASSUME TypeOK, NEW beat \in BOOLEAN, beat => rd.left > 0, ReadUncached(beat),
         uw' = UwAfterPush
  PROVE  BusTypeOK'
<1>1. rd' \in Burst
  BY SlaveReadsType DEF ReadUncached
<1> QED
  BY <1>1, BusTypes, BusResetType, UwAfterPushType
  DEF ReadUncached, BusTypeOK, FillType, BcType

LEMMA BeatType ==
  ASSUME TypeOK PROVE BeatData \in Vals /\ MergedBeat \in Vals
<1>1. BeatData \in Vals
  BY DEF TypeOK, Burst, LineData, BeatData
<1>2. fill.data[bc.ret_off] \in Vals
  BY DEF TypeOK, LineData
<1> QED BY <1>1, <1>2, LaneType DEF MergedBeat

LEMMA ReadType ==
  ASSUME TypeOK, NEW m0, NEW beat \in BOOLEAN, beat => rd.left > 0, Read(m0, beat),
         uw' = UwAfterPush
  PROVE  BusTypeOK'
<1>1. rd' \in Burst
  BY SlaveReadsType DEF Read
<1>2. fill \in FillType /\ bc \in BcType
  BY DEF TypeOK, FillType, BcType
<1>3. fill' \in FillType
  <2>1. MergedBeat \in Vals
    BY BeatType
  <2>2. [fill.data EXCEPT ![bc.ret_off] = MergedBeat] \in LineData
    BY <1>2, <2>1 DEF FillType, LineData
  <2>3. fill.rdy \cup {bc.ret_off} \in SUBSET Words
    BY <1>2 DEF FillType, BcType
  <2>4. [fill EXCEPT !.data[bc.ret_off] = MergedBeat,
                     !.rdy = @ \cup {bc.ret_off}] \in FillType
    BY <1>2, <2>2, <2>3 DEF FillType
  <2> QED BY <1>2, <2>4, MergeType DEF Read
<1>4. bc' \in BcType
  <2>1. (bc.ret_off + 1) % LINE_WORDS \in Words
    BY <1>2, NextWord DEF BcType
  <2>2. [bc EXCEPT !.ret_off = (@ + 1) % LINE_WORDS] \in BcType
    BY <1>2, <2>1 DEF BcType
  <2> QED BY <1>2, <2>2 DEF Read
<1> QED
  BY <1>1, <1>3, <1>4, BusTypes, UwAfterPushType
  DEF Read, BusTypeOK, FillType, BcType

LEMMA RefillType ==
  ASSUME TypeOK, NEW victim \in Ways, Refill(victim), uw' = UwAfterPush
  PROVE  BusTypeOK'
<1> DEFINE w == [uncache |-> FALSE, tag |-> out[victim].tag, index |-> bc.index,
                 offset |-> 0, wstrb |-> TRUE, data |-> out[victim].data]
<1>1. w \in WriteReq
  BY Zeros DEF TypeOK, Entry, WriteReq
<1>2. CASE StartWrite(w)
  BY <1>1, <1>2, UwAfterPushType, StartWriteType
<1>3. CASE bus_state' = "IDLE" /\ BusReset /\ UNCHANGED slaveVars
  BY <1>3, BusTypes, BusResetType, UwAfterPushType
  DEF slaveVars, BusTypeOK, FillType, BcType
<1> QED BY <1>2, <1>3 DEF Refill

(* A burst that is accepting data has words left to accept.                *)
LEMMA SlaveWritesType ==
  ASSUME TypeOK, NEW b \in Burst, b.left > 0, NEW wready \in BOOLEAN,
         SlaveWrites(b, wready)
  PROVE  /\ mem' \in [Tags -> [Indices -> LineData]]
         /\ wr' \in Burst
         /\ wb_cnt' \in 0 .. LINE_WORDS
<1>1. CASE wready /\ WBeatValid
  <2>1. wb_cnt < LINE_WORDS
    BY <1>1, SizeAssumption DEF WBeatValid, TypeOK
  <2>2. wb_cnt' \in 0 .. LINE_WORDS
    BY <1>1, <2>1, SizeAssumption DEF SlaveWrites, TypeOK
  <2>3. b.left - 1 \in 0 .. LINE_WORDS /\ (b.off + 1) % LINE_WORDS \in Words
    BY NextWord, SizeAssumption DEF Burst
  <2>4. wr' \in Burst
    BY <1>1, <2>3 DEF SlaveWrites, Burst
  <2>5. WData \in Vals
    <3>1. wt.offset \in Words /\ wb_cnt \in Words /\ wt.data \in [Words -> Vals]
      BY <2>1, SizeAssumption DEF TypeOK, WriteReq, LineData, Words
    <3> QED BY <3>1 DEF WData
  <2>6. Lane(mem[b.tag][b.index][b.off], WData, wt.wstrb) \in Vals
    BY <2>5, LaneType DEF TypeOK, LineData, Burst
  <2>7. [mem EXCEPT ![b.tag][b.index][b.off] = Lane(@, WData, wt.wstrb)]
          \in [Tags -> [Indices -> LineData]]
    BY <2>6 DEF TypeOK, LineData, Burst
  <2> QED BY <1>1, <2>2, <2>4, <2>7 DEF SlaveWrites
<1>2. CASE ~(wready /\ WBeatValid)
  BY <1>2 DEF SlaveWrites, TypeOK
<1> QED BY <1>1, <1>2

LEMMA WriteRequestType ==
  ASSUME TypeOK, NEW ack \in BOOLEAN, NEW wready \in BOOLEAN,
         WriteRequest(ack, wready), uw' = UwAfterPush
  PROVE  BusTypeOK'
<1> DEFINE b == [uncache |-> wt.uncache, tag |-> wt.tag, index |-> wt.index,
                 off |-> wt.offset, left |-> IF wt.uncache THEN 1 ELSE LINE_WORDS]
<1>1. b \in Burst /\ b.left > 0
  BY SizeAssumption DEF TypeOK, WriteReq, Burst
<1>2. CASE ack
  <2>1. SlaveWrites(b, wready) /\ bus_state' = "WRITE_BACK"
    BY <1>2 DEF WriteRequest
  <2>2. mem' \in [Tags -> [Indices -> LineData]] /\ wr' \in Burst /\ wb_cnt' \in 0 .. LINE_WORDS
    BY <1>1, <2>1, SlaveWritesType
  <2> QED BY <2>1, <2>2, BusTypes, UwAfterPushType DEF WriteRequest, BusTypeOK
<1>3. CASE ~ack
  BY <1>3, BusTypes, UwAfterPushType DEF WriteRequest, BusTypeOK
<1> QED BY <1>2, <1>3

LEMMA WriteBackType ==
  ASSUME TypeOK, NEW wready \in BOOLEAN, WriteBack(wready), uw' = UwAfterPush
  PROVE  BusTypeOK'
<1>1. mem' \in [Tags -> [Indices -> LineData]] /\ wr' \in Burst /\ wb_cnt' \in 0 .. LINE_WORDS
  BY SlaveWritesType DEF WriteBack, TypeOK
<1> QED BY <1>1, BusTypes, UwAfterPushType DEF WriteBack, BusTypeOK

LEMMA WriteResponseType ==
  ASSUME TypeOK, NEW ack \in BOOLEAN, WriteResponse(ack), uw' = UwAfterPush
  PROVE  BusTypeOK'
BY BusTypes, BusResetType, UwAfterPushType, ZeroTypes
DEF WriteResponse, busVars, BusTypeOK, FillType, BcType

-----------------------------------------------------------------------------
(* Type correctness.                                                       *)

LEMMA BusStepType ==
  ASSUME TypeOK, NEW m0 \in Requests \cup {NoReq}, NEW beat \in BOOLEAN,
         beat => rd.left > 0, NEW ack \in BOOLEAN, NEW wready \in BOOLEAN,
         NEW victim \in Ways, NEW pf \in PrefetchLines \cup {NoLine},
         BusStep(m0, beat, ack, wready, victim, pf)
  PROVE  BusTypeOK'
<1>1. CASE IdleMiss
  BY <1>1, IdleMissType
<1>2. CASE IdleCacheWriteback
  BY <1>2, IdleCacheWritebackType
<1>3. CASE IdleUncachedWrite
  BY <1>3, IdleUncachedWriteType
<1>4. CASE IdleUncachedRead(m0)
  BY <1>4, IdleUncachedReadType
<1>5. CASE IdlePrefetch(m0, pf)
  BY <1>5, IdlePrefetchType
<1>6. CASE IdleStay(m0, pf)
  BY <1>6, IdleStayType
<1>7. CASE uw' = UwAfterPush /\ ReadRequest(ack)
  BY <1>7, ReadRequestType
<1>8. CASE uw' = UwAfterPush /\ ReadUncached(beat)
  BY <1>8, ReadUncachedType
<1>9. CASE uw' = UwAfterPush /\ Read(m0, beat)
  BY <1>9, ReadType
<1>10. CASE uw' = UwAfterPush /\ Refill(victim)
  BY <1>10, RefillType
<1>11. CASE uw' = UwAfterPush /\ WriteRequest(ack, wready)
  BY <1>11, WriteRequestType
<1>12. CASE uw' = UwAfterPush /\ WriteBack(wready)
  BY <1>12, WriteBackType
<1>13. CASE uw' = UwAfterPush /\ WriteResponse(ack)
  BY <1>13, WriteResponseType
<1> QED
  BY <1>1, <1>2, <1>3, <1>4, <1>5, <1>6, <1>7, <1>8, <1>9, <1>10, <1>11, <1>12, <1>13
  DEF BusStep

LEMMA InputTypes ==
  ASSUME TypeOK, NEW req \in Offers, NEW beat \in Beats, NEW ack \in Acks,
         NEW wready \in WReadies, NEW victim \in VictimChoices,
         NEW pf \in PrefetchOffers
  PROVE  /\ M0(req) \in Requests \cup {NoReq}
         /\ beat \in BOOLEAN /\ (beat => rd.left > 0)
         /\ ack \in BOOLEAN /\ wready \in BOOLEAN
         /\ victim \in Ways
         /\ pf \in PrefetchLines \cup {NoLine}
<1>1. M0(req) \in Requests \cup {NoReq}
  BY DEF TypeOK, Offers, M0
<1>2. victim \in Ways
  BY VictimType, Zeros DEF VictimChoices
<1>3. pf \in PrefetchLines \cup {NoLine}
  BY DEF PrefetchOffers
<1> QED BY <1>1, <1>2, <1>3 DEF Beats, Acks, WReadies

LEMMA InitType == Init => TypeOK
<1> SUFFICES ASSUME Init PROVE TypeOK
  OBVIOUS
<1>1. mem \in [Tags -> [Indices -> LineData]] /\ ram \in [Ways -> [Indices -> Entry]]
  BY ZeroTypes DEF Init
<1>2. /\ d \in [hit : BOOLEAN, dirt : BOOLEAN, tag : Tags, data : LineData]
      /\ out \in [Ways -> Entry] /\ wt \in WriteReq /\ rd \in Burst /\ wr \in Burst
  BY ZeroTypes DEF Init
<1>3. bc \in BcType /\ fill \in FillType
  BY NoFillType DEF Init
<1>4. uw \in Seq(WriteReq) /\ Len(uw) <= UW_FIFO_DEPTH
  BY SizeAssumption DEF Init
<1>5. BusTypeOK
  BY <1>1, <1>2, <1>3, <1>4, SizeAssumption DEF Init, BusTypeOK, BcType, FillType
<1>6. /\ skid \in Requests \cup {NoReq} /\ m1 \in Requests \cup {NoReq}
      /\ data_delay \in BOOLEAN /\ fwd \in [valid : BOOLEAN, data : Vals]
  BY Zeros DEF Init
<1> QED BY <1>1, <1>2, <1>5, <1>6 DEF TypeOK, BusTypeOK

LEMMA CycleType ==
  ASSUME TypeOK, NEW m0 \in Requests \cup {NoReq}, NEW beat \in BOOLEAN,
         beat => rd.left > 0, NEW ack \in BOOLEAN, NEW wready \in BOOLEAN,
         NEW victim \in Ways, NEW pf \in PrefetchLines \cup {NoLine},
         Pipeline(m0, beat), RamPorts(m0, beat, victim),
         BusStep(m0, beat, ack, wready, victim, pf)
  PROVE  TypeOK'
<1>1. BusTypeOK'
  BY BusStepType
<1>2. /\ skid' \in Requests \cup {NoReq} /\ m1' \in Requests \cup {NoReq}
      /\ data_delay' \in BOOLEAN
      /\ d' \in [hit : BOOLEAN, dirt : BOOLEAN, tag : Tags, data : LineData]
      /\ fwd' \in [valid : BOOLEAN, data : Vals]
  BY PipelineType
<1>3. ram' \in [Ways -> [Indices -> Entry]] /\ out' \in [Ways -> Entry]
  BY RamPortsType
<1> QED BY <1>1, <1>2, <1>3 DEF TypeOK, BusTypeOK

LEMMA StepType == TypeOK /\ [Next]_vars => TypeOK'
<1> SUFFICES ASSUME TypeOK, [Next]_vars PROVE TypeOK'
  OBVIOUS
<1>1. CASE Next
  <2>1. PICK req \in Offers, beat \in Beats, ack \in Acks, wready \in WReadies,
             victim \in VictimChoices, pf \in PrefetchOffers :
               Cycle(req, beat, ack, wready, victim, pf)
    BY <1>1 DEF Next
  <2> QED BY <2>1, InputTypes, CycleType DEF Cycle
<1>2. CASE UNCHANGED vars
  BY <1>2 DEF vars, cpuVars, busVars, slaveVars, TypeOK
<1> QED BY <1>1, <1>2

(* Every register keeps a value of its type: the uncached queue never      *)
(* overflows, the beat counters stay inside a line, and no burst is asked  *)
(* for more beats than it has.                                             *)
THEOREM TypeCorrect == Spec => []TypeOK
BY InitType, StepType, PTL DEF Spec

-----------------------------------------------------------------------------
(* The read and write ports during REFILL.                                 *)

(* READ hands over to REFILL in a cycle that reads the victims, whose set  *)
(* nothing writes, and in which nothing enters m1.                         *)
LEMMA ReadHandsOverPorts ==
  ASSUME TypeOK, NEW m0 \in Requests \cup {NoReq}, NEW beat \in BOOLEAN,
         NEW victim \in Ways, Pipeline(m0, beat), RamPorts(m0, beat, victim),
         bus_state = "READ", ReadsVictims(m0, beat), bc'.index = bc.index
  PROVE  data_delay' /\ \A w \in Ways : out'[w] = ram'[w][bc'.index]
<1>1. Enb(m0, beat) /\ ~ReadsTags(m0, beat) /\ ReadIndex(m0, beat) = bc.index
  BY DEF ReadsVictims, ReadIndex
<1>2. ~Enters(m0, beat)
  BY <1>1 DEF Enters, AddrOk, ReadsTags, Load
<1>3. ASSUME NEW w \in Ways PROVE out'[w] = ram'[w][bc.index]
  <2>1. out'[w] = ram[w][bc.index]
    BY <1>1 DEF RamPorts
  <2>2. bc.index \in Indices /\ ram[w] \in [Indices -> Entry]
    BY DEF TypeOK
  <2>3. WriteIndex = m1.index
    BY DEF WriteIndex
  <2>4. CASE m1.index # bc.index
    BY <2>1, <2>2, <2>3, <2>4 DEF RamPorts
  <2>5. CASE m1.index = bc.index
    <3>1. Hazard(m0, beat)
      BY <1>1, <2>3, <2>5 DEF Hazard
    <3>2. ~StoreHit /\ ~Invalidates(w) /\ ~Refills
      BY <1>1, <3>1 DEF Enb, Invalidates, Refills
    <3>3. Written(w, victim, ram[w][bc.index]) = ram[w][bc.index]
      BY <3>2 DEF Written
    <3> QED BY <2>1, <2>2, <2>3, <2>5, <3>3 DEF RamPorts
  <2> QED BY <2>4, <2>5
<1> QED BY <1>2, <1>3 DEF Pipeline

(* Only READ leads to REFILL.                                              *)
LEMMA RefillComesFromRead ==
  ASSUME TypeOK, NEW m0, NEW beat \in BOOLEAN, NEW ack, NEW wready, NEW victim, NEW pf,
         BusStep(m0, beat, ack, wready, victim, pf), bus_state' = "REFILL"
  PROVE  bus_state = "READ" /\ ReadsVictims(m0, beat) /\ bc'.index = bc.index
<1>1. Read(m0, beat)
  BY DEF BusStep, IdleMiss, IdleCacheWriteback, IdleUncachedWrite, IdleUncachedRead,
         IdlePrefetch, IdleStay, PrefetchTurn, StartFetch, StartWrite, BusIdle,
         ReadRequest, ReadUncached, Refill, WriteRequest, WriteBack, WriteResponse,
         AwaitsResponse, busVars
<1>2. bc'.index = bc.index
  BY <1>1 DEF Read, TypeOK
<1> QED BY <1>1, <1>2 DEF Read

LEMMA CycleRefillPorts ==
  ASSUME TypeOK, NEW m0 \in Requests \cup {NoReq}, NEW beat \in BOOLEAN,
         NEW ack, NEW wready, NEW victim \in Ways, NEW pf,
         Pipeline(m0, beat), RamPorts(m0, beat, victim),
         BusStep(m0, beat, ack, wready, victim, pf)
  PROVE  RefillOwnsPorts'
BY ReadHandsOverPorts, RefillComesFromRead DEF RefillOwnsPorts

-----------------------------------------------------------------------------
(* No line is in two ways.                                                 *)

LEMMA CycleNoDuplicate ==
  ASSUME TypeOK, RefillOwnsPorts, NoDuplicateLine,
         NEW m0 \in Requests \cup {NoReq}, NEW beat \in BOOLEAN,
         NEW victim \in Ways, RamPorts(m0, beat, victim)
  PROVE  NoDuplicateLine'
<1> SUFFICES ASSUME NEW i \in Indices, NEW v \in Ways, NEW w \in Ways,
                    ram'[v][i].valid, ram'[w][i].valid, ram'[v][i].tag = ram'[w][i].tag
             PROVE  v = w
  BY DEF NoDuplicateLine
<1>1. ASSUME NEW u \in Ways
      PROVE  /\ i # WriteIndex => ram'[u][i] = ram[u][i]
             /\ i = WriteIndex => ram'[u][i] = Written(u, victim, ram[u][i])
             /\ ram[u][i] \in Entry
  BY DEF RamPorts, TypeOK
<1>2. CASE i # WriteIndex
  BY <1>1, <1>2 DEF NoDuplicateLine
<1>3. CASE i = WriteIndex /\ Refills
  <2>1. i = bc.index /\ \A u \in Ways : out[u] = ram[u][i]
    BY <1>3 DEF Refills, WriteIndex, RefillOwnsPorts
  <2>2. \A u \in Ways : ~(ram[u][i].valid /\ ram[u][i].tag = bc.tag)
    BY <1>3, <2>1 DEF Refills, Duplication
  <2>3. ASSUME NEW u \in Ways
        PROVE  ram'[u][i] = IF u = victim
                 THEN [valid |-> TRUE, tag |-> bc.tag, dirt |-> fill.dirty, data |-> fill.data]
                 ELSE ram[u][i]
    BY <1>1, <1>3 DEF Written
  <2>4. CASE v = victim /\ w # victim
    BY <2>2, <2>3, <2>4
  <2>5. CASE v # victim /\ w = victim
    BY <2>2, <2>3, <2>5
  <2>6. CASE v # victim /\ w # victim
    BY <2>3, <2>6 DEF NoDuplicateLine
  <2> QED BY <2>4, <2>5, <2>6
<1>4. CASE i = WriteIndex /\ ~Refills
  <2>1. ASSUME NEW u \in Ways, ram'[u][i].valid
        PROVE  ram[u][i].valid /\ ram'[u][i].tag = ram[u][i].tag
    <3>1. ram'[u][i] = Written(u, victim, ram[u][i])
      BY <1>1, <1>4
    <3>2. CASE StoreHit /\ u \in Hits
      <4>1. ram'[u][i] = [ram[u][i] EXCEPT !.dirt = TRUE,
                !.data[m1.offset] = Lane(@, m1.wdata, m1.wstrb)]
        BY <3>1, <3>2, <1>4 DEF Written
      <4> QED BY <4>1, <1>1, <2>1 DEF Entry
    <3>3. CASE ~(StoreHit /\ u \in Hits) /\ Invalidates(u)
      <4>1. ram'[u][i] = [ram[u][i] EXCEPT !.valid = FALSE, !.tag = bc.tag,
                !.dirt = @ /\ m1.cache_op /\ u # HitWay]
        BY <3>1, <3>3, <1>4 DEF Written
      <4> QED BY <4>1, <1>1, <2>1 DEF Entry
    <3>4. CASE ~(StoreHit /\ u \in Hits) /\ ~Invalidates(u)
      BY <3>1, <3>4, <1>4, <2>1 DEF Written
    <3> QED BY <3>2, <3>3, <3>4
  <2> QED BY <2>1 DEF NoDuplicateLine
<1> QED BY <1>2, <1>3, <1>4

IInv == TypeOK /\ RefillOwnsPorts /\ NoDuplicateLine

LEMMA InitInv == Init => IInv
<1> SUFFICES ASSUME Init PROVE IInv
  OBVIOUS
<1>1. TypeOK
  BY InitType
<1>2. RefillOwnsPorts
  BY DEF Init, RefillOwnsPorts
<1>3. NoDuplicateLine
  BY DEF Init, NoDuplicateLine, NoEntry
<1> QED BY <1>1, <1>2, <1>3 DEF IInv

LEMMA StepInv == IInv /\ [Next]_vars => IInv'
<1> SUFFICES ASSUME IInv, [Next]_vars PROVE IInv'
  OBVIOUS
<1>1. TypeOK'
  BY StepType DEF IInv
<1>2. CASE Next
  <2>1. PICK req \in Offers, beat \in Beats, ack \in Acks, wready \in WReadies,
             victim \in VictimChoices, pf \in PrefetchOffers :
               Cycle(req, beat, ack, wready, victim, pf)
    BY <1>2 DEF Next
  <2>2. M0(req) \in Requests \cup {NoReq} /\ beat \in BOOLEAN /\ victim \in Ways
    BY InputTypes DEF IInv
  <2>3. /\ Pipeline(M0(req), beat)
        /\ RamPorts(M0(req), beat, victim)
        /\ BusStep(M0(req), beat, ack, wready, victim, pf)
    BY <2>1 DEF Cycle
  <2>4. RefillOwnsPorts'
    BY <2>2, <2>3, CycleRefillPorts DEF IInv
  <2>5. NoDuplicateLine'
    BY <2>2, <2>3, CycleNoDuplicate DEF IInv
  <2> QED BY <1>1, <2>4, <2>5 DEF IInv
<1>3. CASE UNCHANGED vars
  BY <1>1, <1>3 DEF vars, cpuVars, busVars, slaveVars, IInv, RefillOwnsPorts, NoDuplicateLine
<1> QED BY <1>2, <1>3

(* While a line is refilled, the read port holds the tags of its set as    *)
(* the RAM has them and no request is in its first cycle: the comparison   *)
(* with the fetched tag and the choice of the victim are not stale.        *)
THEOREM RefillPorts == Spec => []RefillOwnsPorts
<1>1. IInv => RefillOwnsPorts
  BY DEF IInv
<1> QED BY <1>1, InitInv, StepInv, PTL DEF Spec

(* No line is ever in two ways of its set, whatever misses, prefetches,    *)
(* stores and CACHE operations overlap.                                    *)
THEOREM NoDuplicates == Spec => []NoDuplicateLine
<1>1. IInv => NoDuplicateLine
  BY DEF IInv
<1> QED BY <1>1, InitInv, StepInv, PTL DEF Spec

-----------------------------------------------------------------------------
(* The beat counters of the cache and of the slave.                        *)

(* BeatsAligned, with what it needs of the states before a burst.          *)
BeatInv ==
  /\ BeatsAligned
  /\ bus_state = "RDREQ" /\ ~bc.uncache => bc.ret_off = bc.offset
  /\ bus_state = "WTREQ" => wb_cnt = 0

LEMMA BeatReadRequest ==
  ASSUME TypeOK, BeatInv, NEW ack \in BOOLEAN, ReadRequest(ack) PROVE BeatInv'
<1>1. CASE ack
  <2>1. /\ bus_state' = "READ" /\ bc' = bc
        /\ rd' = [uncache |-> bc.uncache, tag |-> bc.tag, index |-> bc.index,
                  off |-> bc.offset, left |-> IF bc.uncache THEN 1 ELSE LINE_WORDS]
    BY <1>1 DEF ReadRequest
  <2>2. rd'.off = bc.offset
    BY <2>1
  <2> QED BY <2>1, <2>2 DEF ReadRequest, BeatInv, BeatsAligned
<1>2. CASE ~ack
  BY <1>2 DEF ReadRequest, BeatInv, BeatsAligned
<1> QED BY <1>1, <1>2

LEMMA BeatRead ==
  ASSUME TypeOK, BeatInv, NEW m0, NEW beat \in BOOLEAN, beat => rd.left > 0, Read(m0, beat)
  PROVE  BeatInv'
<1>1. bus_state' \in {"READ", "REFILL"} /\ bus_state = "READ"
  BY DEF Read
<1>2. CASE bc.uncache
  <2>1. bc' = bc
    BY <1>2 DEF Read
  <2> QED BY <1>1, <1>2, <2>1 DEF BeatInv, BeatsAligned
<1>3. CASE ~bc.uncache /\ Received(beat)
  <2>1. bc' = [bc EXCEPT !.ret_off = (@ + 1) % LINE_WORDS]
    BY <1>3 DEF Read
  <2>2. rd' = IF rd.left = 1 THEN NoBurst
              ELSE [rd EXCEPT !.left = @ - 1, !.off = (@ + 1) % LINE_WORDS]
    BY <1>3 DEF Read, SlaveReads
  <2>3. rd.left > 0 /\ bc.ret_off = rd.off
    BY <1>1, <1>3 DEF Received, BeatInv, BeatsAligned
  <2>4. rd'.left > 0 => bc'.ret_off = rd'.off
    BY <2>1, <2>2, <2>3 DEF NoBurst, TypeOK, Burst
  <2> QED BY <1>1, <2>4 DEF BeatInv, BeatsAligned
<1>4. CASE ~bc.uncache /\ ~Received(beat)
  BY <1>1, <1>4 DEF Read, SlaveReads, BeatInv, BeatsAligned
<1> QED BY <1>2, <1>3, <1>4

LEMMA BeatSlaveWrites ==
  ASSUME TypeOK, NEW b \in Burst, NEW wready \in BOOLEAN, SlaveWrites(b, wready),
         wb_cnt + b.left = LINE_WORDS
  PROVE  wb_cnt' + wr'.left = LINE_WORDS
<1>1. CASE wready /\ WBeatValid
  <2>1. wr' = [b EXCEPT !.off = (@ + 1) % LINE_WORDS, !.left = @ - 1] /\ wb_cnt' = wb_cnt + 1
    BY <1>1 DEF SlaveWrites
  <2>2. wr'.left = b.left - 1
    BY <2>1 DEF Burst
  <2> QED BY <2>1, <2>2, SizeAssumption DEF TypeOK, Burst
<1>2. CASE ~(wready /\ WBeatValid)
  BY <1>2 DEF SlaveWrites
<1> QED BY <1>1, <1>2

LEMMA BeatWriteRequest ==
  ASSUME TypeOK, BeatInv, NEW ack \in BOOLEAN, NEW wready \in BOOLEAN,
         WriteRequest(ack, wready)
  PROVE  BeatInv'
<1> DEFINE b == [uncache |-> wt.uncache, tag |-> wt.tag, index |-> wt.index,
                 off |-> wt.offset, left |-> IF wt.uncache THEN 1 ELSE LINE_WORDS]
<1>1. CASE ack /\ ~wt.uncache
  <2>1. b \in Burst /\ wb_cnt + b.left = LINE_WORDS
    BY <1>1, SizeAssumption DEF TypeOK, WriteReq, Burst, WriteRequest, BeatInv
  <2>2. SlaveWrites(b, wready) /\ bus_state' = "WRITE_BACK"
    BY <1>1 DEF WriteRequest
  <2>3. wb_cnt' + wr'.left = LINE_WORDS
    BY <2>1, <2>2, BeatSlaveWrites
  <2> QED BY <2>2, <2>3 DEF BeatInv, BeatsAligned
<1>2. CASE ack /\ wt.uncache
  BY <1>2 DEF WriteRequest, BeatInv, BeatsAligned
<1>3. CASE ~ack
  BY <1>3 DEF WriteRequest, BeatInv, BeatsAligned
<1> QED BY <1>1, <1>2, <1>3

LEMMA BeatWriteBack ==
  ASSUME TypeOK, BeatInv, NEW wready \in BOOLEAN, WriteBack(wready) PROVE BeatInv'
<1>1. CASE ~wt.uncache
  <2>1. wr \in Burst /\ wb_cnt + wr.left = LINE_WORDS
    BY <1>1 DEF TypeOK, WriteBack, BeatInv, BeatsAligned
  <2>2. wb_cnt' + wr'.left = LINE_WORDS
    BY <2>1, BeatSlaveWrites DEF WriteBack
  <2> QED BY <2>2 DEF WriteBack, BeatInv, BeatsAligned
<1>2. CASE wt.uncache
  BY <1>2 DEF WriteBack, BeatInv, BeatsAligned
<1> QED BY <1>1, <1>2

LEMMA BeatBusStep ==
  ASSUME TypeOK, BeatInv, NEW m0, NEW beat \in BOOLEAN, beat => rd.left > 0,
         NEW ack \in BOOLEAN, NEW wready \in BOOLEAN, NEW victim, NEW pf,
         BusStep(m0, beat, ack, wready, victim, pf)
  PROVE  BeatInv'
<1>1. ASSUME NEW t, NEW i, NEW o, NEW u, StartFetch(t, i, o, u) PROVE BeatInv'
  BY <1>1 DEF StartFetch, BeatInv, BeatsAligned
<1>2. ASSUME NEW w, StartWrite(w) PROVE BeatInv'
  BY <1>2 DEF StartWrite, BeatInv, BeatsAligned
<1>3. ASSUME bus_state' = "IDLE" PROVE BeatInv'
  BY <1>3 DEF BeatInv, BeatsAligned
<1>4. CASE IdleMiss \/ IdleUncachedRead(m0) \/ IdlePrefetch(m0, pf)
  BY <1>1, <1>4 DEF IdleMiss, IdleUncachedRead, IdlePrefetch
<1>5. CASE IdleCacheWriteback \/ IdleUncachedWrite
  BY <1>2, <1>5 DEF IdleCacheWriteback, IdleUncachedWrite
<1>6. CASE IdleStay(m0, pf) \/ ReadUncached(beat)
  BY <1>3, <1>6 DEF IdleStay, PrefetchTurn, BusIdle, ReadUncached
<1>7. CASE Refill(victim)
  BY <1>2, <1>3, <1>7 DEF Refill
<1>8. CASE WriteResponse(ack)
  <2>1. CASE ack
    BY <1>3, <1>8, <2>1 DEF WriteResponse
  <2>2. CASE ~ack
    BY <1>8, <2>2 DEF WriteResponse, AwaitsResponse, busVars, BeatInv, BeatsAligned
  <2> QED BY <2>1, <2>2
<1> QED
  BY <1>4, <1>5, <1>6, <1>7, <1>8, BeatReadRequest, BeatRead, BeatWriteRequest, BeatWriteBack
  DEF BusStep

LEMMA BeatInit == Init => BeatInv
BY DEF Init, BeatInv, BeatsAligned

LEMMA BeatStep == TypeOK /\ BeatInv /\ [Next]_vars => BeatInv'
<1> SUFFICES ASSUME TypeOK, BeatInv, [Next]_vars PROVE BeatInv'
  OBVIOUS
<1>1. CASE Next
  <2>1. PICK req \in Offers, beat \in Beats, ack \in Acks, wready \in WReadies,
             victim \in VictimChoices, pf \in PrefetchOffers :
               Cycle(req, beat, ack, wready, victim, pf)
    BY <1>1 DEF Next
  <2> QED BY <2>1, InputTypes, BeatBusStep DEF Cycle
<1>2. CASE UNCHANGED vars
  BY <1>2 DEF vars, cpuVars, busVars, slaveVars, BeatInv, BeatsAligned
<1> QED BY <1>1, <1>2

(* The cache counts the beats of every burst as the slave does: each word  *)
(* of a line is stored, and written back, at its own offset.               *)
THEOREM BeatsStayAligned == Spec => []BeatsAligned
<1>1. BeatInv => BeatsAligned
  BY DEF BeatInv
<1> QED BY <1>1, InitType, StepType, BeatInit, BeatStep, PTL DEF Spec

-----------------------------------------------------------------------------
(* Uncached reads.                                                         *)

(* A CACHE operation is issued with a cached address (see README).         *)
OpsAreCached == \A r \in Requests : r.CACHE => ~r.uncache

(* The oldest request the cache holds.                                     *)
Oldest == IF m1.valid THEN m1 ELSE skid

ReadingUncached == bus_state \in {"RDREQ", "READ"} /\ bc.uncache

(* UncachedReadInOrder, with what keeps it: the only beat of the read is   *)
(* still to come, and a request that waits in m1 did not hit when it came. *)
UncachedInv ==
  /\ m1.valid /\ ~m1.CACHE => ~d.hit
  /\ ReadingUncached =>
       /\ uw = <<>>
       /\ Load(Oldest) /\ Oldest.uncache
       /\ <<Oldest.tag, Oldest.index, Oldest.offset>> = <<bc.tag, bc.index, bc.offset>>
       /\ bus_state = "READ" => rd.left = 1

LEMMA HitWaitsForNothing ==
  ASSUME TypeOK, UncachedInv, NEW m0, NEW beat \in BOOLEAN, Pipeline(m0, beat)
  PROVE  (m1.valid /\ ~m1.CACHE => ~d.hit)'
<1> SUFFICES ASSUME m1'.valid, ~m1'.CACHE PROVE ~d'.hit
  OBVIOUS
<1>1. CASE Enters(m0, beat) \/ DataOk(beat) \/ ~m1.valid
  BY <1>1 DEF Pipeline, NoLatch
<1>2. CASE ~Enters(m0, beat) /\ ~DataOk(beat) /\ m1.valid
  <2>1. m1' = m1
    BY <1>2 DEF Pipeline
  <2>2. CASE data_delay
    BY <1>2, <2>1, <2>2 DEF Pipeline, UncachedInv
  <2>3. CASE ~data_delay
    <3>1. ~CacheHit
      BY <1>2, <2>1, <2>3 DEF DataOk
    <3>2. d' = [NoLatch EXCEPT !.hit = CacheHit]
      BY <1>2, <2>1, <2>3 DEF Pipeline
    <3> QED BY <3>1, <3>2 DEF NoLatch
  <2> QED BY <2>2, <2>3
<1> QED BY <1>1, <1>2

(* A request that waits for the read port stays the oldest, whether it     *)
(* waits outside, in the skid buffer or moves to m1.                       *)
LEMMA NextInLine ==
  ASSUME NEW m0, NEW beat, Pipeline(m0, beat), ~m1.valid \/ DataOk(beat), m0.valid
  PROVE  Oldest' = m0
<1>1. CASE Enters(m0, beat)
  BY <1>1 DEF Pipeline, Oldest
<1>2. CASE ~Enters(m0, beat)
  <2>1. ~m1'.valid /\ skid' = m0
    BY <1>2 DEF Pipeline, NoReq
  <2> QED BY <2>1 DEF Oldest
<1> QED BY <1>1, <1>2

LEMMA StaysOldest ==
  ASSUME NEW m0, NEW beat, Pipeline(m0, beat), m1.valid, ~DataOk(beat)
  PROVE  Oldest' = m1
BY DEF Pipeline, Enters, Oldest

LEMMA UncachedLoadWaits ==
  ASSUME NEW beat, Load(m1), m1.uncache, beat => ~bc.uncache
  PROVE  ~DataOk(beat)
BY DEF DataOk, CacheHit, Load, Store, Doable

(* A request that stands before an uncached read as the read goes on the   *)
(* bus completes in that cycle.                                            *)
LEMMA MakesWayForRead ==
  ASSUME TypeOK, UncachedInv, BusIdle, ~Miss, ~CacheWriteback, UwAfterPush = <<>>,
         m1.valid, ~UncachedRead(m1)
  PROVE  DataOk(FALSE)
<1>1. m1 \in Request
  BY M1Type
<1>2. CASE m1.CACHE
  BY <1>1, <1>2 DEF DataOk, CacheWriteback, Load, Store, Request
<1>3. CASE ~m1.CACHE /\ m1.uncache
  <2>1. Store(m1)
    BY <1>1, <1>3 DEF UncachedRead, Store, Request
  <2>2. ~UwPush /\ uw = <<>>
    BY UwReqType DEF UwAfterPush, TypeOK
  <2>3. ~UwFull
    BY <2>2, SizeAssumption DEF UwFull
  <2> QED BY <1>3, <2>1, <2>2, <2>3 DEF UwPush
<1>4. CASE ~m1.CACHE /\ ~m1.uncache /\ m1.op
  BY <1>4 DEF DataOk, Store, BusIdle
<1>5. CASE ~m1.CACHE /\ ~m1.uncache /\ ~m1.op
  <2>1. ~data_delay /\ CacheHit
    BY <1>5 DEF Miss, Cached, UncachedInv
  <2> QED BY <1>5, <2>1 DEF DataOk
<1> QED BY <1>1, <1>2, <1>3, <1>4, <1>5

LEMMA ReadStarts ==
  ASSUME OpsAreCached, TypeOK, UncachedInv, NEW m0 \in Requests \cup {NoReq},
         Pipeline(m0, FALSE), IdleUncachedRead(m0)
  PROVE  UncachedInv'
<1> DEFINE r == IF UncachedRead(m1) THEN m1 ELSE m0
<1>1. UncachedRead(r) /\ r \in Requests \cup {NoReq}
  BY DEF IdleUncachedRead, TypeOK
<1>2. Load(r) /\ r.uncache
  BY <1>1 DEF UncachedRead, Load, NoReq, OpsAreCached
<1>3. Oldest' = r
  <2>1. CASE UncachedRead(m1)
    <3>1. Load(m1) /\ m1.uncache
      BY <1>2, <2>1
    <3> QED BY <2>1, <3>1, UncachedLoadWaits, StaysOldest DEF Load
  <2>2. CASE ~UncachedRead(m1)
    <3>1. m0.valid
      BY <1>1, <2>2 DEF UncachedRead
    <3>2. ~m1.valid \/ DataOk(FALSE)
      BY <2>2, MakesWayForRead DEF IdleUncachedRead
    <3> QED BY <2>2, <3>1, <3>2, NextInLine
  <2> QED BY <2>1, <2>2
<1>4. /\ bus_state' = "RDREQ" /\ uw' = uw
      /\ bc' = [tag |-> r.tag, index |-> r.index, offset |-> r.offset,
                uncache |-> TRUE, ret_off |-> 0]
  BY DEF IdleUncachedRead, StartFetch
<1>5. uw = <<>>
  BY UwReqType DEF IdleUncachedRead, UwAfterPush, TypeOK
<1> HIDE DEF r
<1>6. Load(Oldest)'
  BY <1>2, <1>3 DEF Load
<1>7. <<Oldest.tag, Oldest.index, Oldest.offset>>' = <<bc.tag, bc.index, bc.offset>>'
  BY <1>3, <1>4
<1> QED
  BY <1>2, <1>3, <1>4, <1>5, <1>6, <1>7, HitWaitsForNothing DEF UncachedInv, ReadingUncached

(* While the read is on the bus its request stays where it is or moves     *)
(* from the skid buffer to m1, and nothing is pushed behind it.            *)
LEMMA ReadGoesOn ==
  ASSUME TypeOK, UncachedInv, NEW req \in Offers, NEW beat \in Beats,
         Pipeline(M0(req), beat), ReadingUncached, ~LastBeat(beat)
  PROVE  Oldest' = Oldest /\ UwAfterPush = uw
<1>1. Load(Oldest) /\ Oldest.uncache
  BY DEF UncachedInv
<1>2. ~UwPush
  <2>1. Store(m1) => Oldest = m1
    BY DEF Store, Oldest
  <2> QED BY <1>1, <2>1 DEF UwPush, Store, Load
<1>3. CASE m1.valid
  <2>1. Load(m1) /\ m1.uncache
    BY <1>1, <1>3 DEF Oldest
  <2>2. rready
    BY <2>1 DEF rready, Store, Load
  <2>3. ~beat
    BY <2>2 DEF Beats, LastBeat, Received, UncachedInv
  <2> QED BY <1>2, <1>3, <2>1, <2>3, UncachedLoadWaits, StaysOldest DEF Oldest, UwAfterPush
<1>4. CASE ~m1.valid
  <2>1. Oldest = skid /\ skid.valid
    BY <1>1, <1>4 DEF Oldest, Load
  <2>2. M0(req) = skid
    BY <2>1 DEF M0
  <2> QED BY <1>2, <1>4, <2>1, <2>2, NextInLine DEF UwAfterPush
<1> QED BY <1>3, <1>4

LEMMA ReadingStep ==
  ASSUME TypeOK, UncachedInv, NEW req \in Offers, NEW beat \in Beats,
         NEW ack \in BOOLEAN, Pipeline(M0(req), beat), uw' = UwAfterPush,
         ReadRequest(ack) \/ Read(M0(req), beat)
  PROVE  UncachedInv'
<1>1. bc'.uncache = bc.uncache
  BY DEF ReadRequest, Read, TypeOK
<1>2. (m1.valid /\ ~m1.CACHE => ~d.hit)'
  BY HitWaitsForNothing DEF Beats
<1>3. CASE ~bc.uncache
  BY <1>1, <1>2, <1>3 DEF UncachedInv, ReadingUncached
<1>4. CASE bc.uncache
  <2>1. ReadingUncached /\ ~LastBeat(beat)
    BY <1>4 DEF ReadRequest, Read, ReadingUncached, LastBeat, Received, Beats
  <2>2. Oldest' = Oldest /\ uw' = <<>> /\ bc' = bc
    <3>1. Received(beat) => LastBeat(beat)
      BY <2>1 DEF Received, LastBeat, Beats, UncachedInv
    <3> QED BY <1>4, <2>1, <3>1, ReadGoesOn DEF ReadRequest, Read, UncachedInv
  <2>3. bus_state' = "READ" => rd'.left = 1
    <3>1. CASE ReadRequest(ack)
      BY <1>4, <3>1 DEF ReadRequest
    <3>2. CASE Read(M0(req), beat)
      <4>1. ~Received(beat) /\ rd.left = 1
        BY <2>1, <3>2 DEF Read, Received, LastBeat, Beats, UncachedInv
      <4> QED BY <3>2, <4>1 DEF Read, SlaveReads
    <3> QED BY <3>1, <3>2
  <2>4. Load(Oldest)' /\ Oldest'.uncache
    BY <2>1, <2>2 DEF UncachedInv, Load
  <2>5. <<Oldest.tag, Oldest.index, Oldest.offset>>' = <<bc.tag, bc.index, bc.offset>>'
    BY <2>1, <2>2 DEF UncachedInv
  <2> QED BY <1>2, <2>2, <2>3, <2>4, <2>5 DEF UncachedInv
<1> QED BY <1>3, <1>4

LEMMA UncachedCycle ==
  ASSUME OpsAreCached, TypeOK, UncachedInv, NEW req \in Offers, NEW beat \in Beats,
         NEW ack \in BOOLEAN, NEW wready, NEW victim, NEW pf, Cycle(req, beat, ack, wready, victim, pf)
  PROVE  UncachedInv'
<1> DEFINE m0 == M0(req)
<1>1. m0 \in Requests \cup {NoReq}
  BY DEF TypeOK, Offers, M0
<1>2. Pipeline(m0, beat) /\ BusStep(m0, beat, ack, wready, victim, pf)
  BY DEF Cycle
<1>3. (m1.valid /\ ~m1.CACHE => ~d.hit)'
  BY <1>2, HitWaitsForNothing DEF Beats
<1>4. ASSUME ~ReadingUncached' PROVE UncachedInv'
  BY <1>3, <1>4 DEF UncachedInv
<1> HIDE DEF m0
<1>5. CASE IdleUncachedRead(m0)
  <2>1. beat = FALSE
    BY <1>5 DEF Beats, IdleUncachedRead, BusIdle
  <2> QED BY <1>1, <1>2, <1>5, <2>1, ReadStarts
<1>6. CASE uw' = UwAfterPush /\ (ReadRequest(ack) \/ Read(m0, beat))
  BY <1>2, <1>6, ReadingStep DEF m0
<1>7. CASE IdleMiss \/ IdlePrefetch(m0, pf)
  BY <1>4, <1>7 DEF IdleMiss, IdlePrefetch, StartFetch, ReadingUncached
<1>8. CASE IdleCacheWriteback \/ IdleUncachedWrite \/ Refill(victim)
  BY <1>4, <1>8 DEF IdleCacheWriteback, IdleUncachedWrite, Refill, StartWrite, ReadingUncached
<1>9. CASE IdleStay(m0, pf) \/ ReadUncached(beat)
  BY <1>4, <1>9 DEF IdleStay, PrefetchTurn, BusIdle, ReadUncached, ReadingUncached
<1>10. CASE WriteRequest(ack, wready) \/ WriteBack(wready) \/ WriteResponse(ack)
  BY <1>4, <1>10
  DEF WriteRequest, WriteBack, WriteResponse, AwaitsResponse, busVars, ReadingUncached
<1> QED BY <1>2, <1>5, <1>6, <1>7, <1>8, <1>9, <1>10 DEF BusStep

LEMMA UncachedInit == Init => UncachedInv
BY DEF Init, UncachedInv, ReadingUncached, NoReq

LEMMA UncachedStep == OpsAreCached /\ TypeOK /\ UncachedInv /\ [Next]_vars => UncachedInv'
<1> SUFFICES ASSUME OpsAreCached, TypeOK, UncachedInv, [Next]_vars PROVE UncachedInv'
  OBVIOUS
<1>1. CASE Next
  <2>1. PICK req \in Offers, beat \in Beats, ack \in Acks, wready \in WReadies,
             victim \in VictimChoices, pf \in PrefetchOffers :
               Cycle(req, beat, ack, wready, victim, pf)
    BY <1>1 DEF Next
  <2>2. ack \in BOOLEAN
    BY DEF Acks
  <2> QED BY <2>1, <2>2, UncachedCycle
<1>2. CASE UNCHANGED vars
  BY <1>2
  DEF vars, cpuVars, busVars, slaveVars, UncachedInv, ReadingUncached, Oldest, Load
<1> QED BY <1>1, <1>2

(* An uncached read is on the bus only for the oldest request the cache    *)
(* holds, and only when every uncached write before it has been performed: *)
(* no device sees a read of the program before its writes.                 *)
THEOREM UncachedReadsInOrder ==
  ASSUME OpsAreCached PROVE Spec => []UncachedReadInOrder
<1>1. UncachedInv => UncachedReadInOrder
  BY DEF UncachedInv, UncachedReadInOrder, ReadingUncached, Oldest, Posted, Writing
<1>2. TypeOK /\ UncachedInv /\ [Next]_vars => UncachedInv'
  BY UncachedStep
<1> QED BY <1>1, <1>2, InitType, StepType, UncachedInit, PTL DEF Spec
=============================================================================
