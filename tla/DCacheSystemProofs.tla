------------------------- MODULE DCacheSystemProofs -------------------------
(***************************************************************************)
(* The cache as it is built implements DCache, so what is proved of DCache *)
(* with free choices holds with the victims of PLRU and the lines of the   *)
(* prefetcher.                                                             *)
(***************************************************************************)
EXTENDS DCacheSystem, DCacheProofs

-----------------------------------------------------------------------------
(* The replacement record.                                                 *)

LEMMA UpdatedType ==
  ASSUME NEW old \in P!Record, NEW way \in Ways
  PROVE  P!Updated(old, way) \in P!Record
<1>1. 1 - way \div 2 \in {0, 1} /\ 1 - (way % 2) \in {0, 1}
  BY SizeAssumption DEF Ways
<1>2. SET_SIZE = 2 => 1 - way \in {0, 1}
  BY SizeAssumption DEF Ways
<1>3. CASE SET_SIZE = 2
  BY <1>2, <1>3 DEF P!Updated, P!Record
<1>4. CASE SET_SIZE # 2
  <2> DEFINE h == 1 - way \div 2
             l == 1 - (way % 2)
             b == way \div 2
  <2>1. P!Updated(old, way) =
          [bit \in 0 .. 2 |->
              IF bit = 0 THEN h
              ELSE IF bit = 1 THEN IF b = 1 THEN old[1] ELSE l
              ELSE IF b = 1 THEN l ELSE old[1]]
    BY <1>4 DEF P!Updated
  <2>2. h \in {0, 1} /\ l \in {0, 1}
    BY <1>1
  <2> HIDE DEF h, l, b
  <2> QED BY <2>1, <2>2 DEF P!Record
<1> QED BY <1>3, <1>4

LEMMA AccessType ==
  ASSUME NEW i \in Indices, NEW way \in Ways, record \in [Indices -> P!Record],
         P!Access(i, way)
  PROVE  record' \in [Indices -> P!Record]
BY UpdatedType DEF P!Access

LEMMA WayToReplaceType ==
  ASSUME TypeOK, SystemTypeOK
  PROVE  WayToReplace \in Victims
<1>1. InvalidWays \subseteq Ways
  BY DEF InvalidWays
<1>2. CASE InvalidWays # {}
  BY <1>2 DEF Victims, WayToReplace
<1>3. CASE InvalidWays = {}
  <2>1. record[bc.index] \in [0 .. 2 -> {0, 1}]
    BY DEF TypeOK, SystemTypeOK, P!Record
  <2>2. P!LruWay(bc.index) \in Ways
    BY <2>1, SizeAssumption DEF P!LruWay, Ways
  <2> QED BY <1>3, <2>2 DEF Victims, WayToReplace
<1> QED BY <1>2, <1>3

-----------------------------------------------------------------------------
(* The prefetcher.                                                         *)

LEMMA LineCountType == LineCount \in Nat \ {0}
BY SizeAssumption DEF LineCount

LEMMA LineNumberType ==
  ASSUME NEW r \in Request PROVE LineNumber(r) \in 0 .. LineCount - 1
<1>1. r.tag \in Tags /\ r.index \in Indices
  BY DEF Request
<1>2. r.tag * GROUP_NUM <= (TAG_NUM - 1) * GROUP_NUM
  BY <1>1, SizeAssumption DEF Tags
<1> QED BY <1>1, <1>2, SizeAssumption DEF LineNumber, LineCount, Tags, Indices

LEMMA NextLineType ==
  ASSUME NEW n \in Int PROVE F!NextLine(n) \in 0 .. LineCount - 1
BY LineCountType DEF F!NextLine

LEMMA LineAtType ==
  ASSUME NEW n \in 0 .. LineCount - 1 PROVE LineAt(n) \in Lines
<1>1. n \div GROUP_NUM \in Tags
  BY SizeAssumption DEF LineCount, Tags
<1>2. n % GROUP_NUM \in Indices
  BY SizeAssumption, LineCountType DEF Indices
<1> QED BY <1>1, <1>2 DEF LineAt, Lines

LEMMA OfferedType ==
  ASSUME SystemTypeOK PROVE Offered \in Lines \cup {NoLine}
<1>1. F!PfAddr(Requested) \in 0 .. LineCount - 1
  BY NextLineType DEF SystemTypeOK, F!PfAddr
<1> QED BY <1>1, LineAtType DEF Offered

LEMMA PrefetcherType ==
  ASSUME TypeOK, SystemTypeOK, NEW rq, NEW answer, F!Step(MissOnBus, rq, answer)
  PROVE  /\ pf_state' \in {"IDLE", "MISS", "FETCH", "REST"}
         /\ last_miss_addr' \in 0 .. LineCount - 1
         /\ fetch_addr' \in 0 .. LineCount - 1
<1>1. m1 \in Request
  BY M1Type
<1>2. ASSUME NEW line \in MissOnBus PROVE line \in 0 .. LineCount - 1
  BY <1>1, <1>2, LineNumberType DEF MissOnBus
<1>3. MissOnBus # {} => (CHOOSE line \in MissOnBus : TRUE) \in 0 .. LineCount - 1
  BY <1>2
<1>4. pf_state' \in {"IDLE", "MISS", "FETCH", "REST"}
  BY DEF F!Step, F!Asleep, F!Learn, F!Fetch, F!Rest
<1>5. last_miss_addr' \in 0 .. LineCount - 1
  BY <1>3 DEF F!Step, SystemTypeOK
<1>6. pf_state = "MISS" /\ pf_state' = "FETCH" => MissOnBus # {}
  BY DEF F!Step, F!Asleep, F!Learn, F!Fetch, F!Rest
<1>7. ASSUME pf_state = "MISS" /\ pf_state' = "FETCH" PROVE fetch_addr' \in 0 .. LineCount - 1
  <2>1. F!NextLine(CHOOSE line \in MissOnBus : TRUE) \in 0 .. LineCount - 1
    BY <1>3, <1>6, <1>7, NextLineType
  <2> QED BY <1>7, <2>1 DEF F!Step
<1>8. ASSUME ~(pf_state = "MISS" /\ pf_state' = "FETCH") PROVE fetch_addr' \in 0 .. LineCount - 1
  <2>1. F!NextLine(fetch_addr) \in 0 .. LineCount - 1
    BY NextLineType DEF SystemTypeOK
  <2>2. fetch_addr' \in {fetch_addr, F!NextLine(fetch_addr)}
    BY <1>8 DEF F!Step
  <2> QED BY <2>1, <2>2 DEF SystemTypeOK
<1> QED BY <1>4, <1>5, <1>7, <1>8

-----------------------------------------------------------------------------
(* A system cycle is a cycle of DCache.                                    *)

(* The victim matters only in REFILL.                                      *)
LEMMA VictimOnlyInRefill ==
  ASSUME NEW m0, NEW beat, NEW v, NEW u, bus_state # "REFILL"
  PROVE  RamPorts(m0, beat, v) => RamPorts(m0, beat, u)
<1>1. ASSUME NEW w, NEW entry PROVE Written(w, v, entry) = Written(w, u, entry)
  BY DEF Written, Refills
<1> QED BY <1>1 DEF RamPorts

(* The offered line and the victim matter to the bus in their states only. *)
LEMMA ChoicesOnBus ==
  ASSUME NEW m0, NEW beat, NEW ack, NEW wready, NEW v, NEW p,
         BusStep(m0, beat, ack, wready, v, p)
  PROVE  BusStep(m0, beat, ack, wready, IF bus_state = "REFILL" THEN v ELSE 0,
                 IF BusIdle THEN p ELSE NoLine)
<1> DEFINE u == IF bus_state = "REFILL" THEN v ELSE 0
           q == IF BusIdle THEN p ELSE NoLine
<1>1. Refill(v) => Refill(u)
  BY DEF Refill
<1>2. IdlePrefetch(m0, p) => IdlePrefetch(m0, q)
  BY DEF IdlePrefetch, PrefetchTurn
<1>3. IdleStay(m0, p) => IdleStay(m0, q)
  BY DEF IdleStay, PrefetchTurn
<1> HIDE DEF u, q
<1>4. BusStep(m0, beat, ack, wready, u, q)
  BY <1>1, <1>2, <1>3 DEF BusStep
<1> QED BY <1>4 DEF u, q

LEMMA SystemCycleIsCycle ==
  ASSUME TypeOK, SystemTypeOK, PrefetchLines = Lines,
         NEW req \in Offers, NEW beat \in Beats, NEW ack \in Acks, NEW wready \in WReadies,
         SystemCycle(req, beat, ack, wready)
  PROVE  Next
<1> DEFINE v == IF bus_state = "REFILL" THEN WayToReplace ELSE 0
           p == IF BusIdle THEN Offered ELSE NoLine
<1>1. v \in VictimChoices
  BY WayToReplaceType DEF VictimChoices
<1>2. p \in PrefetchOffers
  BY OfferedType DEF PrefetchOffers
<1>3. Cycle(req, beat, ack, wready, WayToReplace, Offered)
  BY DEF SystemCycle
<1>4. BusStep(M0(req), beat, ack, wready, v, p)
  BY <1>3, ChoicesOnBus DEF Cycle
<1>5. RamPorts(M0(req), beat, v)
  BY <1>3, VictimOnlyInRefill DEF Cycle
<1> HIDE DEF v, p
<1>6. Cycle(req, beat, ack, wready, v, p)
  BY <1>3, <1>4, <1>5 DEF Cycle
<1> QED BY <1>1, <1>2, <1>6 DEF Next

LEMMA SystemStepType ==
  ASSUME TypeOK, SystemTypeOK, PrefetchLines = Lines, [SystemNext]_systemVars
  PROVE  [Next]_vars /\ SystemTypeOK'
<1>1. CASE SystemNext
  <2>1. PICK req \in Offers, beat \in Beats, ack \in Acks, wready \in WReadies :
               SystemCycle(req, beat, ack, wready)
    BY <1>1 DEF SystemNext
  <2>2. Next
    BY <2>1, SystemCycleIsCycle
  <2>3. record' \in [Indices -> P!Record]
    <3>1. WayToReplace \in Ways /\ HitWay \in Ways
      BY WayToReplaceType, VictimType, HitWayType
    <3>2. bc.index \in Indices /\ m1.index \in Indices
      BY M1Type DEF TypeOK, Request
    <3>3. RecordUse
      BY <2>1 DEF SystemCycle
    <3> QED BY <3>1, <3>2, <3>3, AccessType DEF RecordUse, SystemTypeOK
  <2>4. SystemTypeOK'
    BY <2>1, <2>3, PrefetcherType DEF SystemCycle, SystemTypeOK
  <2> QED BY <2>2, <2>4
<1>2. CASE UNCHANGED systemVars
  BY <1>2 DEF systemVars, pfVars, SystemTypeOK
<1> QED BY <1>1, <1>2

LEMMA SystemInitType == SystemInit => Init /\ SystemTypeOK
BY LineCountType DEF SystemInit, P!Init, F!Init, SystemTypeOK, P!Sets, Indices

(* The cache with its PLRU victims and its stream prefetcher implements    *)
(* the cache with free choices, once every line may be prefetched.         *)
THEOREM SystemRefinesDCache ==
  ASSUME PrefetchLines = Lines PROVE SystemSpec => ImplementsDCache
<1>1. SystemInit => Init /\ TypeOK /\ SystemTypeOK
  BY SystemInitType, InitType
<1>2. TypeOK /\ SystemTypeOK /\ [SystemNext]_systemVars
        => [Next]_vars /\ (TypeOK /\ SystemTypeOK)'
  BY SystemStepType, StepType
<1> QED BY <1>1, <1>2, PTL DEF SystemSpec, Spec, ImplementsDCache

(* No line is ever in two ways of the cache as it is built.                *)
THEOREM SystemHasNoDuplicates ==
  ASSUME PrefetchLines = Lines PROVE SystemSpec => []NoDuplicateLine
BY SystemRefinesDCache, NoDuplicates, PTL DEF ImplementsDCache

-----------------------------------------------------------------------------
(* The way used last is never the pseudo-LRU way of its set, although bit  *)
(* 2 of a record may be overwritten by bit 1.                              *)

RecordInv ==
  /\ newest \in [Indices -> Ways \cup {-1}]
  /\ \A i \in Indices : newest[i] # -1 => P!LruWay(i) # newest[i]

(* The way that is used is not the pseudo-LRU way of its set afterwards.   *)
LEMMA AccessNotLru ==
  ASSUME NEW i \in Indices, NEW way \in Ways, record \in [Indices -> P!Record],
         P!Access(i, way)
  PROVE  P!LruWay(i)' # way
<1> DEFINE old == record[i]
           new == P!Updated(old, way)
<1>1. record'[i] = new
  BY DEF P!Access
<1>2. CASE SET_SIZE = 2
  <2>1. new[0] = 1 - way /\ way \in {0, 1}
    BY <1>2 DEF P!Updated, P!Record, Ways
  <2> QED BY <1>1, <1>2, <2>1 DEF P!LruWay
<1>3. CASE SET_SIZE = 4
  <2>1. way \in {0, 1, 2, 3}
    BY <1>3 DEF Ways
  <2>2. new[0] = 1 - way \div 2
    BY <1>3 DEF P!Updated
  <2>3. way \div 2 = 0 => new[1] = 1 - (way % 2)
    BY <1>3 DEF P!Updated
  <2>4. way \div 2 = 1 => new[2] = 1 - (way % 2)
    BY <1>3 DEF P!Updated
  <2>5. P!LruWay(i)' = IF new[0] = 1 THEN 2 + new[2] ELSE new[1]
    BY <1>1, <1>3 DEF P!LruWay
  <2>6. new \in P!Record
    BY UpdatedType DEF P!Record
  <2> HIDE DEF new
  <2>7. CASE way \in {0, 1}
    BY <2>2, <2>5, <2>6, <2>7 DEF P!Record
  <2>8. CASE way \in {2, 3}
    BY <2>2, <2>5, <2>6, <2>8 DEF P!Record
  <2> QED BY <2>1, <2>7, <2>8
<1> QED BY <1>2, <1>3, SizeAssumption

(* An access to one set leaves the pseudo-LRU ways of the others.          *)
LEMMA AccessElsewhere ==
  ASSUME NEW i \in Indices, NEW way \in Ways, NEW j \in Indices, j # i,
         record \in [Indices -> P!Record], P!Access(i, way)
  PROVE  P!LruWay(j)' = P!LruWay(j)
BY DEF P!Access, P!LruWay

LEMMA UsePreservesRecordInv ==
  ASSUME TypeOK, SystemTypeOK, RecordInv, RecordUse
  PROVE  RecordInv'
<1>1. ASSUME NEW i \in Indices, NEW way \in Ways, P!Access(i, way),
             newest' = [newest EXCEPT ![i] = way]
      PROVE  RecordInv'
  <2>1. newest' \in [Indices -> Ways \cup {-1}]
    BY <1>1 DEF RecordInv
  <2>2. ASSUME NEW j \in Indices, newest'[j] # -1 PROVE P!LruWay(j)' # newest'[j]
    <3>1. CASE j = i
      BY <1>1, <3>1, AccessNotLru DEF RecordInv, SystemTypeOK
    <3>2. CASE j # i
      BY <1>1, <2>2, <3>2, AccessElsewhere DEF RecordInv, SystemTypeOK
    <3> QED BY <3>1, <3>2
  <2> QED BY <2>1, <2>2 DEF RecordInv
<1>2. WayToReplace \in Ways /\ HitWay \in Ways
  BY WayToReplaceType, VictimType, HitWayType
<1>3. bc.index \in Indices /\ m1.index \in Indices
  BY M1Type DEF TypeOK, Request
<1>4. CASE UNCHANGED <<record, newest>>
  BY <1>4 DEF RecordInv, P!LruWay
<1> QED BY <1>1, <1>2, <1>3, <1>4 DEF RecordUse

LEMMA SystemStepRecord ==
  ASSUME TypeOK, SystemTypeOK, RecordInv, [SystemNext]_systemVars
  PROVE  RecordInv'
<1>1. CASE SystemNext
  BY <1>1, UsePreservesRecordInv DEF SystemNext, SystemCycle
<1>2. CASE UNCHANGED systemVars
  BY <1>2 DEF systemVars, RecordInv, P!LruWay
<1> QED BY <1>1, <1>2

LEMMA SystemInitRecord == SystemInit => RecordInv
BY DEF SystemInit, RecordInv

(* A full set never gives up the way that was used last, with two ways or  *)
(* with four.                                                              *)
THEOREM VictimsAreNotNewest ==
  ASSUME PrefetchLines = Lines PROVE SystemSpec => []VictimIsNotNewest
<1>1. SystemInit => TypeOK /\ SystemTypeOK /\ RecordInv
  BY SystemInitType, InitType, SystemInitRecord
<1>2. TypeOK /\ SystemTypeOK /\ RecordInv /\ [SystemNext]_systemVars
        => (TypeOK /\ SystemTypeOK /\ RecordInv)'
  BY SystemStepType, StepType, SystemStepRecord
<1>3. TypeOK /\ SystemTypeOK /\ RecordInv => VictimIsNotNewest
  <2> SUFFICES ASSUME TypeOK, SystemTypeOK, RecordInv, InvalidWays = {}
               PROVE  WayToReplace # newest[bc.index]
    BY DEF VictimIsNotNewest
  <2>1. WayToReplace \in Ways /\ bc.index \in Indices
    BY WayToReplaceType, VictimType DEF TypeOK
  <2>2. CASE newest[bc.index] = -1
    BY <2>1, <2>2, SizeAssumption DEF Ways
  <2>3. CASE newest[bc.index] # -1
    BY <2>1, <2>3 DEF RecordInv, WayToReplace
  <2> QED BY <2>2, <2>3
<1> QED BY <1>1, <1>2, <1>3, PTL DEF SystemSpec
=============================================================================
