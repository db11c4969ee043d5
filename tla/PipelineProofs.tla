--------------------------- MODULE PipelineProofs ---------------------------
(***************************************************************************)
(* Theorems about the pipeline, for every length of the ring, every        *)
(* program and every behaviour of cache and multiplier. First the issue    *)
(* queue: the ring and the order in which it hands on the program. Then    *)
(* the stages behind it: the head of the queue issues when they have       *)
(* drained, requests and answers of the data cache belong to the accesses  *)
(* they are for.                                                           *)
(***************************************************************************)
EXTENDS Pipeline, SequenceTheorems, TLAPS

Cells == 0 .. IQ_LENGTH - 1

QueueTypeOK ==
  /\ issue_queue \in [Cells -> QueueEntry \cup {NoEntry}]
  /\ head \in Cells /\ tail \in Cells /\ size \in 0 .. IQ_LENGTH
  /\ wait = "no" \/ wait \in DOMAIN Slots

QueueInv == QueueTypeOK /\ RingHoldsQueue

-----------------------------------------------------------------------------
(* Arithmetic of the ring.                                                 *)

LEMMA SuccType ==
  ASSUME NEW j \in Cells, NEW n \in 0 .. IQ_LENGTH
  PROVE  Succ(j, n) \in Cells
BY QueueAssumption DEF Succ, Cells

\* Cells are told apart by their distance from the head
LEMMA SuccInjective ==
  ASSUME NEW j \in Cells, NEW m \in Cells, NEW n \in Cells,
         Succ(j, m) = Succ(j, n)
  PROVE  m = n
BY QueueAssumption DEF Succ, Cells

\* Distances from a head that has moved on
LEMMA SuccSucc ==
  ASSUME NEW j \in Cells, NEW m \in 0 .. IQ_LENGTH, NEW n \in Cells
  PROVE  Succ(Succ(j, m), n) = Succ(j, IF m + n >= IQ_LENGTH
                                       THEN m + n - IQ_LENGTH ELSE m + n)
BY QueueAssumption DEF Succ, Cells

-----------------------------------------------------------------------------
(* What enters and what leaves.                                            *)

LEMMA NoEntryIsNoQueueEntry == NoEntry \notin QueueEntry
BY ProgramAssumption DEF NoEntry, QueueEntry

LEMMA DecodedType ==
  ASSUME NEW due, due = "no" \/ due \in DOMAIN Slots
  PROVE  Decoded(due) \subseteq QueueEntry
<1>1. (due = "likely") \in BOOLEAN
  OBVIOUS
<1>2. \A i \in Program : [ins |-> i, likely_delayslot |-> due = "likely"] \in QueueEntry
  BY <1>1 DEF QueueEntry
<1>3. (IF due # "no" THEN Slots[due]
       ELSE IF RareInFlight THEN Instrs \ Rare ELSE Instrs) \subseteq Program
  BY DEF Program
<1>. QED  BY <1>2, <1>3 DEF Decoded

LEMMA DueType ==
  ASSUME NEW i \in Program
  PROVE  Due(i) = "no" \/ Due(i) \in DOMAIN Slots
BY SlotsAssumption DEF Due

\* One or two instructions enter only into a ring with two empty cells
LEMMA GroupType ==
  ASSUME QueueTypeOK, NEW g \in Groups
  PROVE  /\ g = <<>> \/ (\E e \in QueueEntry : g = <<e>>)
                     \/ (\E e \in QueueEntry, f \in QueueEntry : g = <<e, f>>)
         /\ g # <<>> => size + 2 <= IQ_LENGTH
<1>1. CASE g = <<>>
  BY <1>1
<1>2. CASE \E e \in Decoded(wait) : g = <<e>> /\ allowin_I
  BY <1>2, DecodedType DEF QueueTypeOK, allowin_I
<1>3. CASE \E e \in Decoded(wait) : \E f \in Decoded(Due(e.ins)) :
             g = <<e, f>> /\ allowin_I
  <2>0. PICK e \in Decoded(wait) :
          \E f \in Decoded(Due(e.ins)) : g = <<e, f>> /\ allowin_I
    BY <1>3
  <2>1. PICK f \in Decoded(Due(e.ins)) : g = <<e, f>> /\ allowin_I
    BY <2>0
  <2>2. e \in QueueEntry /\ e.ins \in Program
    BY DecodedType DEF QueueTypeOK, QueueEntry
  <2>3. f \in QueueEntry
    BY <2>2, DueType, DecodedType
  <2>. QED  BY <2>1, <2>2, <2>3 DEF allowin_I
<1>. QED  BY <1>1, <1>2, <1>3 DEF Groups

LEMMA IssueNumber ==
  ASSUME QueueInv
  PROVE  issue_instr_num \in 0 .. 2 /\ issue_instr_num <= size
<1>1. size = 0 => ~Valid(0)
  BY QueueAssumption DEF QueueInv, QueueTypeOK, RingHoldsQueue, Valid, queue_head, Cells
<1>2. size <= 1 => ~Valid(1)
  BY QueueAssumption DEF QueueInv, QueueTypeOK, RingHoldsQueue, Valid, queue_head, Cells
<1>. QED
  BY <1>1, <1>2 DEF issue_instr_num, way0_valid, way1_valid, ready0, ready1,
       QueueInv, QueueTypeOK

\* A step does to the ring what a flush or a cycle of IssueUnit_2 does
LEMMA QueueStep ==
  ASSUME Next
  PROVE  \/ FlushRing("no") \/ FlushRing("handler")
         \/ \E g \in Groups, n \in {0, issue_instr_num} : Ring(g, n)
BY ZenonT(60) DEF Next, Advance, Mispredict, Redirect

-----------------------------------------------------------------------------
(* The ring invariant.                                                     *)

LEMMA QueueInit ==
  ASSUME Init
  PROVE  QueueInv
BY QueueAssumption DEF Init, QueueInv, QueueTypeOK, RingHoldsQueue, Cells, Succ

LEMMA QueueFlush ==
  ASSUME NEW due, due = "no" \/ due \in DOMAIN Slots, FlushRing(due)
  PROVE  QueueInv'
BY QueueAssumption DEF FlushRing, QueueInv, QueueTypeOK, RingHoldsQueue, Cells, Succ

\* What stands at a distance from the new head
LEMMA RingCells ==
  ASSUME QueueInv, NEW g \in Groups, NEW n \in 0 .. 2, n <= size, Ring(g, n),
         NEW m \in Cells
  PROVE  LET c == issue_queue'[Succ(head', m)]
         IN /\ m < size - n => c = issue_queue[Succ(head, m + n)]
            /\ m = size - n /\ Len(g) >= 1 => c = g[1]
            /\ m = size - n + 1 /\ Len(g) = 2 => c = g[2]
            /\ m >= size - n + Len(g) => c = NoEntry
<1> DEFINE d == IF m + n >= IQ_LENGTH THEN m + n - IQ_LENGTH ELSE m + n
           j == Succ(head, d)
<1>1. d \in Cells /\ size \in 0 .. IQ_LENGTH /\ head \in Cells
  BY QueueAssumption DEF Cells, QueueInv, QueueTypeOK
<1>. HIDE DEF d
<1>2. Succ(head', m) = j /\ j \in Cells
  <2>1. head' = Succ(head, n) /\ n \in 0 .. IQ_LENGTH /\ d \in 0 .. IQ_LENGTH
    BY <1>1, QueueAssumption DEF Ring, Cells
  <2>2. j \in Cells
    BY <1>1, <2>1, SuccType
  <2>3. Succ(Succ(head, n), m) = j
    <3>1. n + m = m + n
      BY <1>1, <2>1, QueueAssumption DEF Cells
    <3>2. Succ(Succ(head, n), m) = Succ(head, IF n + m >= IQ_LENGTH
                                              THEN n + m - IQ_LENGTH ELSE n + m)
      BY <1>1, <2>1, SuccSucc
    <3>3. CASE m + n >= IQ_LENGTH
      <4>1. d = n + m - IQ_LENGTH /\ n + m >= IQ_LENGTH
        BY <1>1, <2>1, <3>3, QueueAssumption DEF d, Cells
      <4>. QED  BY <3>2, <4>1
    <3>4. CASE ~(m + n >= IQ_LENGTH)
      <4>1. d = n + m /\ ~(n + m >= IQ_LENGTH)
        BY <1>1, <2>1, <3>4, QueueAssumption DEF d, Cells
      <4>. QED  BY <3>2, <4>1
    <3>. QED  BY <3>3, <3>4
  <2>. QED  BY <2>1, <2>2, <2>3
<1>3. Len(g) \in 0 .. 2 /\ (Len(g) > 0 => size + 2 <= IQ_LENGTH)
  BY GroupType DEF QueueInv
<1>4. Len(g) > 0 => (j = tail <=> d = size)
  BY <1>1, <1>3, SuccInjective, QueueAssumption
     DEF QueueInv, RingHoldsQueue, Cells
<1>5. Len(g) = 2 => (j = Succ(tail, 1) <=> d = size + 1)
  <2>. SUFFICES ASSUME Len(g) = 2 PROVE j = Succ(tail, 1) <=> d = size + 1
    OBVIOUS
  <2>1. Succ(tail, 1) = Succ(head, size + 1)
    BY <1>1, <1>3, SuccSucc, QueueAssumption
       DEF QueueInv, RingHoldsQueue, Cells, Succ
  <2>. QED  BY <1>1, <1>3, <2>1, SuccInjective, QueueAssumption DEF Cells
<1>6. j = head <=> d = 0
  BY <1>1, SuccInjective, QueueAssumption DEF Cells, Succ
<1>7. j = Succ(head, 1) <=> d = 1
  BY <1>1, SuccInjective, QueueAssumption DEF Cells
<1>8. d >= size => issue_queue[j] = NoEntry
  BY <1>1 DEF QueueInv, RingHoldsQueue, Cells
<1>9. issue_queue'[j] =
         CASE j = tail /\ Len(g) >= 1          -> g[1]
           [] j = Succ(tail, 1) /\ Len(g) = 2  -> g[2]
           [] j = head /\ n >= 1               -> NoEntry
           [] j = Succ(head, 1) /\ n = 2       -> NoEntry
           [] OTHER                            -> issue_queue[j]
  BY <1>2 DEF Ring, Cells
<1>. HIDE DEF j
<1>10. d = size /\ Len(g) >= 1 => issue_queue'[j] = g[1]
  BY <1>1, <1>3, <1>4, <1>5, <1>6, <1>7, <1>9 DEF Cells
<1>11. d = size + 1 /\ Len(g) = 2 => issue_queue'[j] = g[2]
  BY <1>1, <1>3, <1>4, <1>5, <1>6, <1>7, <1>9 DEF Cells
<1>12. d < n => issue_queue'[j] = NoEntry
  BY <1>1, <1>3, <1>4, <1>5, <1>6, <1>7, <1>9 DEF Cells
<1>13. d >= n /\ ~(d = size /\ Len(g) >= 1) /\ ~(d = size + 1 /\ Len(g) = 2)
         => issue_queue'[j] = issue_queue[j]
  BY <1>1, <1>3, <1>4, <1>5, <1>6, <1>7, <1>9 DEF Cells
<1>14. CASE m + n < IQ_LENGTH
  <2>1. d = m + n
    BY <1>14, QueueAssumption DEF d, Cells
  <2>2. m < size - n => issue_queue'[j] = issue_queue[Succ(head, m + n)]
    BY <1>1, <1>3, <1>13, <2>1 DEF j, Cells
  <2>3. m >= size - n + Len(g) => issue_queue'[j] = NoEntry
    <3>. SUFFICES ASSUME m >= size - n + Len(g)  PROVE issue_queue'[j] = NoEntry
      OBVIOUS
    <3>1. d >= size + Len(g)
      BY <1>1, <1>3, <2>1, QueueAssumption DEF Cells
    <3>2. issue_queue[j] = NoEntry
      BY <1>1, <1>3, <1>8, <3>1 DEF Cells
    <3>3. ~(d = size /\ Len(g) >= 1) /\ ~(d = size + 1 /\ Len(g) = 2)
      <4>1. d \in Int /\ size \in Int /\ Len(g) \in Int
        BY <1>1, <1>3, QueueAssumption DEF Cells
      <4>2. ASSUME d = size, Len(g) >= 1 PROVE FALSE
        BY <4>1, <4>2, <3>1
      <4>3. ASSUME d = size + 1, Len(g) = 2 PROVE FALSE
        BY <4>1, <4>3, <3>1
      <4>. QED  BY <4>2, <4>3
    <3>4. d < n \/ d >= n
      BY <1>1, QueueAssumption DEF Cells
    <3>. QED  BY <1>12, <1>13, <3>2, <3>3, <3>4
  <2>. QED  BY <1>1, <1>2, <1>3, <1>10, <1>11, <2>1, <2>2, <2>3 DEF Cells
<1>15. CASE m + n >= IQ_LENGTH
  <2>1. d = m + n - IQ_LENGTH /\ d < n
    BY <1>15, <1>1, QueueAssumption DEF d, Cells
  <2>2. issue_queue'[j] = NoEntry
    BY <1>12, <2>1
  <2>. QED  BY <1>1, <1>2, <1>3, <2>2, <1>15, QueueAssumption DEF Cells
<1>. QED  BY <1>14, <1>15, QueueAssumption DEF Cells

LEMMA QueueRing ==
  ASSUME QueueInv, NEW g \in Groups, NEW n \in 0 .. 2, n <= size, Ring(g, n)
  PROVE  QueueInv'
<1>1. /\ Len(g) \in 0 .. 2 /\ (Len(g) > 0 => size + 2 <= IQ_LENGTH)
      /\ (Len(g) >= 1 => g[1] \in QueueEntry) /\ (Len(g) = 2 => g[2] \in QueueEntry)
      /\ (g # <<>> => Len(g) >= 1 /\ g[Len(g)] \in QueueEntry)
  BY GroupType DEF QueueInv
<1>2. /\ size \in 0 .. IQ_LENGTH /\ head \in Cells /\ tail \in Cells
      /\ head' \in Cells /\ tail' \in Cells /\ size' \in 0 .. IQ_LENGTH
      /\ tail' = Succ(head', size')
  <2>1. /\ size \in 0 .. IQ_LENGTH /\ head \in Cells /\ tail \in Cells
        /\ tail = Succ(head, size)
    BY DEF QueueInv, QueueTypeOK, RingHoldsQueue
  <2>2. /\ head' = Succ(head, n) /\ tail' = Succ(tail, Len(g))
        /\ size' = size + Len(g) - n
    BY DEF Ring
  <2>3. size' \in 0 .. IQ_LENGTH
    BY <1>1, <2>1, <2>2, QueueAssumption
  <2>4. head' \in Cells /\ tail' \in Cells
    BY <1>1, <2>1, <2>2, SuccType, QueueAssumption
  <2>5. tail' = Succ(head', size')
    <3>1. CASE Len(g) = 0
      BY <2>1, <2>2, <3>1, QueueAssumption DEF Succ, Cells
    <3>2. CASE Len(g) # 0
      <4>1. size + 2 <= IQ_LENGTH
        BY <1>1, <3>2
      <4>. QED  BY SMTT(30), <1>1, <2>1, <2>2, <4>1, QueueAssumption DEF Succ, Cells
    <3>. QED  BY <3>1, <3>2
  <2>. QED  BY <2>1, <2>3, <2>4, <2>5
<1>3. issue_queue' \in [Cells -> QueueEntry \cup {NoEntry}]
  BY <1>1 DEF Ring, QueueInv, QueueTypeOK, Cells
<1>4. (wait = "no" \/ wait \in DOMAIN Slots)'
  <2>1. CASE g = <<>>
    BY <2>1 DEF Ring, QueueInv, QueueTypeOK
  <2>2. CASE g # <<>>
    <3>1. g[Len(g)].ins \in Program
      BY <1>1, <2>2 DEF QueueEntry
    <3>. QED  BY <2>2, <3>1, DueType DEF Ring
  <2>. QED  BY <2>1, <2>2
<1>5. ASSUME NEW m \in Cells
      PROVE  issue_queue'[Succ(head', m)] # NoEntry <=> m < size'
  <2>1. m \in Int /\ size \in Int /\ Len(g) \in Int /\ n \in Int
    BY <1>1, <1>2, QueueAssumption DEF Cells
  <2>2. CASE m < size - n
    <3>1. m + n \in Cells /\ m + n < size
      BY <2>1, <2>2, <1>2, QueueAssumption DEF Cells
    <3>2. issue_queue[Succ(head, m + n)] # NoEntry
      BY <3>1 DEF QueueInv, RingHoldsQueue, Cells
    <3>3. m < size'
      BY <1>1, <2>1, <2>2 DEF Ring
    <3>. QED  BY <3>2, <3>3, <2>2, RingCells
  <2>3. ASSUME m = size - n, Len(g) >= 1
        PROVE  issue_queue'[Succ(head', m)] # NoEntry /\ m < size'
    <3>1. issue_queue'[Succ(head', m)] = g[1]
      BY <2>3, RingCells
    <3>2. m < size'
      BY <2>1, <2>3 DEF Ring
    <3>. QED  BY <1>1, <2>3, <3>1, <3>2, NoEntryIsNoQueueEntry
  <2>4. ASSUME m = size - n + 1, Len(g) = 2
        PROVE  issue_queue'[Succ(head', m)] # NoEntry /\ m < size'
    <3>1. issue_queue'[Succ(head', m)] = g[2]
      BY <2>4, RingCells
    <3>2. m < size'
      BY <2>1, <2>4 DEF Ring
    <3>. QED  BY <1>1, <2>4, <3>1, <3>2, NoEntryIsNoQueueEntry
  <2>5. ASSUME m >= size - n + Len(g)
        PROVE  issue_queue'[Succ(head', m)] = NoEntry /\ ~(m < size')
    <3>1. issue_queue'[Succ(head', m)] = NoEntry
      BY <2>5, RingCells
    <3>2. ~(m < size')
      BY <2>1, <2>5 DEF Ring
    <3>. QED  BY <3>1, <3>2
  <2>6. CASE m >= size - n
    <3>1. CASE Len(g) = 0
      BY <2>1, <2>5, <2>6, <3>1
    <3>2. CASE Len(g) = 1
      <4>1. m = size - n \/ m >= size - n + Len(g)
        BY <2>1, <2>6, <3>2
      <4>. QED  BY <2>3, <2>5, <3>2, <4>1
    <3>3. CASE Len(g) = 2
      <4>1. m = size - n \/ m = size - n + 1 \/ m >= size - n + Len(g)
        BY <2>1, <2>6, <3>3
      <4>. QED  BY <2>3, <2>4, <2>5, <3>3, <4>1
    <3>. QED  BY <1>1, <3>1, <3>2, <3>3
  <2>. QED  BY <2>1, <2>2, <2>6
<1>. QED  BY <1>2, <1>3, <1>4, <1>5 DEF QueueInv, QueueTypeOK, RingHoldsQueue, Cells

LEMMA QueueStutter ==
  ASSUME QueueInv, UNCHANGED vars
  PROVE  QueueInv'
BY DEF QueueInv, QueueTypeOK, RingHoldsQueue, vars

LEMMA QueueNext ==
  ASSUME QueueInv, [Next]_vars
  PROVE  QueueInv'
<1>1. CASE Next
  <2>1. CASE FlushRing("no") \/ FlushRing("handler")
    BY <2>1, QueueFlush, SlotsAssumption
  <2>2. CASE \E g \in Groups, n \in {0, issue_instr_num} : Ring(g, n)
    <3>1. PICK g \in Groups, n \in {0, issue_instr_num} : Ring(g, n)
      BY <2>2
    <3>2. n \in 0 .. 2 /\ n <= size
      BY IssueNumber DEF QueueInv, QueueTypeOK
    <3>. QED  BY <3>1, <3>2, QueueRing
  <2>. QED  BY <1>1, <2>1, <2>2, QueueStep
<1>2. CASE UNCHANGED vars
  BY <1>2, QueueStutter
<1>. QED  BY <1>1, <1>2

(* The ring of IssueUnit_2 never overflows, and holds exactly what stands  *)
(* between its head and its tail, for every length and every program.      *)
THEOREM RingIsExact == Spec => []RingHoldsQueue
<1>1. Spec => []QueueInv
  BY QueueInit, QueueNext, PTL DEF Spec
<1>2. QueueInv => RingHoldsQueue
  BY DEF QueueInv
<1>. QED  BY <1>1, <1>2, PTL

-----------------------------------------------------------------------------
(* The queue as a sequence.                                                *)

LEMMA WaitingType ==
  ASSUME QueueInv
  PROVE  /\ Waiting \in Seq(Program)
         /\ Len(Waiting) = size
         /\ \A k \in 1 .. size : Waiting[k] = issue_queue[Succ(head, k - 1)].ins
<1>1. size \in Nat /\ size <= IQ_LENGTH
  BY QueueAssumption DEF QueueInv, QueueTypeOK
<1>2. ASSUME NEW k \in 1 .. size
      PROVE  issue_queue[Succ(head, k - 1)].ins \in Program
  <2>1. k - 1 \in Cells /\ k - 1 < size
    BY <1>1, QueueAssumption DEF Cells
  <2>2. issue_queue[Succ(head, k - 1)] # NoEntry
    BY <2>1 DEF QueueInv, RingHoldsQueue, Cells
  <2>3. Succ(head, k - 1) \in Cells
    BY <2>1, SuccType, QueueAssumption DEF QueueInv, QueueTypeOK, Cells
  <2>4. issue_queue[Succ(head, k - 1)] \in QueueEntry
    BY <2>2, <2>3 DEF QueueInv, QueueTypeOK
  <2>. QED  BY <2>4 DEF QueueEntry
<1>3. Waiting \in [1 .. size -> Program]
  BY <1>2 DEF Waiting
<1>4. Waiting \in Seq(Program)
  BY <1>1, <1>3, SeqDef
<1>5. Len(Waiting) = size
  <2>1. DOMAIN Waiting = 1 .. size
    BY <1>3
  <2>2. DOMAIN Waiting = 1 .. Len(Waiting) /\ Len(Waiting) \in Nat
    BY <1>4, LenProperties
  <2>. QED  BY <1>1, <2>1, <2>2
<1>. QED  BY <1>4, <1>5 DEF Waiting

LEMMA WaitingTyped == QueueInv => Waiting \in Seq(Program) /\ Len(Waiting) = size
BY WaitingType

LEMMA WaitingTypeNext ==
  QueueInv' => (Waiting \in Seq(Program) /\ Len(Waiting) = size)'
BY WaitingTyped, PTL

LEMMA WaitingNext ==
  ASSUME QueueInv, NEW g \in Groups, NEW n \in 0 .. 2, n <= size, Ring(g, n),
         NEW k \in 1 .. size'
  PROVE  /\ k <= size - n => Waiting'[k] = Waiting[k + n]
         /\ k = size - n + 1 => Waiting'[k] = g[1].ins
         /\ k = size - n + 2 => Waiting'[k] = g[2].ins
         /\ k <= size - n + Len(g)
<1>1. Len(g) \in 0 .. 2
  BY GroupType DEF QueueInv
<1>2. size \in Int /\ size <= IQ_LENGTH /\ n \in Int /\ k \in Int /\ Len(g) \in Int
      /\ size' = size + Len(g) - n /\ size' \in Int /\ size' <= IQ_LENGTH
  BY SMTT(30), <1>1, QueueRing, QueueAssumption DEF Ring, QueueInv, QueueTypeOK
<1>3. k - 1 \in Cells
  BY <1>2, QueueAssumption DEF Cells
<1>4. Waiting'[k] = issue_queue'[Succ(head', k - 1)].ins
  BY DEF Waiting
<1>5. k <= size - n + Len(g)
  BY <1>2
<1>6. ASSUME k <= size - n PROVE Waiting'[k] = Waiting[k + n]
  <2>1. k - 1 < size - n /\ k + n \in 1 .. size /\ (k - 1) + n = (k + n) - 1
    BY <1>2, <1>6
  <2>2. issue_queue'[Succ(head', k - 1)] = issue_queue[Succ(head, (k - 1) + n)]
    BY <1>3, <2>1, RingCells
  <2>3. Waiting[k + n] = issue_queue[Succ(head, (k + n) - 1)].ins
    BY <2>1 DEF Waiting
  <2>. QED  BY <1>4, <2>1, <2>2, <2>3
<1>7. ASSUME k = size - n + 1 PROVE Waiting'[k] = g[1].ins
  <2>1. k - 1 = size - n /\ Len(g) >= 1
    BY <1>2, <1>5, <1>7
  <2>. QED  BY <1>3, <1>4, <2>1, RingCells
<1>8. ASSUME k = size - n + 2 PROVE Waiting'[k] = g[2].ins
  <2>1. k - 1 = size - n + 1
    BY <1>2, <1>8
  <2>2. Len(g) = 2
    <3>1. Len(g) >= 2
      BY <1>2, <1>5, <1>8
    <3>. QED  BY <1>1, <3>1
  <2>. QED  BY <1>3, <1>4, <2>1, <2>2, RingCells
<1>. QED  BY <1>5, <1>6, <1>7, <1>8

-----------------------------------------------------------------------------
(* Branches and their slots, and the places of EX.                         *)

\* A branch is followed by one of its slots, and decode knows what it has
\* handed over last
SlotsInv ==
  /\ \A k \in 1 .. size - 1 :
       IsBranch(Waiting[k]) => Waiting[k + 1] \in Slots[Waiting[k].cls]
  /\ size > 0 => wait = Due(Waiting[size])

\* What stands in EX has an instruction
ExInv == \A p \in EX : {"ins", "valid"} \subseteq DOMAIN pipe[p]

IssueInv == QueueInv /\ SlotsInv /\ ExInv

\* Decode puts a slot behind a branch
LEMMA SlotBehindBranch ==
  ASSUME NEW i \in Program, IsBranch(i), NEW e \in Decoded(Due(i))
  PROVE  e.ins \in Slots[i.cls]
<1>1. Due(i) = i.cls /\ i.cls # "no"
  BY DEF Due, IsBranch
<1>2. \E j \in Slots[i.cls] : e.ins = j
  BY <1>1 DEF Decoded
<1>. QED  BY <1>2

LEMMA GroupSlots ==
  ASSUME QueueInv, NEW g \in Groups
  PROVE  /\ Len(g) >= 1 => g[1] \in Decoded(wait)
         /\ Len(g) = 2 => g[2] \in Decoded(Due(g[1].ins))
<1>1. CASE g = <<>>
  BY <1>1
<1>2. CASE \E e \in Decoded(wait) : g = <<e>>
  BY <1>2
<1>3. CASE \E e \in Decoded(wait) : \E f \in Decoded(Due(e.ins)) : g = <<e, f>>
  BY <1>3
<1>. QED  BY <1>1, <1>2, <1>3 DEF Groups

LEMMA SlotsRing ==
  ASSUME QueueInv, SlotsInv, NEW g \in Groups, NEW n \in 0 .. 2, n <= size, Ring(g, n)
  PROVE  SlotsInv'
<1>0. Len(g) = 0 \/ Len(g) = 1 \/ Len(g) = 2
  BY GroupType DEF QueueInv
<1>1. Len(g) \in 0 .. 2 /\ (Len(g) = 0 => g = <<>>)
      /\ (Len(g) >= 1 => g[1].ins \in Program)
  BY GroupType DEF QueueInv, QueueEntry
<1>2. size \in Int /\ n \in Int /\ n >= 0 /\ Len(g) \in Int
      /\ size' = size + Len(g) - n /\ size' \in Int
  BY <1>1, QueueAssumption DEF Ring, QueueInv, QueueTypeOK
<1>3. size' > 0 => wait' = Due(Waiting'[size'])
  <2>. SUFFICES ASSUME size' > 0  PROVE wait' = Due(Waiting'[size'])
    OBVIOUS
  <2>1. size' \in 1 .. size'
    BY <1>2
  <2>2. CASE Len(g) = 0
    <3>1. size' = size - n /\ size' <= size - n /\ size' + n = size /\ size > 0
      BY <1>2, <2>2
    <3>2. Waiting'[size'] = Waiting[size]
      BY <2>1, <3>1, WaitingNext
    <3>. QED  BY <1>1, <2>2, <3>1, <3>2 DEF Ring, SlotsInv
  <2>3. CASE Len(g) = 1
    <3>1. size' = size - n + 1 /\ g # <<>>
      BY <1>2, <2>3
    <3>2. Waiting'[size'] = g[1].ins
      BY <2>1, <3>1, WaitingNext
    <3>. QED  BY <2>3, <3>1, <3>2 DEF Ring
  <2>4. CASE Len(g) = 2
    <3>1. size' = size - n + 2 /\ g # <<>>
      BY <1>2, <2>4
    <3>2. Waiting'[size'] = g[2].ins
      BY <2>1, <3>1, WaitingNext
    <3>. QED  BY <2>4, <3>1, <3>2 DEF Ring
  <2>. QED  BY <1>1, <2>2, <2>3, <2>4
<1>4. ASSUME NEW k \in 1 .. size' - 1, IsBranch(Waiting'[k])
      PROVE  Waiting'[k + 1] \in Slots[Waiting'[k].cls]
  <2>1. k \in 1 .. size' /\ k + 1 \in 1 .. size' /\ k \in Int
        /\ k + 1 <= size - n + Len(g)
    BY <1>2
  <2>2. CASE k + 1 <= size - n
    <3>1. /\ k <= size - n /\ k + n \in 1 .. size - 1
          /\ (k + 1) + n = (k + n) + 1
      BY <1>2, <2>1, <2>2
    <3>2. Waiting'[k] = Waiting[k + n] /\ Waiting'[k + 1] = Waiting[(k + n) + 1]
      BY <2>1, <2>2, <3>1, WaitingNext
    <3>. QED  BY <1>4, <3>1, <3>2 DEF SlotsInv
  <2>3. CASE k = size - n
    <3>1. /\ k <= size - n /\ k + 1 = size - n + 1 /\ k + n = size /\ size > 0
          /\ size \in 1 .. size
      BY <1>2, <2>1, <2>3
    <3>2. Waiting'[k] = Waiting[size] /\ Waiting'[k + 1] = g[1].ins
      BY <2>1, <3>1, WaitingNext
    <3>3. Len(g) >= 1
      BY <1>2, <2>1, <3>1
    <3>4. g[1] \in Decoded(Due(Waiting[size]))
      BY <3>1, <3>3, GroupSlots DEF SlotsInv
    <3>5. Waiting[size] \in Program
      BY <3>1, WaitingType, ElementOfSeq
    <3>. QED  BY <1>4, <3>2, <3>4, <3>5, SlotBehindBranch
  <2>4. CASE k = size - n + 1
    <3>1. k + 1 = size - n + 2
      BY <1>2, <2>1, <2>4
    <3>2. Waiting'[k] = g[1].ins /\ Waiting'[k + 1] = g[2].ins
      BY <2>1, <2>4, <3>1, WaitingNext
    <3>3. Len(g) = 2
      <4>1. ASSUME Len(g) = 0 PROVE FALSE
        BY <1>2, <2>1, <2>4, <4>1
      <4>2. ASSUME Len(g) = 1 PROVE FALSE
        BY <1>2, <2>1, <2>4, <4>2
      <4>. QED  BY <1>0, <4>1, <4>2
    <3>4. g[2] \in Decoded(Due(g[1].ins))
      BY <3>3, GroupSlots
    <3>. QED  BY <1>1, <1>4, <3>2, <3>3, <3>4, SlotBehindBranch
  <2>5. ASSUME k > size - n + 1 PROVE FALSE
    <3>1. ASSUME Len(g) = 0 PROVE FALSE
      BY <1>2, <2>1, <2>5, <3>1
    <3>2. ASSUME Len(g) = 1 PROVE FALSE
      BY <1>2, <2>1, <2>5, <3>2
    <3>3. ASSUME Len(g) = 2 PROVE FALSE
      BY <1>2, <2>1, <2>5, <3>3
    <3>. QED  BY <1>0, <3>1, <3>2, <3>3
  <2>. QED  BY <1>2, <2>1, <2>2, <2>3, <2>4, <2>5
<1>. QED  BY <1>3, <1>4 DEF SlotsInv

\* What a cycle does to the ring and to EX: a flush, a stall, or an issue
Cycle(flush, stall) ==
  /\ \A p \in EX : pipe'[p] = IF flush THEN Empty
                             ELSE IF stall THEN Held(p) ELSE IssuedPair(p)
  /\ flush => FlushRing("no") \/ FlushRing("handler")
  /\ ~flush => \E g \in Groups : Ring(g, IF stall THEN 0 ELSE issue_instr_num)

LEMMA CycleCases ==
  ASSUME Next
  PROVE  \E flush \in BOOLEAN, stall \in BOOLEAN : Cycle(flush, stall)
<1>1. ASSUME NEW addr_ok, NEW data_ok, NEW mdu, NEW event, NEW annul, NEW fault,
             NEW bp_fail, NEW exception,
             Stages(addr_ok, data_ok, mdu, event, annul, fault, bp_fail, exception)
      PROVE  \A p \in EX : pipe'[p] =
               IF exception \/ bp_fail THEN Empty
               ELSE IF mdu \/ dreq_stall(addr_ok, data_ok) THEN Held(p)
               ELSE IssuedPair(p)
  <2>. SUFFICES ASSUME NEW p \in EX
       PROVE  pipe'[p] = IF exception \/ bp_fail THEN Empty
                         ELSE IF mdu \/ dreq_stall(addr_ok, data_ok) THEN Held(p)
                         ELSE IssuedPair(p)
    OBVIOUS
  <2>1. p \in Places /\ p \notin AT /\ p \notin DR /\ p \notin MEM
    BY DEF EX, AT, DR, MEM, Places
  <2>. QED  BY <1>1, <2>1 DEF Stages
<1>2. PICK addr_ok \in Offered(data_req), data_ok \in Offered(bus > 0),
           mdu \in Offered(\E p \in EX : pipe[p].ins.cls = "mdu") :
        \/ \E fault \in [AT -> BOOLEAN] :
             \/ \E event \in [EX -> BOOLEAN], annul \in Offered(Untaken) :
                  Advance(addr_ok, data_ok, mdu, event, annul, fault)
             \/ Mispredict(addr_ok, data_ok, mdu, fault)
        \/ Redirect(addr_ok, data_ok, mdu)
  BY DEF Next
<1>3. ASSUME NEW fault, NEW event, NEW annul,
             Advance(addr_ok, data_ok, mdu, event, annul, fault)
      PROVE  Cycle(FALSE, mdu \/ dreq_stall(addr_ok, data_ok))
  <2>1. Stages(addr_ok, data_ok, mdu, event, annul, fault, FALSE, FALSE)
    BY <1>3 DEF Advance
  <2>2. \E g \in Groups :
          Ring(g, IF mdu \/ dreq_stall(addr_ok, data_ok) THEN 0 ELSE issue_instr_num)
    BY <1>3 DEF Advance
  <2>. QED  BY <1>1, <2>1, <2>2 DEF Cycle
<1>4. ASSUME NEW fault, Mispredict(addr_ok, data_ok, mdu, fault)
      PROVE  Cycle(TRUE, FALSE)
  <2>1. Stages(addr_ok, data_ok, mdu, [p \in EX |-> FALSE], FALSE, fault, TRUE, FALSE)
    BY <1>4 DEF Mispredict
  <2>2. FlushRing("no")
    BY <1>4 DEF Mispredict
  <2>. QED  BY <1>1, <2>1, <2>2 DEF Cycle
<1>5. ASSUME Redirect(addr_ok, data_ok, mdu)
      PROVE  Cycle(TRUE, FALSE)
  <2>1. Stages(addr_ok, data_ok, mdu, [p \in EX |-> FALSE], FALSE,
               [p \in AT |-> FALSE], FALSE, TRUE)
    BY <1>5 DEF Redirect
  <2>2. FlushRing("no") \/ FlushRing("handler")
    BY <1>5 DEF Redirect
  <2>. QED  BY <1>1, <2>1, <2>2 DEF Cycle
<1>6. (mdu \/ dreq_stall(addr_ok, data_ok)) \in BOOLEAN
  OBVIOUS
<1>. QED  BY <1>2, <1>3, <1>4, <1>5, <1>6

LEMMA ExNext ==
  ASSUME ExInv, NEW flush \in BOOLEAN, NEW stall \in BOOLEAN, Cycle(flush, stall)
  PROVE  ExInv'
<1>. SUFFICES ASSUME NEW p \in EX  PROVE {"ins", "valid"} \subseteq DOMAIN (pipe'[p])
  BY DEF ExInv
<1>1. {"ins", "valid"} \subseteq DOMAIN Empty
  BY DEF Empty
<1>2. \A w : {"ins", "valid"} \subseteq DOMAIN Issued(w)
  BY DEF Issued
<1>3. {"ins", "valid"} \subseteq DOMAIN Held(p)
  BY DEF Held, ExInv
<1>4. pipe'[p] \in {Empty, Held(p), Issued(0), Issued(1)}
  BY DEF Cycle, IssuedPair
<1>. QED  BY <1>1, <1>2, <1>3, <1>4

LEMMA IssueInit ==
  ASSUME Init
  PROVE  IssueInv
<1>1. QueueInv /\ size = 0
  BY QueueInit DEF Init
<1>2. ExInv
  BY DEF Init, ExInv, EX, Places, Empty
<1>. QED  BY <1>1, <1>2 DEF IssueInv, SlotsInv

LEMMA IssueNext ==
  ASSUME IssueInv, [Next]_vars
  PROVE  IssueInv'
<1>1. QueueInv'
  BY QueueNext DEF IssueInv
<1>2. CASE UNCHANGED vars
  <2>1. Waiting' = Waiting /\ size' = size /\ wait' = wait /\ pipe' = pipe
    BY <1>2 DEF Waiting, vars
  <2>2. SlotsInv'
    BY <2>1 DEF IssueInv, SlotsInv
  <2>3. ExInv'
    BY <2>1 DEF IssueInv, ExInv
  <2>. QED  BY <1>1, <2>2, <2>3 DEF IssueInv
<1>3. CASE Next
  <2>1. PICK flush \in BOOLEAN, stall \in BOOLEAN : Cycle(flush, stall)
    BY <1>3, CycleCases
  <2>2. ExInv'
    BY <2>1, ExNext DEF IssueInv
  <2>3. CASE flush
    <3>1. size' = 0
      BY <2>1, <2>3 DEF Cycle, FlushRing
    <3>. QED  BY <1>1, <2>2, <3>1 DEF IssueInv, SlotsInv
  <2>4. CASE ~flush
    <3>1. PICK g \in Groups : Ring(g, IF stall THEN 0 ELSE issue_instr_num)
      BY <2>1, <2>4 DEF Cycle
    <3>2. (IF stall THEN 0 ELSE issue_instr_num) \in 0 .. 2
          /\ (IF stall THEN 0 ELSE issue_instr_num) <= size
      BY IssueNumber DEF IssueInv, QueueInv, QueueTypeOK
    <3>. QED  BY <1>1, <2>2, <3>1, <3>2, SlotsRing DEF IssueInv
  <2>. QED  BY <2>3, <2>4
<1>. QED  BY <1>2, <1>3

-----------------------------------------------------------------------------
(* The refinement.                                                         *)

\* The queue after a cycle begins with what has stayed
LEMMA EnterRing ==
  ASSUME QueueInv, NEW g \in Groups, NEW n \in 0 .. 2, n <= size, Ring(g, n),
         NEW stay \in Seq(Program), Len(stay) = size - n,
         \A k \in 1 .. size - n : stay[k] = Waiting[k + n]
  PROVE  Order!Enter(stay)
<1>1. QueueInv'
  BY QueueRing
<1>2. Waiting' \in Seq(Program) /\ Len(Waiting') = size'
  BY <1>1, WaitingTypeNext
<1>3. Len(g) = 0 \/ Len(g) = 1 \/ Len(g) = 2
  BY GroupType DEF QueueInv
<1>4. size \in Int /\ size' = size + Len(g) - n /\ size' \in 0 .. IQ_LENGTH
      /\ size - n \in Nat
  BY <1>1, QueueAssumption DEF Ring, QueueInv, QueueTypeOK
<1>5. Len(Waiting') \in Len(stay) .. Len(stay) + 2 /\ Len(Waiting') <= IQ_LENGTH
  <2>1. size' = Len(stay) \/ size' = Len(stay) + 1 \/ size' = Len(stay) + 2
    <3>1. CASE Len(g) = 0
      BY <1>4, <3>1
    <3>2. CASE Len(g) = 1
      BY <1>4, <3>2
    <3>3. CASE Len(g) = 2
      BY <1>4, <3>3
    <3>. QED  BY <1>3, <3>1, <3>2, <3>3
  <2>2. size' \in Int /\ Len(stay) \in Int /\ size' <= IQ_LENGTH
    BY <1>4, QueueAssumption
  <2>. QED  BY <1>2, <2>1, <2>2
<1>6. SubSeq(Waiting', 1, Len(stay)) = stay
  <2>1. size - n <= size'
    BY <1>3, <1>4
  <2>2. \A k \in 1 .. size - n : Waiting'[k] \in Program
    <3>. SUFFICES ASSUME NEW k \in 1 .. size - n  PROVE Waiting'[k] \in Program
      OBVIOUS
    <3>1. k \in 1 .. Len(Waiting')
      BY <1>2, <1>4, <2>1, QueueAssumption
    <3>. QED  BY <1>2, <3>1, ElementOfSeq
  <2>3. /\ SubSeq(Waiting', 1, size - n) \in Seq(Program)
        /\ Len(SubSeq(Waiting', 1, size - n)) = size - n
        /\ \A k \in 1 .. size - n : SubSeq(Waiting', 1, size - n)[k] = Waiting'[k]
    BY <1>4, <2>2, SubSeqProperties
  <2>4. \A k \in 1 .. size - n : Waiting'[k] = stay[k]
    <3>. SUFFICES ASSUME NEW k \in 1 .. size - n  PROVE Waiting'[k] = stay[k]
      OBVIOUS
    <3>1. k \in 1 .. size' /\ k <= size - n
      BY <1>4, <2>1, QueueAssumption
    <3>2. Waiting'[k] = Waiting[k + n]
      BY <3>1, WaitingNext
    <3>. QED  BY <3>2
  <2>. QED  BY <2>3, <2>4, SeqEqual
<1>. QED  BY <1>5, <1>6 DEF Order!Enter

LEMMA RefinementInit ==
  ASSUME Init
  PROVE  Order!Init
<1>1. Waiting \in Seq(Program) /\ Len(Waiting) = 0
  BY QueueInit, WaitingType DEF Init
<1>2. Waiting = <<>>
  BY <1>1, EmptySeq
<1>3. ~pipe[0].valid /\ ~pipe[1].valid
  BY DEF Init, Places, Empty
<1>4. Executing = <<>>
  BY <1>3 DEF Executing
<1>. QED  BY <1>2, <1>4 DEF Order!Init

LEMMA TupleType ==
  ASSUME NEW S, NEW a \in S, NEW b \in S
  PROVE  /\ <<a>> \in Seq(S) /\ Len(<<a>>) = 1
         /\ <<a, b>> \in Seq(S) /\ Len(<<a, b>>) = 2
<1>1. <<a>> \in [1 .. 1 -> S] /\ <<a, b>> \in [1 .. 2 -> S]
  OBVIOUS
<1>2. 1 \in Nat /\ 2 \in Nat
  OBVIOUS
<1>. QED  BY <1>1, <1>2, SeqDef

LEMMA TupleConcat ==
  ASSUME NEW S, NEW a \in S, NEW b \in S
  PROVE  <<a>> \o <<>> = <<a>> /\ <<a>> \o <<b>> = <<a, b>>
<1>1. /\ <<a>> \in Seq(S) /\ <<b>> \in Seq(S) /\ <<a, b>> \in Seq(S)
      /\ Len(<<a>>) = 1 /\ Len(<<b>>) = 1 /\ Len(<<a, b>>) = 2
  BY TupleType
<1>2. /\ <<a>> \o <<b>> \in Seq(S)
      /\ Len(<<a>> \o <<b>>) = 2
      /\ \A k \in 1 .. 2 : (<<a>> \o <<b>>)[k] = IF k <= 1 THEN <<a>>[k] ELSE <<b>>[k - 1]
  BY <1>1, ConcatProperties
<1>3. (<<a>> \o <<b>>)[1] = a /\ (<<a>> \o <<b>>)[2] = b
  BY <1>2
<1>4. \A k \in 1 .. 2 : (<<a>> \o <<b>>)[k] = <<a, b>>[k]
  BY <1>3
<1>5. <<a>> \o <<b>> = <<a, b>>
  BY <1>1, <1>2, <1>4, SeqEqual
<1>6. <<a>> \o <<>> = <<a>>
  BY <1>1, ConcatEmptySeq
<1>. QED  BY <1>5, <1>6

\* The head of the queue is what the two ways look at
LEMMA Heads ==
  ASSUME QueueInv
  PROVE  /\ size >= 1 => queue_head(0).ins = Waiting[1] /\ Waiting[1] \in Program
         /\ size >= 2 => queue_head(1).ins = Waiting[2] /\ Waiting[2] \in Program
         /\ way0_valid => size >= 1
         /\ way1_valid => size >= 2
<1>1. size \in Nat
  BY DEF QueueInv, QueueTypeOK
<1>2. size >= 1 => queue_head(0).ins = Waiting[1] /\ Waiting[1] \in Program
  <2>. SUFFICES ASSUME size >= 1
       PROVE  queue_head(0).ins = Waiting[1] /\ Waiting[1] \in Program
    OBVIOUS
  <2>1. 1 \in 1 .. size /\ 1 - 1 = 0
    BY <1>1
  <2>. QED  BY <2>1, WaitingType, ElementOfSeq DEF queue_head
<1>3. size >= 2 => queue_head(1).ins = Waiting[2] /\ Waiting[2] \in Program
  <2>. SUFFICES ASSUME size >= 2
       PROVE  queue_head(1).ins = Waiting[2] /\ Waiting[2] \in Program
    OBVIOUS
  <2>1. 2 \in 1 .. size /\ 2 - 1 = 1
    BY <1>1
  <2>. QED  BY <2>1, WaitingType, ElementOfSeq DEF queue_head
<1>4. (way0_valid => size >= 1) /\ (way1_valid => size >= 2)
  BY <1>1, IssueNumber DEF issue_instr_num, way0_valid, way1_valid
<1>. QED  BY <1>2, <1>3, <1>4

\* A pair that issues may be executed together
LEMMA IssuedMayLeave ==
  ASSUME IssueInv
  PROVE  /\ issue_instr_num = 1 => Order!MayLeave(<<Waiting[1]>>)
         /\ issue_instr_num = 2 => Order!MayLeave(<<Waiting[1], Waiting[2]>>)
<1>. DEFINE i == Waiting[1]
            j == Waiting[2]
<1>1. ASSUME issue_instr_num = 1
      PROVE  Order!MayLeave(<<i>>)
  <2>1. way0_valid /\ ~way1_valid
    BY <1>1 DEF issue_instr_num
  <2>2. queue_head(0).ins = i
    BY <2>1, Heads DEF IssueInv
  <2>3. ~IsBranch(i)
    BY <2>1, <2>2 DEF way0_valid
  <2>4. i \notin Instructions({"branch", "likely", "link"})
    BY <2>3 DEF Instructions, IsBranch
  <2>5. Len(<<i>>) = 1 /\ <<i>>[1] = i
    OBVIOUS
  <2>. QED  BY <2>4, <2>5 DEF Order!MayLeave
<1>2. ASSUME issue_instr_num = 2
      PROVE  Order!MayLeave(<<i, j>>)
  <2>1. way1_valid
    BY <1>2 DEF issue_instr_num
  <2>2. queue_head(0).ins = i /\ queue_head(1).ins = j /\ size >= 2
        /\ i \in Program /\ j \in Program
    BY <2>1, Heads DEF IssueInv, way1_valid, way0_valid, QueueInv, QueueTypeOK
  <2>3. ~way1_stop /\ ~InClass(i, j) /\ Valid(1)
    BY <2>1, <2>2 DEF way1_valid, ready1
  <2>4. ~IsBranch(j)
    <3>1. 1 \in 1 .. size - 1 /\ 1 + 1 = 2
      BY <2>2 DEF IssueInv, QueueInv, QueueTypeOK
    <3>2. IsBranch(i) => j \in Slots[i.cls]
      BY <3>1 DEF IssueInv, SlotsInv
    <3>. QED  BY <2>2, <2>3, <3>2, SlotsAssumption DEF way1_stop
  <2>5. ~(IsAccmem(i) /\ IsAccmem(j)) /\ ~(i.cls = "mdu" /\ j.cls = "mdu")
        /\ ~(IsPriv(i) /\ IsPriv(j))
    BY <2>2, <2>3 DEF way1_stop
  <2>6. ASSUME NEW S \in {Instructions({"load", "merge", "store", "ll", "sc"}),
                          Instructions({"mdu"}),
                          Instructions({"mfc0", "mtc0", "trap", "eret"})}
        PROVE  ~(i \in S /\ j \in S)
    BY <2>5 DEF Instructions, IsAccmem, IsPriv
  <2>7. ~Order!Reads(j, i)
    BY <2>3 DEF InClass, Order!Reads
  <2>8. Len(<<i, j>>) = 2 /\ <<i, j>>[1] = i /\ <<i, j>>[2] = j
    OBVIOUS
  <2>9. j \notin Instructions({"branch", "likely", "link"})
    BY <2>4 DEF Instructions, IsBranch
  <2>. QED  BY <2>6, <2>7, <2>8, <2>9 DEF Order!MayLeave
<1>. QED  BY <1>1, <1>2

\* An issue is a step of IssueOrder
LEMMA RefinesIssue ==
  ASSUME IssueInv, Cycle(FALSE, FALSE)
  PROVE  Order!Issue
<1>. DEFINE n == issue_instr_num
            stay == SubSeq(Waiting, n + 1, Len(Waiting))
<1>1. QueueInv
  BY DEF IssueInv
<1>2. PICK g \in Groups : Ring(g, n)
  BY DEF Cycle
<1>3. n \in 0 .. 2 /\ n <= size /\ size \in Nat
  BY <1>1, IssueNumber DEF QueueInv, QueueTypeOK
<1>. HIDE DEF n
<1>4. Waiting \in Seq(Program) /\ Len(Waiting) = size
  BY <1>1, WaitingType
<1>5. Order!Enter(stay)
  <2>1. \A k \in n + 1 .. size : Waiting[k] \in Program
    <3>. SUFFICES ASSUME NEW k \in n + 1 .. size  PROVE Waiting[k] \in Program
      OBVIOUS
    <3>1. k \in 1 .. Len(Waiting)
      BY <1>3, <1>4
    <3>. QED  BY <1>4, <3>1, ElementOfSeq
  <2>2. /\ stay \in Seq(Program)
        /\ Len(stay) = IF n + 1 <= size THEN size - (n + 1) + 1 ELSE 0
        /\ \A k \in 1 .. size - (n + 1) + 1 : stay[k] = Waiting[(n + 1) + k - 1]
    BY <1>3, <1>4, <2>1, SubSeqProperties
  <2>3. Len(stay) = size - n
    BY <1>3, <2>2
  <2>4. \A k \in 1 .. size - n : stay[k] = Waiting[k + n]
    <3>. SUFFICES ASSUME NEW k \in 1 .. size - n  PROVE stay[k] = Waiting[k + n]
      OBVIOUS
    <3>1. k \in 1 .. size - (n + 1) + 1 /\ (n + 1) + k - 1 = k + n
      BY <1>3
    <3>. QED  BY <2>2, <3>1
  <2>. HIDE DEF stay
  <2>. QED  BY <1>1, <1>2, <1>3, <2>2, <2>3, <2>4, EnterRing
<1>6. /\ pipe'[1] = IF way0_valid THEN Issued(0) ELSE Empty
      /\ pipe'[0] = IF way1_valid THEN Issued(1) ELSE Empty
  BY DEF Cycle, EX, IssuedPair, Way0
<1>7. /\ Issued(0).valid /\ Issued(1).valid /\ ~Empty.valid
      /\ Issued(0).ins = queue_head(0).ins /\ Issued(1).ins = queue_head(1).ins
  BY DEF Issued, Empty
<1>8. Executing' = SubSeq(Waiting, 1, n) /\ Order!MayLeave(Executing')
  <2>1. CASE n = 0
    <3>1. ~way0_valid /\ ~way1_valid
      BY <2>1 DEF n, issue_instr_num, way0_valid, way1_valid
    <3>2. Executing' = <<>>
      BY <1>6, <1>7, <3>1 DEF Executing
    <3>3. SubSeq(Waiting, 1, n) = <<>>
      BY <2>1, SubSeqEmpty
    <3>4. Order!MayLeave(<<>>)
      BY DEF Order!MayLeave
    <3>. QED  BY <3>2, <3>3, <3>4
  <2>2. CASE n = 1
    <3>1. way0_valid /\ ~way1_valid
      BY <2>2 DEF n, issue_instr_num
    <3>2. queue_head(0).ins = Waiting[1] /\ Waiting[1] \in Program
      BY <1>1, <3>1, Heads
    <3>3. Executing' = <<Waiting[1]>>
      BY <1>6, <1>7, <3>1, <3>2, TupleConcat DEF Executing
    <3>4. SubSeq(Waiting, 1, n) = <<Waiting[1]>>
      <4>1. /\ SubSeq(Waiting, 1, 1) \in Seq(Program)
            /\ Len(SubSeq(Waiting, 1, 1)) = 1
            /\ SubSeq(Waiting, 1, 1)[1] = Waiting[1]
        BY <3>2, SubSeqProperties
      <4>2. /\ <<Waiting[1]>> \in Seq(Program) /\ Len(<<Waiting[1]>>) = 1
            /\ <<Waiting[1]>>[1] = Waiting[1]
        BY <3>2, TupleType
      <4>3. SubSeq(Waiting, 1, 1) = <<Waiting[1]>>
        <5>1. \A k \in 1 .. 1 : SubSeq(Waiting, 1, 1)[k] = <<Waiting[1]>>[k]
          BY <4>1, <4>2
        <5>. QED  BY <4>1, <4>2, <5>1, SeqEqual
      <4>. QED  BY <2>2, <4>3
    <3>. QED  BY <2>2, <3>3, <3>4, IssuedMayLeave DEF n
  <2>3. CASE n = 2
    <3>1. way0_valid /\ way1_valid
      BY <2>3 DEF n, issue_instr_num, way0_valid, way1_valid
    <3>2. /\ queue_head(0).ins = Waiting[1] /\ Waiting[1] \in Program
          /\ queue_head(1).ins = Waiting[2] /\ Waiting[2] \in Program
      BY <1>1, <1>3, <3>1, Heads
    <3>3. Executing' = <<Waiting[1], Waiting[2]>>
      BY <1>6, <1>7, <3>1, <3>2, TupleConcat DEF Executing
    <3>4. SubSeq(Waiting, 1, n) = <<Waiting[1], Waiting[2]>>
      <4>1. /\ SubSeq(Waiting, 1, 2) \in Seq(Program)
            /\ Len(SubSeq(Waiting, 1, 2)) = 2
            /\ SubSeq(Waiting, 1, 2)[1] = Waiting[1]
            /\ SubSeq(Waiting, 1, 2)[2] = Waiting[2]
        <5>1. \A k \in 1 .. 2 : Waiting[k] \in Program
          BY <3>2
        <5>2. /\ SubSeq(Waiting, 1, 2) \in Seq(Program)
              /\ Len(SubSeq(Waiting, 1, 2)) = IF 1 <= 2 THEN 2 - 1 + 1 ELSE 0
              /\ \A k \in 1 .. 2 - 1 + 1 : SubSeq(Waiting, 1, 2)[k] = Waiting[1 + k - 1]
          BY <5>1, SubSeqProperties
        <5>. QED  BY <5>2
      <4>2. /\ <<Waiting[1], Waiting[2]>> \in Seq(Program)
            /\ Len(<<Waiting[1], Waiting[2]>>) = 2
            /\ <<Waiting[1], Waiting[2]>>[1] = Waiting[1]
            /\ <<Waiting[1], Waiting[2]>>[2] = Waiting[2]
        BY <3>2, TupleType
      <4>3. SubSeq(Waiting, 1, 2) = <<Waiting[1], Waiting[2]>>
        <5>1. \A k \in 1 .. 2 : SubSeq(Waiting, 1, 2)[k] = <<Waiting[1], Waiting[2]>>[k]
          BY <4>1, <4>2
        <5>. QED  BY <4>1, <4>2, <5>1, SeqEqual
      <4>. QED  BY <2>3, <4>3
    <3>. QED  BY <2>3, <3>3, <3>4, IssuedMayLeave DEF n
  <2>. QED  BY <1>3, <2>1, <2>2, <2>3
<1>. QED  BY <1>3, <1>4, <1>5, <1>8 DEF Order!Issue

\* A stall is one too: EX keeps its pair
LEMMA RefinesHold ==
  ASSUME IssueInv, Cycle(FALSE, TRUE)
  PROVE  Order!Hold
<1>1. PICK g \in Groups : Ring(g, 0)
  BY DEF Cycle
<1>2. QueueInv /\ size \in Nat
  BY DEF IssueInv, QueueInv, QueueTypeOK
<1>3. Waiting \in Seq(Program) /\ Len(Waiting) = size
  BY <1>2, WaitingType
<1>4. Order!Enter(Waiting)
  <2>1. \A k \in 1 .. size - 0 : Waiting[k] = Waiting[k + 0]
    BY <1>2
  <2>2. 0 \in 0 .. 2 /\ 0 <= size /\ Len(Waiting) = size - 0
    BY <1>2, <1>3
  <2>. QED  BY <1>1, <1>2, <1>3, <2>1, <2>2, EnterRing
<1>5. \A p \in EX : pipe'[p].ins = pipe[p].ins /\ pipe'[p].valid = pipe[p].valid
  BY DEF Cycle, Held, IssueInv, ExInv
<1>6. Executing' = Executing
  BY <1>5 DEF Executing, EX
<1>. QED  BY <1>4, <1>6 DEF Order!Hold

LEMMA RefinesFlush ==
  ASSUME IssueInv, NEW stall, Cycle(TRUE, stall)
  PROVE  Order!Flush
<1>1. QueueInv' /\ size' = 0
  BY QueueFlush, SlotsAssumption DEF Cycle, FlushRing
<1>2. Waiting' \in Seq(Program) /\ Len(Waiting') = 0
  BY <1>1, WaitingTypeNext
<1>3. Waiting' = <<>>
  BY <1>2, EmptySeq
<1>4. ~pipe'[0].valid /\ ~pipe'[1].valid
  BY DEF Cycle, EX, Empty
<1>5. Executing' = <<>>
  BY <1>4 DEF Executing
<1>. QED  BY <1>3, <1>5 DEF Order!Flush

LEMMA RefinesNext ==
  ASSUME IssueInv, [Next]_vars
  PROVE  [Order!Next]_(Order!vars)
<1>1. CASE Next
  <2>1. PICK flush \in BOOLEAN, stall \in BOOLEAN : Cycle(flush, stall)
    BY <1>1, CycleCases
  <2>2. CASE flush = TRUE
    BY <2>1, <2>2, RefinesFlush DEF Order!Next
  <2>3. CASE flush = FALSE /\ stall = TRUE
    BY <2>1, <2>3, RefinesHold DEF Order!Next
  <2>4. CASE flush = FALSE /\ stall = FALSE
    BY <2>1, <2>4, RefinesIssue DEF Order!Next
  <2>. QED  BY <2>2, <2>3, <2>4
<1>2. CASE UNCHANGED vars
  BY <1>2 DEF vars, Order!vars, Waiting, Executing
<1>. QED  BY <1>1, <1>2

(* The ring, its scoreboard and the stalls and flushes of EX implement the *)
(* in-order dual issue of IssueOrder, for every length and every program.  *)
THEOREM IssueQueueImplementsIssueOrder == Spec => ImplementsIssueOrder
<1>1. Spec => []IssueInv
  BY IssueInit, IssueNext, PTL DEF Spec
<1>2. Init => Order!Init
  BY RefinementInit
<1>3. IssueInv /\ [Next]_vars => [Order!Next]_(Order!vars)
  BY RefinesNext
<1>. QED  BY <1>1, <1>2, <1>3, PTL DEF Spec, ImplementsIssueOrder, Order!Spec

-----------------------------------------------------------------------------
(* The stages behind the issue queue.                                      *)

Fields == {"ins", "valid", "exc", "acc", "flt", "priv", "dead", "wr", "dst",
           "Tnew", "data", "v"}

\* Two entries that may stand beside each other in EX, AT and DR: one access
\* at most, and nothing beside it that could take it back
Beside(o, y) ==
  /\ \A e \in {o, y} : e.acc => e.valid /\ ~e.exc /\ IsAccmem(e.ins)
  /\ ~(o.acc /\ y.acc)
  /\ IsPriv(o.ins) => ~y.acc
  /\ IsPriv(y.ins) => ~o.acc
  /\ o.exc => ~y.acc
  /\ o.ins.cls = "sc" /\ o.acc => ~y.exc

Records == \A p \in Places : Fields \subseteq DOMAIN pipe[p]

PairInv == Records /\ Beside(pipe[1], pipe[0]) /\ Beside(pipe[3], pipe[2])
                   /\ Beside(pipe[5], pipe[4])

\* A request that has been accepted belongs to an access that goes on
SentInv == req_completed => accessing /\ mem_acc

AnswerInv == PairInv /\ RequestsMatchAccesses /\ SentInv

-----------------------------------------------------------------------------
(* Pairs.                                                                  *)

LEMMA EmptyIsRecord ==
  /\ Fields \subseteq DOMAIN Empty
  /\ ~Empty.acc /\ ~Empty.exc /\ ~IsPriv(Empty.ins)
BY DEF Fields, Empty, NoInstr, IsPriv

LEMMA EmptyBeside == Beside(Empty, Empty)
BY EmptyIsRecord DEF Beside

\* The scoreboard lets no two instructions pass that may not stand together
LEMMA IssuedBeside ==
  /\ Beside(IssuedPair(1), IssuedPair(0))
  /\ \A p \in EX : Fields \subseteq DOMAIN IssuedPair(p)
<1>1. Way0(1) /\ ~Way0(0)
  BY DEF Way0
<1>2. \A w \in 0 .. 1 : Fields \subseteq DOMAIN Issued(w)
  BY DEF Issued, Fields
<1>3. \A p \in EX : Fields \subseteq DOMAIN IssuedPair(p)
  BY <1>1, <1>2, EmptyIsRecord DEF IssuedPair, EX
<1>4. CASE way1_valid
  <2> DEFINE i == queue_head(0).ins
             j == queue_head(1).ins
  <2>1. way0_valid
    BY <1>4 DEF way0_valid, way1_valid
  <2>2. Valid(1) /\ ~way1_stop
    BY <1>4 DEF way1_valid, ready1
  <2>3. /\ ~(IsAccmem(i) /\ IsAccmem(j))
        /\ ~IsPriv(i)
        /\ IsPriv(j) => IsBranch(i)
    BY <2>2 DEF way1_stop
  <2>4. IssuedPair(1) = Issued(0) /\ IssuedPair(0) = Issued(1)
    BY <1>1, <1>4, <2>1 DEF IssuedPair
  <2>5. /\ Issued(0).ins = i /\ (Issued(0).acc <=> IsAccmem(i)) /\ Issued(0).valid
        /\ Issued(0).exc <=> (i.cls = "trap")
        /\ Issued(1).ins = j /\ (Issued(1).acc <=> IsAccmem(j)) /\ Issued(1).valid
        /\ Issued(1).exc <=> (j.cls = "trap")
    BY DEF Issued
  <2>. QED  BY <1>3, <2>3, <2>4, <2>5 DEF Beside, IsAccmem, IsPriv, IsBranch
<1>5. CASE ~way1_valid
  <2>1. IssuedPair(0) = Empty /\ IssuedPair(1) \in {Issued(0), Empty}
    BY <1>1, <1>5 DEF IssuedPair
  <2>2. /\ Issued(0).acc <=> IsAccmem(Issued(0).ins)
        /\ Issued(0).valid
        /\ Issued(0).exc <=> Issued(0).ins.cls = "trap"
    BY DEF Issued
  <2>3. CASE IssuedPair(1) = Empty
    BY <1>3, <2>1, <2>3, EmptyBeside
  <2>4. CASE IssuedPair(1) = Issued(0)
    BY <1>3, <2>1, <2>2, <2>4, EmptyIsRecord DEF Beside, IsAccmem
  <2>. QED  BY <2>1, <2>3, <2>4
<1>. QED  BY <1>4, <1>5

\* What of an entry matters here
Same(e, f) == /\ Fields \subseteq DOMAIN e
              /\ e.ins = f.ins /\ e.acc = f.acc /\ e.exc = f.exc
              /\ e.valid = f.valid /\ e.flt = f.flt /\ e.dead = f.dead

LEMMA HeldSame ==
  ASSUME Records, NEW p \in Places
  PROVE  Same(Held(p), pipe[p])
BY DEF Records, Fields, Held, Same

LEMMA SameBeside ==
  ASSUME NEW o, NEW y, NEW u, NEW z, Same(u, o), Same(z, y), Beside(o, y)
  PROVE  Beside(u, z)
BY DEF Same, Beside

-----------------------------------------------------------------------------
(* What the stages make of an entry.                                       *)

LEMMA SquashedEntry ==
  ASSUME NEW e, Fields \subseteq DOMAIN e
  PROVE  /\ Fields \subseteq DOMAIN Squashed(e)
         /\ ~Squashed(e).acc /\ Squashed(e).ins = e.ins
         /\ Squashed(e).valid <=> e.valid
BY DEF Fields, Squashed

\* In EX an access stays one unless its address is misaligned, and only that
\* or an overflow raises an exception
LEMMA ExecutedEntry ==
  ASSUME Records, NEW p \in EX, NEW event, NEW annul
  PROVE  LET e == pipe[p]
             r == AfterEX(p, event, annul)
         IN /\ Fields \subseteq DOMAIN r
            /\ r.acc => e.acc /\ e.valid /\ r.valid /\ r.ins = e.ins /\ r.exc = e.exc
            /\ r.acc => (r.dead <=> annul /\ ~Way0(p))
            /\ IsPriv(r.ins) => IsPriv(e.ins)
            /\ r.exc => e.exc \/ e.acc \/ (e.ins.cls = "ov" /\ event)
            /\ r = Empty \/ r.valid
<1> DEFINE e == [pipe[p] EXCEPT !.v = Carried(p)]
           flushed == annul /\ ~Way0(p)
           meant == [e EXCEPT !.dead = flushed, !.dst = IF flushed THEN 0 ELSE @]
           r == AfterEX(p, event, annul)
<1>1. Fields \subseteq DOMAIN pipe[p]
  BY DEF Records, EX, Places
<1>2. /\ Fields \subseteq DOMAIN e
      /\ e.ins = pipe[p].ins /\ e.acc = pipe[p].acc /\ e.exc = pipe[p].exc
      /\ e.valid = pipe[p].valid /\ e.dead = pipe[p].dead
  BY <1>1 DEF Fields
<1>. HIDE DEF e
<1>3. /\ Fields \subseteq DOMAIN meant
      /\ meant.ins = e.ins /\ meant.acc = e.acc /\ meant.exc = e.exc
      /\ meant.valid = e.valid /\ (meant.dead <=> flushed)
  BY <1>2 DEF Fields
<1>. HIDE DEF meant
<1>4. CASE ~e.valid
  <2>1. r = Empty
    BY <1>4 DEF r, AfterEX, e
  <2>. QED  BY <2>1, EmptyIsRecord
<1>5. CASE e.valid /\ e.acc /\ event
  <2>1. r = Squashed(meant)
    BY <1>5 DEF r, AfterEX, e, meant
  <2>. QED  BY <1>2, <1>3, <1>5, <2>1, SquashedEntry
<1>6. CASE e.valid /\ e.acc /\ ~event
  <2>1. r = [meant EXCEPT !.Tnew = Dec(@)]
    BY <1>6 DEF r, AfterEX, e, meant
  <2>. QED  BY <1>2, <1>3, <1>6, <2>1 DEF Fields
<1>7. CASE e.valid /\ ~e.acc /\ flushed
  <2>1. r = Empty
    BY <1>7 DEF r, AfterEX, e
  <2>. QED  BY <2>1, EmptyIsRecord
<1>8. CASE e.valid /\ ~e.acc /\ ~flushed
  <2>1. CASE e.ins.cls = "mov" /\ event
    <3>1. r = [e EXCEPT !.wr = 0, !.dst = 0, !.Tnew = 0]
      BY <1>8, <2>1 DEF r, AfterEX, e
    <3>. QED  BY <1>2, <1>8, <3>1 DEF Fields
  <2>2. CASE e.ins.cls = "ov" /\ event
    <3>1. r = Squashed(e)
      BY <1>8, <2>2 DEF r, AfterEX, e
    <3>. QED  BY <1>2, <1>8, <2>2, <3>1, SquashedEntry
  <2>3. CASE ~(e.ins.cls = "mov" /\ event) /\ ~(e.ins.cls = "ov" /\ event)
    <3>1. \E t, d : r = [e EXCEPT !.Tnew = t, !.data = d]
      BY <1>8, <2>3 DEF r, AfterEX, e
    <3>2. PICK t, d : r = [e EXCEPT !.Tnew = t, !.data = d]
      BY <3>1
    <3>3. /\ Fields \subseteq DOMAIN r
          /\ r.ins = e.ins /\ r.acc = e.acc /\ r.exc = e.exc /\ r.valid = e.valid
      BY <1>2, <3>2 DEF Fields
    <3>. QED  BY <1>2, <1>8, <3>3
  <2>. QED  BY <2>1, <2>2, <2>3
<1>. QED  BY <1>4, <1>5, <1>6, <1>7, <1>8

\* In AT only a trap raises an exception
LEMMA TranslatedEntry ==
  ASSUME Records, NEW p \in AT, NEW event
  PROVE  LET e == pipe[p]
             r == AfterAT(p, event)
         IN /\ Fields \subseteq DOMAIN r
            /\ r.acc => e.acc /\ r.valid /\ r.ins = e.ins /\ r.dead = e.dead
            /\ IsPriv(r.ins) => IsPriv(e.ins)
            /\ r.exc => e.exc \/ e.ins.cls = "trap"
            /\ r = Empty \/ r.valid
<1> DEFINE e == [pipe[p] EXCEPT !.v = Carried(p), !.Tnew = Dec(@)]
           r == AfterAT(p, event)
<1>1. Fields \subseteq DOMAIN pipe[p]
  BY DEF Records, AT, Places
<1>2. /\ Fields \subseteq DOMAIN e
      /\ e.ins = pipe[p].ins /\ e.acc = pipe[p].acc /\ e.exc = pipe[p].exc
      /\ e.valid = pipe[p].valid /\ e.dead = pipe[p].dead
  BY <1>1 DEF Fields
<1>. HIDE DEF e
<1>3. CASE ~e.valid
  <2>1. r = Empty
    BY <1>3 DEF r, AfterAT, e
  <2>. QED  BY <2>1, EmptyIsRecord
<1>4. CASE e.valid /\ e.ins.cls = "trap"
  <2>1. r = [e EXCEPT !.exc = ~event]
    BY <1>4 DEF r, AfterAT, e
  <2>. QED  BY <1>2, <1>4, <2>1 DEF Fields
<1>5. CASE e.valid /\ e.ins.cls # "trap"
  <2>1. r = [e EXCEPT !.flt = e.acc /\ event]
    BY <1>5 DEF r, AfterAT, e
  <2>. QED  BY <1>2, <1>5, <2>1 DEF Fields
<1>. QED  BY <1>3, <1>4, <1>5

LEMMA ExecutedBeside ==
  ASSUME Records, PairedOverflow = FALSE, Beside(pipe[1], pipe[0]),
         NEW event \in [EX -> BOOLEAN], \A p \in EX : event[p] => Event(p),
         NEW annul
  PROVE  Beside(AfterEX(1, event[1], annul), AfterEX(0, event[0], annul))
<1> DEFINE o == pipe[1]
           y == pipe[0]
           u == AfterEX(1, event[1], annul)
           z == AfterEX(0, event[0], annul)
<1>1. /\ u.acc => o.acc /\ o.valid /\ u.valid /\ u.ins = o.ins /\ u.exc = o.exc
      /\ IsPriv(u.ins) => IsPriv(o.ins)
      /\ u.exc => o.exc \/ o.acc \/ (o.ins.cls = "ov" /\ event[1])
  BY ExecutedEntry DEF EX
<1>2. /\ z.acc => y.acc /\ y.valid /\ z.valid /\ z.ins = y.ins /\ z.exc = y.exc
      /\ IsPriv(z.ins) => IsPriv(y.ins)
      /\ z.exc => y.exc \/ y.acc \/ (y.ins.cls = "ov" /\ event[0])
  BY ExecutedEntry DEF EX
<1>3. o.ins.cls = "ov" /\ event[1] => o.acc \/ ~y.acc
  BY DEF Event, MayOverflow, EX
<1>4. y.ins.cls = "ov" /\ event[0] => y.acc \/ o.ins.cls # "sc"
  BY DEF Event, MayOverflow, EX
<1>. HIDE DEF u, z, o, y
<1>5. Beside(o, y)
  BY DEF o, y
<1>6. Beside(u, z)
  BY <1>1, <1>2, <1>3, <1>4, <1>5 DEF Beside
<1>. QED  BY <1>6 DEF u, z

LEMMA TranslatedBeside ==
  ASSUME Records, Beside(pipe[3], pipe[2]), NEW fault
  PROVE  Beside(AfterAT(3, fault[3]), AfterAT(2, fault[2]))
<1> DEFINE o == pipe[3]
           y == pipe[2]
           u == AfterAT(3, fault[3])
           z == AfterAT(2, fault[2])
<1>1. /\ u.acc => o.acc /\ u.valid /\ u.ins = o.ins
      /\ IsPriv(u.ins) => IsPriv(o.ins)
      /\ u.exc => o.exc \/ o.ins.cls = "trap"
  BY TranslatedEntry DEF AT
<1>2. /\ z.acc => y.acc /\ z.valid /\ z.ins = y.ins
      /\ IsPriv(z.ins) => IsPriv(y.ins)
      /\ z.exc => y.exc \/ y.ins.cls = "trap"
  BY TranslatedEntry DEF AT
<1>. HIDE DEF u, z, o, y
<1>3. Beside(o, y)
  BY DEF o, y
<1>4. Beside(u, z)
  BY <1>1, <1>2, <1>3 DEF Beside, IsPriv, IsAccmem
<1>. QED  BY <1>4 DEF u, z

-----------------------------------------------------------------------------
(* The access in DR.                                                       *)

\* The pair makes one access at most, so that one is selected
LEMMA SelectedIsTheAccess ==
  ASSUME Beside(pipe[5], pipe[4]), NEW p \in DR, pipe[p].acc
  PROVE  acc_mem = {p} /\ selected = p
<1>1. acc_mem = {p}
  BY DEF Beside, acc_mem, DR
<1>2. selected = p
  BY <1>1 DEF selected, Max, DR
<1>. QED  BY <1>1, <1>2

LEMMA NothingSelected ==
  ASSUME \A p \in DR : ~pipe[p].acc
  PROVE  acc_mem = {} /\ ~accessing
BY DEF acc_mem, accessing

LEMMA CheckedEntry ==
  ASSUME Records, NEW p \in DR, Beside(pipe[5], pipe[4])
  PROVE  LET c == Checked(p)
         IN /\ Fields \subseteq DOMAIN c
            /\ c.acc <=> pipe[p].acc /\ accessing
            /\ accessing => /\ c.exc <=> pipe[p].exc
                            /\ c.valid <=> pipe[p].valid
                            /\ c.ins = pipe[p].ins
<1>0. Fields \subseteq DOMAIN pipe[p]
  BY DEF Records, DR, Places
<1>1. CASE acc_mem = {}
  <2>1. Checked(p) = pipe[p] /\ ~accessing
    BY <1>1 DEF Checked, accessing
  <2>. QED  BY <1>0, <1>1, <2>1 DEF acc_mem
<1>2. CASE acc_mem # {}
  <2>1. PICK q \in DR : pipe[q].acc
    BY <1>2 DEF acc_mem
  <2>2. acc_mem = {q} /\ selected = q
    BY <2>1, SelectedIsTheAccess
  <2>3. accessing <=> ~pipe[q].flt /\ ~Unlinked(q)
    BY <2>2 DEF accessing
  <2>4. p # q => ~pipe[p].acc
    BY <2>2 DEF acc_mem
  <2>5. CASE pipe[q].flt /\ p = q
    <3>1. Checked(p) = Squashed(pipe[p])
      BY <2>2, <2>5 DEF Checked, DR
    <3>. QED  BY <1>0, <2>3, <2>5, <3>1, SquashedEntry
  <2>6. CASE pipe[q].flt /\ p < q
    <3>1. Checked(p) = Empty
      BY <2>2, <2>6 DEF Checked, DR
    <3>. QED  BY <2>3, <2>4, <2>6, <3>1, EmptyIsRecord
  <2>7. CASE ~(pipe[q].flt /\ p = q) /\ ~(pipe[q].flt /\ p < q)
    <3>1. Checked(p) = [pipe[p] EXCEPT !.acc = @ /\ ~Unlinked(p)]
      BY <2>2, <2>7 DEF Checked
    <3>2. p # q \/ ~pipe[q].flt
      BY <2>7
    <3>3. /\ Fields \subseteq DOMAIN Checked(p)
          /\ Checked(p).acc <=> pipe[p].acc /\ ~Unlinked(p)
          /\ Checked(p).exc = pipe[p].exc
          /\ Checked(p).valid = pipe[p].valid
          /\ Checked(p).ins = pipe[p].ins
      BY <1>0, <3>1 DEF Fields
    <3>. QED  BY <2>1, <2>3, <2>4, <3>2, <3>3
  <2>. QED  BY <2>5, <2>6, <2>7
<1>. QED  BY <1>1, <1>2

\* An access leaves DR with its pair, unless an exception before it is taken
LEMMA LeavingEntry ==
  ASSUME Records, NEW p \in DR, Beside(pipe[5], pipe[4]), NEW taken \in BOOLEAN
  PROVE  LET r == AfterDR(p, taken)
         IN /\ Fields \subseteq DOMAIN r
            /\ r.acc => pipe[p].acc /\ accessing
            /\ pipe[p].acc /\ accessing /\ (taken => priv_way) => r.acc
<1> DEFINE c == Checked(p)
           e == [c EXCEPT !.v = Carried(p), !.Tnew = Dec(@),
                          !.data = IF c.wr = 0 THEN FALSE
                                   ELSE CASE c.ins.cls = "mfc0" -> TRUE
                                          [] c.ins.cls = "sc"   -> ResultIsTrue
                                          [] OTHER              -> @]
           f == [e EXCEPT !.wr = 0, !.dst = 0]
           r == AfterDR(p, taken)
<1>1. /\ Fields \subseteq DOMAIN c
      /\ c.acc <=> pipe[p].acc /\ accessing
      /\ accessing => (c.valid <=> pipe[p].valid)
  BY CheckedEntry
<1>2. pipe[p].acc => pipe[p].valid
  BY DEF Beside, DR
<1>3. r = IF ~e.valid THEN Empty
          ELSE IF taken /\ priv_way /\ ~Way0(p) THEN f
          ELSE IF taken /\ ~priv_way THEN Empty
          ELSE e
  BY DEF AfterDR
<1>. HIDE DEF c, r
<1>4. Fields \subseteq DOMAIN e /\ (e.acc <=> c.acc) /\ (e.valid <=> c.valid)
  BY <1>1 DEF Fields
<1>. HIDE DEF e
<1>5. Fields \subseteq DOMAIN f /\ (f.acc <=> e.acc)
  BY <1>4 DEF Fields
<1>. HIDE DEF f
<1>6. \/ r = Empty /\ (~e.valid \/ (taken /\ ~priv_way))
      \/ r = f
      \/ r = e
  BY <1>3
<1>7. CASE r = Empty /\ (~e.valid \/ (taken /\ ~priv_way))
  <2>1. Fields \subseteq DOMAIN r /\ ~r.acc
    BY <1>7, EmptyIsRecord
  <2>2. ~(pipe[p].acc /\ accessing /\ (taken => priv_way))
    BY <1>1, <1>2, <1>4, <1>7
  <2>. QED  BY <2>1, <2>2 DEF r
<1>8. CASE r = f \/ r = e
  BY <1>1, <1>4, <1>5, <1>8 DEF r
<1>. QED  BY <1>6, <1>7, <1>8

LEMMA WrittenEntry ==
  ASSUME NEW p
  PROVE  Fields \subseteq DOMAIN AfterMEM(p)
BY DEF AfterMEM, Empty, Fields

\* No exception, interrupt or ERET that is taken beside the access in DR
\* comes before it, and none is taken beside an SC
LEMMA RedirectSparesAccess ==
  ASSUME Records, Beside(pipe[5], pipe[4]), accessing,
         exception_ori \/ dreq_ready_int \/ eret_jump
  PROVE  priv_way /\ selected = 5 /\ pipe[selected].ins.cls # "sc"
<1>1. PICK q \in DR : pipe[q].acc
  BY DEF accessing, acc_mem
<1>2. acc_mem = {q} /\ selected = q
  BY <1>1, SelectedIsTheAccess
<1>3. ~dreq_ready_int
  BY <1>2 DEF dreq_ready_int
<1>4. ~eret_jump
  BY <1>1 DEF eret_jump, DR, Beside, IsPriv, IsAccmem
<1>5. exception_ori
  BY <1>3, <1>4
<1>6. \A p \in DR : Checked(p).exc <=> pipe[p].exc
  BY CheckedEntry
<1>7. ~pipe[q].exc /\ (pipe[5].exc => ~pipe[4].acc)
  BY <1>1 DEF Beside, DR
<1>8. ~pipe[5].exc
  BY <1>1, <1>7 DEF DR
<1>9. priv_way /\ pipe[4].exc
  BY <1>5, <1>6, <1>8 DEF exception_ori, DR
<1>10. q = 5
  BY <1>7, <1>9 DEF DR
<1>. QED  BY <1>1, <1>2, <1>9, <1>10 DEF Beside

-----------------------------------------------------------------------------
(* A cycle keeps the pairs.                                                *)

\* What each stage register takes
LEMMA StageMoves ==
  ASSUME NEW addr_ok, NEW data_ok, NEW mdu, NEW event, NEW annul, NEW fault,
         NEW bp_fail, NEW exception,
         Stages(addr_ok, data_ok, mdu, event, annul, fault, bp_fail, exception)
  PROVE  LET memStall  == mem_stall(data_ok)
             dreqStall == dreq_stall(addr_ok, data_ok)
             execStall == mdu \/ dreqStall
             flushDR   == exception /\ (dreqStall => ~priv_way)
         IN /\ \A p \in EX : pipe'[p] = IF exception \/ bp_fail THEN Empty
                               ELSE IF execStall THEN Held(p) ELSE IssuedPair(p)
            /\ \A p \in AT : pipe'[p] = IF exception THEN Empty
                               ELSE IF dreqStall THEN Held(p)
                               ELSE IF execStall \/ bp_fail THEN Empty
                               ELSE AfterEX(p - 2, event[p - 2], annul)
            /\ \A p \in DR : pipe'[p] = IF flushDR THEN Empty
                               ELSE IF dreqStall THEN Held(p)
                               ELSE AfterAT(p - 2, fault[p - 2])
            /\ \A p \in MEM : pipe'[p] = IF memStall THEN Held(p)
                               ELSE IF dreqStall THEN Empty
                               ELSE AfterDR(p - 2, exception)
            /\ \A p \in WB : pipe'[p] = IF memStall THEN Empty ELSE AfterMEM(p - 2)
<1> DEFINE memStall  == mem_stall(data_ok)
           dreqStall == dreq_stall(addr_ok, data_ok)
           execStall == mdu \/ dreqStall
           flushDR   == exception /\ (dreqStall => ~priv_way)
<1>1. pipe' = [p \in Places |->
       CASE p \in EX  -> IF exception \/ bp_fail THEN Empty
                         ELSE IF execStall THEN Held(p) ELSE IssuedPair(p)
         [] p \in AT  -> IF exception THEN Empty
                         ELSE IF dreqStall THEN Held(p)
                         ELSE IF execStall \/ bp_fail THEN Empty
                         ELSE AfterEX(p - 2, event[p - 2], annul)
         [] p \in DR  -> IF flushDR THEN Empty
                         ELSE IF dreqStall THEN Held(p) ELSE AfterAT(p - 2, fault[p - 2])
         [] p \in MEM -> IF memStall THEN Held(p)
                         ELSE IF dreqStall THEN Empty ELSE AfterDR(p - 2, exception)
         [] OTHER     -> IF memStall THEN Empty ELSE AfterMEM(p - 2)]
  BY DEF Stages
<1>. HIDE DEF memStall, dreqStall, execStall, flushDR
<1>2. /\ EX \subseteq Places /\ AT \subseteq Places /\ DR \subseteq Places
      /\ MEM \subseteq Places /\ WB \subseteq Places
      /\ \A p \in EX : p \notin AT /\ p \notin DR /\ p \notin MEM
      /\ \A p \in AT : p \notin EX /\ p \notin DR /\ p \notin MEM
      /\ \A p \in DR : p \notin EX /\ p \notin AT /\ p \notin MEM
      /\ \A p \in MEM : p \notin EX /\ p \notin AT /\ p \notin DR
      /\ \A p \in WB : p \notin EX /\ p \notin AT /\ p \notin DR /\ p \notin MEM
  BY DEF EX, AT, DR, MEM, WB, Places
<1>3. \A p \in EX : pipe'[p] = IF exception \/ bp_fail THEN Empty
                               ELSE IF execStall THEN Held(p) ELSE IssuedPair(p)
  BY <1>1, <1>2
<1>4. \A p \in AT : pipe'[p] = IF exception THEN Empty
                               ELSE IF dreqStall THEN Held(p)
                               ELSE IF execStall \/ bp_fail THEN Empty
                               ELSE AfterEX(p - 2, event[p - 2], annul)
  BY <1>1, <1>2
<1>5. \A p \in DR : pipe'[p] = IF flushDR THEN Empty
                               ELSE IF dreqStall THEN Held(p)
                               ELSE AfterAT(p - 2, fault[p - 2])
  BY <1>1, <1>2
<1>6. \A p \in MEM : pipe'[p] = IF memStall THEN Held(p)
                                ELSE IF dreqStall THEN Empty
                                ELSE AfterDR(p - 2, exception)
  BY <1>1, <1>2
<1>7. \A p \in WB : pipe'[p] = IF memStall THEN Empty ELSE AfterMEM(p - 2)
  BY <1>1, <1>2
<1>. QED  BY <1>3, <1>4, <1>5, <1>6, <1>7 DEF memStall, dreqStall, execStall, flushDR

LEMMA PairsKept ==
  ASSUME PairInv, PairedOverflow = FALSE,
         NEW addr_ok, NEW data_ok, NEW mdu,
         NEW event \in [EX -> BOOLEAN], \A p \in EX : event[p] => Event(p),
         NEW annul, NEW fault, NEW bp_fail, NEW exception \in BOOLEAN,
         Stages(addr_ok, data_ok, mdu, event, annul, fault, bp_fail, exception)
  PROVE  PairInv'
<1>0. Records /\ Beside(pipe[1], pipe[0]) /\ Beside(pipe[3], pipe[2])
              /\ Beside(pipe[5], pipe[4])
  BY DEF PairInv
<1>1. /\ \/ \A p \in EX : pipe'[p] = Empty
         \/ \A p \in EX : pipe'[p] = Held(p)
         \/ \A p \in EX : pipe'[p] = IssuedPair(p)
      /\ \/ \A p \in AT : pipe'[p] = Empty
         \/ \A p \in AT : pipe'[p] = Held(p)
         \/ \A p \in AT : pipe'[p] = AfterEX(p - 2, event[p - 2], annul)
      /\ \/ \A p \in DR : pipe'[p] = Empty
         \/ \A p \in DR : pipe'[p] = Held(p)
         \/ \A p \in DR : pipe'[p] = AfterAT(p - 2, fault[p - 2])
      /\ \A p \in MEM : pipe'[p] \in {Held(p), Empty, AfterDR(p - 2, exception)}
      /\ \A p \in WB : pipe'[p] \in {Empty, AfterMEM(p - 2)}
  BY StageMoves
<1>2. \A p \in Places : Same(Held(p), pipe[p])
  BY <1>0, HeldSame
<1>3. \A p \in Places : Fields \subseteq DOMAIN Held(p)
  BY <1>2 DEF Same
<1>4. (\A p \in EX : Fields \subseteq DOMAIN pipe'[p]) /\ Beside(pipe'[1], pipe'[0])
  <2>1. CASE \A p \in EX : pipe'[p] = Empty
    BY <2>1, EmptyIsRecord, EmptyBeside DEF EX
  <2>2. CASE \A p \in EX : pipe'[p] = Held(p)
    <3>1. Beside(Held(1), Held(0))
      BY <1>0, <1>2, SameBeside DEF Places
    <3>. QED  BY <1>3, <2>2, <3>1 DEF EX, Places
  <2>3. CASE \A p \in EX : pipe'[p] = IssuedPair(p)
    BY <2>3, IssuedBeside DEF EX
  <2>. QED  BY <1>1, <2>1, <2>2, <2>3
<1>5. (\A p \in AT : Fields \subseteq DOMAIN pipe'[p]) /\ Beside(pipe'[3], pipe'[2])
  <2>1. CASE \A p \in AT : pipe'[p] = Empty
    BY <2>1, EmptyIsRecord, EmptyBeside DEF AT
  <2>2. CASE \A p \in AT : pipe'[p] = Held(p)
    <3>1. Beside(Held(3), Held(2))
      BY <1>0, <1>2, SameBeside DEF Places
    <3>. QED  BY <1>3, <2>2, <3>1 DEF AT, Places
  <2>3. CASE \A p \in AT : pipe'[p] = AfterEX(p - 2, event[p - 2], annul)
    <3>1. /\ pipe'[3] = AfterEX(1, event[1], annul)
          /\ pipe'[2] = AfterEX(0, event[0], annul)
      <4>1. 3 \in AT /\ 2 \in AT /\ 3 - 2 = 1 /\ 2 - 2 = 0
        BY DEF AT
      <4>. QED  BY <2>3, <4>1
    <3>2. \A p \in EX : Fields \subseteq DOMAIN AfterEX(p, event[p], annul)
      BY <1>0, ExecutedEntry
    <3>3. Beside(AfterEX(1, event[1], annul), AfterEX(0, event[0], annul))
      BY <1>0, ExecutedBeside
    <3>. QED  BY <3>1, <3>2, <3>3 DEF EX, AT
  <2>. QED  BY <1>1, <2>1, <2>2, <2>3
<1>6. (\A p \in DR : Fields \subseteq DOMAIN pipe'[p]) /\ Beside(pipe'[5], pipe'[4])
  <2>1. CASE \A p \in DR : pipe'[p] = Empty
    BY <2>1, EmptyIsRecord, EmptyBeside DEF DR
  <2>2. CASE \A p \in DR : pipe'[p] = Held(p)
    <3>1. Beside(Held(5), Held(4))
      BY <1>0, <1>2, SameBeside DEF Places
    <3>. QED  BY <1>3, <2>2, <3>1 DEF DR, Places
  <2>3. CASE \A p \in DR : pipe'[p] = AfterAT(p - 2, fault[p - 2])
    <3>1. /\ pipe'[5] = AfterAT(3, fault[3])
          /\ pipe'[4] = AfterAT(2, fault[2])
      <4>1. 5 \in DR /\ 4 \in DR /\ 5 - 2 = 3 /\ 4 - 2 = 2
        BY DEF DR
      <4>. QED  BY <2>3, <4>1
    <3>2. \A p \in AT : Fields \subseteq DOMAIN AfterAT(p, fault[p])
      BY <1>0, TranslatedEntry
    <3>3. Beside(AfterAT(3, fault[3]), AfterAT(2, fault[2]))
      BY <1>0, TranslatedBeside
    <3>. QED  BY <3>1, <3>2, <3>3 DEF DR, AT
  <2>. QED  BY <1>1, <2>1, <2>2, <2>3
<1>7. \A p \in MEM : Fields \subseteq DOMAIN pipe'[p]
  <2>1. \A p \in DR : Fields \subseteq DOMAIN AfterDR(p, exception)
    BY <1>0, LeavingEntry
  <2>2. \A p \in MEM : p - 2 \in DR /\ p \in Places
    BY DEF MEM, DR, Places
  <2>. QED  BY <1>1, <1>3, <2>1, <2>2, EmptyIsRecord
<1>8. \A p \in WB : Fields \subseteq DOMAIN pipe'[p]
  BY <1>1, EmptyIsRecord, WrittenEntry
<1>9. \A p \in Places : p \in EX \/ p \in AT \/ p \in DR \/ p \in MEM \/ p \in WB
  BY DEF EX, AT, DR, MEM, WB, Places
<1>10. Records'
  BY <1>4, <1>5, <1>6, <1>7, <1>8, <1>9 DEF Records
<1>. QED  BY <1>4, <1>5, <1>6, <1>10 DEF PairInv

-----------------------------------------------------------------------------
(* A cycle keeps the answers with their accesses.                          *)

LEMMA MaxOfOne ==
  ASSUME NEW q \in DR
  PROVE  Max({q}) = q
BY DEF Max, DR

LEMMA OfferedIsGuarded ==
  ASSUME NEW cond \in BOOLEAN, NEW x \in Offered(cond)
  PROVE  x \in BOOLEAN /\ (x => cond)
<1>1. CASE cond
  BY <1>1 DEF Offered
<1>2. CASE ~cond
  <2>1. x = FALSE
    BY <1>2 DEF Offered
  <2>. QED  BY <2>1
<1>. QED  BY <1>1, <1>2

LEMMA AnswersKept ==
  ASSUME AnswerInv,
         NEW addr_ok \in Offered(data_req), NEW data_ok \in Offered(bus > 0),
         NEW mdu, NEW event, NEW annul, NEW fault, NEW bp_fail,
         NEW exception \in BOOLEAN,
         exception => exception_ori \/ dreq_ready_int \/ eret_jump,
         Handshake(addr_ok, data_ok), Link(addr_ok, exception),
         Stages(addr_ok, data_ok, mdu, event, annul, fault, bp_fail, exception)
  PROVE  RequestsMatchAccesses' /\ SentInv'
<1> DEFINE accepted == data_req /\ addr_ok
<1>0. Records /\ Beside(pipe[5], pipe[4])
  BY DEF AnswerInv, PairInv
<1>1. /\ bus = (IF req_completed THEN 1 ELSE 0) + (IF mem_acc THEN 1 ELSE 0)
      /\ ~save_data_data_ok
      /\ req_completed => accessing /\ mem_acc
  BY DEF AnswerInv, RequestsMatchAccesses, SentInv
<1>2. data_ok \in BOOLEAN /\ (data_ok => mem_acc)
  <2>1. (bus > 0) => mem_acc
    BY <1>1
  <2>2. (bus > 0) \in BOOLEAN
    OBVIOUS
  <2>. QED  BY <2>1, <2>2, OfferedIsGuarded
<1>3. bus' = bus + (IF accepted THEN 1 ELSE 0) - (IF data_ok THEN 1 ELSE 0)
  BY DEF Handshake
<1>4. ~save_data_data_ok'
  <2>1. CASE data_ok
    <3>1. save_data_data_ok' = ~mem_acc
      BY <1>1, <2>1 DEF Handshake
    <3>. QED  BY <1>2, <2>1, <3>1
  <2>2. CASE ~data_ok
    <3>1. save_data_data_ok' = save_data_data_ok
      BY <1>1, <2>2 DEF Handshake
    <3>. QED  BY <1>1, <3>1
  <2>. QED  BY <2>1, <2>2
<1>5. accepted => accessing /\ ~req_completed
  BY DEF data_req
<1>6. \A p \in MEM : pipe'[p] = IF mem_stall(data_ok) THEN Held(p)
                                ELSE IF dreq_stall(addr_ok, data_ok) THEN Empty
                                ELSE AfterDR(p - 2, exception)
  BY StageMoves
<1>7. accessing /\ exception => priv_way /\ pipe[selected].ins.cls # "sc"
  BY <1>0, RedirectSparesAccess
<1>. HIDE DEF accepted
<1>8. CASE mem_stall(data_ok)
  <2>1. mem_acc /\ ~data_ok
    BY <1>8 DEF mem_stall
  <2>2. req_completed' <=> req_completed \/ accepted
    BY <1>8 DEF Handshake, accepted
  <2>3. mem_acc'
    <3>1. PICK p \in MEM : pipe[p].acc
      BY <2>1 DEF mem_acc
    <3>2. pipe'[p] = Held(p) /\ Same(Held(p), pipe[p])
      BY <1>0, <1>6, <1>8, HeldSame DEF MEM, Places
    <3>. QED  BY <3>1, <3>2 DEF mem_acc, Same
  <2>4. ASSUME req_completed'
        PROVE  accessing' /\ acc_mem' # {}
    <3>1. accessing
      BY <1>1, <1>5, <2>2, <2>4
    <3>2. PICK q \in DR : pipe[q].acc
      BY <3>1 DEF accessing, acc_mem
    <3>3. acc_mem = {q} /\ selected = q
      BY <1>0, <3>2, SelectedIsTheAccess
    <3>4. \A p \in DR : pipe'[p] = Held(p)
      <4>1. dreq_stall(addr_ok, data_ok)
        BY <1>8 DEF dreq_stall
      <4>2. \A p \in DR : pipe'[p] =
              IF exception /\ (dreq_stall(addr_ok, data_ok) => ~priv_way) THEN Empty
              ELSE IF dreq_stall(addr_ok, data_ok) THEN Held(p)
              ELSE AfterAT(p - 2, fault[p - 2])
        BY StageMoves
      <4>. QED  BY <1>7, <3>1, <4>1, <4>2
    <3>5. \A p \in DR : /\ pipe'[p].acc = pipe[p].acc
                        /\ pipe'[p].flt = pipe[p].flt
                        /\ pipe'[p].ins = pipe[p].ins
      BY <1>0, <3>4, HeldSame DEF Same, DR, Places
    <3>6. acc_mem' = {q}
      BY <3>3, <3>5 DEF acc_mem
    <3>7. selected' = q
      BY <3>6, MaxOfOne DEF selected
    <3>8. ~pipe[q].flt /\ ~Unlinked(q)
      BY <3>1, <3>3 DEF accessing
    <3>9. pipe[q].ins.cls = "sc" => LLbit'
      <4>1. ASSUME pipe[q].ins.cls = "sc"
            PROVE  LLbit'
        <5>1. LLbit
          BY <3>8, <4>1 DEF Unlinked
        <5>2. ~exception
          BY <1>7, <3>1, <3>3, <4>1
        <5>. QED  BY <3>3, <4>1, <5>1, <5>2 DEF Link
      <4>. QED  BY <4>1
    <3>10. ~pipe'[q].flt /\ ~(pipe'[q].ins.cls = "sc" /\ ~LLbit')
      BY <3>5, <3>8, <3>9
    <3>. QED  BY <3>6, <3>7, <3>10 DEF accessing, Unlinked
  <2>5. bus' = (IF req_completed' THEN 1 ELSE 0) + (IF mem_acc' THEN 1 ELSE 0)
    BY <1>1, <1>3, <1>5, <2>1, <2>2, <2>3
  <2>. QED  BY <1>4, <2>3, <2>4, <2>5 DEF RequestsMatchAccesses, SentInv
<1>9. CASE ~mem_stall(data_ok)
  <2>1. data_ok <=> mem_acc
    BY <1>1, <1>2, <1>9 DEF mem_stall
  <2>2. ~req_completed'
    BY <1>9 DEF Handshake
  <2>3. mem_acc' <=> req_completed \/ accepted
    <3>1. CASE dreq_stall(addr_ok, data_ok)
      <4>1. ~addr_ok /\ ~req_completed
        BY <1>9, <3>1 DEF dreq_stall
      <4>2. \A p \in MEM : ~pipe'[p].acc
        BY <1>6, <1>9, <3>1, EmptyIsRecord
      <4>. QED  BY <4>1, <4>2 DEF mem_acc, accepted
    <3>2. CASE ~dreq_stall(addr_ok, data_ok)
      <4>1. accessing <=> req_completed \/ accepted
        BY <1>1, <1>5, <3>2 DEF dreq_stall, accepted, data_req
      <4>2. \A p \in MEM : p - 2 \in DR /\ pipe'[p] = AfterDR(p - 2, exception)
        BY <1>6, <1>9, <3>2 DEF MEM, DR
      <4>3. mem_acc' => accessing
        BY <1>0, <4>2, LeavingEntry DEF mem_acc
      <4>4. accessing => mem_acc'
        <5>1. SUFFICES ASSUME accessing PROVE mem_acc'
          OBVIOUS
        <5>2. PICK q \in DR : pipe[q].acc
          BY <5>1 DEF accessing, acc_mem
        <5>3. AfterDR(q, exception).acc
          BY <1>0, <1>7, <5>1, <5>2, LeavingEntry
        <5>4. q + 2 \in MEM /\ (q + 2) - 2 = q
          BY DEF MEM, DR
        <5>5. pipe'[q + 2] = AfterDR(q, exception)
          BY <4>2, <5>4
        <5>. QED  BY <5>3, <5>4, <5>5 DEF mem_acc
      <4>. QED  BY <4>1, <4>3, <4>4
    <3>. QED  BY <3>1, <3>2
  <2>4. bus' = (IF req_completed' THEN 1 ELSE 0) + (IF mem_acc' THEN 1 ELSE 0)
    BY <1>1, <1>3, <1>5, <2>1, <2>2, <2>3
  <2>. QED  BY <1>4, <2>2, <2>4 DEF RequestsMatchAccesses, SentInv
<1>. QED  BY <1>8, <1>9

-----------------------------------------------------------------------------
(* What every cycle has in common.                                         *)

ClockCycle(addr_ok, data_ok, mdu, event, annul, fault, bp_fail, exception) ==
  /\ addr_ok \in Offered(data_req) /\ data_ok \in Offered(bus > 0)
  /\ event \in [EX -> BOOLEAN] /\ \A p \in EX : event[p] => Event(p)
  /\ annul => pipe[1].ins.cls = "likely"
  /\ exception \in BOOLEAN
  /\ exception => exception_ori \/ dreq_ready_int \/ eret_jump
  /\ Handshake(addr_ok, data_ok)
  /\ Link(addr_ok, exception)
  /\ Stages(addr_ok, data_ok, mdu, event, annul, fault, bp_fail, exception)

LEMMA NextIsClockCycle ==
  ASSUME Next
  PROVE  \E addr_ok, data_ok, mdu, event, annul, fault, bp_fail, exception :
           ClockCycle(addr_ok, data_ok, mdu, event, annul, fault, bp_fail, exception)
<1>1. PICK addr_ok \in Offered(data_req), data_ok \in Offered(bus > 0),
           mdu \in Offered(\E p \in EX : pipe[p].ins.cls = "mdu") :
        /\ Handshake(addr_ok, data_ok)
        /\ WriteBack
        /\ \/ /\ Link(addr_ok, FALSE)
              /\ \E fault \in [AT -> BOOLEAN] :
                   /\ \A p \in AT : fault[p] => Fault(p)
                   /\ \/ \E event \in [EX -> BOOLEAN], annul \in Offered(Untaken) :
                           /\ \A p \in EX : event[p] => Event(p)
                           /\ Advance(addr_ok, data_ok, mdu, event, annul, fault)
                      \/ Mispredict(addr_ok, data_ok, mdu, fault)
           \/ /\ Link(addr_ok, TRUE)
              /\ Redirect(addr_ok, data_ok, mdu)
  BY DEF Next
<1> DEFINE quiet == [p \in EX |-> FALSE]
           none  == [p \in AT |-> FALSE]
<1>2. quiet \in [EX -> BOOLEAN] /\ \A p \in EX : quiet[p] => Event(p)
  OBVIOUS
<1>3. ASSUME NEW fault, NEW event \in [EX -> BOOLEAN], NEW annul \in Offered(Untaken),
             \A p \in EX : event[p] => Event(p), Link(addr_ok, FALSE),
             Advance(addr_ok, data_ok, mdu, event, annul, fault)
      PROVE  ClockCycle(addr_ok, data_ok, mdu, event, annul, fault, FALSE, FALSE)
  <2>1. annul => pipe[1].ins.cls = "likely"
    <3>1. Untaken \in BOOLEAN
      BY DEF Untaken
    <3>. QED  BY <3>1, OfferedIsGuarded DEF Untaken
  <2>. QED  BY <1>1, <1>3, <2>1 DEF ClockCycle, Advance
<1>. HIDE DEF quiet, none
<1>4. ASSUME NEW fault, Link(addr_ok, FALSE), Mispredict(addr_ok, data_ok, mdu, fault)
      PROVE  ClockCycle(addr_ok, data_ok, mdu, quiet, FALSE, fault, TRUE, FALSE)
  <2>1. Stages(addr_ok, data_ok, mdu, quiet, FALSE, fault, TRUE, FALSE)
    BY <1>4 DEF Mispredict, quiet
  <2>. QED  BY <1>1, <1>2, <1>4, <2>1 DEF ClockCycle
<1>5. ASSUME Link(addr_ok, TRUE), Redirect(addr_ok, data_ok, mdu)
      PROVE  ClockCycle(addr_ok, data_ok, mdu, quiet, FALSE, none, FALSE, TRUE)
  <2>1. /\ Stages(addr_ok, data_ok, mdu, quiet, FALSE, none, FALSE, TRUE)
        /\ exception_ori \/ dreq_ready_int \/ eret_jump
    BY <1>5 DEF Redirect, quiet, none
  <2>. QED  BY <1>1, <1>2, <1>5, <2>1 DEF ClockCycle
<1>. QED  BY <1>1, <1>3, <1>4, <1>5

-----------------------------------------------------------------------------
(* A drained pipeline.                                                     *)

\* What does not hold an instruction writes no register
BubbleInv == \A p \in Places : ~pipe[p].valid => pipe[p].wr = 0

LEMMA CheckedRecord ==
  ASSUME Records, NEW p \in DR
  PROVE  Fields \subseteq DOMAIN Checked(p)
<1> DEFINE e == pipe[p]
<1>1. Fields \subseteq DOMAIN e
  BY DEF Records, DR, Places
<1>2. \/ Checked(p) = e
      \/ Checked(p) = Empty
      \/ Checked(p) = [e EXCEPT !.acc = @ /\ ~Unlinked(p)]
      \/ Checked(p) = Squashed(e)
  <2>1. CASE acc_mem = {}
    BY <2>1 DEF Checked
  <2>2. CASE acc_mem # {} /\ pipe[selected].flt /\ p = selected
    <3>1. ~(p < selected)
      BY <2>2 DEF DR
    <3>. QED  BY <2>2, <3>1 DEF Checked
  <2>3. CASE acc_mem # {} /\ pipe[selected].flt /\ p # selected /\ p < selected
    BY <2>3 DEF Checked
  <2>4. CASE acc_mem # {} /\ ~(pipe[selected].flt /\ p = selected)
                          /\ ~(pipe[selected].flt /\ p < selected)
    BY <2>4 DEF Checked
  <2>. QED  BY <2>1, <2>2, <2>3, <2>4
<1>3. Fields \subseteq DOMAIN [e EXCEPT !.acc = @ /\ ~Unlinked(p)]
  BY <1>1 DEF Fields
<1>. QED  BY <1>1, <1>2, <1>3, EmptyIsRecord, SquashedEntry

LEMMA LeavingRecord ==
  ASSUME Records, NEW p \in DR, NEW taken
  PROVE  LET r == AfterDR(p, taken)
         IN Fields \subseteq DOMAIN r /\ (r = Empty \/ r.valid)
<1> DEFINE c == Checked(p)
           e == [c EXCEPT !.v = Carried(p), !.Tnew = Dec(@),
                          !.data = IF c.wr = 0 THEN FALSE
                                   ELSE CASE c.ins.cls = "mfc0" -> TRUE
                                          [] c.ins.cls = "sc"   -> ResultIsTrue
                                          [] OTHER              -> @]
           f == [e EXCEPT !.wr = 0, !.dst = 0]
           r == AfterDR(p, taken)
<1>1. Fields \subseteq DOMAIN c
  BY CheckedRecord
<1>2. r = IF ~e.valid THEN Empty
          ELSE IF taken /\ priv_way /\ ~Way0(p) THEN f
          ELSE IF taken /\ ~priv_way THEN Empty
          ELSE e
  BY DEF AfterDR
<1>. HIDE DEF c, r
<1>3. Fields \subseteq DOMAIN e
  BY <1>1 DEF Fields
<1>. HIDE DEF e
<1>4. Fields \subseteq DOMAIN f /\ f.valid = e.valid
  BY <1>3 DEF Fields
<1>. HIDE DEF f
<1>5. r = Empty \/ (e.valid /\ (r = e \/ r = f))
  BY <1>2
<1>6. CASE r = Empty
  BY <1>6, EmptyIsRecord DEF r
<1>7. CASE e.valid /\ (r = e \/ r = f)
  BY <1>3, <1>4, <1>7 DEF r
<1>. QED  BY <1>5, <1>6, <1>7

LEMMA BubblesKept ==
  ASSUME Records, BubbleInv,
         NEW addr_ok, NEW data_ok, NEW mdu, NEW event, NEW annul, NEW fault,
         NEW bp_fail, NEW exception,
         Stages(addr_ok, data_ok, mdu, event, annul, fault, bp_fail, exception)
  PROVE  Records' /\ BubbleInv'
<1> DEFINE Fine(r) == Fields \subseteq DOMAIN r /\ (~r.valid => r.wr = 0)
<1>1. Fine(Empty)
  BY EmptyIsRecord DEF Empty
<1>2. \A p \in Places : Fine(Held(p))
  <2>. SUFFICES ASSUME NEW p \in Places PROVE Fine(Held(p))
    OBVIOUS
  <2>1. Fields \subseteq DOMAIN pipe[p] /\ (~pipe[p].valid => pipe[p].wr = 0)
    BY DEF Records, BubbleInv
  <2>. QED  BY <2>1 DEF Held, Fields
<1>3. \A p \in EX : Fine(IssuedPair(p))
  <2>1. \A w : Issued(w).valid
    BY DEF Issued
  <2>. QED  BY <1>1, <2>1, IssuedBeside DEF IssuedPair
<1>4. \A p \in EX : Fine(AfterEX(p, event[p], annul))
  BY <1>1, ExecutedEntry
<1>5. \A p \in AT : Fine(AfterAT(p, fault[p]))
  BY <1>1, TranslatedEntry
<1>6. \A p \in DR : Fine(AfterDR(p, exception))
  BY <1>1, LeavingRecord
<1>7. \A p \in MEM : Fine(AfterMEM(p))
  <2>. SUFFICES ASSUME NEW p \in MEM PROVE Fine(AfterMEM(p))
    OBVIOUS
  <2>1. ~pipe[p].valid => pipe[p].wr = 0
    BY DEF BubbleInv, MEM, Places
  <2>2. AfterMEM(p).valid = pipe[p].valid /\ AfterMEM(p).wr = pipe[p].wr
    BY DEF AfterMEM, Empty
  <2>. QED  BY <2>1, <2>2, WrittenEntry
<1>. HIDE DEF Fine
<1>8. \A p \in EX : pipe'[p] \in {Empty, Held(p), IssuedPair(p)}
  BY StageMoves
<1>9. \A p \in AT : pipe'[p] \in {Empty, Held(p), AfterEX(p - 2, event[p - 2], annul)}
  BY StageMoves
<1>10. \A p \in DR : pipe'[p] \in {Empty, Held(p), AfterAT(p - 2, fault[p - 2])}
  BY StageMoves
<1>11. \A p \in MEM : pipe'[p] \in {Empty, Held(p), AfterDR(p - 2, exception)}
  BY StageMoves
<1>12. \A p \in WB : pipe'[p] \in {Empty, AfterMEM(p - 2)}
  BY StageMoves
<1>13. /\ \A p \in AT : p - 2 \in EX
       /\ \A p \in DR : p - 2 \in AT
       /\ \A p \in MEM : p - 2 \in DR
       /\ \A p \in WB : p - 2 \in MEM
       /\ \A p \in Places : p \in EX \/ p \in AT \/ p \in DR \/ p \in MEM \/ p \in WB
  BY DEF EX, AT, DR, MEM, WB, Places
<1>14. \A p \in Places : Fine(pipe'[p])
  <2>. SUFFICES ASSUME NEW p \in Places PROVE Fine(pipe'[p])
    OBVIOUS
  <2>1. CASE p \in EX
    BY <1>1, <1>2, <1>3, <1>8, <2>1
  <2>2. CASE p \in AT
    BY <1>1, <1>2, <1>4, <1>9, <1>13, <2>2
  <2>3. CASE p \in DR
    BY <1>1, <1>2, <1>5, <1>10, <1>13, <2>3
  <2>4. CASE p \in MEM
    BY <1>1, <1>2, <1>6, <1>11, <1>13, <2>4
  <2>5. CASE p \in WB
    BY <1>1, <1>7, <1>12, <1>13, <2>5
  <2>. QED  BY <1>13, <2>1, <2>2, <2>3, <2>4, <2>5
<1>. QED  BY <1>14 DEF Fine, Records, BubbleInv

DrainInv == IssueInv /\ Records /\ BubbleInv

LEMMA DrainInit ==
  ASSUME Init
  PROVE  DrainInv
<1>1. pipe = [p \in Places |-> Empty]
  BY DEF Init
<1>2. \A p \in Places : pipe[p] = Empty
  BY <1>1
<1>3. Empty.wr = 0
  BY DEF Empty
<1>. QED  BY <1>2, <1>3, IssueInit, EmptyIsRecord DEF DrainInv, Records, BubbleInv

LEMMA DrainStep ==
  ASSUME DrainInv, [Next]_vars
  PROVE  DrainInv'
<1>1. IssueInv'
  BY IssueNext DEF DrainInv
<1>2. CASE UNCHANGED vars
  BY <1>1, <1>2 DEF DrainInv, Records, BubbleInv, vars
<1>3. CASE Next
  <2>1. PICK addr_ok, data_ok, mdu, event, annul, fault, bp_fail, exception :
          ClockCycle(addr_ok, data_ok, mdu, event, annul, fault, bp_fail, exception)
    BY <1>3, NextIsClockCycle
  <2>. QED  BY <1>1, <2>1, BubblesKept DEF ClockCycle, DrainInv
<1>. QED  BY <1>2, <1>3

\* The slot of a branch does not read what the branch writes
LinksUnread ==
  \A i \in Program : IsBranch(i) => \A j \in Slots[i.cls] : ~InClass(i, j)

LEMMA DrainedSafe ==
  ASSUME DrainInv, LinksUnread
  PROVE  DrainedHeadIssues
<1>. SUFFICES ASSUME size > 0, \A p \in Places : ~pipe[p].valid,
                     ~(size = 1 /\ IsBranch(queue_head(0).ins))
     PROVE  way0_valid
  BY DEF DrainedHeadIssues
<1> DEFINE i == queue_head(0).ins
           j == queue_head(1).ins
<1>0. size \in Nat /\ size <= IQ_LENGTH
  BY DEF DrainInv, IssueInv, QueueInv, QueueTypeOK
<1>1. \A n : Waken(n)
  <2>1. \A p \in Places : pipe[p].wr = 0
    BY DEF DrainInv, BubbleInv
  <2>. QED  BY <2>1 DEF Waken, Late
<1>2. i = Waiting[1] /\ i \in Program
  BY <1>0, Heads DEF DrainInv, IssueInv
<1>3. Valid(0)
  BY <1>0, QueueAssumption DEF DrainInv, IssueInv, QueueInv, RingHoldsQueue, Valid, queue_head
<1>4. size >= 2 => Valid(1)
  BY <1>0, QueueAssumption DEF DrainInv, IssueInv, QueueInv, RingHoldsQueue, Valid, queue_head
<1>5. CASE ~IsBranch(i)
  <2>1. ~way0_stop
    BY <1>5 DEF way0_stop
  <2>. QED  BY <1>1, <1>3, <1>5, <2>1 DEF way0_valid, ready0
<1>6. CASE IsBranch(i)
  <2>1. size >= 2
    BY <1>0, <1>6
  <2>2. Valid(1) /\ ~way0_stop
    BY <1>4, <2>1 DEF way0_stop
  <2>3. j = Waiting[2] /\ j \in Slots[i.cls]
    <3>1. 1 \in 1 .. size - 1 /\ 1 + 1 = 2
      BY <1>0, <2>1
    <3>2. j = Waiting[2]
      BY <2>1, Heads DEF DrainInv, IssueInv
    <3>. QED  BY <1>2, <1>6, <3>1, <3>2 DEF DrainInv, IssueInv, SlotsInv
  <2>4. ~InClass(i, j) /\ ~IsBranch(j)
    BY <1>2, <1>6, <2>3, SlotsAssumption DEF LinksUnread
  <2>5. ~IsAccmem(i) /\ ~IsPriv(i) /\ i.cls # "mdu"
    BY <1>6 DEF IsBranch, IsAccmem, IsPriv
  <2>6. ~way1_stop
    BY <1>6, <2>2, <2>4, <2>5 DEF way1_stop
  <2>7. ready0 /\ ready1
    BY <1>1, <1>3, <2>2, <2>4, <2>6 DEF ready0, ready1
  <2>. QED  BY <2>7 DEF way0_valid, way1_valid
<1>. QED  BY <1>5, <1>6

(* No stall of the scoreboard lasts for ever: once the instructions before *)
(* it have left the stages, the head of the queue issues, a branch as soon *)
(* as its slot is there, for every program in which no slot reads the link *)
(* register of its own branch.                                             *)
THEOREM DrainedHeadGoesOn ==
  ASSUME LinksUnread
  PROVE  Spec => []DrainedHeadIssues
<1>1. Init => DrainInv
  BY DrainInit
<1>2. DrainInv /\ [Next]_vars => DrainInv'
  BY DrainStep
<1>3. DrainInv => DrainedHeadIssues
  BY DrainedSafe
<1>. QED  BY <1>1, <1>2, <1>3, PTL DEF Spec

-----------------------------------------------------------------------------
(* The answers.                                                            *)

LEMMA AnswerInit ==
  ASSUME Init
  PROVE  AnswerInv
<1>1. pipe = [p \in Places |-> Empty]
  BY DEF Init
<1>2. \A p \in Places : pipe[p] = Empty
  BY <1>1
<1>3. PairInv
  BY <1>2, EmptyIsRecord, EmptyBeside DEF PairInv, Records, Places
<1>4. ~mem_acc /\ ~req_completed /\ ~save_data_data_ok /\ bus = 0
  BY <1>2, EmptyIsRecord DEF Init, mem_acc, MEM, Places
<1>. QED  BY <1>3, <1>4 DEF AnswerInv, RequestsMatchAccesses, SentInv

LEMMA AnswerStep ==
  ASSUME AnswerInv, PairedOverflow = FALSE, [Next]_vars
  PROVE  AnswerInv'
<1>1. CASE UNCHANGED vars
  BY <1>1 DEF AnswerInv, PairInv, Records, RequestsMatchAccesses, SentInv, vars,
     accessing, acc_mem, selected, Unlinked, mem_acc
<1>2. CASE Next
  <2>1. PICK addr_ok, data_ok, mdu, event, annul, fault, bp_fail, exception :
          ClockCycle(addr_ok, data_ok, mdu, event, annul, fault, bp_fail, exception)
    BY <1>2, NextIsClockCycle
  <2>2. PairInv'
    BY <2>1, PairsKept DEF AnswerInv, ClockCycle
  <2>3. RequestsMatchAccesses' /\ SentInv'
    BY <2>1, AnswersKept DEF ClockCycle
  <2>. QED  BY <2>2, <2>3 DEF AnswerInv
<1>. QED  BY <1>1, <1>2

(* Whatever the program, the cache and the multiplier do, no answer of the *)
(* data cache goes to an access that did not ask for it: what is accepted  *)
(* and not answered is the access in DR that is marked as sent and the one *)
(* that waits in MEM, through stalls, exceptions, interrupts and ERETs, as *)
(* long as no addition overflows beside a later access or an SC.           *)
THEOREM AnswersMatchAccesses ==
  ASSUME PairedOverflow = FALSE
  PROVE  Spec => []RequestsMatchAccesses
<1>1. Init => AnswerInv
  BY AnswerInit
<1>2. AnswerInv /\ [Next]_vars => AnswerInv'
  BY AnswerStep
<1>3. AnswerInv => RequestsMatchAccesses
  BY DEF AnswerInv
<1>. QED  BY <1>1, <1>2, <1>3, PTL DEF Spec

-----------------------------------------------------------------------------
(* The requests.                                                           *)

\* No access is in the slot of a likely branch, so none is annulled
CommittedInv ==
  /\ pipe[1].ins.cls = "likely" => ~pipe[0].acc
  /\ \A p \in EX : ~pipe[p].dead
  /\ \A p \in AT \cup DR : pipe[p].acc => ~pipe[p].dead

LEMMA IssuedCommitted ==
  ASSUME IssueInv, \A j \in Slots["likely"] : ~IsAccmem(j)
  PROVE  /\ \A p \in EX : ~IssuedPair(p).dead
         /\ IssuedPair(1).ins.cls = "likely" => ~IssuedPair(0).acc
<1>1. Way0(1) /\ ~Way0(0)
  BY DEF Way0
<1>2. \A w : ~Issued(w).dead
  BY DEF Issued
<1>3. ~Empty.dead
  BY DEF Empty
<1>4. \A p \in EX : ~IssuedPair(p).dead
  BY <1>2, <1>3 DEF IssuedPair
<1>5. CASE way1_valid
  <2>1. way0_valid
    BY <1>5 DEF way0_valid, way1_valid
  <2>2. IssuedPair(1) = Issued(0) /\ IssuedPair(0) = Issued(1)
    BY <1>1, <1>5, <2>1 DEF IssuedPair
  <2>3. size \in Nat /\ size >= 2
    BY <1>5, Heads DEF IssueInv, QueueInv, QueueTypeOK
  <2>4. queue_head(0).ins = Waiting[1] /\ queue_head(1).ins = Waiting[2]
    BY <2>3, Heads DEF IssueInv
  <2>5. 1 \in 1 .. size - 1 /\ 1 + 1 = 2
    BY <2>3
  <2>6. IsBranch(Waiting[1]) => Waiting[2] \in Slots[Waiting[1].cls]
    BY <2>5 DEF IssueInv, SlotsInv
  <2>7. Issued(0).ins = Waiting[1] /\ (Issued(1).acc <=> IsAccmem(Waiting[2]))
    BY <2>4 DEF Issued
  <2>. QED  BY <1>4, <2>2, <2>6, <2>7 DEF IsBranch
<1>6. CASE ~way1_valid
  BY <1>1, <1>4, <1>6, EmptyIsRecord DEF IssuedPair
<1>. QED  BY <1>5, <1>6

LEMMA CommittedKept ==
  ASSUME IssueInv, Records, CommittedInv,
         \A j \in Slots["likely"] : ~IsAccmem(j),
         NEW addr_ok, NEW data_ok, NEW mdu, NEW event,
         NEW annul, annul => pipe[1].ins.cls = "likely",
         NEW fault, NEW bp_fail, NEW exception,
         Stages(addr_ok, data_ok, mdu, event, annul, fault, bp_fail, exception)
  PROVE  CommittedInv'
<1>1. /\ \/ \A p \in EX : pipe'[p] = Empty
         \/ \A p \in EX : pipe'[p] = Held(p)
         \/ \A p \in EX : pipe'[p] = IssuedPair(p)
      /\ \A p \in AT : pipe'[p] \in {Empty, Held(p), AfterEX(p - 2, event[p - 2], annul)}
      /\ \A p \in DR : pipe'[p] \in {Empty, Held(p), AfterAT(p - 2, fault[p - 2])}
  BY StageMoves
<1>2. \A p \in Places : Same(Held(p), pipe[p])
  BY HeldSame
<1>3. ~Empty.acc /\ ~Empty.dead /\ Empty.ins.cls # "likely"
  BY DEF Empty, NoInstr
<1>4. /\ \A p \in EX : ~pipe'[p].dead
      /\ pipe'[1].ins.cls = "likely" => ~pipe'[0].acc
  <2>1. CASE \A p \in EX : pipe'[p] = Empty
    BY <1>3, <2>1 DEF EX
  <2>2. CASE \A p \in EX : pipe'[p] = Held(p)
    BY <1>2, <2>2 DEF EX, Places, Same, CommittedInv
  <2>3. CASE \A p \in EX : pipe'[p] = IssuedPair(p)
    BY <2>3, IssuedCommitted DEF EX
  <2>. QED  BY <1>1, <2>1, <2>2, <2>3
<1>5. ASSUME NEW p \in AT, pipe'[p].acc
      PROVE  ~pipe'[p].dead
  <2>1. CASE pipe'[p] = Empty
    BY <1>3, <2>1
  <2>2. CASE pipe'[p] = Held(p)
    BY <1>2, <1>5, <2>2 DEF AT, Places, Same, CommittedInv
  <2>3. CASE pipe'[p] = AfterEX(p - 2, event[p - 2], annul)
    <3>1. p - 2 \in EX
      BY DEF AT, EX
    <3>2. pipe[p - 2].acc /\ (pipe'[p].dead <=> annul /\ ~Way0(p - 2))
      BY <1>5, <2>3, <3>1, ExecutedEntry
    <3>3. ~Way0(p - 2) => p - 2 = 0
      BY <3>1 DEF EX, Way0
    <3>. QED  BY <3>2, <3>3 DEF CommittedInv
  <2>. QED  BY <1>1, <2>1, <2>2, <2>3
<1>6. ASSUME NEW p \in DR, pipe'[p].acc
      PROVE  ~pipe'[p].dead
  <2>1. CASE pipe'[p] = Empty
    BY <1>3, <2>1
  <2>2. CASE pipe'[p] = Held(p)
    BY <1>2, <1>6, <2>2 DEF DR, Places, Same, CommittedInv
  <2>3. CASE pipe'[p] = AfterAT(p - 2, fault[p - 2])
    <3>1. p - 2 \in AT
      BY DEF AT, DR
    <3>2. pipe[p - 2].acc /\ pipe'[p].dead = pipe[p - 2].dead
      BY <1>6, <2>3, <3>1, TranslatedEntry
    <3>. QED  BY <3>1, <3>2 DEF CommittedInv
  <2>. QED  BY <1>1, <2>1, <2>2, <2>3
<1>. QED  BY <1>4, <1>5, <1>6 DEF CommittedInv

RequestInv == IssueInv /\ AnswerInv /\ CommittedInv

LEMMA RequestInit ==
  ASSUME Init
  PROVE  RequestInv
<1>1. pipe = [p \in Places |-> Empty]
  BY DEF Init
<1>2. \A p \in Places : pipe[p] = Empty
  BY <1>1
<1>3. ~Empty.acc /\ ~Empty.dead
  BY DEF Empty
<1>4. CommittedInv
  BY <1>2, <1>3 DEF CommittedInv, EX, AT, DR, Places
<1>. QED  BY <1>4, IssueInit, AnswerInit DEF RequestInv

LEMMA RequestStep ==
  ASSUME RequestInv, [Next]_vars, PairedOverflow = FALSE,
         \A j \in Slots["likely"] : ~IsAccmem(j)
  PROVE  RequestInv'
<1>1. IssueInv' /\ AnswerInv'
  BY IssueNext, AnswerStep DEF RequestInv
<1>2. CASE UNCHANGED vars
  <2>1. CommittedInv'
    BY <1>2 DEF RequestInv, CommittedInv, vars
  <2>. QED  BY <1>1, <2>1 DEF RequestInv
<1>3. CASE Next
  <2>1. PICK addr_ok, data_ok, mdu, event, annul, fault, bp_fail, exception :
          ClockCycle(addr_ok, data_ok, mdu, event, annul, fault, bp_fail, exception)
    BY <1>3, NextIsClockCycle
  <2>2. CommittedInv'
    BY <2>1, CommittedKept DEF ClockCycle, RequestInv, AnswerInv, PairInv
  <2>. QED  BY <1>1, <2>2 DEF RequestInv
<1>. QED  BY <1>2, <1>3

LEMMA RequestSafe ==
  ASSUME RequestInv
  PROVE  RequestsAreCommitted
<1>. SUFFICES ASSUME data_req
     PROVE  /\ ~pipe[selected].dead
            /\ exception_ori \/ dreq_ready_int => priv_way /\ selected = 5
  BY DEF RequestsAreCommitted
<1>0. Records /\ Beside(pipe[5], pipe[4])
  BY DEF RequestInv, AnswerInv, PairInv
<1>1. accessing
  BY DEF data_req
<1>2. PICK q \in DR : pipe[q].acc
  BY <1>1 DEF accessing, acc_mem
<1>3. selected = q
  BY <1>0, <1>2, SelectedIsTheAccess
<1>4. ~pipe[q].dead
  BY <1>2 DEF RequestInv, CommittedInv
<1>5. ASSUME exception_ori \/ dreq_ready_int
      PROVE  priv_way /\ selected = 5
  BY <1>0, <1>1, <1>5, RedirectSparesAccess
<1>. QED  BY <1>3, <1>4, <1>5

(* A request goes to the data cache only for an instruction that is        *)
(* executed: for every program that has no access in the slot of a likely  *)
(* branch, no request is sent for an annulled instruction, before an       *)
(* exception that is taken, or in the cycle of an interrupt.               *)
THEOREM RequestsOfExecuted ==
  ASSUME PairedOverflow = FALSE,
         \A j \in Slots["likely"] : ~IsAccmem(j)
  PROVE  Spec => []RequestsAreCommitted
<1>1. Init => RequestInv
  BY RequestInit
<1>2. RequestInv /\ [Next]_vars => RequestInv'
  BY RequestStep
<1>3. RequestInv => RequestsAreCommitted
  BY RequestSafe
<1>. QED  BY <1>1, <1>2, <1>3, PTL DEF Spec
=============================================================================
