---------------------------- MODULE ProgramMemory ----------------------------
(***************************************************************************)
(* What the data cache promises the program: requests complete in the      *)
(* order they were made, as if each acted on one memory.                   *)
(*                                                                         *)
(* amem is the memory the program sees, pmem the one behind the cache,     *)
(* which lags until a line is written back.  An uncached store is posted:  *)
(* it completes for the program before it reaches pmem, and the posted     *)
(* stores reach it in order, all of them before a later uncached load      *)
(* completes.  An invalidation without write-back may lose what a line     *)
(* holds: amem falls back to pmem there.  Everything else leaves amem be.  *)
(***************************************************************************)
EXTENDS Naturals, Sequences

CONSTANTS Requests, Tags, Indices, Words

VARIABLES
  queue,   \* requests accepted and not completed
  posted,  \* uncached stores completed and not performed
  amem,    \* amem[tag][index][word]: memory as the program sees it
  pmem     \* memory behind the cache

vars == <<queue, posted, amem, pmem>>

UncachedLoad(r)  == r.uncache /\ ~r.op /\ ~r.CACHE
UncachedStore(r) == r.uncache /\ r.op

Post(r) == [tag |-> r.tag, index |-> r.index, offset |-> r.offset,
            wdata |-> r.wdata, wstrb |-> r.wstrb]

Put(m, r) ==
  IF r.wstrb THEN [m EXCEPT ![r.tag][r.index][r.offset] = r.wdata] ELSE m

(* What amem may be once request r has completed.                          *)
Results(r) ==
  IF r.op THEN {IF r.uncache THEN amem ELSE Put(amem, r)}
  ELSE IF r.CACHE /\ ~r.cache_writeback
  THEN {amem} \cup {[amem EXCEPT ![t][r.index] = pmem[t][r.index]] :
                      t \in IF r.cache_op THEN {r.tag} ELSE Tags}
  ELSE {amem}

WriteBacks ==
  {[pmem EXCEPT ![t][i][o] = amem[t][i][o]] : t \in Tags, i \in Indices, o \in Words}

Init ==
  /\ queue = <<>> /\ posted = <<>>
  /\ pmem = amem

(* A clock cycle may complete the oldest request, accept a new one, and    *)
(* perform a posted store or write back a word.                            *)
Next ==
  \E done, perform \in BOOLEAN, taken \in {<<>>} \cup {<<r>> : r \in Requests} :
    /\ done => /\ queue # <<>>
               /\ UncachedLoad(Head(queue)) => posted = <<>>
    /\ perform => posted # <<>>
    /\ queue' = (IF done THEN Tail(queue) ELSE queue) \o taken
    /\ posted' = (IF perform THEN Tail(posted) ELSE posted)
                 \o (IF done /\ UncachedStore(Head(queue))
                     THEN <<Post(Head(queue))>> ELSE <<>>)
    /\ pmem' \in IF perform THEN {Put(pmem, Head(posted))} ELSE {pmem} \cup WriteBacks
    /\ \E m \in IF done THEN Results(Head(queue)) ELSE {amem} :
         amem' = IF perform THEN Put(m, Head(posted)) ELSE m

Spec == Init /\ [][Next]_vars
=============================================================================
