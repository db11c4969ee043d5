----------------------------- MODULE IssueOrder -----------------------------
(***************************************************************************)
(* What the issue queue promises to decode and to the pipeline, whatever   *)
(* its ring looks like and whenever it stalls: instructions leave in the   *)
(* order in which they came, each once and none is lost, one or two in a   *)
(* cycle; two that leave together may be executed together, and a branch   *)
(* leaves with its delay slot beside it.                                   *)
(***************************************************************************)
EXTENDS Naturals, Sequences

CONSTANTS
  Program,    \* the instructions, records with the fields rd and wr
  Length,     \* places of the queue
  Branches,   \* instructions that are followed by a delay slot
  Exclusive   \* a set of sets: two members of one never leave together

VARIABLES queue, pair
vars == <<queue, pair>>

Init == queue = <<>> /\ pair = <<>>

Reads(j, i) == i.wr # 0 /\ \E k \in 1 .. 2 : j.rd[k] = i.wr

\* What the stages behind may be given in one cycle
MayLeave(p) ==
  /\ Len(p) = 1 => p[1] \notin Branches
  /\ Len(p) = 2 => /\ p[2] \notin Branches
                   /\ ~Reads(p[2], p[1])
                   /\ \A S \in Exclusive : ~(p[1] \in S /\ p[2] \in S)

\* Up to two instructions come in behind those that stay
Enter(stay) ==
  /\ Len(queue') \in Len(stay) .. Len(stay) + 2
  /\ Len(queue') <= Length
  /\ SubSeq(queue', 1, Len(stay)) = stay

Issue ==
  \E n \in 0 .. 2 :
    /\ n <= Len(queue)
    /\ pair' = SubSeq(queue, 1, n)
    /\ MayLeave(pair')
    /\ Enter(SubSeq(queue, n + 1, Len(queue)))

Hold == pair' = pair /\ Enter(queue)

Flush == queue' = <<>> /\ pair' = <<>>

Next == Issue \/ Hold \/ Flush

Spec == Init /\ [][Next]_vars
=============================================================================
