------------------------------ MODULE Pipeline ------------------------------
(***************************************************************************)
(* The in-order core of the CPU from the issue queue to the register file: *)
(* IssueUnit_2 with its scoreboard (WakenUnit, TnewDecoder), the bypassing *)
(* networks (Forward_ISSUE, Forward_OUT), the execution stages EX, AT, DR, *)
(* MEM and WB of mycpu_core with their stalls and flushes, the memory      *)
(* request stage (MEM_REQ_MUX_2) and its handshake with the data cache.    *)
(*                                                                         *)
(* A step is a clock cycle.  Data are abstracted to what decides whether   *)
(* the program computes what it says: a value is TRUE when it is the one   *)
(* the nearest older writer of its register produced from right operands.  *)
(* Numbers of cycles, comparisons and priorities are those of the code.    *)
(***************************************************************************)
EXTENDS Integers, FiniteSets, FiniteSetsExt, Sequences

CONSTANTS
  IQ_LENGTH,      \* entries of the issue queue (8 in the code)
  Regs,           \* names of registers, positive numbers; 0 is "no register"
  Instrs,         \* instructions the program is made of
  Slots,          \* Slots[c]: instructions that may follow a branch of class c,
                  \* Slots["handler"]: those an exception handler may begin with
  PairedOverflow, \* TRUE: an addition may overflow also when it is paired with
                  \* a later access or with an SC
  MaxInFlight,    \* bound: instructions between decode and write-back
  Rare            \* bound: of these instructions, one at a time is in flight

ASSUME QueueAssumption == IQ_LENGTH \in Nat /\ IQ_LENGTH >= 3
ASSUME RegsAssumption == Regs \subseteq Nat \ {0}

-----------------------------------------------------------------------------
(* Instructions: the class decides everything but the registers.           *)

\* All instructions that occur.  No slot of a branch holds a branch.
Program == Instrs \cup UNION {Slots[d] : d \in DOMAIN Slots}

NoInstr == [cls |-> "none", rd |-> <<0, 0>>, wr |-> 0]

IsAlu(i)    == i.cls \in {"cal", "ov", "mov"}
IsBranch(i) == i.cls \in {"branch", "likely", "link"}
IsAccmem(i) == i.cls \in {"load", "merge", "store", "ll", "sc"}
IsPriv(i)   == i.cls \in {"mfc0", "mtc0", "trap", "eret"}

ASSUME ProgramAssumption == NoInstr \notin Program
ASSUME SlotsAssumption ==
  /\ "handler" \in DOMAIN Slots
  /\ \A i \in Program : IsBranch(i) =>
       i.cls \in DOMAIN Slots /\ \A j \in Slots[i.cls] : ~IsBranch(j)

\* Two registers are read at most and one is written, by some classes only
Writers == {"cal", "ov", "mov", "mdu", "link", "mfc0", "sc", "load", "merge", "ll"}
ASSUME RegisterAssumption ==
  \A i \in Program :
    /\ i.rd \in [1 .. 2 -> Regs \cup {0}]
    /\ i.wr \in Regs \cup {0}
    /\ i.wr # 0 => i.cls \in Writers

\* Stage in which operand k is needed; 5 is NOT_USE
Tuse(i, k) ==
  CASE i.cls = "merge" /\ k = 2 -> 3
    [] i.cls = "trap"           -> 1
    [] i.cls = "mtc0" /\ k = 2  -> 2
    [] OTHER                    -> IF i.rd[k] = 0 THEN 5 ELSE 0

NOT_WRITE == 0
ALU_GEN   == 1
CP0_GEN   == 3
MEM_GEN   == 4
STALL     == 7

\* Cycles until the result can be forwarded
TnewDecoder(i, likely_delayslot, delay_exec) ==
  IF i.wr = 0 THEN NOT_WRITE
  ELSE IF likely_delayslot THEN STALL
  ELSE CASE IsAlu(i) -> IF i.cls = "mov" THEN STALL
                        ELSE IF delay_exec THEN MEM_GEN ELSE ALU_GEN
         [] i.cls \in {"mdu", "link"}         -> ALU_GEN
         [] i.cls \in {"mfc0", "sc"}          -> CP0_GEN
         [] i.cls \in {"load", "merge", "ll"} -> MEM_GEN
         [] OTHER                             -> NOT_WRITE

-----------------------------------------------------------------------------
(* The places of the pipeline, youngest first: place 2s is way 1 and place *)
(* 2s+1 is way 0 of stage s, for the stages EX, AT, DR, MEM and WB, 0 to 4.*)
(* The pair that is issued stands before them, at the places -2 and -1.    *)

EX  == {0, 1}
AT  == {2, 3}
DR  == {4, 5}
MEM == {6, 7}
WB  == {8, 9}
Places == 0 .. 9

Way0(p) == p % 2 = 1
Pair(p) == {p, IF Way0(p) THEN p - 1 ELSE p + 1}
Later(p) == {q \in Places : q > p /\ q \notin Pair(p)}

VARIABLES
  issue_queue, head, tail, size,  \* the ring of IssueUnit_2
  wait,          \* decode: the last instruction is a branch whose slot is due
  pipe,          \* the stage registers, instruction, wr_reg_info and operands
  lrf,           \* the register file: is the value the latest one?
  req_completed,     \* MEM_REQ_MUX_2: the access in DR has been accepted
  save_data_data_ok, \* MEM: an answer has been taken that nothing waited for
  exc_req_complete,  \* DR: the exception of the stalled pair has been taken
  LLbit,         \* an LL is linked
  bus            \* data cache: accepted requests that are not answered

queueVars == <<issue_queue, head, tail, size, wait>>
vars == <<issue_queue, head, tail, size, wait, pipe, lrf, req_completed,
          save_data_data_ok, exc_req_complete, LLbit, bus>>

(* An entry of the pipeline.  wr, Tnew and data are the wr_reg_info that   *)
(* goes with the instruction; v are the operands in the stage register.    *)
(* dst and dead say what the program means: the register the instruction   *)
(* really writes (0 if it is squashed), and that it must have no effect.   *)
Entry == [ins : Program \cup {NoInstr}, valid : BOOLEAN, exc : BOOLEAN,
          acc : BOOLEAN, flt : BOOLEAN, priv : BOOLEAN, dead : BOOLEAN,
          wr : Regs \cup {0}, dst : Regs \cup {0}, Tnew : 0 .. 7,
          data : BOOLEAN, v : [1 .. 2 -> BOOLEAN]]

Empty == [ins |-> NoInstr, valid |-> FALSE, exc |-> FALSE, acc |-> FALSE,
          flt |-> FALSE, priv |-> FALSE, dead |-> FALSE, wr |-> 0, dst |-> 0,
          Tnew |-> 0, data |-> FALSE, v |-> [k \in 1 .. 2 |-> TRUE]]

QueueEntry == [ins : Program, likely_delayslot : BOOLEAN]
NoEntry == [ins |-> NoInstr, likely_delayslot |-> FALSE]

Init ==
  /\ issue_queue = [j \in 0 .. IQ_LENGTH - 1 |-> NoEntry]
  /\ head = 0 /\ tail = 0 /\ size = 0
  /\ wait = "no"
  /\ pipe = [p \in Places |-> Empty]
  /\ lrf = [r \in Regs |-> TRUE]
  /\ req_completed = FALSE /\ save_data_data_ok = FALSE
  /\ exc_req_complete = FALSE /\ LLbit = FALSE /\ bus = 0

-----------------------------------------------------------------------------
(* Forwarding.                                                             *)

None == 99
Nearest(S) == IF S = {} THEN None ELSE Min(S)

\* The writer of r that comes last before place p in program order
LastWriter(p, r) == Nearest({q \in Places : q > p /\ pipe[q].dst = r})

\* What Forward_OUT finds for operand k of the instruction at place p
Forwarding(p, k) ==
  LET r == pipe[p].ins.rd[k]
  IN Nearest({q \in Later(p) : r # 0 /\ pipe[q].wr = r /\ pipe[q].Tnew = 0})

\* The operand after Forward_OUT: forwarded, or what the stage register or
\* the save register holds
Operand(p, k) ==
  LET q == Forwarding(p, k)
  IN IF q = None THEN pipe[p].v[k]
     ELSE q = LastWriter(p, pipe[p].ins.rd[k]) /\ pipe[q].data

Operands(p) == Operand(p, 1) /\ Operand(p, 2)

-----------------------------------------------------------------------------
(* The head of the queue and the scoreboard.                               *)

Succ(j, n) == IF j + n >= IQ_LENGTH THEN j + n - IQ_LENGTH ELSE j + n

\* The entry at the head for way w; NoEntry when the cell is empty
queue_head(w) == issue_queue[Succ(head, w)]
Valid(w) == queue_head(w) # NoEntry

way0_stop == Valid(0) /\ IsBranch(queue_head(0).ins) /\ ~Valid(1)

way1_stop ==
  LET i == queue_head(0).ins
      j == queue_head(1).ins
  IN \/ way0_stop
     \/ IsBranch(j) /\ ~IsBranch(i)
     \/ IsAccmem(i) /\ IsAccmem(j)
     \/ i.cls = "mdu" /\ j.cls = "mdu"
     \/ IsPriv(i) /\ Valid(1)
     \/ IsPriv(j) /\ ~IsBranch(i)

\* Mutant: a result is taken to be there one cycle early
LateOffByOne(i, slack) ==
  \E k \in 1 .. 2, q \in Places :
    i.rd[k] # 0 /\ pipe[q].wr = i.rd[k] /\ Tuse(i, k) + slack + 2 < pipe[q].Tnew

\* stall1 and stall2 of WakenUnit (slack 0) and their _d forms (slack 3)
Late(i, slack) ==
  \E k \in 1 .. 2, q \in Places :
    i.rd[k] # 0 /\ pipe[q].wr = i.rd[k] /\ Tuse(i, k) + slack + 1 < pipe[q].Tnew

delay_exec(i) ==
  i.cls = "cal" /\ Late(i, 0) /\ ~Late(i, MEM_GEN - ALU_GEN)

\* Mutant: register 0 counts as written by every instruction without result
InClassWithZero(i, j) == \E k \in 1 .. 2 : j.rd[k] = i.wr

\* The operand of way 1 that way 0 writes
InClass(i, j) == i.wr # 0 /\ \E k \in 1 .. 2 : j.rd[k] = i.wr

Waken(i) == ~Late(i, 0) \/ delay_exec(i)

ready0 == Valid(0) /\ ~way0_stop /\ Waken(queue_head(0).ins)
ready1 == /\ Valid(1) /\ ~way1_stop /\ Waken(queue_head(1).ins)
          /\ ~InClass(queue_head(0).ins, queue_head(1).ins)

way1_valid == ready1 /\ ready0
\* Mutant: a branch does not wait for its slot
BranchIssuesAlone == ready0

way0_valid == ready0 /\ (IsBranch(queue_head(0).ins) => way1_valid)

issue_instr_num == IF way1_valid THEN 2 ELSE IF way0_valid THEN 1 ELSE 0

allowin_I == size + 2 <= IQ_LENGTH

-----------------------------------------------------------------------------
(* What is issued: Forward_ISSUE takes the nearest result by its register  *)
(* alone, ready or not, else the register file.                            *)

IssueOperand(w, k) ==
  LET r == queue_head(w).ins.rd[k]
      q == Nearest({p \in Places : pipe[p].wr = r})
      paired == w = 1 /\ queue_head(0).ins.wr = r
  IN \/ r = 0
     \/ /\ ~paired
        /\ q = LastWriter(-1, r)
        /\ IF q = None THEN lrf[r] ELSE pipe[q].data

Issued(w) ==
  LET e == queue_head(w)
      i == e.ins
  IN [ins |-> i, valid |-> TRUE, exc |-> i.cls = "trap", acc |-> IsAccmem(i),
      flt |-> FALSE, priv |-> IsPriv(i), dead |-> FALSE, wr |-> i.wr,
      dst |-> i.wr, Tnew |-> TnewDecoder(i, e.likely_delayslot, delay_exec(i)),
      data |-> FALSE, v |-> [k \in 1 .. 2 |-> IssueOperand(w, k)]]

IssuedPair(p) ==
  IF Way0(p) THEN IF way0_valid THEN Issued(0) ELSE Empty
             ELSE IF way1_valid THEN Issued(1) ELSE Empty

-----------------------------------------------------------------------------
(* The stages.  In each, the operands that are used there or earlier need  *)
(* not be kept.                                                            *)

Dec(n) == IF n > 0 THEN n - 1 ELSE 0

Stage(p) == p \div 2

\* The stage in which the instruction at p reads operand k: an addition
\* issued with delay_exec is computed in MEM (FU_delay), a store sends its
\* data in DR
UsedIn(p, k) ==
  LET e == pipe[p]
  IN IF e.ins.rd[k] = 0 \/ (e.ins.cls = "cal" /\ e.ins.wr = 0) THEN 5
     ELSE CASE e.ins.cls = "cal" /\ e.Tnew = MEM_GEN - Stage(p) -> 3
            [] e.ins.cls \in {"store", "sc"} /\ k = 2 -> 2
            [] OTHER -> Tuse(e.ins, k)

\* The operands as they stand in p, those that are read in stage s or later
OperandsFrom(p, s) ==
  [k \in 1 .. 2 |-> UsedIn(p, k) \in s .. 4 => Operand(p, k)]

\* What an entry takes along from place p
Carried(p) == OperandsFrom(p, Stage(p) + 1)

Squashed(e) == [e EXCEPT !.exc = TRUE, !.acc = FALSE, !.priv = TRUE,
                         !.wr = 0, !.dst = 0, !.Tnew = 0, !.data = FALSE]

(* EX: FU for everything but loads and stores, AGU for those.  event is    *)
(* TRUE if the addition overflows, the conditional move does not move, the *)
(* address is misaligned; annul if the likely branch in way 0 is not taken.*)
(* likely_flush reaches FU alone: a load or store takes the AGU's output.  *)
AfterEX(p, event, annul) ==
  LET e == [pipe[p] EXCEPT !.v = Carried(p)]
      flushed == annul /\ ~Way0(p)
      meant == [e EXCEPT !.dead = flushed, !.dst = IF flushed THEN 0 ELSE @]
  IN IF ~e.valid THEN Empty
     ELSE IF e.acc THEN IF event THEN Squashed(meant)
                        ELSE [meant EXCEPT !.Tnew = Dec(@)]
     ELSE IF flushed THEN Empty
     ELSE CASE e.ins.cls = "mov" /\ event -> [e EXCEPT !.wr = 0, !.dst = 0, !.Tnew = 0]
            [] e.ins.cls = "ov"  /\ event -> Squashed(e)
            [] OTHER -> [e EXCEPT
                 !.Tnew = IF IsAlu(e.ins) /\ @ # MEM_GEN THEN 0 ELSE Dec(@),
                 !.data = /\ e.wr # 0
                          /\ \/ e.ins.cls = "link"
                             \/ (IsAlu(e.ins) \/ e.ins.cls = "mdu") /\ Operands(p)]

(* AT: the trap condition is evaluated (event: it is false), the address   *)
(* is translated (event: the translation that reaches DR has an error).    *)
AfterAT(p, event) ==
  LET e == [pipe[p] EXCEPT !.v = Carried(p), !.Tnew = Dec(@)]
  IN IF ~e.valid THEN Empty
     ELSE IF e.ins.cls = "trap" THEN [e EXCEPT !.exc = ~event]
     ELSE [e EXCEPT !.flt = e.acc /\ event]

(* DR: the access of the pair, way 0 first, and the pair after the check   *)
(* of its translation.                                                     *)
acc_mem == {p \in DR : pipe[p].acc}
selected == Max(acc_mem)

\* An SC that has lost its link does not store
Unlinked(p) == pipe[p].ins.cls = "sc" /\ ~LLbit

Checked(p) ==
  LET e == pipe[p]
  IN IF acc_mem = {} THEN e
     ELSE CASE pipe[selected].flt /\ p = selected -> Squashed(e)
            [] pipe[selected].flt /\ p < selected -> Empty
            [] OTHER -> [e EXCEPT !.acc = @ /\ ~Unlinked(p)]

\* The pair has an access to make
accessing == acc_mem # {} /\ ~pipe[selected].flt /\ ~Unlinked(selected)

\* Mutant: an accepted request is repeated while MEM stalls
RequestRepeats == accessing

data_req == accessing /\ ~req_completed

\* The instruction that CP0 sees, and whether it raises an exception
priv_way == ~Checked(5).priv /\ Checked(4).priv
exception_ori == IF priv_way THEN Checked(4).exc ELSE Checked(5).priv /\ Checked(5).exc

eret_jump == \E p \in DR : pipe[p].ins.cls = "eret"

\* Mutant: an interrupt does not wait for the access in DR
InterruptBeforeAccess == pipe[5].valid /\ \A p \in MEM : ~pipe[p].acc

dreq_ready_int ==
  pipe[5].valid /\ acc_mem = {} /\ \A p \in MEM : ~pipe[p].acc

\* What an SC reports, LLbit, says whether its store has been sent
ResultIsTrue == req_completed => LLbit

\* taken: an exception or an interrupt is taken in this cycle
AfterDR(p, taken) ==
  LET c == Checked(p)
      e == [c EXCEPT !.v = Carried(p), !.Tnew = Dec(@),
                     !.data = IF c.wr = 0 THEN FALSE
                              ELSE CASE c.ins.cls = "mfc0" -> TRUE
                                     [] c.ins.cls = "sc"   -> ResultIsTrue
                                     [] OTHER              -> @]
  IN IF ~e.valid THEN Empty
     ELSE IF taken /\ priv_way /\ ~Way0(p) THEN [e EXCEPT !.wr = 0, !.dst = 0]
     ELSE IF taken /\ ~priv_way THEN Empty
     ELSE e

(* MEM: the result of a load, or of an addition that was delayed.          *)
AfterMEM(p) ==
  LET e == pipe[p]
  IN [Empty EXCEPT !.valid = e.valid, !.wr = e.wr, !.dst = e.dst,
                   !.Tnew = Dec(e.Tnew),
                   !.data = /\ e.wr # 0
                            /\ IF e.acc /\ e.ins.cls # "sc" THEN Operand(p, 2)
                               ELSE IF e.Tnew = 1 THEN Operands(p)
                               ELSE e.data]

-----------------------------------------------------------------------------
(* The inputs of a cycle: the answers of the data cache, the multiplier,   *)
(* the verdict of BVU on the pair in EX, an interrupt request, and what    *)
(* the data decide in EX and AT.  Each is offered where the code looks.    *)

Offered(cond) == IF cond THEN BOOLEAN ELSE {FALSE}

mem_acc == \E p \in MEM : pipe[p].acc

mem_stall(data_ok) == mem_acc /\ ~data_ok /\ ~save_data_data_ok

dreq_stall(addr_ok, data_ok) ==
  \/ mem_stall(data_ok)
  \/ accessing /\ ~addr_ok /\ ~req_completed

MayOverflow(p) ==
  /\ pipe[p].ins.cls = "ov"
  /\ (p = 1 /\ pipe[0].acc) \/ (p = 0 /\ pipe[1].ins.cls = "sc") => PairedOverflow

\* The data-dependent event at a place of EX, and at one of AT
Event(p) == pipe[p].acc \/ pipe[p].ins.cls = "mov" \/ MayOverflow(p)
Untaken  == pipe[1].ins.cls = "likely"
Fault(p) == pipe[p].acc \/ pipe[p].ins.cls = "trap"

InFlight == size + Cardinality({p \in Places : pipe[p].valid})
RareInFlight ==
  \/ \E p \in Places : pipe[p].ins \in Rare
  \/ \E j \in DOMAIN issue_queue : issue_queue[j].ins \in Rare

\* What decode hands over: the slot of a branch comes right behind it
Due(i) == IF IsBranch(i) THEN i.cls ELSE "no"
Decoded(due) ==
  {[ins |-> i, likely_delayslot |-> due = "likely"] :
     i \in IF due # "no" THEN Slots[due]
           ELSE IF RareInFlight THEN Instrs \ Rare ELSE Instrs}

Groups ==
  LET one == {<<e>> : e \in Decoded(wait)}
      two == UNION {{<<e, f>> : f \in Decoded(Due(e.ins))} : e \in Decoded(wait)}
  IN {<<>>} \cup (IF ~allowin_I \/ InFlight >= MaxInFlight THEN {} ELSE one)
            \cup (IF ~allowin_I \/ InFlight + 1 >= MaxInFlight THEN {} ELSE two)

\* Mutant: the entry of way 1 is not cleared when it leaves
RingKeepsSecond(g, n) ==
  /\ issue_queue' = [j \in 0 .. IQ_LENGTH - 1 |->
       CASE j = tail /\ Len(g) >= 1          -> g[1]
         [] j = Succ(tail, 1) /\ Len(g) = 2  -> g[2]
         [] j = head /\ n >= 1               -> NoEntry
         [] OTHER                            -> issue_queue[j]]
  /\ head' = Succ(head, n)
  /\ tail' = Succ(tail, Len(g))
  /\ size' = size + Len(g) - n
  /\ wait' = IF g = <<>> THEN wait ELSE Due(g[Len(g)].ins)

(* The ring of IssueUnit_2: n instructions leave, the group g enters.      *)
Ring(g, n) ==
  /\ issue_queue' = [j \in 0 .. IQ_LENGTH - 1 |->
       CASE j = tail /\ Len(g) >= 1          -> g[1]
         [] j = Succ(tail, 1) /\ Len(g) = 2  -> g[2]
         [] j = head /\ n >= 1               -> NoEntry
         [] j = Succ(head, 1) /\ n = 2       -> NoEntry
         [] OTHER                            -> issue_queue[j]]
  /\ head' = Succ(head, n)
  /\ tail' = Succ(tail, Len(g))
  /\ size' = size + Len(g) - n
  /\ wait' = IF g = <<>> THEN wait ELSE Due(g[Len(g)].ins)

FlushRing(due) ==
  /\ issue_queue' = [j \in 0 .. IQ_LENGTH - 1 |-> NoEntry]
  /\ head' = 0 /\ tail' = 0 /\ size' = 0
  /\ wait' = due

\* An instruction that stays keeps what has been forwarded to it (the save
\* registers of Forward_OUT)
Held(p) == [pipe[p] EXCEPT !.v = OperandsFrom(p, Stage(p))]

\* Mutant: way 0 is written last
Way0WritesLast ==
  lrf' = [r \in Regs |->
    LET W == {p \in WB : pipe[p].wr = r}
        d == Nearest({p \in WB : pipe[p].dst = r})
    IN IF W = {} /\ d = None THEN lrf[r]
       ELSE W # {} /\ Max(W) = d /\ pipe[d].data]

(* The register file: wd_4 of both ways, way 1 last.                       *)
WriteBack ==
  lrf' = [r \in Regs |->
    LET w == Nearest({p \in WB : pipe[p].wr = r})
        d == Nearest({p \in WB : pipe[p].dst = r})
    IN IF w = None /\ d = None THEN lrf[r]
       ELSE w = d /\ pipe[w].data]

\* Mutant: the accepted request is remembered although the access moves on
RequestNotCleared(addr_ok, data_ok) ==
  /\ bus' = bus + (IF data_req /\ addr_ok THEN 1 ELSE 0) - (IF data_ok THEN 1 ELSE 0)
  /\ req_completed' = ((mem_stall(data_ok) /\ req_completed) \/ (data_req /\ addr_ok))
  /\ save_data_data_ok' =
       CASE ~save_data_data_ok /\ data_ok -> ~mem_acc
         [] save_data_data_ok /\ mem_acc /\ ~mem_stall(data_ok) -> FALSE
         [] OTHER -> save_data_data_ok

(* The handshake with the data cache, and what remembers it.               *)
Handshake(addr_ok, data_ok) ==
  /\ bus' = bus + (IF data_req /\ addr_ok THEN 1 ELSE 0) - (IF data_ok THEN 1 ELSE 0)
  /\ req_completed' =
       IF mem_stall(data_ok) THEN req_completed \/ (data_req /\ addr_ok)
       ELSE FALSE
  /\ save_data_data_ok' =
       CASE ~save_data_data_ok /\ data_ok -> ~mem_acc
         [] save_data_data_ok /\ mem_acc /\ ~mem_stall(data_ok) -> FALSE
         [] OTHER -> save_data_data_ok

(* The stage registers.  A stage that stalls holds; behind it, bubbles.    *)
(* exception flushes EX, AT and DR, bp_fail flushes EX; a pair that waits  *)
(* in DR with its exception in way 1 stays there for its way 0.            *)
Stages(addr_ok, data_ok, mdu, event, annul, fault, bp_fail, exception) ==
  LET memStall  == mem_stall(data_ok)
      dreqStall == dreq_stall(addr_ok, data_ok)
      execStall == mdu \/ dreqStall
      flushDR   == exception /\ (dreqStall => ~priv_way)
  IN pipe' = [p \in Places |->
       CASE p \in EX  -> IF exception \/ bp_fail THEN Empty
                         ELSE IF execStall THEN Held(p) ELSE IssuedPair(p)
         [] p \in AT  -> IF exception THEN Empty
                         ELSE IF dreqStall THEN Held(p)
                         ELSE IF execStall \/ bp_fail THEN Empty
                         ELSE AfterEX(p - 2, event[p - 2], annul)
         [] p \in DR  -> IF flushDR THEN Empty
                         ELSE IF dreqStall THEN Held(p) ELSE AfterAT(p - 2, fault[p - 2])
         [] p \in MEM -> IF memStall THEN Held(p)
                         ELSE IF dreqStall THEN Empty ELSE AfterDR(p - 2, exception)
         [] OTHER     -> IF memStall THEN Empty ELSE AfterMEM(p - 2)]

(* A cycle in which nothing redirects the fetch.                           *)
Advance(addr_ok, data_ok, mdu, event, annul, fault) ==
  /\ ~(exception_ori /\ ~exc_req_complete) /\ ~eret_jump
  /\ \E g \in Groups :
       Ring(g, IF mdu \/ dreq_stall(addr_ok, data_ok) THEN 0 ELSE issue_instr_num)
  /\ Stages(addr_ok, data_ok, mdu, event, annul, fault, FALSE, FALSE)
  /\ exc_req_complete' = (dreq_stall(addr_ok, data_ok) /\ exception_ori)

(* The pair in EX is not the one that the last branch goes to (BVU).       *)
Mispredict(addr_ok, data_ok, mdu, fault) ==
  /\ \E p \in EX : pipe[p].valid
  /\ ~(exception_ori /\ ~exc_req_complete) /\ ~eret_jump
  /\ FlushRing("no")
  /\ Stages(addr_ok, data_ok, mdu, [p \in EX |-> FALSE], FALSE, fault, TRUE, FALSE)
  /\ exc_req_complete' = (dreq_stall(addr_ok, data_ok) /\ exception_ori)

(* CP0 takes an exception of the pair in DR or an interrupt, or an ERET    *)
(* reaches DR.                                                             *)
Redirect(addr_ok, data_ok, mdu) ==
  LET exception == (exception_ori \/ dreq_ready_int) /\ ~exc_req_complete
  IN /\ exception \/ eret_jump
     /\ FlushRing(IF exception THEN "handler" ELSE "no")
     /\ Stages(addr_ok, data_ok, mdu, [p \in EX |-> FALSE], FALSE,
               [p \in AT |-> FALSE], FALSE, TRUE)
     /\ exc_req_complete' = (dreq_stall(addr_ok, data_ok) /\ exception)

(* LLbit: an accepted LL sets it, also in the cycle of an exception.       *)
Link(addr_ok, redirect) ==
  LLbit' = IF data_req /\ addr_ok /\ pipe[selected].ins.cls = "ll" THEN TRUE
           ELSE ~redirect /\ LLbit

Next ==
  \E addr_ok \in Offered(data_req), data_ok \in Offered(bus > 0),
     mdu \in Offered(\E p \in EX : pipe[p].ins.cls = "mdu") :
    /\ Handshake(addr_ok, data_ok)
    /\ WriteBack
    /\ \/ /\ Link(addr_ok, FALSE)
          /\ \E fault \in [AT -> BOOLEAN] :
               /\ \A p \in AT : fault[p] => Fault(p)
               /\ \/ \E event \in [EX -> BOOLEAN], annul \in Offered(Untaken) :
                       /\ \A p \in EX : event[p] => Event(p)
                       /\ Advance(addr_ok, data_ok, mdu, event, annul, fault)
                  \/ Mispredict(addr_ok, data_ok, mdu, fault)
       \/ /\ Link(addr_ok, TRUE)
          /\ Redirect(addr_ok, data_ok, mdu)

Spec == Init /\ [][Next]_vars

-----------------------------------------------------------------------------
(* Properties.                                                             *)

TypeOK ==
  /\ issue_queue \in [0 .. IQ_LENGTH - 1 -> QueueEntry \cup {NoEntry}]
  /\ head \in 0 .. IQ_LENGTH - 1 /\ tail \in 0 .. IQ_LENGTH - 1
  /\ size \in 0 .. IQ_LENGTH
  /\ wait \in {"no", "branch", "likely", "link", "handler"}
  /\ pipe \in [Places -> Entry]
  /\ lrf \in [Regs -> BOOLEAN]
  /\ req_completed \in BOOLEAN /\ save_data_data_ok \in BOOLEAN
  /\ exc_req_complete \in BOOLEAN /\ LLbit \in BOOLEAN
  /\ bus \in 0 .. 2

\* An exception is on its way that has not been taken yet
Doomed(p) ==
  \E q \in Places : q > p /\
    \/ q \in AT /\ pipe[q].exc /\ pipe[q].ins.cls # "trap"
    \/ q \in DR /\ (pipe[q].exc \/ pipe[q].flt) /\ ~exc_req_complete

(* The operands an instruction computes with in a stage are the results of *)
(* the last writers before it in program order: what the stall rule        *)
(* Tuse + 1 < Tnew, the delayed additions, the three forwarding networks   *)
(* and the save registers are for together.                                *)
OperandsAreLatest ==
  \A p \in Places, k \in 1 .. 2 :
    UsedIn(p, k) = Stage(p) /\ ~pipe[p].dead /\ ~Doomed(p) => Operand(p, k)

(* Every value written back is the one the program means, and no squashed  *)
(* instruction writes: the register file is that of in-order execution.    *)
RegisterFileIsCurrent == \A r \in Regs : lrf[r]

(* The data cache answers in order and without a name: the accepted        *)
(* requests must be the access in DR that is marked as sent and the one    *)
(* that waits in MEM, no more and no fewer, or an answer goes to the wrong *)
(* load (req_completed, save_data_data_ok, the flushes between them).      *)
RequestsMatchAccesses ==
  /\ bus = (IF req_completed THEN 1 ELSE 0) + (IF mem_acc THEN 1 ELSE 0)
  /\ ~save_data_data_ok
  /\ req_completed => acc_mem # {}

(* A request is sent only for an instruction that is really executed: not  *)
(* for the annulled slot of a likely branch, and not in a cycle in which   *)
(* CP0 may take an exception before it or an interrupt.                    *)
RequestsAreCommitted ==
  data_req => /\ ~pipe[selected].dead
              /\ exception_ori \/ dreq_ready_int => priv_way /\ selected = 5

(* When everything before it has left the pipeline, the head of the queue  *)
(* issues, with its slot if it is a branch: no stall without end.          *)
DrainedHeadIssues ==
  /\ size > 0
  /\ \A p \in Places : ~pipe[p].valid
  => \/ way0_valid
     \/ size = 1 /\ IsBranch(queue_head(0).ins)

(* The ring holds exactly the instructions between head and tail: no entry *)
(* is overwritten, none that has left stays behind.                        *)
RingHoldsQueue ==
  /\ tail = Succ(head, size)
  /\ \A n \in 0 .. IQ_LENGTH - 1 : issue_queue[Succ(head, n)] # NoEntry <=> n < size

\* The queue as a sequence, and the pair in EX
Waiting == [n \in 1 .. size |-> issue_queue[Succ(head, n - 1)].ins]
Executing == (IF pipe[1].valid THEN <<pipe[1].ins>> ELSE <<>>) \o
             (IF pipe[0].valid THEN <<pipe[0].ins>> ELSE <<>>)

Instructions(S) == {i \in Program : i.cls \in S}

Order == INSTANCE IssueOrder WITH
  Length <- IQ_LENGTH,
  Branches <- Instructions({"branch", "likely", "link"}),
  Exclusive <- {Instructions({"load", "merge", "store", "ll", "sc"}),
                Instructions({"mdu"}),
                Instructions({"mfc0", "mtc0", "trap", "eret"})},
  queue <- Waiting,
  pair  <- Executing

(* The ring and its scoreboard hand the instructions on in program order,  *)
(* each once, in pairs that may be executed together, a branch with its    *)
(* slot, through every stall and flush, and the ring never overflows.      *)
ImplementsIssueOrder == Order!Spec
=============================================================================
