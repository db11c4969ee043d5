---------------------------- MODULE OperandProofs ----------------------------
(***************************************************************************)
(* Theorems about operands and results, for every program and every        *)
(* behaviour of cache and multiplier: the scoreboard, the bypassing        *)
(* networks and the save registers give every instruction what the program *)
(* means, and the register file is that of in-order execution.             *)
(***************************************************************************)
EXTENDS PipelineProofs

\* Changes of an entry
Reading(e, x) == [e EXCEPT !.v = x]
Writing(e, w, d, t, b) == [e EXCEPT !.wr = w, !.dst = d, !.Tnew = t, !.data = b]
Flagged(e, x, a, y) == [e EXCEPT !.exc = x, !.acc = a, !.priv = y]

LEMMA WritingIsEntry ==
  ASSUME NEW e \in Entry, NEW w \in Regs \cup {0}, NEW d \in Regs \cup {0},
         NEW t \in 0 .. 7, NEW b \in BOOLEAN
  PROVE  Writing(e, w, d, t, b) \in Entry
BY DEF Writing, Entry

LEMMA FlaggedIsEntry ==
  ASSUME NEW e \in Entry, NEW x \in BOOLEAN, NEW a \in BOOLEAN, NEW y \in BOOLEAN
  PROVE  Flagged(e, x, a, y) \in Entry
BY DEF Flagged, Entry

LEMMA EmptyIsEntry ==
  /\ Empty \in Entry
  /\ Empty.ins = NoInstr /\ ~Empty.valid /\ ~Empty.exc /\ ~Empty.acc /\ ~Empty.flt
  /\ ~Empty.priv /\ Empty.wr = 0 /\ Empty.dst = 0 /\ Empty.Tnew = 0 /\ ~Empty.data
  /\ \A k \in 1 .. 2 : Empty.v[k] /\ Empty.ins.rd[k] = 0
<1>0. \A k \in 1 .. 2 : k = 1 \/ k = 2
  OBVIOUS
<1>1. [k \in 1 .. 2 |-> TRUE] \in [1 .. 2 -> BOOLEAN]
  OBVIOUS
<1>2. Empty \in Entry
  BY <1>1 DEF Empty, Entry
<1>3. \A k \in 1 .. 2 : Empty.v[k]
  BY DEF Empty
<1>4. <<0, 0>>[1] = 0 /\ <<0, 0>>[2] = 0
  OBVIOUS
<1>. QED  BY <1>0, <1>2, <1>3, <1>4 DEF Empty, NoInstr

LEMMA SquashedIsEntry ==
  ASSUME NEW e \in Entry
  PROVE  /\ Squashed(e) \in Entry
         /\ Squashed(e).exc /\ ~Squashed(e).acc /\ Squashed(e).priv
         /\ Squashed(e).wr = 0 /\ Squashed(e).dst = 0 /\ Squashed(e).Tnew = 0
         /\ ~Squashed(e).data
         /\ Squashed(e).ins = e.ins /\ Squashed(e).valid = e.valid
         /\ Squashed(e).flt = e.flt /\ Squashed(e).v = e.v
<1> DEFINE g == Flagged(e, TRUE, FALSE, TRUE)
<1>1. 0 \in Regs \cup {0} /\ 0 \in 0 .. 7 /\ FALSE \in BOOLEAN /\ TRUE \in BOOLEAN
  OBVIOUS
<1>2. g \in Entry
  BY <1>1, FlaggedIsEntry
<1>3. Writing(g, 0, 0, 0, FALSE) \in Entry
  BY <1>1, <1>2, WritingIsEntry
<1>4. Squashed(e) = Writing(g, 0, 0, 0, FALSE)
  BY DEF Squashed, Flagged, Writing
<1>5. /\ Squashed(e).exc /\ ~Squashed(e).acc /\ Squashed(e).priv
      /\ Squashed(e).wr = 0 /\ Squashed(e).dst = 0 /\ Squashed(e).Tnew = 0
      /\ ~Squashed(e).data
  BY DEF Squashed, Entry
<1>6. /\ Squashed(e).ins = e.ins /\ Squashed(e).valid = e.valid
      /\ Squashed(e).flt = e.flt /\ Squashed(e).v = e.v
  BY DEF Squashed, Entry
<1>. QED  BY <1>3, <1>4, <1>5, <1>6

\* An instruction that stays
LEMMA HeldEntry ==
  ASSUME pipe \in [Places -> Entry], NEW p \in Places
  PROVE  /\ Held(p) \in Entry
         /\ \A f \in Fields \ {"v"} : Held(p)[f] = pipe[p][f]
         /\ \A k \in 1 .. 2 : Held(p).v[k] <=> (UsedIn(p, k) \in Stage(p) .. 4 => Operand(p, k))
<1>1. OperandsFrom(p, Stage(p)) \in [1 .. 2 -> BOOLEAN]
  BY DEF OperandsFrom
<1>2. pipe[p] \in Entry
  OBVIOUS
<1>3. Held(p) \in Entry
  BY <1>1, <1>2 DEF Held, Entry
<1>4. \A f \in Fields \ {"v"} : Held(p)[f] = pipe[p][f]
  BY <1>2 DEF Held, Fields, Entry
<1>5. Held(p).v = OperandsFrom(p, Stage(p))
  BY <1>2 DEF Held, Entry
<1>. QED  BY <1>3, <1>4, <1>5 DEF OperandsFrom

\* An entry goes on as it is, apart from its operands and its result
Onward(p, r) ==
  LET e == pipe[p]
  IN /\ e.valid /\ r.valid /\ r.ins = e.ins /\ r.v = Carried(p)
     /\ r.exc = e.exc /\ r.acc = e.acc /\ r.priv = e.priv /\ r.flt = e.flt

\* It goes on as an exception
Raised(p, r) ==
  LET e == pipe[p]
  IN /\ e.valid /\ r.valid /\ r.ins = e.ins /\ r.v = Carried(p)
     /\ r.exc /\ ~r.acc /\ r.priv /\ r.flt = e.flt

NoResult(r) == r.wr = 0 /\ r.dst = 0

LEMMA CarriedType ==
  ASSUME NEW p
  PROVE  Carried(p) \in [1 .. 2 -> BOOLEAN]
BY DEF Carried, OperandsFrom

LEMMA ReadingIsEntry ==
  ASSUME NEW e \in Entry, NEW x \in [1 .. 2 -> BOOLEAN]
  PROVE  /\ Reading(e, x) \in Entry
         /\ Reading(e, x).v = x
         /\ \A f \in Fields \ {"v"} : Reading(e, x)[f] = e[f]
BY DEF Reading, Entry, Fields

LEMMA DecType ==
  ASSUME NEW n \in 0 .. 7
  PROVE  Dec(n) \in 0 .. 7
BY DEF Dec

LEMMA Executed ==
  ASSUME pipe \in [Places -> Entry], NEW p \in EX, NEW event \in BOOLEAN, NEW annul \in BOOLEAN,
         pipe[p].acc => ~(annul /\ ~Way0(p))
  PROVE  LET e == pipe[p]
             r == AfterEX(p, event, annul)
         IN /\ r \in Entry
            /\ \/ r = Empty /\ (~e.valid \/ (annul /\ ~Way0(p)))
               \/ Raised(p, r) /\ NoResult(r) /\ (e.acc \/ e.ins.cls = "ov")
               \/ Onward(p, r) /\ NoResult(r) /\ e.ins.cls = "mov"
               \/ /\ Onward(p, r)
                  /\ r.wr = e.wr /\ r.dst = e.dst
                  /\ r.Tnew = IF ~e.acc /\ IsAlu(e.ins) /\ e.Tnew # MEM_GEN THEN 0
                              ELSE Dec(e.Tnew)
                  /\ ~e.acc /\ e.wr # 0 =>
                       (r.data <=> \/ e.ins.cls = "link"
                                   \/ (IsAlu(e.ins) \/ e.ins.cls = "mdu") /\ Operands(p))
<1> DEFINE e == Reading(pipe[p], Carried(p))
           flushed == annul /\ ~Way0(p)
           meant == [e EXCEPT !.dead = flushed, !.dst = IF flushed THEN 0 ELSE @]
           r == AfterEX(p, event, annul)
<1>1. pipe[p] \in Entry
  BY DEF EX, Places
<1>2. /\ e \in Entry /\ e.v = Carried(p)
      /\ \A f \in Fields \ {"v"} : e[f] = pipe[p][f]
  BY <1>1, CarriedType, ReadingIsEntry
<1>3. /\ e.ins = pipe[p].ins /\ e.acc = pipe[p].acc /\ e.exc = pipe[p].exc
      /\ e.valid = pipe[p].valid /\ e.flt = pipe[p].flt /\ e.priv = pipe[p].priv
      /\ e.wr = pipe[p].wr /\ e.dst = pipe[p].dst /\ e.Tnew = pipe[p].Tnew
      /\ e.data = pipe[p].data
  BY <1>2 DEF Fields
<1>4. r = IF ~e.valid THEN Empty
          ELSE IF e.acc THEN IF event THEN Squashed(meant)
                        ELSE [meant EXCEPT !.Tnew = Dec(@)]
          ELSE IF flushed THEN Empty
          ELSE CASE e.ins.cls = "mov" /\ event -> [e EXCEPT !.wr = 0, !.dst = 0, !.Tnew = 0]
            [] e.ins.cls = "ov"  /\ event -> Squashed(e)
            [] OTHER -> [e EXCEPT
                 !.Tnew = IF IsAlu(e.ins) /\ @ # MEM_GEN THEN 0 ELSE Dec(@),
                 !.data = /\ e.wr # 0
                          /\ \/ e.ins.cls = "link"
                             \/ (IsAlu(e.ins) \/ e.ins.cls = "mdu") /\ Operands(p)]
  BY DEF AfterEX, Reading
<1>. HIDE DEF e, r
<1>5. Dec(e.Tnew) \in 0 .. 7 /\ 0 \in 0 .. 7 /\ 0 \in Regs \cup {0}
  BY <1>2, DecType DEF Entry
<1>6. CASE ~e.valid
  BY <1>3, <1>4, <1>6, EmptyIsEntry DEF r
<1>7. CASE e.valid /\ e.acc
  <2>1. meant = [e EXCEPT !.dead = FALSE]
    BY <1>2, <1>3, <1>7 DEF Entry
  <2>. HIDE DEF meant
  <2>2. meant \in Entry
    BY <1>2, <2>1 DEF Entry
  <2>3. /\ meant.ins = e.ins /\ meant.acc = e.acc /\ meant.exc = e.exc
        /\ meant.valid = e.valid /\ meant.flt = e.flt /\ meant.priv = e.priv
        /\ meant.wr = e.wr /\ meant.dst = e.dst /\ meant.Tnew = e.Tnew /\ meant.v = e.v
    BY <1>2, <2>1 DEF Entry
  <2>4. CASE event
    <3>1. r = Squashed(meant)
      BY <1>4, <1>7, <2>4
    <3>. QED  BY ZenonT(60), <1>2, <1>3, <1>7, <2>2, <2>3, <3>1, SquashedIsEntry DEF Raised, NoResult, r
  <2>5. CASE ~event
    <3>1. r = [meant EXCEPT !.Tnew = Dec(e.Tnew)]
      BY <1>4, <1>7, <2>3, <2>5
    <3>2. r \in Entry
      BY <1>5, <2>2, <3>1 DEF Entry
    <3>3. /\ r.ins = e.ins /\ r.acc = e.acc /\ r.exc = e.exc
          /\ r.valid = e.valid /\ r.flt = e.flt /\ r.priv = e.priv
          /\ r.wr = e.wr /\ r.dst = e.dst /\ r.Tnew = Dec(e.Tnew) /\ r.v = e.v
      BY <2>2, <2>3, <3>1 DEF Entry
    <3>. QED  BY <1>2, <1>3, <1>7, <3>2, <3>3 DEF Onward, r
  <2>. QED  BY <2>4, <2>5
<1>8. CASE e.valid /\ ~e.acc /\ flushed
  BY <1>3, <1>4, <1>8, EmptyIsEntry DEF r
<1>9. CASE e.valid /\ ~e.acc /\ ~flushed /\ e.ins.cls = "mov" /\ event
  <2>1. r = Writing(e, 0, 0, 0, e.data)
    <3>1. r = [e EXCEPT !.wr = 0, !.dst = 0, !.Tnew = 0]
      BY <1>4, <1>9
    <3>. QED  BY <1>2, <3>1 DEF Writing, Entry
  <2>2. r \in Entry
    BY ZenonT(60), <1>2, <1>5, <2>1, WritingIsEntry DEF Entry
  <2>3. /\ r.ins = e.ins /\ r.acc = e.acc /\ r.exc = e.exc
        /\ r.valid = e.valid /\ r.flt = e.flt /\ r.priv = e.priv
        /\ r.wr = 0 /\ r.dst = 0 /\ r.v = e.v
    BY <1>2, <2>1 DEF Writing, Entry
  <2>. QED  BY <1>2, <1>3, <1>9, <2>2, <2>3 DEF Onward, NoResult, r
<1>10. CASE e.valid /\ ~e.acc /\ ~flushed /\ e.ins.cls = "ov" /\ event
  <2>1. r = Squashed(e)
    BY <1>4, <1>10
  <2>. QED  BY ZenonT(60), <1>2, <1>3, <1>10, <2>1, SquashedIsEntry DEF Raised, NoResult, r
<1>11. CASE e.valid /\ ~e.acc /\ ~flushed /\ ~(e.ins.cls = "mov" /\ event)
                                          /\ ~(e.ins.cls = "ov" /\ event)
  <2> DEFINE t == IF IsAlu(e.ins) /\ e.Tnew # MEM_GEN THEN 0 ELSE Dec(e.Tnew)
             d == /\ e.wr # 0
                  /\ \/ e.ins.cls = "link"
                     \/ (IsAlu(e.ins) \/ e.ins.cls = "mdu") /\ Operands(p)
  <2>1. r = [e EXCEPT !.Tnew = t, !.data = d]
    BY <1>4, <1>11
  <2>2. t \in 0 .. 7 /\ d \in BOOLEAN
    BY <1>5
  <2>3. /\ t = IF ~e.acc /\ IsAlu(e.ins) /\ e.Tnew # MEM_GEN THEN 0 ELSE Dec(e.Tnew)
        /\ e.wr # 0 => (d <=> \/ e.ins.cls = "link"
                              \/ (IsAlu(e.ins) \/ e.ins.cls = "mdu") /\ Operands(p))
    BY <1>11
  <2>. HIDE DEF t, d
  <2>4. r \in Entry
    BY <1>2, <2>1, <2>2 DEF Entry
  <2>5. /\ r.ins = e.ins /\ r.acc = e.acc /\ r.exc = e.exc
        /\ r.valid = e.valid /\ r.flt = e.flt /\ r.priv = e.priv
        /\ r.wr = e.wr /\ r.dst = e.dst /\ r.Tnew = t /\ r.v = e.v /\ r.data = d
    BY <1>2, <2>1 DEF Entry
  <2>. QED  BY <1>2, <1>3, <1>11, <2>3, <2>4, <2>5 DEF Onward, r
<1>. QED  BY <1>6, <1>7, <1>8, <1>9, <1>10, <1>11

LEMMA Translated ==
  ASSUME pipe \in [Places -> Entry], NEW p \in AT, NEW event \in BOOLEAN
  PROVE  LET e == pipe[p]
             r == AfterAT(p, event)
         IN /\ r \in Entry
            /\ \/ r = Empty /\ ~e.valid
               \/ /\ e.valid /\ r.valid /\ r.ins = e.ins /\ r.v = Carried(p)
                  /\ r.acc = e.acc /\ r.priv = e.priv /\ r.wr = e.wr /\ r.dst = e.dst
                  /\ r.data = e.data /\ r.Tnew = Dec(e.Tnew)
                  /\ r.exc = IF e.ins.cls = "trap" THEN ~event ELSE e.exc
                  /\ r.flt = IF e.ins.cls = "trap" THEN e.flt ELSE e.acc /\ event
<1> DEFINE e == pipe[p]
           g == [e EXCEPT !.v = Carried(p), !.Tnew = Dec(@)]
           r == AfterAT(p, event)
<1>1. e \in Entry
  BY DEF AT, Places
<1>2. Dec(e.Tnew) \in 0 .. 7 /\ Carried(p) \in [1 .. 2 -> BOOLEAN]
  BY <1>1, DecType, CarriedType DEF Entry
<1>3. r = IF ~g.valid THEN Empty
          ELSE IF g.ins.cls = "trap" THEN [g EXCEPT !.exc = ~event]
          ELSE [g EXCEPT !.flt = g.acc /\ event]
  BY DEF AfterAT
<1>. HIDE DEF e, r
<1>4. g \in Entry
  BY <1>1, <1>2 DEF Entry
<1>5. /\ g.ins = e.ins /\ g.acc = e.acc /\ g.exc = e.exc /\ g.data = e.data
      /\ g.valid = e.valid /\ g.flt = e.flt /\ g.priv = e.priv
      /\ g.wr = e.wr /\ g.dst = e.dst /\ g.Tnew = Dec(e.Tnew) /\ g.v = Carried(p)
  BY <1>1 DEF Entry
<1>. HIDE DEF g
<1>6. CASE ~g.valid
  BY <1>3, <1>5, <1>6, EmptyIsEntry DEF e, r
<1>7. CASE g.valid /\ g.ins.cls = "trap"
  <2>1. r = [g EXCEPT !.exc = ~event]
    BY <1>3, <1>7
  <2>2. r \in Entry
    BY <1>4, <2>1 DEF Entry
  <2>3. /\ r.ins = g.ins /\ r.acc = g.acc /\ r.exc = ~event /\ r.data = g.data
        /\ r.valid = g.valid /\ r.flt = g.flt /\ r.priv = g.priv
        /\ r.wr = g.wr /\ r.dst = g.dst /\ r.Tnew = g.Tnew /\ r.v = g.v
    BY <1>4, <2>1 DEF Entry
  <2>. QED  BY <1>5, <1>7, <2>2, <2>3 DEF e, r
<1>8. CASE g.valid /\ g.ins.cls # "trap"
  <2>1. r = [g EXCEPT !.flt = g.acc /\ event]
    BY <1>3, <1>8
  <2>2. r \in Entry
    BY SMTT(30), <1>4, <2>1 DEF Entry
  <2>3. /\ r.ins = g.ins /\ r.acc = g.acc /\ r.exc = g.exc /\ r.data = g.data
        /\ r.valid = g.valid /\ r.flt = (g.acc /\ event) /\ r.priv = g.priv
        /\ r.wr = g.wr /\ r.dst = g.dst /\ r.Tnew = g.Tnew /\ r.v = g.v
    BY <1>4, <2>1 DEF Entry
  <2>. QED  BY <1>5, <1>8, <2>2, <2>3 DEF e, r
<1>. QED  BY <1>6, <1>7, <1>8

\* The access in DR that has an error takes the younger half of its pair along
Faulty(q) == q \in DR /\ pipe[q].acc /\ pipe[q].flt

LEMMA CheckedIsEntry ==
  ASSUME pipe \in [Places -> Entry], NEW p \in DR, Beside(pipe[5], pipe[4])
  PROVE  LET e == pipe[p]
             c == Checked(p)
         IN /\ c \in Entry
            /\ \/ c = Empty /\ p = 4 /\ Faulty(5)
               \/ c = Squashed(e) /\ Faulty(p)
               \/ /\ ~Faulty(p) /\ ~(p = 4 /\ Faulty(5))
                  /\ \A f \in Fields \ {"acc"} : c[f] = e[f]
                  /\ c.acc <=> e.acc /\ ~Unlinked(p)
<1> DEFINE e == pipe[p]
           c == Checked(p)
<1>1. e \in Entry
  BY DEF DR, Places
<1>2. CASE acc_mem = {}
  <2>1. c = e
    BY <1>2 DEF Checked
  <2>2. \A q \in DR : ~pipe[q].acc
    BY <1>2 DEF acc_mem
  <2>. QED  BY <1>1, <2>1, <2>2 DEF Faulty, DR
<1>3. CASE acc_mem # {}
  <2>1. PICK q \in DR : pipe[q].acc
    BY <1>3 DEF acc_mem
  <2>2. acc_mem = {q} /\ selected = q
    BY <2>1, SelectedIsTheAccess
  <2>3. \A x \in DR : x # q => ~pipe[x].acc
    BY <2>2 DEF acc_mem
  <2>4. CASE pipe[q].flt /\ p = q
    <3>1. c = Squashed(e)
      BY <2>2, <2>4 DEF Checked, DR
    <3>. QED  BY <1>1, <2>1, <2>4, <3>1, SquashedIsEntry DEF Faulty
  <2>5. CASE pipe[q].flt /\ p < q
    <3>1. c = Empty
      BY <2>2, <2>5 DEF Checked, DR
    <3>2. p = 4 /\ q = 5
      BY <2>5 DEF DR
    <3>. QED  BY <2>1, <2>5, <3>1, <3>2, EmptyIsEntry DEF Faulty
  <2>6. CASE ~(pipe[q].flt /\ p = q) /\ ~(pipe[q].flt /\ p < q)
    <3> DEFINE b == e.acc /\ ~Unlinked(p)
    <3>1. c = [e EXCEPT !.acc = b]
      BY <2>2, <2>6 DEF Checked
    <3>2. c \in Entry
      BY <1>1, <3>1 DEF Entry
    <3>3. (c.acc <=> b) /\ \A f \in Fields \ {"acc"} : c[f] = e[f]
      BY <1>1, <3>1 DEF Entry, Fields
    <3>4. ~Faulty(p) /\ ~(p = 4 /\ Faulty(5))
      BY <2>3, <2>6 DEF Faulty, DR
    <3>. QED  BY <3>2, <3>3, <3>4
  <2>. QED  BY <2>4, <2>5, <2>6
<1>. QED  BY <1>2, <1>3

LEMMA Left ==
  ASSUME pipe \in [Places -> Entry], NEW p \in DR, Beside(pipe[5], pipe[4]),
         NEW taken \in BOOLEAN, LLbit \in BOOLEAN
  PROVE  LET e == pipe[p]
             r == AfterDR(p, taken)
         IN /\ r \in Entry
            /\ \/ r = Empty /\ (~e.valid \/ (p = 4 /\ Faulty(5)) \/ (taken /\ ~priv_way))
               \/ /\ e.valid /\ r.valid /\ r.ins = e.ins /\ r.v = Carried(p)
                  /\ r.acc => e.acc
                  /\ e.acc /\ e.ins.cls # "sc" /\ ~Faulty(p) => r.acc
                  /\ ~(taken /\ ~priv_way)
                  /\ \/ NoResult(r) /\ (Faulty(p) \/ (taken /\ p = 4 /\ r.Tnew = Dec(e.Tnew)))
                     \/ /\ ~Faulty(p) /\ ~(taken /\ p = 4)
                        /\ r.wr = e.wr /\ r.dst = e.dst
                        /\ r.Tnew = Dec(e.Tnew)
                        /\ e.wr # 0 =>
                             (r.data <=> CASE e.ins.cls = "mfc0" -> TRUE
                                           [] e.ins.cls = "sc"   -> ResultIsTrue
                                           [] OTHER              -> e.data)
<1> DEFINE c == Checked(p)
           d == IF c.wr = 0 THEN FALSE
                ELSE CASE c.ins.cls = "mfc0" -> TRUE
                       [] c.ins.cls = "sc"   -> ResultIsTrue
                       [] OTHER              -> c.data
           g == [c EXCEPT !.v = Carried(p), !.Tnew = Dec(@), !.data = d]
           r == AfterDR(p, taken)
<1>0. pipe[p] \in Entry
  BY DEF DR, Places
<1>1. /\ c \in Entry
      /\ \/ c = Empty /\ p = 4 /\ Faulty(5)
         \/ c = Squashed(pipe[p]) /\ Faulty(p)
         \/ /\ ~Faulty(p) /\ ~(p = 4 /\ Faulty(5))
            /\ \A f \in Fields \ {"acc"} : c[f] = pipe[p][f]
            /\ c.acc <=> pipe[p].acc /\ ~Unlinked(p)
  BY CheckedIsEntry
<1>2. r = IF ~g.valid THEN Empty
          ELSE IF taken /\ priv_way /\ ~Way0(p) THEN [g EXCEPT !.wr = 0, !.dst = 0]
          ELSE IF taken /\ ~priv_way THEN Empty
          ELSE g
  BY DEF AfterDR
<1>3. c.data \in BOOLEAN /\ Dec(c.Tnew) \in 0 .. 7 /\ Carried(p) \in [1 .. 2 -> BOOLEAN]
      /\ 0 \in Regs \cup {0}
  BY <1>1, DecType, CarriedType DEF Entry
<1>4. d \in BOOLEAN
  BY <1>3 DEF ResultIsTrue
<1>5. c.wr # 0 => (d <=> CASE c.ins.cls = "mfc0" -> TRUE
                           [] c.ins.cls = "sc"   -> ResultIsTrue
                           [] OTHER              -> c.data)
  BY <1>3
<1>. HIDE DEF c, d, r
<1>6. g \in Entry
  BY <1>1, <1>3, <1>4 DEF Entry
<1>7. /\ g.ins = c.ins /\ g.acc = c.acc /\ g.exc = c.exc /\ g.data = d
      /\ g.valid = c.valid /\ g.flt = c.flt /\ g.priv = c.priv
      /\ g.wr = c.wr /\ g.dst = c.dst /\ g.Tnew = Dec(c.Tnew) /\ g.v = Carried(p)
  BY <1>1 DEF Entry
<1>. HIDE DEF g
<1>8. Way0(p) <=> p = 5
  BY DEF Way0, DR
<1> DEFINE z == [g EXCEPT !.wr = 0, !.dst = 0]
<1>9. z \in Entry
  BY <1>3, <1>6 DEF Entry
<1>10. /\ z.ins = g.ins /\ z.acc = g.acc /\ z.valid = g.valid /\ z.v = g.v
       /\ z.wr = 0 /\ z.dst = 0 /\ z.Tnew = g.Tnew
  BY <1>6 DEF Entry
<1>. HIDE DEF z
<1>11. r = IF ~g.valid THEN Empty
           ELSE IF taken /\ priv_way /\ ~Way0(p) THEN z
           ELSE IF taken /\ ~priv_way THEN Empty
           ELSE g
  BY <1>2 DEF z
<1>12. r \in Entry
  BY <1>6, <1>9, <1>11, EmptyIsEntry
<1>13. CASE c = Empty /\ p = 4 /\ Faulty(5)
  <2>1. r = Empty
    BY <1>7, <1>11, <1>13, EmptyIsEntry
  <2>. QED  BY <1>12, <1>13, <2>1 DEF r
<1>14. CASE c = Squashed(pipe[p]) /\ Faulty(p)
  <2>1. /\ c.ins = pipe[p].ins /\ c.valid = pipe[p].valid /\ ~c.acc
        /\ c.wr = 0 /\ c.dst = 0
    BY <1>0, <1>14, SquashedIsEntry
  <2>2. pipe[p].acc => pipe[p].valid
    BY DEF Beside, DR
  <2>3. pipe[p].valid /\ c.valid /\ g.valid
    BY <1>7, <1>14, <2>1, <2>2 DEF Faulty
  <2>4. CASE taken /\ ~priv_way
    <3>1. r = Empty
      BY <1>11, <2>3, <2>4
    <3>. QED  BY <1>12, <2>4, <3>1 DEF r
  <2>5. CASE ~(taken /\ ~priv_way)
    <3>1. r = z \/ r = g
      BY <1>11, <2>3, <2>5
    <3>2. /\ r.ins = pipe[p].ins /\ ~r.acc /\ r.valid /\ r.v = Carried(p)
          /\ r.wr = 0 /\ r.dst = 0
      BY <1>7, <1>10, <2>1, <2>3, <3>1
    <3>. QED  BY <1>12, <1>14, <2>3, <2>5, <3>2 DEF r, NoResult
  <2>. QED  BY <2>4, <2>5
<1>15. CASE /\ ~Faulty(p) /\ ~(p = 4 /\ Faulty(5))
            /\ \A f \in Fields \ {"acc"} : c[f] = pipe[p][f]
            /\ c.acc <=> pipe[p].acc /\ ~Unlinked(p)
  <2>1. /\ c.ins = pipe[p].ins /\ c.valid = pipe[p].valid /\ c.wr = pipe[p].wr
        /\ c.dst = pipe[p].dst /\ c.Tnew = pipe[p].Tnew /\ c.data = pipe[p].data
    BY <1>15 DEF Fields
  <2>2. CASE ~g.valid
    BY <1>7, <1>11, <1>12, <2>1, <2>2 DEF r
  <2>3. CASE g.valid /\ taken /\ ~priv_way
    <3>1. r = Empty
      BY <1>11, <2>3
    <3>. QED  BY <1>12, <2>3, <3>1 DEF r
  <2>4. CASE g.valid /\ ~(taken /\ ~priv_way) /\ taken /\ p = 4
    <3>1. r = z
      BY <1>8, <1>11, <2>4
    <3>2. /\ r.ins = pipe[p].ins /\ r.acc = c.acc /\ r.valid /\ r.v = Carried(p)
          /\ r.wr = 0 /\ r.dst = 0 /\ pipe[p].valid /\ r.Tnew = Dec(pipe[p].Tnew)
      BY <1>7, <1>10, <2>1, <2>4, <3>1
    <3>. QED  BY <1>12, <1>15, <2>4, <3>2 DEF r, NoResult, Unlinked
  <2>5. CASE g.valid /\ ~(taken /\ ~priv_way) /\ ~(taken /\ p = 4)
    <3>1. r = g
      <4>1. CASE ~taken
        BY <1>11, <2>5, <4>1
      <4>2. CASE taken
        <5>1. priv_way /\ Way0(p)
          BY <1>8, <2>5, <4>2 DEF DR
        <5>. QED  BY <1>11, <2>5, <5>1
      <4>. QED  BY <4>1, <4>2
    <3>2. /\ r.ins = pipe[p].ins /\ r.acc = c.acc /\ r.valid /\ r.v = Carried(p)
          /\ r.wr = pipe[p].wr /\ r.dst = pipe[p].dst /\ pipe[p].valid
          /\ r.Tnew = Dec(pipe[p].Tnew) /\ r.data = d
      BY <1>7, <2>1, <2>5, <3>1
    <3>. QED  BY <1>5, <1>12, <1>15, <2>1, <2>5, <3>2 DEF r, Unlinked
  <2>. QED  BY <2>2, <2>3, <2>4, <2>5
<1>. QED  BY <1>1, <1>13, <1>14, <1>15

LEMMA Delivered ==
  ASSUME pipe \in [Places -> Entry], NEW p \in MEM
  PROVE  LET e == pipe[p]
             r == AfterMEM(p)
         IN /\ r \in Entry
            /\ r.ins = NoInstr /\ r.valid = e.valid /\ r.wr = e.wr /\ r.dst = e.dst
            /\ r.Tnew = Dec(e.Tnew) /\ ~r.exc /\ ~r.acc /\ ~r.flt /\ ~r.priv
            /\ \A k \in 1 .. 2 : r.v[k]
            /\ e.wr # 0 =>
                 (r.data <=> IF e.acc /\ e.ins.cls # "sc" THEN Operand(p, 2)
                             ELSE IF e.Tnew = 1 THEN Operands(p)
                             ELSE e.data)
<1> DEFINE e == pipe[p]
           d == /\ e.wr # 0
                /\ IF e.acc /\ e.ins.cls # "sc" THEN Operand(p, 2)
                   ELSE IF e.Tnew = 1 THEN Operands(p)
                   ELSE e.data
           r == AfterMEM(p)
<1>1. e \in Entry
  BY DEF MEM, Places
<1>2. Dec(e.Tnew) \in 0 .. 7 /\ d \in BOOLEAN
  BY <1>1, DecType DEF Entry
<1>3. r = [Empty EXCEPT !.valid = e.valid, !.wr = e.wr, !.dst = e.dst,
                        !.Tnew = Dec(e.Tnew), !.data = d]
  BY DEF AfterMEM
<1>4. e.wr # 0 => (d <=> IF e.acc /\ e.ins.cls # "sc" THEN Operand(p, 2)
                         ELSE IF e.Tnew = 1 THEN Operands(p)
                         ELSE e.data)
  OBVIOUS
<1>. HIDE DEF e, d, r
<1>5. r = Writing([Empty EXCEPT !.valid = e.valid], e.wr, e.dst, Dec(e.Tnew), d)
  BY <1>3 DEF Writing
<1>6. [Empty EXCEPT !.valid = e.valid] \in Entry
  BY <1>1, EmptyIsEntry DEF Entry
<1>7. r \in Entry
  BY ZenonT(60), <1>1, <1>2, <1>5, <1>6, WritingIsEntry DEF Entry
<1>8. /\ r.ins = Empty.ins /\ r.valid = e.valid /\ r.wr = e.wr /\ r.dst = e.dst
      /\ r.Tnew = Dec(e.Tnew) /\ r.exc = Empty.exc /\ r.acc = Empty.acc
      /\ r.flt = Empty.flt /\ r.priv = Empty.priv /\ r.v = Empty.v /\ r.data = d
  BY <1>3, EmptyIsEntry DEF Entry
<1>. QED  BY <1>4, <1>7, <1>8, EmptyIsEntry DEF e, r

-----------------------------------------------------------------------------
(* A cycle of the stage registers: the places below f are flushed, those   *)
(* below h hold, the two at h take what is issued or a bubble, and what    *)
(* stood further on has moved by a stage.                                  *)

After(p, event, annul, fault, taken) ==
  IF p < 2 THEN AfterEX(p, event[p], annul)
  ELSE IF p < 4 THEN AfterAT(p, fault[p])
  ELSE IF p < 6 THEN AfterDR(p, taken)
  ELSE AfterMEM(p)

Shift(h, f, event, annul, fault, taken) ==
  \A p \in Places :
    pipe'[p] = IF p < f THEN Empty
               ELSE IF p < h THEN Held(p)
               ELSE IF p < h + 2 THEN IF h = 0 THEN IssuedPair(p) ELSE Empty
               ELSE After(p - 2, event, annul, fault, taken)

Turn(h, f, event, annul, fault, taken) ==
  /\ h \in {0, 2, 6, 8} /\ f \in {0, 2, 4, 6}
  /\ event \in [EX -> BOOLEAN] /\ annul \in BOOLEAN /\ fault \in [AT -> BOOLEAN]
  /\ taken \in BOOLEAN
  /\ annul => pipe[1].ins.cls = "likely"
  /\ Shift(h, f, event, annul, fault, taken)
  /\ taken => f = 6 \/ (f = 4 /\ h >= 6 /\ priv_way)
  /\ exception_ori /\ ~exc_req_complete => taken
  /\ f = 0 => \E g \in Groups : Ring(g, IF h = 0 THEN issue_instr_num ELSE 0)
  /\ f > 0 => FlushRing("no") \/ FlushRing("handler")
  /\ exc_req_complete' \in BOOLEAN
  /\ exc_req_complete' =>
       /\ h >= 6
       /\ \/ taken /\ FlushRing("handler")
          \/ exc_req_complete /\ f = 0
          \/ exc_req_complete /\ \E p \in EX : pipe[p].valid

LEMMA StagesShift ==
  ASSUME NEW addr_ok, NEW data_ok, NEW mdu \in BOOLEAN, NEW event, NEW annul, NEW fault,
         NEW bp_fail \in BOOLEAN, NEW exception \in BOOLEAN,
         Stages(addr_ok, data_ok, mdu, event, annul, fault, bp_fail, exception)
  PROVE  LET d == dreq_stall(addr_ok, data_ok)
             h == IF mem_stall(data_ok) THEN 8 ELSE IF d THEN 6
                  ELSE IF mdu /\ ~bp_fail /\ ~exception THEN 2 ELSE 0
             f == IF exception THEN IF d /\ priv_way THEN 4 ELSE 6
                  ELSE IF bp_fail THEN IF d THEN 2 ELSE 4 ELSE 0
         IN Shift(h, f, event, annul, fault, exception)
<1> DEFINE m == mem_stall(data_ok)
           d == dreq_stall(addr_ok, data_ok)
           h == IF m THEN 8 ELSE IF d THEN 6
                  ELSE IF mdu /\ ~bp_fail /\ ~exception THEN 2 ELSE 0
           f == IF exception THEN IF d /\ priv_way THEN 4 ELSE 6
                  ELSE IF bp_fail THEN IF d THEN 2 ELSE 4 ELSE 0
<1>1. /\ \A p \in EX : pipe'[p] = IF exception \/ bp_fail THEN Empty
                               ELSE IF mdu \/ d THEN Held(p) ELSE IssuedPair(p)
      /\ \A p \in AT : pipe'[p] = IF exception THEN Empty
                               ELSE IF d THEN Held(p)
                               ELSE IF (mdu \/ d) \/ bp_fail THEN Empty
                               ELSE AfterEX(p - 2, event[p - 2], annul)
      /\ \A p \in DR : pipe'[p] = IF exception /\ (d => ~priv_way) THEN Empty
                               ELSE IF d THEN Held(p)
                               ELSE AfterAT(p - 2, fault[p - 2])
      /\ \A p \in MEM : pipe'[p] = IF m THEN Held(p)
                               ELSE IF d THEN Empty
                               ELSE AfterDR(p - 2, exception)
      /\ \A p \in WB : pipe'[p] = IF m THEN Empty ELSE AfterMEM(p - 2)
  BY StageMoves
<1>2. m => d
  BY DEF dreq_stall
<1>3. m \in BOOLEAN /\ d \in BOOLEAN /\ priv_way \in BOOLEAN
  BY DEF mem_stall, dreq_stall, priv_way
<1>. HIDE DEF m, d
<1>. SUFFICES ASSUME NEW p \in Places
     PROVE  pipe'[p] = IF p < f THEN Empty
                       ELSE IF p < h THEN Held(p)
                       ELSE IF p < h + 2 THEN IF h = 0 THEN IssuedPair(p) ELSE Empty
                       ELSE After(p - 2, event, annul, fault, exception)
  BY DEF Shift, m, d
<1>4. CASE p \in EX
  <2>1. p \in Int /\ p < 2 /\ 0 <= p
    BY <1>4 DEF EX
  <2>. QED  BY <1>1, <1>2, <1>4, <2>1
<1>5. CASE p \in AT
  <2>1. p \in Int /\ p < 4 /\ 2 <= p /\ p - 2 < 2
    BY <1>5 DEF AT
  <2>. QED  BY <1>1, <1>2, <1>5, <2>1 DEF After
<1>6. CASE p \in DR
  <2>1. p \in Int /\ p < 6 /\ 4 <= p /\ p - 2 < 4 /\ 2 <= p - 2
    BY <1>6 DEF DR
  <2>2. After(p - 2, event, annul, fault, exception) = AfterAT(p - 2, fault[p - 2])
    BY <2>1 DEF After
  <2>. QED  BY <1>1, <1>2, <1>3, <1>6, <2>1, <2>2
<1>7. CASE p \in MEM
  <2>1. p \in Int /\ p < 8 /\ 6 <= p /\ p - 2 < 6 /\ 4 <= p - 2
    BY <1>7 DEF MEM
  <2>2. After(p - 2, event, annul, fault, exception) = AfterDR(p - 2, exception)
    BY <2>1 DEF After
  <2>. QED  BY <1>1, <1>2, <1>7, <2>1, <2>2
<1>8. CASE p \in WB
  <2>1. p \in Int /\ p < 10 /\ 8 <= p /\ 6 <= p - 2
    BY <1>8 DEF WB
  <2>2. After(p - 2, event, annul, fault, exception) = AfterMEM(p - 2)
    BY <2>1 DEF After
  <2>. QED  BY <1>1, <1>2, <1>8, <2>1, <2>2
<1>. QED  BY <1>4, <1>5, <1>6, <1>7, <1>8 DEF Places, EX, AT, DR, MEM, WB

LEMMA NextIsTurn ==
  ASSUME Next, Beside(pipe[5], pipe[4])
  PROVE  /\ WriteBack
         /\ \E h, f, event, annul, fault, taken : Turn(h, f, event, annul, fault, taken)
<1>1. PICK addr_ok \in Offered(data_req), data_ok \in Offered(bus > 0),
           mdu \in Offered(\E p \in EX : pipe[p].ins.cls = "mdu") :
        /\ WriteBack
        /\ \/ \E fault \in [AT -> BOOLEAN] :
                   \/ \E event \in [EX -> BOOLEAN], annul \in Offered(Untaken) :
                           Advance(addr_ok, data_ok, mdu, event, annul, fault)
                   \/ Mispredict(addr_ok, data_ok, mdu, fault)
           \/ Redirect(addr_ok, data_ok, mdu)
  BY DEF Next
<1> DEFINE quiet == [p \in EX |-> FALSE]
           none  == [p \in AT |-> FALSE]
           m == mem_stall(data_ok)
           d == dreq_stall(addr_ok, data_ok)
<1>2. quiet \in [EX -> BOOLEAN] /\ none \in [AT -> BOOLEAN]
  OBVIOUS
<1>3. mdu \in BOOLEAN
  <2>1. (\E p \in EX : pipe[p].ins.cls = "mdu") \in BOOLEAN
    OBVIOUS
  <2>. QED  BY <1>1, <2>1, OfferedIsGuarded
<1>4. (m => d) /\ m \in BOOLEAN /\ d \in BOOLEAN /\ priv_way \in BOOLEAN
  BY DEF mem_stall, dreq_stall, priv_way
<1>. HIDE DEF quiet, none, m, d
<1>5. ASSUME NEW fault \in [AT -> BOOLEAN], NEW event \in [EX -> BOOLEAN],
             NEW annul \in Offered(Untaken),
             Advance(addr_ok, data_ok, mdu, event, annul, fault)
      PROVE  \E h, f : Turn(h, f, event, annul, fault, FALSE)
  <2>1. annul \in BOOLEAN /\ (annul => pipe[1].ins.cls = "likely")
    <3>1. Untaken \in BOOLEAN
      BY DEF Untaken
    <3>. QED  BY <3>1, OfferedIsGuarded DEF Untaken
  <2> DEFINE h == IF m THEN 8 ELSE IF d THEN 6 ELSE IF mdu THEN 2 ELSE 0
  <2>2. Shift(h, 0, event, annul, fault, FALSE)
    <3>1. Stages(addr_ok, data_ok, mdu, event, annul, fault, FALSE, FALSE)
      BY <1>5 DEF Advance
    <3>. QED  BY ZenonT(60), <1>3, <3>1, StagesShift DEF m, d
  <2>3. /\ ~(exception_ori /\ ~exc_req_complete)
        /\ \E g \in Groups : Ring(g, IF mdu \/ d THEN 0 ELSE issue_instr_num)
        /\ exc_req_complete' = (d /\ exception_ori)
    BY <1>5 DEF Advance, d
  <2>4. (mdu \/ d) <=> h # 0
    BY <1>3, <1>4
  <2>5. \E g \in Groups : Ring(g, IF h = 0 THEN issue_instr_num ELSE 0)
    BY <2>3, <2>4
  <2>6. h \in {0, 2, 6, 8} /\ (d => h >= 6)
    BY <1>4
  <2>. HIDE DEF h
  <2>7. exc_req_complete' \in BOOLEAN
    BY <2>3
  <2>8. exc_req_complete' => h >= 6 /\ exc_req_complete
    BY <2>3, <2>6
  <2>9. Turn(h, 0, event, annul, fault, FALSE)
    <3>1. h \in {0, 2, 6, 8} /\ 0 \in {0, 2, 4, 6} /\ FALSE \in BOOLEAN
      BY <2>6
    <3>2. exception_ori /\ ~exc_req_complete => FALSE
      BY <2>3
    <3>3. 0 > 0 => FlushRing("no") \/ FlushRing("handler")
      OBVIOUS
    <3>. QED  BY <2>1, <2>2, <2>5, <2>7, <2>8, <3>1, <3>2, <3>3, Zenon DEF Turn
  <2>. QED  BY <2>9
<1>6. ASSUME NEW fault \in [AT -> BOOLEAN], Mispredict(addr_ok, data_ok, mdu, fault)
      PROVE  \E h, f : Turn(h, f, quiet, FALSE, fault, FALSE)
  <2> DEFINE h == IF m THEN 8 ELSE IF d THEN 6 ELSE 0
             f == IF d THEN 2 ELSE 4
  <2>2. Shift(h, f, quiet, FALSE, fault, FALSE)
    <3>1. Stages(addr_ok, data_ok, mdu, quiet, FALSE, fault, TRUE, FALSE)
      BY <1>6 DEF Mispredict, quiet
    <3>. QED  BY <1>3, <3>1, StagesShift DEF m, d
  <2>3. /\ ~(exception_ori /\ ~exc_req_complete)
        /\ FlushRing("no")
        /\ exc_req_complete' = (d /\ exception_ori)
        /\ \E p \in EX : pipe[p].valid
    BY <1>6 DEF Mispredict, d
  <2>6. h \in {0, 2, 6, 8} /\ (d => h >= 6) /\ f \in {0, 2, 4, 6} /\ f > 0
    BY <1>4
  <2>. HIDE DEF h, f
  <2>7. exc_req_complete' \in BOOLEAN
    BY <2>3
  <2>8. exc_req_complete' => h >= 6 /\ exc_req_complete
    BY <2>3, <2>6
  <2>9. Turn(h, f, quiet, FALSE, fault, FALSE)
    <3>1. f > 0 /\ f # 0 /\ FALSE \in BOOLEAN
      BY <2>6
    <3>2. exception_ori /\ ~exc_req_complete => FALSE
      BY <2>3
    <3>. QED  BY <1>2, <2>2, <2>3, <2>6, <2>7, <2>8, <3>1, <3>2, Zenon DEF Turn
  <2>. QED  BY <2>9
<1>7. ASSUME Redirect(addr_ok, data_ok, mdu)
      PROVE  \E h, f : Turn(h, f, quiet, FALSE, none, TRUE)
  <2> DEFINE h == IF m THEN 8 ELSE IF d THEN 6 ELSE 0
             f == IF d /\ priv_way THEN 4 ELSE 6
             x == (exception_ori \/ dreq_ready_int) /\ ~exc_req_complete
  <2>2. Shift(h, f, quiet, FALSE, none, TRUE)
    <3>1. Stages(addr_ok, data_ok, mdu, quiet, FALSE, none, FALSE, TRUE)
      BY <1>7 DEF Redirect, quiet, none
    <3>. QED  BY <1>3, <3>1, StagesShift DEF m, d
  <2>3. /\ FlushRing(IF x THEN "handler" ELSE "no")
        /\ exc_req_complete' = (d /\ x)
    BY <1>7 DEF Redirect, d
  <2>4. x \in BOOLEAN
    OBVIOUS
  <2>6. /\ h \in {0, 2, 6, 8} /\ (d => h >= 6) /\ f \in {0, 2, 4, 6} /\ f > 0
        /\ f = 6 \/ (f = 4 /\ h >= 6 /\ priv_way)
    BY <1>4
  <2>. HIDE DEF h, f, x
  <2>7. exc_req_complete' \in BOOLEAN
    BY <2>3
  <2>8. exc_req_complete' => h >= 6 /\ FlushRing("handler")
    BY <2>3, <2>6
  <2>9. FlushRing("no") \/ FlushRing("handler")
    BY <2>3
  <2>10. Turn(h, f, quiet, FALSE, none, TRUE)
    <3>1. f # 0 /\ TRUE \in BOOLEAN /\ FALSE \in BOOLEAN
      BY <2>6
    <3>. QED  BY <1>2, <2>2, <2>6, <2>7, <2>8, <2>9, <3>1, Zenon DEF Turn
  <2>. QED  BY <2>10
<1>. QED  BY <1>1, <1>5, <1>6, <1>7

-----------------------------------------------------------------------------
(* The shape of the entries.                                               *)

Typed == /\ pipe \in [Places -> Entry]
         /\ lrf \in [Regs -> BOOLEAN]
         /\ exc_req_complete \in BOOLEAN /\ LLbit \in BOOLEAN

\* What does not hold an instruction does nothing, and what writes a register
\* writes that of its instruction
Shaped(e) ==
  /\ ~e.valid => e.wr = 0 /\ ~e.acc /\ e.ins = NoInstr
  /\ e.dst = e.wr
  /\ e.wr \in {0, e.ins.wr}

\* Before MEM, an entry that CP0 looks at is privileged or has an exception
Marked(e) ==
  /\ e.exc => e.priv /\ e.valid
  /\ e.priv => IsPriv(e.ins) \/ e.exc
  /\ IsPriv(e.ins) => e.priv
  /\ e.flt => e.acc

ShapeInv ==
  /\ \A p \in 0 .. 7 : Shaped(pipe[p])
  /\ \A p \in 0 .. 5 : Marked(pipe[p])
  /\ \A p \in 0 .. 3 : ~pipe[p].flt
  /\ \A p \in WB : pipe[p].ins = NoInstr /\ pipe[p].dst = pipe[p].wr

\* What the next stage takes from an entry
Moved(p, r) ==
  LET e == pipe[p]
  IN /\ r \in Entry
     /\ r.wr \in {0, e.wr} /\ r.dst = r.wr
     /\ r.wr # 0 => r.Tnew = Dec(e.Tnew) \/ (p < 2 /\ r.Tnew = 0)
     /\ r.ins.cls = "cal" =>
          r.Tnew = Dec(e.Tnew) \/ (p < 2 /\ r.Tnew = 0 /\ e.Tnew # MEM_GEN)
     /\ \/ p < 6 /\ r = Empty
        \/ p < 6 /\ e.valid /\ r.valid /\ r.ins = e.ins /\ r.v = Carried(p)
        \/ p >= 6 /\ r.ins = NoInstr /\ \A k \in 1 .. 2 : r.v[k]

LEMMA NoInstrReads == NoInstr.cls = "none" /\ NoInstr.wr = 0 /\ \A k \in 1 .. 2 : NoInstr.rd[k] = 0
BY EmptyIsEntry DEF NoInstr, Empty

LEMMA EmptyShaped == Shaped(Empty) /\ Marked(Empty) /\ ~Empty.flt
BY EmptyIsEntry, NoInstrReads DEF Shaped, Marked, IsPriv

LEMMA ExecutedMoves ==
  ASSUME Typed, ShapeInv, NEW p \in EX, NEW event \in BOOLEAN, NEW annul \in BOOLEAN,
         pipe[p].acc => ~(annul /\ ~Way0(p)), pipe[p].acc => IsAccmem(pipe[p].ins)
  PROVE  LET r == AfterEX(p, event, annul)
         IN Moved(p, r) /\ Shaped(r) /\ Marked(r) /\ ~r.flt
<1> DEFINE e == pipe[p]
           r == AfterEX(p, event, annul)
<1>1. e \in Entry /\ Shaped(e) /\ Marked(e) /\ ~e.flt /\ p < 2 /\ p < 6
  BY DEF Typed, ShapeInv, EX, Places
<1>2. r \in Entry
  BY Executed DEF Typed
<1>3. \/ r = Empty
      \/ Raised(p, r) /\ NoResult(r) /\ (e.acc \/ e.ins.cls = "ov")
      \/ Onward(p, r) /\ NoResult(r) /\ e.ins.cls = "mov"
      \/ /\ Onward(p, r)
         /\ r.wr = e.wr /\ r.dst = e.dst
         /\ r.Tnew = IF ~e.acc /\ IsAlu(e.ins) /\ e.Tnew # MEM_GEN THEN 0
                     ELSE Dec(e.Tnew)
  BY Executed DEF Typed
<1>. HIDE DEF r
<1>4. CASE r = Empty
  BY <1>1, <1>2, <1>4, EmptyIsEntry, EmptyShaped, NoInstrReads DEF Moved, r
<1>5. CASE Raised(p, r) /\ NoResult(r) /\ (e.acc \/ e.ins.cls = "ov")
  BY <1>1, <1>2, <1>5 DEF Moved, r, Shaped, Marked, Raised, NoResult, IsAccmem
<1>6. CASE Onward(p, r) /\ NoResult(r) /\ e.ins.cls = "mov"
  BY <1>1, <1>2, <1>6 DEF Moved, r, Shaped, Marked, Onward, NoResult
<1>7. CASE /\ Onward(p, r)
           /\ r.wr = e.wr /\ r.dst = e.dst
           /\ r.Tnew = IF ~e.acc /\ IsAlu(e.ins) /\ e.Tnew # MEM_GEN THEN 0
                       ELSE Dec(e.Tnew)
  BY <1>1, <1>2, <1>7 DEF Moved, r, Shaped, Marked, Onward
<1>. QED  BY <1>3, <1>4, <1>5, <1>6, <1>7

LEMMA TranslatedMoves ==
  ASSUME Typed, ShapeInv, NEW p \in AT, NEW event \in BOOLEAN
  PROVE  LET r == AfterAT(p, event)
         IN Moved(p, r) /\ Shaped(r) /\ Marked(r)
<1> DEFINE e == pipe[p]
           r == AfterAT(p, event)
<1>1. e \in Entry /\ Shaped(e) /\ Marked(e) /\ ~e.flt /\ p < 6
  BY DEF Typed, ShapeInv, AT, Places
<1>2. r \in Entry
  BY Translated DEF Typed
<1>3. \/ r = Empty /\ ~e.valid
      \/ /\ e.valid /\ r.valid /\ r.ins = e.ins /\ r.v = Carried(p)
         /\ r.acc = e.acc /\ r.priv = e.priv /\ r.wr = e.wr /\ r.dst = e.dst
         /\ r.data = e.data /\ r.Tnew = Dec(e.Tnew)
         /\ r.exc = IF e.ins.cls = "trap" THEN ~event ELSE e.exc
         /\ r.flt = IF e.ins.cls = "trap" THEN e.flt ELSE e.acc /\ event
  BY Translated DEF Typed
<1>. HIDE DEF r
<1>4. CASE r = Empty
  BY <1>1, <1>2, <1>4, EmptyIsEntry, EmptyShaped, NoInstrReads DEF Moved, r
<1>5. CASE /\ e.valid /\ r.valid /\ r.ins = e.ins /\ r.v = Carried(p)
           /\ r.acc = e.acc /\ r.priv = e.priv /\ r.wr = e.wr /\ r.dst = e.dst
           /\ r.data = e.data /\ r.Tnew = Dec(e.Tnew)
           /\ r.exc = IF e.ins.cls = "trap" THEN ~event ELSE e.exc
           /\ r.flt = IF e.ins.cls = "trap" THEN e.flt ELSE e.acc /\ event
  <2>1. Moved(p, r) /\ Shaped(r)
    BY <1>1, <1>2, <1>5 DEF Moved, Shaped
  <2>2. CASE e.ins.cls = "trap"
    <3>1. IsPriv(e.ins) /\ e.priv
      BY <1>1, <2>2 DEF IsPriv, Marked
    <3>. QED  BY <1>1, <1>5, <2>1, <2>2, <3>1 DEF Marked, r
  <2>3. CASE e.ins.cls # "trap"
    BY <1>1, <1>5, <2>1, <2>3 DEF Marked, r
  <2>. QED  BY <2>2, <2>3
<1>. QED  BY <1>3, <1>4, <1>5

LEMMA LeftMoves ==
  ASSUME Typed, ShapeInv, NEW p \in DR, NEW taken \in BOOLEAN, Beside(pipe[5], pipe[4])
  PROVE  LET r == AfterDR(p, taken)
         IN Moved(p, r) /\ Shaped(r)
<1> DEFINE e == pipe[p]
           r == AfterDR(p, taken)
<1>1. e \in Entry /\ Shaped(e) /\ p < 6
  BY DEF Typed, ShapeInv, DR, Places
<1>2. r \in Entry
  BY Left DEF Typed
<1>3. \/ r = Empty
      \/ /\ e.valid /\ r.valid /\ r.ins = e.ins /\ r.v = Carried(p)
         /\ \/ NoResult(r) /\ (e.acc \/ r.Tnew = Dec(e.Tnew))
            \/ r.wr = e.wr /\ r.dst = e.dst /\ r.Tnew = Dec(e.Tnew)
  BY Left DEF Typed, Faulty
<1>6. e.acc => e.ins.cls # "cal"
  BY DEF Beside, IsAccmem, DR
<1>. HIDE DEF r
<1>4. CASE r = Empty
  BY <1>1, <1>2, <1>4, EmptyIsEntry, EmptyShaped, NoInstrReads DEF Moved, r
<1>5. CASE /\ e.valid /\ r.valid /\ r.ins = e.ins /\ r.v = Carried(p)
           /\ \/ NoResult(r) /\ (e.acc \/ r.Tnew = Dec(e.Tnew))
              \/ r.wr = e.wr /\ r.dst = e.dst /\ r.Tnew = Dec(e.Tnew)
  BY <1>1, <1>2, <1>5, <1>6 DEF Moved, Shaped, NoResult, r
<1>. QED  BY <1>3, <1>4, <1>5

LEMMA DeliveredMoves ==
  ASSUME Typed, ShapeInv, NEW p \in MEM
  PROVE  LET r == AfterMEM(p)
         IN Moved(p, r) /\ r.ins = NoInstr /\ r.dst = r.wr
<1> DEFINE e == pipe[p]
           r == AfterMEM(p)
<1>1. Shaped(e) /\ p >= 6
  BY DEF ShapeInv, MEM
<1>2. /\ r \in Entry /\ r.ins = NoInstr /\ r.wr = e.wr /\ r.dst = e.dst
      /\ r.Tnew = Dec(e.Tnew) /\ \A k \in 1 .. 2 : r.v[k]
  BY Delivered DEF Typed
<1>. HIDE DEF r
<1>. QED  BY <1>1, <1>2, NoInstrReads DEF Moved, Shaped, r

\* An instruction that stays keeps its shape
LEMMA HeldShaped ==
  ASSUME Typed, NEW p \in Places
  PROVE  /\ Shaped(pipe[p]) => Shaped(Held(p))
         /\ Marked(pipe[p]) => Marked(Held(p))
         /\ Held(p).flt = pipe[p].flt
         /\ Held(p).wr = pipe[p].wr /\ Held(p).dst = pipe[p].dst
         /\ Held(p).ins = pipe[p].ins /\ Held(p).Tnew = pipe[p].Tnew
         /\ Held(p).data = pipe[p].data /\ Held(p).acc = pipe[p].acc
         /\ Held(p).valid = pipe[p].valid /\ Held(p).exc = pipe[p].exc
<1>1. \A f \in Fields \ {"v"} : Held(p)[f] = pipe[p][f]
  BY HeldEntry DEF Typed
<1>2. /\ Held(p).flt = pipe[p].flt /\ Held(p).priv = pipe[p].priv
      /\ Held(p).wr = pipe[p].wr /\ Held(p).dst = pipe[p].dst
      /\ Held(p).ins = pipe[p].ins /\ Held(p).Tnew = pipe[p].Tnew
      /\ Held(p).data = pipe[p].data /\ Held(p).acc = pipe[p].acc
      /\ Held(p).valid = pipe[p].valid /\ Held(p).exc = pipe[p].exc
  BY <1>1 DEF Fields
<1>. QED  BY <1>2 DEF Shaped, Marked

LEMMA AfterMoves ==
  ASSUME Typed, ShapeInv, PairInv, CommittedInv, NEW p \in 0 .. 7,
         NEW event \in [EX -> BOOLEAN], NEW annul \in BOOLEAN,
         NEW fault \in [AT -> BOOLEAN], NEW taken \in BOOLEAN,
         annul => pipe[1].ins.cls = "likely"
  PROVE  LET r == After(p, event, annul, fault, taken)
         IN /\ Moved(p, r)
            /\ p < 6 => Shaped(r)
            /\ p < 4 => Marked(r)
            /\ p < 2 => ~r.flt
            /\ p >= 6 => r.ins = NoInstr /\ r.dst = r.wr
<1>1. CASE p \in EX
  <2>1. p < 2 /\ event[p] \in BOOLEAN
    BY <1>1 DEF EX
  <2>2. pipe[p].acc => ~(annul /\ ~Way0(p))
    BY <1>1 DEF EX, Way0, CommittedInv
  <2>3. pipe[p].acc => IsAccmem(pipe[p].ins)
    BY <1>1 DEF PairInv, Beside, EX
  <2>. QED  BY <1>1, <2>1, <2>2, <2>3, ExecutedMoves DEF After
<1>2. CASE p \in AT
  <2>1. p < 4 /\ ~(p < 2) /\ fault[p] \in BOOLEAN
    BY <1>2 DEF AT
  <2>. QED  BY <1>2, <2>1, TranslatedMoves DEF After
<1>3. CASE p \in DR
  <2>1. p < 6 /\ ~(p < 4) /\ ~(p < 2)
    BY <1>3 DEF DR
  <2>. QED  BY <1>3, <2>1, LeftMoves DEF After, PairInv
<1>4. CASE p \in MEM
  <2>1. ~(p < 6) /\ ~(p < 4) /\ ~(p < 2)
    BY <1>4 DEF MEM
  <2>. QED  BY <1>4, <2>1, DeliveredMoves DEF After
<1>. QED  BY <1>1, <1>2, <1>3, <1>4 DEF EX, AT, DR, MEM

-----------------------------------------------------------------------------
(* What is issued.                                                         *)

\* The way of the queue that a place of EX takes
Way(p) == IF p = 1 THEN 0 ELSE 1

LEMMA TnewType ==
  ASSUME NEW i, NEW slot, NEW late
  PROVE  TnewDecoder(i, slot, late) \in 0 .. 7
BY DEF TnewDecoder, NOT_WRITE, ALU_GEN, CP0_GEN, MEM_GEN, STALL

LEMMA IssuedEntry ==
  ASSUME IssueInv, NEW p \in EX, IssuedPair(p) # Empty
  PROVE  LET r == IssuedPair(p)
             w == Way(p)
             i == queue_head(w).ins
         IN /\ r \in Entry /\ Shaped(r) /\ Marked(r)
            /\ r.ins = i /\ r.valid /\ ~r.flt /\ r.wr = i.wr /\ r.dst = i.wr /\ ~r.data
            /\ i \in Program /\ i = Waiting[w + 1] /\ size > w
            /\ r.acc <=> IsAccmem(i)
            /\ r.exc => i.cls = "trap"
            /\ r.Tnew = TnewDecoder(i, queue_head(w).likely_delayslot, delay_exec(i))
            /\ \A k \in 1 .. 2 : r.v[k] <=> IssueOperand(w, k)
            /\ way0_valid
            /\ ~Late(i, 0) \/ delay_exec(i)
            /\ w = 1 => way1_valid
<1> DEFINE r == IssuedPair(p)
           w == Way(p)
           i == queue_head(w).ins
<1>1. r = Issued(w) /\ way0_valid /\ (w = 1 => way1_valid)
  <2>1. way1_valid => way0_valid
    BY DEF way0_valid, way1_valid
  <2>2. CASE p = 1
    <3>1. Way0(p)
      BY <2>2 DEF Way0
    <3>. QED  BY <2>1, <2>2, <3>1 DEF IssuedPair, Way
  <2>3. CASE p = 0
    <3>1. ~Way0(p)
      BY <2>3 DEF Way0
    <3>. QED  BY <2>1, <2>3, <3>1 DEF IssuedPair, Way
  <2>. QED  BY <2>2, <2>3 DEF EX
<1>2. w = 0 \/ w = 1
  BY DEF Way
<1>3. QueueInv /\ size \in Nat
  BY DEF IssueInv, QueueInv, QueueTypeOK
<1>4. i \in Program /\ i = Waiting[w + 1] /\ size > w
  <2>1. CASE w = 0
    BY <1>1, <1>3, <2>1, Heads
  <2>2. CASE w = 1
    BY <1>1, <1>3, <2>2, Heads
  <2>. QED  BY <1>2, <2>1, <2>2
<1>5. ~Late(i, 0) \/ delay_exec(i)
  BY <1>1, <1>2 DEF way0_valid, way1_valid, ready0, ready1, Waken
<1>6. i.wr \in Regs \cup {0}
  BY <1>4, RegisterAssumption
<1>. DEFINE t == TnewDecoder(i, queue_head(w).likely_delayslot, delay_exec(i))
            v == [k \in 1 .. 2 |-> IssueOperand(w, k)]
<1>7. t \in 0 .. 7
  BY TnewType
<1>8. \A k : IssueOperand(w, k) \in BOOLEAN
  BY DEF IssueOperand
<1>9. v \in [1 .. 2 -> BOOLEAN] /\ \A k \in 1 .. 2 : v[k] <=> IssueOperand(w, k)
  BY <1>8
<1>10. r = [ins |-> i, valid |-> TRUE, exc |-> i.cls = "trap", acc |-> IsAccmem(i),
            flt |-> FALSE, priv |-> IsPriv(i), dead |-> FALSE, wr |-> i.wr,
            dst |-> i.wr, Tnew |-> t, data |-> FALSE, v |-> v]
  BY <1>1 DEF Issued
<1>11. IsAccmem(i) \in BOOLEAN /\ IsPriv(i) \in BOOLEAN /\ (i.cls = "trap") \in BOOLEAN
  BY DEF IsAccmem, IsPriv
<1>. HIDE DEF r, w, i, t, v
<1>12. r \in Entry
  BY <1>4, <1>6, <1>7, <1>9, <1>10, <1>11 DEF Entry
<1>13. /\ r.ins = i /\ r.valid /\ ~r.flt /\ r.wr = i.wr /\ r.dst = i.wr /\ ~r.data
       /\ r.Tnew = t /\ r.v = v /\ r.exc = (i.cls = "trap") /\ r.acc = IsAccmem(i)
       /\ r.priv = IsPriv(i)
  BY <1>10
<1>14. Shaped(r)
  BY <1>13 DEF Shaped
<1>15. Marked(r)
  BY <1>13 DEF Marked, IsPriv
<1>. QED  BY <1>1, <1>4, <1>5, <1>9, <1>12, <1>13, <1>14, <1>15 DEF r, w, i, t

LEMMA IssuedIsEntry ==
  ASSUME IssueInv, NEW p \in EX
  PROVE  LET r == IssuedPair(p)
         IN r \in Entry /\ Shaped(r) /\ Marked(r) /\ ~r.flt
<1>1. CASE IssuedPair(p) = Empty
  BY <1>1, EmptyIsEntry, EmptyShaped
<1>2. CASE IssuedPair(p) # Empty
  BY <1>2, IssuedEntry
<1>. QED  BY <1>1, <1>2

-----------------------------------------------------------------------------
(* A cycle keeps the shape.                                                *)

\* What a place holds after a cycle
LEMMA TurnCases ==
  ASSUME NEW h, NEW f, NEW event, NEW annul, NEW fault, NEW taken,
         Turn(h, f, event, annul, fault, taken), NEW p \in Places
  PROVE  \/ pipe'[p] = Empty
         \/ p >= f /\ p < h /\ pipe'[p] = Held(p)
         \/ h = 0 /\ f = 0 /\ p \in EX /\ pipe'[p] = IssuedPair(p)
         \/ /\ p >= f /\ p >= h + 2 /\ p - 2 \in 0 .. 7
            /\ pipe'[p] = After(p - 2, event, annul, fault, taken)
<1>1. pipe'[p] = IF p < f THEN Empty
                 ELSE IF p < h THEN Held(p)
                 ELSE IF p < h + 2 THEN IF h = 0 THEN IssuedPair(p) ELSE Empty
                 ELSE After(p - 2, event, annul, fault, taken)
  BY DEF Turn, Shift
<1>2. p \in Int /\ p >= 0 /\ p <= 9 /\ h \in Int /\ f \in Int /\ h >= 0
      /\ f \in {0, 2, 4, 6}
  BY DEF Turn, Places
<1>3. CASE p < f
  BY <1>1, <1>3
<1>4. CASE ~(p < f) /\ p < h
  BY <1>1, <1>2, <1>4
<1>5. CASE ~(p < f) /\ ~(p < h) /\ p < h + 2
  BY <1>1, <1>2, <1>5 DEF EX
<1>6. CASE ~(p < f) /\ ~(p < h) /\ ~(p < h + 2)
  <2>1. pipe'[p] = After(p - 2, event, annul, fault, taken)
    BY <1>1, <1>6
  <2>2. p >= f /\ p >= h + 2 /\ p - 2 \in 0 .. 7
    BY <1>2, <1>6
  <2>. QED  BY <2>1, <2>2
<1>. QED  BY <1>3, <1>4, <1>5, <1>6

LEMMA ShapeKept ==
  ASSUME Typed, ShapeInv, IssueInv, PairInv, CommittedInv,
         NEW h, NEW f, NEW event, NEW annul, NEW fault, NEW taken,
         Turn(h, f, event, annul, fault, taken)
  PROVE  (\A p \in Places : pipe'[p] \in Entry) /\ ShapeInv'
<1>0. /\ event \in [EX -> BOOLEAN] /\ annul \in BOOLEAN /\ fault \in [AT -> BOOLEAN]
      /\ taken \in BOOLEAN /\ (annul => pipe[1].ins.cls = "likely")
  BY DEF Turn
<1>1. ASSUME NEW p \in Places
      PROVE  LET r == pipe'[p]
             IN /\ r \in Entry
                /\ p < 8 => Shaped(r)
                /\ p < 6 => Marked(r)
                /\ p < 4 => ~r.flt
                /\ p \in WB => r.ins = NoInstr /\ r.dst = r.wr
  <2>0. p \in Int /\ p >= 0 /\ p <= 9
    BY DEF Places
  <2>1. CASE pipe'[p] = Empty
    BY <2>1, EmptyIsEntry, EmptyShaped
  <2>2. CASE pipe'[p] = Held(p) /\ p < h
    <3>1. h <= 8 /\ h \in Int
      BY DEF Turn
    <3>2. p < 8 /\ p \notin WB
      BY <2>0, <2>2, <3>1 DEF WB
    <3>3. /\ Shaped(pipe[p])
          /\ p < 6 => Marked(pipe[p])
          /\ p < 4 => ~pipe[p].flt
      BY <2>0, <3>2 DEF ShapeInv
    <3>4. Held(p) \in Entry
      BY HeldEntry DEF Typed
    <3>. QED  BY <2>2, <3>2, <3>3, <3>4, HeldShaped
  <2>3. CASE p \in EX /\ pipe'[p] = IssuedPair(p)
    <3>1. p \notin WB
      BY <2>3 DEF EX, WB
    <3>. QED  BY <2>3, <3>1, IssuedIsEntry
  <2>4. CASE p - 2 \in 0 .. 7 /\ pipe'[p] = After(p - 2, event, annul, fault, taken)
    <3> DEFINE q == p - 2
               r == After(q, event, annul, fault, taken)
    <3>0. q \in 0 .. 7 /\ pipe'[p] = r
      BY <2>4
    <3>. HIDE DEF q
    <3>1. /\ Moved(q, r)
          /\ q < 6 => Shaped(r)
          /\ q < 4 => Marked(r)
          /\ q < 2 => ~r.flt
          /\ q >= 6 => r.ins = NoInstr /\ r.dst = r.wr
      BY <1>0, <3>0, AfterMoves
    <3>. HIDE DEF r
    <3>2. (p < 8 => q < 6) /\ (p < 6 => q < 4) /\ (p < 4 => q < 2)
          /\ (p \in WB => q >= 6)
      BY <2>0 DEF WB, q
    <3>3. r \in Entry
      BY <3>1 DEF Moved
    <3>. QED  BY <3>0, <3>1, <3>2, <3>3
  <2>. QED  BY <2>1, <2>2, <2>3, <2>4, TurnCases
<1>2. /\ 0 .. 7 \subseteq Places /\ 0 .. 5 \subseteq Places /\ 0 .. 3 \subseteq Places
      /\ WB \subseteq Places
      /\ \A p \in 0 .. 7 : p < 8
      /\ \A p \in 0 .. 5 : p < 6
      /\ \A p \in 0 .. 3 : p < 4
  BY DEF Places, WB
<1>3. (\A p \in 0 .. 7 : Shaped(pipe[p]))'
  BY <1>1, <1>2 DEF Shaped
<1>4. (\A p \in 0 .. 5 : Marked(pipe[p]))'
  BY <1>1, <1>2 DEF Marked
<1>5. (\A p \in 0 .. 3 : ~pipe[p].flt)'
  BY <1>1, <1>2
<1>6. (\A p \in WB : pipe[p].ins = NoInstr /\ pipe[p].dst = pipe[p].wr)'
  BY <1>1, <1>2
<1>. QED  BY <1>1, <1>3, <1>4, <1>5, <1>6 DEF ShapeInv

-----------------------------------------------------------------------------
(* The marks of the queue.                                                 *)

Mark(k) == issue_queue[Succ(head, k - 1)].likely_delayslot

\* What follows a likely branch is marked as its slot, and nothing else is
MarkInv ==
  /\ \A k \in 1 .. size : Mark(k) => k > 1 /\ Waiting[k - 1].cls = "likely"
  /\ \A k \in 1 .. size - 1 : Waiting[k].cls = "likely" => Mark(k + 1)
  /\ size = 0 => wait # "likely"

LEMMA MarkNext ==
  ASSUME QueueInv, NEW g \in Groups, NEW n \in 0 .. 2, n <= size, Ring(g, n),
         NEW k \in 1 .. size'
  PROVE  /\ k <= size - n => Mark(k)' = Mark(k + n)
         /\ k = size - n + 1 => Mark(k)' = g[1].likely_delayslot
         /\ k = size - n + 2 => Mark(k)' = g[2].likely_delayslot
<1>1. Len(g) \in 0 .. 2
  BY GroupType DEF QueueInv
<1>2. size \in Int /\ size <= IQ_LENGTH /\ n \in Int /\ k \in Int /\ Len(g) \in Int
      /\ size' = size + Len(g) - n /\ size' \in Int /\ size' <= IQ_LENGTH
  BY SMTT(30), <1>1, QueueRing, QueueAssumption DEF Ring, QueueInv, QueueTypeOK
<1>3. k - 1 \in Cells
  BY <1>2, QueueAssumption DEF Cells
<1>4. Mark(k)' = issue_queue'[Succ(head', k - 1)].likely_delayslot
  BY DEF Mark
<1>5. k <= size - n + Len(g)
  BY <1>2
<1>6. ASSUME k <= size - n PROVE Mark(k)' = Mark(k + n)
  <2>1. k - 1 < size - n /\ (k - 1) + n = (k + n) - 1
    BY <1>2, <1>6
  <2>2. issue_queue'[Succ(head', k - 1)] = issue_queue[Succ(head, (k - 1) + n)]
    BY <1>3, <2>1, RingCells
  <2>3. Mark(k + n) = issue_queue[Succ(head, (k + n) - 1)].likely_delayslot
    BY DEF Mark
  <2>. QED  BY <1>4, <2>1, <2>2, <2>3
<1>7. ASSUME k = size - n + 1 PROVE Mark(k)' = g[1].likely_delayslot
  <2>1. k - 1 = size - n /\ Len(g) >= 1
    BY <1>2, <1>5, <1>7
  <2>. QED  BY <1>3, <1>4, <2>1, RingCells
<1>8. ASSUME k = size - n + 2 PROVE Mark(k)' = g[2].likely_delayslot
  <2>1. k - 1 = size - n + 1
    BY <1>2, <1>8
  <2>2. Len(g) = 2
    <3>1. Len(g) >= 2
      BY <1>2, <1>5, <1>8
    <3>. QED  BY <1>1, <3>1
  <2>. QED  BY <1>3, <1>4, <2>1, <2>2, RingCells
<1>. QED  BY <1>6, <1>7, <1>8

LEMMA DecodedMark ==
  ASSUME NEW due, NEW e \in Decoded(due)
  PROVE  e.likely_delayslot <=> due = "likely"
<1>1. PICK i : e = [ins |-> i, likely_delayslot |-> due = "likely"]
  BY DEF Decoded
<1>. QED  BY <1>1

LEMMA DueLikely ==
  ASSUME NEW i
  PROVE  /\ Due(i) = "likely" <=> i.cls = "likely"
         /\ ~IsBranch(i) => Due(i) = "no"
BY DEF Due, IsBranch

LEMMA MarksRing ==
  ASSUME QueueInv, SlotsInv, MarkInv,
         NEW g \in Groups, NEW n \in 0 .. 2, n <= size, Ring(g, n),
         n > 0 => ~IsBranch(Waiting[n])
  PROVE  MarkInv'
<1>0. Len(g) = 0 \/ Len(g) = 1 \/ Len(g) = 2
  BY GroupType DEF QueueInv
<1>1. Len(g) = 0 => g = <<>>
  BY GroupType DEF QueueInv
<1>2. size \in Int /\ size >= 0 /\ n \in Int /\ n >= 0 /\ Len(g) \in Int
      /\ size' = size + Len(g) - n /\ size' \in Int
  BY <1>0, QueueAssumption DEF Ring, QueueInv, QueueTypeOK
<1>3. /\ Len(g) >= 1 => (g[1].likely_delayslot <=> wait = "likely")
      /\ Len(g) = 2 => (g[2].likely_delayslot <=> g[1].ins.cls = "likely")
  BY GroupSlots, DecodedMark, DueLikely
\* The branch before the group
<1>4. wait = "likely" <=> size > n /\ Waiting[size].cls = "likely"
  <2>1. CASE size = 0
    BY <1>2, <2>1 DEF MarkInv
  <2>2. CASE size > 0 /\ size = n
    BY <1>2, <2>2, DueLikely DEF SlotsInv
  <2>3. CASE size > n
    BY <1>2, <2>3, DueLikely DEF SlotsInv
  <2>. QED  BY <1>2, <2>1, <2>2, <2>3
<1>5. ASSUME NEW k \in 1 .. size', Mark(k)'
      PROVE  k > 1 /\ Waiting'[k - 1].cls = "likely"
  <2>1. k \in Int /\ k >= 1 /\ k <= size - n + Len(g)
    BY <1>2
  <2>2. CASE k <= size - n
    <3>1. Mark(k + n) /\ k + n \in 1 .. size
      BY <1>2, <1>5, <2>1, <2>2, MarkNext
    <3>2. k + n > 1 /\ Waiting[k + n - 1].cls = "likely"
      BY <3>1 DEF MarkInv
    <3>3. k > 1
      <4>1. ASSUME k = 1 PROVE FALSE
        <5>1. n > 0 /\ k + n - 1 = n
          BY <1>2, <3>2, <4>1
        <5>. QED  BY <3>2, <5>1 DEF IsBranch
      <4>. QED  BY <2>1, <4>1
    <3>4. k - 1 \in 1 .. size' /\ k - 1 <= size - n /\ (k - 1) + n = k + n - 1
      BY <1>2, <2>1, <2>2, <3>3
    <3>5. Waiting'[k - 1] = Waiting[(k - 1) + n]
      BY <3>4, WaitingNext
    <3>. QED  BY <3>2, <3>3, <3>4, <3>5
  <2>3. CASE k = size - n + 1
    <3>1. g[1].likely_delayslot /\ Len(g) >= 1
      BY <1>2, <1>5, <2>1, <2>3, MarkNext
    <3>2. size > n /\ Waiting[size].cls = "likely"
      BY <1>3, <1>4, <3>1
    <3>3. k > 1 /\ k - 1 \in 1 .. size' /\ k - 1 <= size - n /\ (k - 1) + n = size
      BY <1>2, <2>1, <2>3, <3>2
    <3>4. Waiting'[k - 1] = Waiting[(k - 1) + n]
      BY <3>3, WaitingNext
    <3>. QED  BY <3>2, <3>3, <3>4
  <2>4. CASE k = size - n + 2
    <3>1. g[2].likely_delayslot
      BY <1>5, <2>4, MarkNext
    <3>2. Len(g) = 2
      <4>1. ASSUME Len(g) = 0 PROVE FALSE
        BY <1>2, <2>1, <2>4, <4>1
      <4>2. ASSUME Len(g) = 1 PROVE FALSE
        BY <1>2, <2>1, <2>4, <4>2
      <4>. QED  BY <1>0, <4>1, <4>2
    <3>3. g[1].ins.cls = "likely"
      BY <1>3, <3>1, <3>2
    <3>4. k > 1 /\ k - 1 \in 1 .. size' /\ k - 1 = size - n + 1
      BY <1>2, <2>1, <2>4
    <3>5. Waiting'[k - 1] = g[1].ins
      BY <3>4, WaitingNext
    <3>. QED  BY <3>3, <3>4, <3>5
  <2>5. k <= size - n \/ k = size - n + 1 \/ k = size - n + 2
    <3>1. CASE Len(g) = 0
      BY <1>2, <2>1, <3>1
    <3>2. CASE Len(g) = 1
      BY <1>2, <2>1, <3>2
    <3>3. CASE Len(g) = 2
      BY <1>2, <2>1, <3>3
    <3>. QED  BY <1>0, <3>1, <3>2, <3>3
  <2>. QED  BY <2>2, <2>3, <2>4, <2>5
<1>6. ASSUME NEW k \in 1 .. size' - 1, Waiting'[k].cls = "likely"
      PROVE  Mark(k + 1)'
  <2>1. k \in 1 .. size' /\ k + 1 \in 1 .. size' /\ k \in Int
        /\ k + 1 <= size - n + Len(g)
    BY <1>2
  <2>2. CASE k + 1 <= size - n
    <3>1. /\ k <= size - n /\ k + n \in 1 .. size - 1
          /\ (k + 1) + n = (k + n) + 1
      BY <1>2, <2>1, <2>2
    <3>2. Waiting'[k] = Waiting[k + n] /\ Mark(k + 1)' = Mark((k + n) + 1)
      <4>1. Mark(k + 1)' = Mark((k + 1) + n)
        BY <2>1, <2>2, MarkNext
      <4>. QED  BY <2>1, <3>1, <4>1, WaitingNext
    <3>. QED  BY <1>6, <3>1, <3>2 DEF MarkInv
  <2>3. CASE k = size - n
    <3>1. /\ k <= size - n /\ k + 1 = size - n + 1 /\ k + n = size /\ size > n
      BY <1>2, <2>1, <2>3
    <3>2. Waiting'[k] = Waiting[size] /\ Mark(k + 1)' = g[1].likely_delayslot
      BY <2>1, <3>1, WaitingNext, MarkNext
    <3>3. Len(g) >= 1
      BY <1>2, <2>1, <3>1
    <3>. QED  BY <1>3, <1>4, <1>6, <3>1, <3>2, <3>3
  <2>4. CASE k = size - n + 1
    <3>1. k + 1 = size - n + 2
      BY <1>2, <2>1, <2>4
    <3>2. Waiting'[k] = g[1].ins /\ Mark(k + 1)' = g[2].likely_delayslot
      BY <2>1, <2>4, <3>1, WaitingNext, MarkNext
    <3>3. Len(g) = 2
      <4>1. ASSUME Len(g) = 0 PROVE FALSE
        BY <1>2, <2>1, <2>4, <4>1
      <4>2. ASSUME Len(g) = 1 PROVE FALSE
        BY <1>2, <2>1, <2>4, <4>2
      <4>. QED  BY <1>0, <4>1, <4>2
    <3>. QED  BY <1>3, <1>6, <3>2, <3>3
  <2>5. k + 1 <= size - n \/ k = size - n \/ k = size - n + 1
    <3>1. CASE Len(g) = 0
      BY <1>2, <2>1, <3>1
    <3>2. CASE Len(g) = 1
      BY <1>2, <2>1, <3>2
    <3>3. CASE Len(g) = 2
      BY <1>2, <2>1, <3>3
    <3>. QED  BY <1>0, <3>1, <3>2, <3>3
  <2>. QED  BY <2>2, <2>3, <2>4, <2>5
<1>7. ASSUME size' = 0
      PROVE  wait' # "likely"
  <2>1. Len(g) = 0 /\ size = n
    BY <1>0, <1>2, <1>7
  <2>2. wait' = wait
    BY <1>1, <2>1 DEF Ring
  <2>. QED  BY <1>2, <1>4, <2>1, <2>2
<1>. QED  BY <1>5, <1>6, <1>7 DEF MarkInv

\* The last instruction that is issued is no branch
LEMMA LastIssued ==
  ASSUME IssueInv, issue_instr_num > 0
  PROVE  ~IsBranch(Waiting[issue_instr_num])
<1>1. CASE way1_valid
  <2>1. /\ issue_instr_num = 2 /\ size >= 2 /\ size \in Nat
        /\ queue_head(0).ins = Waiting[1] /\ queue_head(1).ins = Waiting[2]
        /\ Waiting[1] \in Program
    BY <1>1, Heads DEF IssueInv, issue_instr_num, QueueInv, QueueTypeOK
  <2>2. 1 \in 1 .. size - 1 /\ 1 + 1 = 2
    BY <2>1
  <2>3. IsBranch(Waiting[1]) => Waiting[2] \in Slots[Waiting[1].cls]
    BY <2>2 DEF IssueInv, SlotsInv
  <2>4. ~way1_stop
    BY <1>1 DEF way1_valid, ready1
  <2>. QED  BY <2>1, <2>3, <2>4, SlotsAssumption DEF way1_stop
<1>2. CASE ~way1_valid
  <2>1. way0_valid /\ issue_instr_num = 1
    BY <1>2 DEF issue_instr_num
  <2>2. queue_head(0).ins = Waiting[1]
    BY <2>1, Heads DEF IssueInv
  <2>. QED  BY <1>2, <2>1, <2>2 DEF way0_valid
<1>. QED  BY <1>1, <1>2

LEMMA MarksFlushed ==
  ASSUME FlushRing("no") \/ FlushRing("handler")
  PROVE  MarkInv'
<1>1. size' = 0 /\ wait' # "likely"
  BY DEF FlushRing
<1>. QED  BY <1>1 DEF MarkInv

LEMMA MarksKept ==
  ASSUME IssueInv, MarkInv, NEW h, NEW f, NEW event, NEW annul, NEW fault, NEW taken,
         Turn(h, f, event, annul, fault, taken)
  PROVE  MarkInv'
<1>1. CASE f = 0
  <2>1. PICK g \in Groups : Ring(g, IF h = 0 THEN issue_instr_num ELSE 0)
    BY <1>1 DEF Turn
  <2> DEFINE n == IF h = 0 THEN issue_instr_num ELSE 0
  <2>2. n \in 0 .. 2 /\ n <= size
    BY IssueNumber DEF IssueInv, QueueInv, QueueTypeOK
  <2>3. n > 0 => ~IsBranch(Waiting[n])
    BY LastIssued
  <2>. HIDE DEF n
  <2>4. Ring(g, n)
    BY <2>1 DEF n
  <2>. QED  BY <2>2, <2>3, <2>4, MarksRing DEF IssueInv
<1>2. CASE f > 0
  BY <1>2, MarksFlushed DEF Turn
<1>. QED  BY <1>1, <1>2 DEF Turn

-----------------------------------------------------------------------------
(* While a pair waits in DR whose exception has been taken, it is alone    *)
(* with the handler behind it.                                             *)

HandlerNext ==
  /\ size = 0 => wait = "handler"
  /\ size > 0 => Waiting[1] \in Slots["handler"]

LEMMA HandlerRing ==
  ASSUME QueueInv, HandlerNext, NEW g \in Groups, Ring(g, 0)
  PROVE  HandlerNext'
<1>0. Len(g) = 0 \/ Len(g) = 1 \/ Len(g) = 2
  BY GroupType DEF QueueInv
<1>1. Len(g) = 0 => g = <<>>
  BY GroupType DEF QueueInv
<1>2. size \in Int /\ size >= 0 /\ Len(g) \in Int
      /\ size' = size + Len(g) - 0 /\ size' \in Int
      /\ 0 \in 0 .. 2 /\ 0 <= size
  BY <1>0, QueueAssumption DEF Ring, QueueInv, QueueTypeOK
<1>3. ASSUME size' = 0 PROVE wait' = "handler"
  <2>1. Len(g) = 0 /\ size = 0
    BY <1>0, <1>2, <1>3
  <2>. QED  BY <1>1, <2>1 DEF Ring, HandlerNext
<1>4. ASSUME size' > 0 PROVE Waiting'[1] \in Slots["handler"]
  <2>1. 1 \in 1 .. size'
    BY <1>2, <1>4
  <2>2. CASE size > 0
    <3>1. 1 <= size - 0 /\ 1 + 0 = 1
      BY <1>2, <2>2
    <3>2. Waiting'[1] = Waiting[1 + 0]
      BY <1>2, <2>1, <3>1, WaitingNext
    <3>. QED  BY <2>2, <3>1, <3>2 DEF HandlerNext
  <2>3. CASE size = 0
    <3>1. 1 = size - 0 + 1 /\ Len(g) >= 1
      BY <1>2, <1>4, <2>3
    <3>2. Waiting'[1] = g[1].ins
      BY <1>2, <2>1, <3>1, WaitingNext
    <3>3. g[1] \in Decoded("handler")
      BY <2>3, <3>1, GroupSlots DEF HandlerNext
    <3>4. g[1].ins \in Slots["handler"]
      BY <3>3 DEF Decoded
    <3>. QED  BY <3>2, <3>4
  <2>. QED  BY <1>2, <2>2, <2>3
<1>. QED  BY <1>3, <1>4 DEF HandlerNext

LEMMA HandlerFlush ==
  ASSUME FlushRing("handler")
  PROVE  HandlerNext'
BY DEF FlushRing, HandlerNext

-----------------------------------------------------------------------------
(* The invariant.                                                          *)

\* The slot of a likely branch stands alone beside its branch
Slot(p) == ~Way0(p) /\ pipe[p + 1].wr = 0

\* When the result of an instruction in EX is announced
TimeInEX(e) ==
  \/ e.Tnew = 1 /\ e.ins.cls \in {"cal", "ov", "mdu", "link"}
  \/ e.Tnew = 3 /\ (e.ins.cls = "mfc0" \/ (e.ins.cls = "sc" /\ e.acc))
  \/ e.Tnew = 4 /\ (e.ins.cls = "cal" \/ (e.ins.cls \in {"load", "merge", "ll"} /\ e.acc))
  \/ e.Tnew = 7 /\ e.ins.cls \in {"cal", "ov", "mov", "mdu", "mfc0"}

\* From AT on a result is there, or comes from MEM (4), from DR (3) or, that
\* of a slot, not before the register file (7)
TimeOf(e, s, slot) ==
  LET t == e.Tnew + s
  IN /\ e.Tnew = 0 \/ t = 4 \/ t = 3 \/ (t = 7 /\ slot)
     /\ s <= 2 /\ e.ins.cls = "sc" => e.acc /\ t = 3
     /\ s <= 2 /\ e.ins.cls = "mfc0" => t = 3 \/ t = 7
     /\ \/ e.data
        \/ s <= 3 /\ t = 4
        \/ s <= 2 /\ e.ins.cls \in {"mfc0", "sc"}

TimeIn(p) == TimeOf(pipe[p], Stage(p), Slot(p))

TimeInv ==
  /\ \A p \in EX : pipe[p].wr # 0 =>
       /\ TimeInEX(pipe[p])
       /\ pipe[p].Tnew = 7 /\ ~IsAlu(pipe[p].ins) => Slot(p)
       /\ pipe[p].Tnew = 7 /\ pipe[p].ins.cls = "cal" =>
            \A k \in 1 .. 2 : pipe[p].ins.rd[k] = 0
  /\ \A p \in Places \ EX : pipe[p].wr # 0 /\ ~Doomed(p) => TimeIn(p)

\* The two ways of a stage
PairsInv ==
  /\ \A p \in {0, 2, 4} : IsPriv(pipe[p + 1].ins) => ~pipe[p].valid
  /\ \A p \in {0, 2, 4, 6} :
       pipe[p + 1].wr # 0 => \A k \in 1 .. 2 : pipe[p].ins.rd[k] # pipe[p + 1].wr
  /\ pipe[1].ins.cls = "likely" => pipe[0].wr = 0 \/ pipe[0].Tnew = STALL

Handled ==
  exc_req_complete =>
    /\ \A p \in EX \cup AT : ~pipe[p].valid
    /\ ~pipe[5].exc /\ ~pipe[5].flt
    /\ HandlerNext

\* An operand that is still to be read: its writers deliver in time, and it is
\* there unless one of them has not delivered yet
OperandOK(p, k) ==
  LET e == pipe[p]
      r == e.ins.rd[k]
      u == UsedIn(p, k)
      s == Stage(p)
  IN /\ r = 0 \/ (s > 0 /\ u \notin s .. 4) => e.v[k]
     /\ u \in s .. 4 =>
          /\ \A q \in Places : q > p /\ pipe[q].wr = r => pipe[q].Tnew <= u - s
          /\ \/ e.v[k]
             \/ \E q \in Places : q > p /\ pipe[q].wr = r /\ pipe[q].Tnew + Stage(q) # 7

OperandsInv == \A p \in Places, k \in 1 .. 2 : ~Doomed(p) => OperandOK(p, k)

\* What the stages of a running program satisfy, but for the operands
ResultInv == RequestInv /\ Typed /\ ShapeInv /\ PairsInv /\ MarkInv /\ Handled /\ TimeInv

-----------------------------------------------------------------------------
(* Places.                                                                 *)

LEMMA Stages04 ==
  ASSUME NEW p \in Places
  PROVE  /\ Stage(p) \in 0 .. 4 /\ p \in Int /\ p >= 0 /\ p <= 9
         /\ Stage(p) = 0 <=> p \in EX
         /\ Stage(p) = 1 <=> p \in AT
         /\ Stage(p) = 2 <=> p \in DR
         /\ Stage(p) = 3 <=> p \in MEM
         /\ Stage(p) = 4 <=> p \in WB
BY DEF Stage, Places, EX, AT, DR, MEM, WB

LEMMA NextStage ==
  ASSUME NEW p \in 0 .. 7
  PROVE  p \in Places /\ p + 2 \in Places /\ Stage(p + 2) = Stage(p) + 1
BY DEF Stage, Places

LEMMA LaterIs ==
  ASSUME NEW p \in Places, NEW q \in Places
  PROVE  /\ q \in Later(p) <=> q > p /\ (Way0(p) \/ q # p + 1)
         /\ q \in Later(p) => Stage(q) > Stage(p) /\ q >= 2
<1>1. p \in Int /\ p >= 0 /\ p <= 9 /\ q \in Int /\ q >= 0 /\ q <= 9
  BY DEF Places
<1>2. q > p => (q \in Pair(p) <=> ~Way0(p) /\ q = p + 1)
  BY <1>1 DEF Pair
<1>3. q \in Later(p) <=> q > p /\ (Way0(p) \/ q # p + 1)
  BY <1>2 DEF Later
<1>4. ASSUME q > p, Way0(p) \/ q # p + 1
      PROVE  Stage(q) > Stage(p) /\ q >= 2
  BY <1>1, <1>4 DEF Stage, Way0
<1>. QED  BY <1>3, <1>4

LEMMA StageGrows ==
  ASSUME NEW p \in Places, NEW q \in Places, q > p
  PROVE  Stage(q) >= Stage(p)
BY DEF Stage, Places

LEMMA NearestIs ==
  ASSUME NEW S \in SUBSET Places
  PROVE  /\ None \notin Places
         /\ S = {} => Nearest(S) = None
         /\ S # {} => Nearest(S) \in S /\ \A x \in S : Nearest(S) <= x
<1>1. None \notin Places
  BY DEF None, Places
<1>2. ASSUME S # {} PROVE \E x \in S : \A y \in S : x <= y
  <2>0. \A y \in S : y \in {0, 1, 2, 3, 4, 5, 6, 7, 8, 9}
    BY DEF Places
  <2>1. CASE 0 \in S
    BY <2>0, <2>1
  <2>2. CASE 0 \notin S /\ 1 \in S
    BY <2>0, <2>2
  <2>3. CASE 0 \notin S /\ 1 \notin S /\ 2 \in S
    BY <2>0, <2>3
  <2>4. CASE 0 \notin S /\ 1 \notin S /\ 2 \notin S /\ 3 \in S
    BY <2>0, <2>4
  <2> DEFINE small == \A x \in {0, 1, 2, 3} : x \notin S
  <2>5. CASE small /\ 4 \in S
    BY <2>0, <2>5
  <2>6. CASE small /\ 4 \notin S /\ 5 \in S
    BY <2>0, <2>6
  <2>7. CASE small /\ 4 \notin S /\ 5 \notin S /\ 6 \in S
    BY <2>0, <2>7
  <2>8. CASE small /\ 4 \notin S /\ 5 \notin S /\ 6 \notin S /\ 7 \in S
    BY <2>0, <2>8
  <2>9. CASE small /\ 4 \notin S /\ 5 \notin S /\ 6 \notin S /\ 7 \notin S /\ 8 \in S
    BY <2>0, <2>9
  <2>10. CASE small /\ 4 \notin S /\ 5 \notin S /\ 6 \notin S /\ 7 \notin S /\ 8 \notin S
    BY <1>2, <2>0, <2>10
  <2>. QED  BY <2>1, <2>2, <2>3, <2>4, <2>5, <2>6, <2>7, <2>8, <2>9, <2>10
<1>3. S # {} => Nearest(S) \in S /\ \A x \in S : Nearest(S) <= x
  BY <1>2 DEF Nearest, Min
<1>. QED  BY <1>1, <1>3 DEF Nearest

LEMMA UsedRange ==
  ASSUME NEW p, NEW k
  PROVE  /\ UsedIn(p, k) \in {0, 1, 2, 3, 5}
         /\ pipe[p].ins.rd[k] = 0 => UsedIn(p, k) = 5
BY DEF UsedIn, Tuse

\* What comes after what is doomed may not be doomed, not the other way round
LEMMA DoomGrows ==
  ASSUME NEW p \in Int, NEW q \in Int, q >= p, Doomed(q)
  PROVE  Doomed(p)
<1>1. PICK d \in Places :
        /\ d > q
        /\ \/ d \in AT /\ pipe[d].exc /\ pipe[d].ins.cls # "trap"
           \/ d \in DR /\ (pipe[d].exc \/ pipe[d].flt) /\ ~exc_req_complete
  BY DEF Doomed
<1>2. d > p
  BY <1>1 DEF Places
<1>. QED  BY <1>1, <1>2 DEF Doomed

LEMMA FarUndoomed ==
  ASSUME NEW p \in MEM \cup WB
  PROVE  ~Doomed(p)
BY DEF MEM, WB, AT, DR, Doomed, Places

-----------------------------------------------------------------------------
(* What an instruction finds.                                              *)

\* No instruction reads what its pair writes
LEMMA WriterIsLater ==
  ASSUME ShapeInv, PairsInv, NEW p \in Places, NEW k \in 1 .. 2, NEW q \in Places,
         q > p, pipe[q].wr = pipe[p].ins.rd[k], pipe[p].ins.rd[k] # 0
  PROVE  q \in Later(p)
<1>1. CASE Way0(p)
  BY <1>1, LaterIs
<1>2. CASE ~Way0(p) /\ p # 8
  <2>1. p \in {0, 2, 4, 6}
    BY <1>2 DEF Way0, Places
  <2>2. q # p + 1
    BY <2>1 DEF PairsInv
  <2>. QED  BY <2>2, LaterIs
<1>3. CASE p = 8
  <2>1. pipe[p].ins = NoInstr
    BY <1>3 DEF ShapeInv, WB
  <2>. QED  BY <2>1, NoInstrReads
<1>. QED  BY <1>1, <1>2, <1>3

LEMMA WritesAndMeans ==
  ASSUME ShapeInv, NEW q \in Places
  PROVE  pipe[q].dst = pipe[q].wr
<1>1. q \in 0 .. 7 \/ q \in WB
  BY DEF Places, WB
<1>. QED  BY <1>1 DEF ShapeInv, Shaped

\* The last writer before a place
LEMMA LastWriterIs ==
  ASSUME ShapeInv, NEW p \in Int, NEW r
  PROVE  LET S == {q \in Places : q > p /\ pipe[q].wr = r}
         IN LastWriter(p, r) = Nearest(S)
<1>1. {q \in Places : q > p /\ pipe[q].dst = r} = {q \in Places : q > p /\ pipe[q].wr = r}
  BY WritesAndMeans
<1>. QED  BY <1>1 DEF LastWriter

\* What Forward_OUT finds
LEMMA ForwardingIs ==
  ASSUME NEW p \in Places, NEW k \in 1 .. 2
  PROVE  LET r == pipe[p].ins.rd[k]
             q == Forwarding(p, k)
             S == {x \in Later(p) : r # 0 /\ pipe[x].wr = r /\ pipe[x].Tnew = 0}
         IN \/ S = {} /\ (Operand(p, k) <=> pipe[p].v[k])
            \/ /\ q \in S /\ \A x \in S : q <= x
               /\ Operand(p, k) <=> q = LastWriter(p, r) /\ pipe[q].data
<1> DEFINE r == pipe[p].ins.rd[k]
           q == Forwarding(p, k)
           S == {x \in Later(p) : r # 0 /\ pipe[x].wr = r /\ pipe[x].Tnew = 0}
<1>1. S \in SUBSET Places
  BY DEF Later
<1>2. q = Nearest(S)
  BY DEF Forwarding
<1>. HIDE DEF S, q
<1>3. CASE S = {}
  <2>1. q = None
    BY <1>1, <1>2, <1>3, NearestIs
  <2>. QED  BY <1>3, <2>1 DEF Operand, q, S
<1>4. CASE S # {}
  <2>1. q \in S /\ (\A x \in S : q <= x) /\ q # None
    BY <1>1, <1>2, <1>4, NearestIs
  <2>2. Operand(p, k) <=> q = LastWriter(p, r) /\ pipe[q].data
    BY <2>1 DEF Operand, q
  <2>. QED  BY <2>1, <2>2 DEF S, q
<1>. QED  BY <1>3, <1>4

\* A result that may be forwarded is right
LEMMA ReadyIsRight ==
  ASSUME TimeInv, Typed, NEW q \in Places, q \notin EX, ~Doomed(q), pipe[q].wr # 0
  PROVE  /\ pipe[q].Tnew = 0 => pipe[q].data
         /\ q \in WB => /\ pipe[q].data
                        /\ pipe[q].Tnew = 0 \/ (pipe[q].Tnew = 3 /\ Slot(q))
<1>1. TimeIn(q)
  BY DEF TimeInv
<1>2. Stage(q) \in 1 .. 4
  BY Stages04
<1>3. pipe[q].Tnew \in 0 .. 7
  BY DEF Typed, Entry
<1>4. q \in WB => Stage(q) = 4
  BY Stages04
<1>. QED  BY <1>1, <1>2, <1>3, <1>4 DEF TimeIn, TimeOf

\* An operand all of whose writers have delivered
LEMMA ForwardedRight ==
  ASSUME ShapeInv, PairsInv, TimeInv, Typed, NEW p \in Places, NEW k \in 1 .. 2,
         ~Doomed(p),
         \A q \in Places : q > p /\ pipe[q].wr = pipe[p].ins.rd[k] => pipe[q].Tnew = 0,
         \/ pipe[p].v[k]
         \/ \E q \in Places : q > p /\ pipe[q].wr = pipe[p].ins.rd[k],
         pipe[p].ins.rd[k] # 0
  PROVE  Operand(p, k)
<1> DEFINE r == pipe[p].ins.rd[k]
           S == {x \in Later(p) : r # 0 /\ pipe[x].wr = r /\ pipe[x].Tnew = 0}
           W == {x \in Places : x > p /\ pipe[x].wr = r}
           q == Forwarding(p, k)
<1>1. S = W
  <2>1. \A x \in W : x \in S
    BY WriterIsLater
  <2>2. \A x \in S : x \in Places /\ x > p
    BY DEF Later
  <2>. QED  BY <2>1, <2>2
<1>2. LastWriter(p, r) = Nearest(W) /\ p \in Int
  <2>1. p \in Int
    BY DEF Places
  <2>. QED  BY <2>1, LastWriterIs
<1>3. CASE W = {}
  BY <1>1, <1>3, ForwardingIs
<1>4. CASE W # {}
  <2>1. /\ q \in S
        /\ Operand(p, k) <=> q = LastWriter(p, r) /\ pipe[q].data
    BY <1>1, <1>4, ForwardingIs
  <2>2. q = Nearest(S)
    BY DEF Forwarding
  <2>3. q = LastWriter(p, r)
    BY <1>1, <1>2, <2>2
  <2>4. q \in Places /\ q > p /\ pipe[q].wr = r /\ pipe[q].Tnew = 0 /\ q \in Later(p)
    BY <2>1 DEF Later
  <2>5. q \notin EX
    <3>1. q >= 2
      BY <2>4, LaterIs
    <3>. QED  BY <3>1 DEF EX
  <2>6. ~Doomed(q)
    <3>1. q \in Int /\ p \in Int /\ q >= p
      BY <2>4 DEF Places
    <3>. QED  BY <3>1, DoomGrows
  <2>. QED  BY <2>1, <2>3, <2>4, <2>5, <2>6, ReadyIsRight
<1>. QED  BY <1>3, <1>4

\* An operand that is due is right
LEMMA DueIsRight ==
  ASSUME ShapeInv, PairsInv, TimeInv, Typed, NEW p \in Places, NEW k \in 1 .. 2,
         ~Doomed(p), OperandOK(p, k), UsedIn(p, k) = Stage(p)
  PROVE  Operand(p, k)
<1> DEFINE r == pipe[p].ins.rd[k]
<1>1. Stage(p) \in 0 .. 4 /\ Stage(p) - Stage(p) = 0
  BY Stages04
<1>2. r # 0
  BY <1>1, UsedRange
<1>3. UsedIn(p, k) \in Stage(p) .. 4
  BY <1>1
<1>4. \A q \in Places : q > p /\ pipe[q].wr = r => pipe[q].Tnew = 0
  <2>1. \A q \in Places : pipe[q].Tnew \in 0 .. 7
    BY DEF Typed, Entry
  <2>2. \A q \in Places : q > p /\ pipe[q].wr = r => pipe[q].Tnew <= 0
    BY <1>1, <1>3 DEF OperandOK
  <2>. QED  BY <2>1, <2>2
<1>5. \/ pipe[p].v[k]
      \/ \E q \in Places : q > p /\ pipe[q].wr = r
  BY <1>3 DEF OperandOK
<1>. QED  BY <1>2, <1>4, <1>5, ForwardedRight

\* An operand that is not right yet: its writer is on its way
LEMMA Missing ==
  ASSUME ShapeInv, PairsInv, TimeInv, Typed, NEW p \in Places, NEW k \in 1 .. 2,
         ~Doomed(p), OperandOK(p, k), UsedIn(p, k) \in Stage(p) .. 4,
         ~Operand(p, k)
  PROVE  \E q \in Later(p) :
           /\ q \in 2 .. 7 /\ q > p /\ pipe[q].wr = pipe[p].ins.rd[k]
           /\ pipe[q].Tnew > 0 /\ pipe[q].Tnew <= 3 /\ pipe[q].Tnew + Stage(q) # 7
<1> DEFINE r == pipe[p].ins.rd[k]
           u == UsedIn(p, k)
           s == Stage(p)
           S == {x \in Later(p) : r # 0 /\ pipe[x].wr = r /\ pipe[x].Tnew = 0}
<1>1. s \in 0 .. 4 /\ u \in 0 .. 3 /\ r # 0 /\ u >= s /\ p \in Int
  BY Stages04, UsedRange
<1>2. \A q \in Places : q > p /\ pipe[q].wr = r => pipe[q].Tnew <= u - s
  BY DEF OperandOK
<1>. HIDE DEF u, s
<1>3. \A q \in Places : q > p /\ pipe[q].wr = r =>
        /\ pipe[q].Tnew \in 0 .. 3 /\ q \in Later(p) /\ q \notin EX /\ ~Doomed(q)
        /\ q \in Int /\ q >= 2 /\ q <= 9
  <2>. SUFFICES ASSUME NEW q \in Places, q > p, pipe[q].wr = r
       PROVE  /\ pipe[q].Tnew \in 0 .. 3 /\ q \in Later(p) /\ q \notin EX /\ ~Doomed(q)
              /\ q \in Int /\ q >= 2 /\ q <= 9
    OBVIOUS
  <2>1. pipe[q].Tnew \in 0 .. 7 /\ pipe[q].Tnew <= u - s
    BY <1>2 DEF Typed, Entry
  <2>2. pipe[q].Tnew \in 0 .. 3
    BY <1>1, <2>1
  <2>3. q \in Later(p)
    BY <1>1, WriterIsLater
  <2>4. q \in Int /\ q >= 2 /\ q <= 9
    BY <2>3, LaterIs DEF Places
  <2>5. q \notin EX
    BY <2>4 DEF EX
  <2>6. ~Doomed(q)
    BY <1>1, <2>4, DoomGrows
  <2>. QED  BY <2>2, <2>3, <2>4, <2>5, <2>6
\* No writer in WB is late
<1>4. ASSUME NEW q \in WB, q > p, pipe[q].wr = r
      PROVE  pipe[q].Tnew = 0 \/ (pipe[q].Tnew + Stage(q) = 7 /\ q = 8 /\ pipe[9].wr = 0)
  <2>1. q \in Places /\ Stage(q) = 4 /\ q \in {8, 9}
    BY Stages04 DEF WB, Places
  <2>2. pipe[q].Tnew = 0 \/ (pipe[q].Tnew = 3 /\ Slot(q))
    BY <1>1, <1>3, <1>4, <2>1, ReadyIsRight
  <2>3. Slot(q) => q = 8 /\ pipe[9].wr = 0
    BY <2>1 DEF Slot, Way0
  <2>. QED  BY <2>1, <2>2, <2>3
<1>5. CASE S = {}
  <2>1. ~pipe[p].v[k]
    BY <1>5, ForwardingIs
  <2>2. PICK q \in Places : q > p /\ pipe[q].wr = r /\ pipe[q].Tnew + Stage(q) # 7
    BY <2>1 DEF OperandOK
  <2>3. q \in Later(p) /\ pipe[q].Tnew # 0
    BY <1>1, <1>3, <1>5, <2>2
  <2>4. q \notin WB
    BY <1>4, <2>2, <2>3
  <2>5. q \in 2 .. 7
    BY <1>3, <2>2, <2>4 DEF WB
  <2>. QED  BY <1>3, <2>2, <2>3, <2>5
<1>6. CASE S # {}
  <2> DEFINE q == Forwarding(p, k)
             W == {x \in Places : x > p /\ pipe[x].wr = r}
             w == LastWriter(p, r)
  <2>1. /\ q \in S /\ \A x \in S : q <= x
        /\ Operand(p, k) <=> q = w /\ pipe[q].data
    BY <1>6, ForwardingIs
  <2>2. w = Nearest(W)
    BY <1>1, LastWriterIs
  <2>3. q \in W /\ pipe[q].Tnew = 0 /\ q \in Later(p)
    BY <2>1 DEF Later
  <2>. HIDE DEF q, w
  <2>4. w \in W /\ w <= q
    BY <2>2, <2>3, NearestIs
  <2>5. pipe[q].data
    BY <1>1, <1>3, <2>3, ReadyIsRight
  <2>6. w # q
    BY <2>1, <2>5
  <2>7. w < q
    <3>1. w \in Int /\ q \in Int
      BY <1>3, <2>3, <2>4
    <3>. QED  BY <2>4, <2>6, <3>1
  <2>8. w \in Later(p) /\ pipe[w].Tnew # 0
    <3>1. w \in Later(p)
      BY <1>3, <2>4
    <3>2. pipe[w].Tnew = 0 => w \in S
      BY <1>1, <2>4, <3>1
    <3>3. w \in Int /\ q \in Int
      BY <1>3, <2>3, <2>4
    <3>. QED  BY <2>1, <2>7, <3>1, <3>2, <3>3
  <2>9. w \notin WB
    <3>. SUFFICES ASSUME w \in WB PROVE FALSE
      OBVIOUS
    <3>1. w = 8 /\ pipe[9].wr = 0
      BY <1>4, <2>4, <2>8
    <3>2. q = 9
      BY <1>3, <2>3, <2>7, <3>1
    <3>. QED  BY <1>1, <2>3, <3>1, <3>2
  <2>10. w \in 2 .. 7
    BY <1>3, <2>4, <2>9 DEF WB
  <2>11. pipe[w].Tnew \in 0 .. 3 /\ Stage(w) <= 3 /\ Stage(w) \in 0 .. 4
    <3>1. Stage(w) \in 0 .. 4 /\ (Stage(w) = 4 => w \in WB)
      BY <2>4, Stages04
    <3>. QED  BY <1>3, <2>4, <2>9, <3>1
  <2>. QED  BY <2>4, <2>8, <2>10, <2>11
<1>. QED  BY <1>5, <1>6

\* In MEM every operand is right
LEMMA DeliveredIsRight ==
  ASSUME ShapeInv, PairsInv, TimeInv, Typed, NEW p \in MEM, NEW k \in 1 .. 2,
         OperandOK(p, k)
  PROVE  Operand(p, k)
<1> DEFINE r == pipe[p].ins.rd[k]
           u == UsedIn(p, k)
           S == {x \in Later(p) : r # 0 /\ pipe[x].wr = r /\ pipe[x].Tnew = 0}
<1>1. p \in Places /\ Stage(p) = 3 /\ ~Doomed(p) /\ p \in Int /\ p \in {6, 7}
  BY FarUndoomed, Stages04 DEF MEM, Places
<1>2. CASE u \in 3 .. 4
  <2>1. u = 3
    BY <1>2, UsedRange
  <2>. QED  BY <1>1, <2>1, DueIsRight
<1>3. CASE u \notin 3 .. 4
  <2>1. pipe[p].v[k]
    BY <1>1, <1>3 DEF OperandOK
  <2>2. CASE S = {}
    BY <1>1, <2>1, <2>2, ForwardingIs
  <2>3. CASE S # {}
    <3> DEFINE q == Forwarding(p, k)
               W == {x \in Places : x > p /\ pipe[x].wr = r}
               w == LastWriter(p, r)
    <3>1. /\ q \in S
          /\ Operand(p, k) <=> q = w /\ pipe[q].data
      BY <1>1, <2>3, ForwardingIs
    <3>2. w = Nearest(W)
      BY <1>1, LastWriterIs
    <3>3. q \in W /\ pipe[q].Tnew = 0 /\ q \in Later(p) /\ r # 0
      BY <3>1 DEF Later
    <3>. HIDE DEF q, w
    <3>4. w \in W /\ w <= q
      BY <3>2, <3>3, NearestIs
    <3>5. \A x \in W : x \in WB /\ x \in {8, 9}
      <4>. SUFFICES ASSUME NEW x \in W PROVE x \in WB /\ x \in {8, 9}
        OBVIOUS
      <4>1. x \in Later(p)
        BY <1>1, <3>3, WriterIsLater
      <4>2. Stage(x) > 3 /\ Stage(x) \in 0 .. 4
        BY <1>1, <4>1, LaterIs, Stages04
      <4>3. Stage(x) = 4
        BY <4>2
      <4>. QED  BY <4>3, Stages04 DEF WB
    <3>6. \A x \in W : /\ pipe[x].data
                       /\ pipe[x].Tnew = 0 \/ (pipe[x].Tnew = 3 /\ Slot(x))
      <4>. SUFFICES ASSUME NEW x \in W
           PROVE  /\ pipe[x].data
                  /\ pipe[x].Tnew = 0 \/ (pipe[x].Tnew = 3 /\ Slot(x))
        OBVIOUS
      <4>1. x \in WB /\ x \in Places /\ ~Doomed(x) /\ pipe[x].wr # 0 /\ x \notin EX
        BY <3>3, <3>5, FarUndoomed DEF EX
      <4>. QED  BY <4>1, ReadyIsRight
    <3>7. q = w
      <4>. SUFFICES ASSUME q # w PROVE FALSE
        OBVIOUS
      <4>1. w = 8 /\ q = 9
        BY <3>3, <3>4, <3>5
      <4>2. pipe[w].Tnew # 0
        <5>. SUFFICES ASSUME pipe[w].Tnew = 0 PROVE FALSE
          OBVIOUS
        <5>1. w \in S
          BY <1>1, <3>3, <3>4, WriterIsLater
        <5>2. q <= w
          BY <1>1, <5>1, ForwardingIs DEF q
        <5>. QED  BY <4>1, <5>2
      <4>3. Slot(8)
        BY <3>4, <3>6, <4>1, <4>2
      <4>. QED  BY <3>3, <4>1, <4>3 DEF Slot
    <3>. QED  BY <3>1, <3>3, <3>6, <3>7
  <2>. QED  BY <2>2, <2>3
<1>. QED  BY <1>2, <1>3

-----------------------------------------------------------------------------
(* Where an entry goes.                                                    *)

\* After a cycle, place t holds what stood at o, or was to be issued there
Goes(o, t, h) ==
  /\ o \in -2 .. 7 /\ t \in Places
  /\ \/ o >= 0 /\ o < h /\ t = o
     \/ o >= 0 /\ o >= h /\ t = o + 2
     \/ o < 0 /\ h = 0 /\ t = o + 2

LEMMA TurnTo ==
  ASSUME NEW h, NEW f, NEW event, NEW annul, NEW fault, NEW taken,
         Turn(h, f, event, annul, fault, taken), NEW q \in 0 .. 7
  PROVE  /\ q >= f /\ q < h => pipe'[q] = Held(q)
         /\ q >= h /\ q + 2 >= f => pipe'[q + 2] = After(q, event, annul, fault, taken)
<1>1. /\ h \in Int /\ f \in Int /\ q \in Int /\ q \in Places /\ q + 2 \in Places
      /\ (q + 2) - 2 = q
  BY DEF Turn, Places
<1>2. \A p \in Places :
        pipe'[p] = IF p < f THEN Empty
                   ELSE IF p < h THEN Held(p)
                   ELSE IF p < h + 2 THEN IF h = 0 THEN IssuedPair(p) ELSE Empty
                   ELSE After(p - 2, event, annul, fault, taken)
  BY DEF Turn, Shift
<1>3. ASSUME q >= f, q < h PROVE pipe'[q] = Held(q)
  <2>1. ~(q < f)
    BY <1>1, <1>3
  <2>. QED  BY <1>1, <1>2, <1>3, <2>1
<1>4. ASSUME q >= h, q + 2 >= f
      PROVE  pipe'[q + 2] = After(q, event, annul, fault, taken)
  <2> DEFINE p == q + 2
  <2>1. ~(p < f) /\ ~(p < h) /\ ~(p < h + 2) /\ p - 2 = q /\ p \in Places
    BY <1>1, <1>4
  <2>. HIDE DEF p
  <2>2. pipe'[p] = After(p - 2, event, annul, fault, taken)
    BY <1>2, <2>1
  <2>3. pipe'[p] = After(q, event, annul, fault, taken)
    BY <2>1, <2>2
  <2>. QED  BY <2>3 DEF p
<1>. QED  BY <1>3, <1>4

\* What is behind a place that is not flushed
LEMMA TurnFrom ==
  ASSUME NEW h, NEW f, NEW event, NEW annul, NEW fault, NEW taken,
         Turn(h, f, event, annul, fault, taken), NEW t \in Places
  PROVE  \/ pipe'[t] = Empty
         \/ t >= f /\ t < h /\ t \in 0 .. 7 /\ Goes(t, t, h) /\ pipe'[t] = Held(t)
         \/ /\ t >= f /\ h = 0 /\ f = 0 /\ t \in EX /\ Goes(t - 2, t, h)
            /\ pipe'[t] = IssuedPair(t)
         \/ \E q \in 0 .. 7 : /\ t = q + 2 /\ q >= h /\ t >= f /\ Goes(q, t, h)
                              /\ pipe'[t] = After(q, event, annul, fault, taken)
<1>0. h \in {0, 2, 6, 8} /\ f \in {0, 2, 4, 6} /\ t \in Int /\ t >= 0 /\ t <= 9
  BY DEF Turn, Places
<1>1. CASE pipe'[t] = Empty
  BY <1>1
<1>2. CASE t >= f /\ t < h /\ pipe'[t] = Held(t)
  <2>1. t \in 0 .. 7 /\ t \in -2 .. 7
    BY <1>0, <1>2
  <2>. QED  BY <1>0, <1>2, <2>1 DEF Goes
<1>3. CASE h = 0 /\ f = 0 /\ t \in EX /\ pipe'[t] = IssuedPair(t)
  <2>1. t >= f /\ t - 2 \in -2 .. 7 /\ t - 2 < 0 /\ t = (t - 2) + 2
    BY <1>0, <1>3 DEF EX
  <2>. QED  BY <1>0, <1>3, <2>1 DEF Goes
<1>4. CASE /\ t >= f /\ t >= h + 2 /\ t - 2 \in 0 .. 7
           /\ pipe'[t] = After(t - 2, event, annul, fault, taken)
  <2> DEFINE q == t - 2
  <2>1. q \in 0 .. 7 /\ t = q + 2 /\ q >= h /\ q >= 0 /\ q \in -2 .. 7
    BY <1>0, <1>4
  <2>2. Goes(q, t, h)
    BY <2>1 DEF Goes
  <2>3. pipe'[t] = After(q, event, annul, fault, taken)
    BY <1>4
  <2>. QED  BY <1>4, <2>1, <2>2, <2>3
<1>. QED  BY <1>1, <1>2, <1>3, <1>4, TurnCases

-----------------------------------------------------------------------------
(* An exception takes what follows it along.                               *)

LEMMA ExceptionSeen ==
  ASSUME Typed, ShapeInv, PairsInv, PairInv, NEW d \in DR,
         pipe[d].exc \/ pipe[d].flt
  PROVE  exception_ori /\ (d = 5 => ~priv_way)
<1>0. Beside(pipe[5], pipe[4])
  BY DEF PairInv
<1>1. \A x \in DR : Marked(pipe[x]) /\ Shaped(pipe[x]) /\ pipe[x] \in Entry
  BY DEF ShapeInv, DR, Typed, Places
<1>2. \A x \in DR : pipe[x].acc => pipe[x].valid
  BY <1>0 DEF Beside, DR
<1>3. \/ Checked(5) = Squashed(pipe[5])
      \/ ~Faulty(5) /\ Checked(5).exc = pipe[5].exc /\ Checked(5).priv = pipe[5].priv
  BY <1>0, CheckedIsEntry DEF Typed, Fields, DR
<1>4. \/ Faulty(5)
      \/ Checked(4) = Squashed(pipe[4])
      \/ ~Faulty(4) /\ Checked(4).exc = pipe[4].exc /\ Checked(4).priv = pipe[4].priv
  BY <1>0, CheckedIsEntry DEF Typed, Fields, DR
<1>5. \A x \in DR : Squashed(pipe[x]).exc /\ Squashed(pipe[x]).priv
  BY <1>1, SquashedIsEntry
<1>6. \A x \in DR : pipe[x].flt => Faulty(x)
  BY <1>1 DEF Marked, Faulty
<1>7. ASSUME pipe[5].exc \/ pipe[5].flt
      PROVE  exception_ori /\ ~priv_way
  <2>1. Checked(5).exc /\ Checked(5).priv
    BY <1>1, <1>3, <1>5, <1>6, <1>7 DEF Marked, DR
  <2>. QED  BY <2>1 DEF exception_ori, priv_way
<1>8. ASSUME ~(pipe[5].exc \/ pipe[5].flt), d = 4
      PROVE  exception_ori
  <2>1. ~Faulty(5)
    BY <1>8 DEF Faulty
  <2>2. Checked(4).exc /\ Checked(4).priv
    BY <1>1, <1>4, <1>5, <1>6, <1>8, <2>1 DEF Marked, DR
  <2>3. pipe[4].valid
    BY <1>1, <1>2, <1>8 DEF Marked, DR
  <2>4. ~IsPriv(pipe[5].ins)
    <3>1. 4 \in {0, 2, 4} /\ 4 + 1 = 5
      OBVIOUS
    <3>. QED  BY <2>3, <3>1 DEF PairsInv
  <2>5. ~pipe[5].priv
    BY <1>1, <1>8, <2>4 DEF Marked, DR
  <2>6. ~Checked(5).priv
    <3>1. CASE ~Faulty(5) /\ Checked(5).exc = pipe[5].exc /\ Checked(5).priv = pipe[5].priv
      BY <2>5, <3>1
    <3>2. CASE Checked(5) = Squashed(pipe[5])
      <4>1. \/ Faulty(5)
            \/ Checked(5).priv = pipe[5].priv
        BY <1>0, CheckedIsEntry, <2>1 DEF Typed, Fields, DR
      <4>. QED  BY <2>1, <2>5, <4>1
    <3>. QED  BY <1>3, <3>1, <3>2
  <2>. QED  BY <2>2, <2>6 DEF exception_ori, priv_way
<1>. QED  BY <1>7, <1>8 DEF DR

\* Who is doomed stays doomed, or is flushed
LEMMA DoomStays ==
  ASSUME ResultInv, NEW h, NEW f, NEW event, NEW annul, NEW fault, NEW taken,
         Turn(h, f, event, annul, fault, taken),
         NEW o, NEW t, Goes(o, t, h), t >= f, Doomed(o)
  PROVE  pipe'[t] = Empty \/ Doomed(t)'
<1>0. /\ h \in {0, 2, 6, 8} /\ f \in {0, 2, 4, 6} /\ o \in Int /\ t \in Int
      /\ t <= o + 2 /\ t >= o /\ (o < h /\ o >= 0 => t = o)
  BY DEF Turn, Goes, Places
<1>1. PICK d \in Places :
        /\ d > o
        /\ \/ d \in AT /\ pipe[d].exc /\ pipe[d].ins.cls # "trap"
           \/ d \in DR /\ (pipe[d].exc \/ pipe[d].flt) /\ ~exc_req_complete
  BY DEF Doomed
<1>2. CASE d \in AT /\ pipe[d].exc /\ pipe[d].ins.cls # "trap"
  <2>0. d \in Int /\ d >= 2 /\ d <= 3 /\ d \in 0 .. 7
    BY <1>2 DEF AT
  <2>1. CASE d < h
    <3>1. t = o
      <4>1. o >= 0
        BY <1>0, <2>0, <2>1 DEF Goes
      <4>. QED  BY <1>0, <1>1, <2>0, <2>1, <4>1
    <3>2. d > t /\ d >= f
      BY <1>0, <1>1, <2>0, <3>1
    <3>3. pipe'[d] = Held(d)
      BY <2>0, <2>1, <3>2, TurnTo
    <3>4. pipe'[d].exc /\ pipe'[d].ins.cls # "trap"
      BY <1>2, <3>3, HeldShaped DEF ResultInv
    <3>. QED  BY <1>2, <3>2, <3>4 DEF Doomed
  <2>2. CASE ~(d < h)
    <3> DEFINE q == d + 2
    <3>1. q \in DR /\ q > t /\ q >= f /\ d >= h /\ q \in Places
      BY <1>0, <1>1, <2>0, <2>2 DEF DR, Places
    <3>2. pipe'[q] = After(d, event, annul, fault, taken)
      BY <2>0, <3>1, TurnTo
    <3>. HIDE DEF q
    <3>3. After(d, event, annul, fault, taken) = AfterAT(d, fault[d])
      BY <2>0 DEF After
    <3>4. pipe[d].valid
      <4>1. d \in 0 .. 5
        BY <2>0
      <4>. QED  BY <1>2, <4>1 DEF ResultInv, ShapeInv, Marked
    <3>5. fault[d] \in BOOLEAN
      BY <1>2 DEF Turn
    <3>6. AfterAT(d, fault[d]).exc
      BY <1>2, <3>4, <3>5, Translated DEF ResultInv, Typed
    <3>7. ~exc_req_complete'
      <4>1. exc_req_complete' => h >= 6
        BY DEF Turn
      <4>. QED  BY <1>0, <2>0, <3>1, <4>1
    <3>. QED  BY <3>1, <3>2, <3>3, <3>6, <3>7 DEF Doomed
  <2>. QED  BY <2>1, <2>2
<1>3. CASE d \in DR /\ (pipe[d].exc \/ pipe[d].flt) /\ ~exc_req_complete
  <2>0. d \in {4, 5}
    BY <1>3 DEF DR
  <2>1. exception_ori /\ (d = 5 => ~priv_way)
    BY <1>3, ExceptionSeen DEF ResultInv, RequestInv, AnswerInv
  <2>2. taken /\ (f = 6 \/ (f = 4 /\ h >= 6 /\ priv_way))
    BY <1>3, <2>1 DEF Turn
  <2>3. CASE f = 6
    <3>1. o = 4 /\ d = 5 /\ t = o + 2 /\ t = 6
      BY <1>0, <1>1, <2>0, <2>3
    <3>2. o >= h
      BY <1>0, <3>1
    <3>3. pipe'[4 + 2] = After(4, event, annul, fault, taken)
      <4>1. 4 \in 0 .. 7 /\ 4 >= h /\ 4 + 2 >= f
        BY <2>3, <3>1, <3>2
      <4>. QED  BY <4>1, TurnTo
    <3>4. After(4, event, annul, fault, taken) = AfterDR(4, taken)
      BY DEF After
    <3>5. AfterDR(4, taken) = Empty
      <4>1. 4 \in DR /\ Beside(pipe[5], pipe[4]) /\ taken \in BOOLEAN
        BY DEF DR, Turn, ResultInv, RequestInv, AnswerInv, PairInv
      <4>. QED  BY <2>1, <2>2, <3>1, <4>1, Left DEF ResultInv, Typed
    <3>. QED  BY <3>1, <3>3, <3>4, <3>5
  <2>4. CASE f = 4 /\ h >= 6 /\ priv_way
    <3>1. o < h /\ o >= 0
      BY <1>0, <1>1, <2>0, <2>4 DEF Goes
    <3>2. o = 4 /\ d = 5
      BY <1>0, <1>1, <2>0, <2>4, <3>1
    <3>. QED  BY <2>1, <2>4, <3>2
  <2>. QED  BY <2>2, <2>3, <2>4
<1>. QED  BY <1>1, <1>2, <1>3

-----------------------------------------------------------------------------
(* The two ways of a stage.                                                *)

LEMMA TurnPair ==
  ASSUME NEW h, NEW f, NEW event, NEW annul, NEW fault, NEW taken,
         Turn(h, f, event, annul, fault, taken), NEW t \in {0, 2, 4, 6, 8}
  PROVE  \/ pipe'[t] = Empty /\ pipe'[t + 1] = Empty
         \/ t < h /\ t \in 0 .. 6 /\ pipe'[t] = Held(t) /\ pipe'[t + 1] = Held(t + 1)
         \/ h = 0 /\ f = 0 /\ t = 0 /\ pipe'[0] = IssuedPair(0) /\ pipe'[1] = IssuedPair(1)
         \/ \E q \in {0, 2, 4, 6} :
              /\ t = q + 2
              /\ pipe'[t] = After(q, event, annul, fault, taken)
              /\ pipe'[t + 1] = After(q + 1, event, annul, fault, taken)
<1>1. /\ h \in {0, 2, 6, 8} /\ f \in {0, 2, 4, 6}
      /\ \A p \in Places :
          pipe'[p] = IF p < f THEN Empty
                     ELSE IF p < h THEN Held(p)
                     ELSE IF p < h + 2 THEN IF h = 0 THEN IssuedPair(p) ELSE Empty
                     ELSE After(p - 2, event, annul, fault, taken)
  BY DEF Turn, Shift
<1> DEFINE y == t + 1
<1>2. t \in Places /\ y \in Places /\ t \in Int /\ y \in Int
  BY DEF Places
<1>3. (y < f <=> t < f) /\ (y < h <=> t < h) /\ (y < h + 2 <=> t < h + 2)
  BY <1>1
<1>4. CASE t < f
  BY <1>1, <1>2, <1>3, <1>4
<1>5. CASE ~(t < f) /\ t < h
  <2>1. t \in 0 .. 6
    BY <1>1, <1>5
  <2>. QED  BY <1>1, <1>2, <1>3, <1>5, <2>1
<1>6. CASE ~(t < f) /\ ~(t < h) /\ t < h + 2
  <2>1. CASE h = 0
    <3>1. t = 0 /\ f = 0 /\ y = 1
      BY <1>1, <1>2, <1>6, <2>1
    <3>2. 0 \in Places /\ 1 \in Places
      BY DEF Places
    <3>3. pipe'[0] = IssuedPair(0) /\ pipe'[1] = IssuedPair(1)
      BY <1>1, <2>1, <3>1, <3>2
    <3>. QED  BY <2>1, <3>1, <3>3
  <2>2. CASE h # 0
    BY <1>1, <1>2, <1>3, <1>6, <2>2
  <2>. QED  BY <2>1, <2>2
<1>7. CASE ~(t < f) /\ ~(t < h) /\ ~(t < h + 2)
  <2> DEFINE q == t - 2
             z == q + 1
  <2>1. q \in {0, 2, 4, 6} /\ t = q + 2 /\ y - 2 = z
    BY <1>1, <1>7
  <2>2. pipe'[t] = After(q, event, annul, fault, taken)
    BY <1>1, <1>2, <1>7
  <2>3. pipe'[y] = After(y - 2, event, annul, fault, taken)
    BY <1>1, <1>2, <1>3, <1>7
  <2>. HIDE DEF q
  <2>4. pipe'[y] = After(z, event, annul, fault, taken)
    BY <2>1, <2>3
  <2>. QED  BY <2>1, <2>2, <2>4
<1>. QED  BY <1>4, <1>5, <1>6, <1>7

\* What moves on keeps its instruction, or is gone
LEMMA MovedOn ==
  ASSUME ResultInv, NEW h, NEW f, NEW event, NEW annul, NEW fault, NEW taken,
         Turn(h, f, event, annul, fault, taken), NEW q \in 0 .. 7
  PROVE  LET r == After(q, event, annul, fault, taken)
         IN /\ Moved(q, r)
            /\ r.wr \in {0, pipe[q].wr}
            /\ r.ins = NoInstr \/ (r.ins = pipe[q].ins /\ pipe[q].valid)
            /\ r.valid /\ q < 6 => r.ins = pipe[q].ins /\ pipe[q].valid
<1> DEFINE r == After(q, event, annul, fault, taken)
<1>1. /\ Typed /\ ShapeInv /\ PairInv /\ CommittedInv
  BY DEF ResultInv, RequestInv, AnswerInv
<1>2. /\ event \in [EX -> BOOLEAN] /\ annul \in BOOLEAN /\ fault \in [AT -> BOOLEAN]
      /\ taken \in BOOLEAN /\ (annul => pipe[1].ins.cls = "likely")
  BY DEF Turn
<1>3. Moved(q, r)
  BY <1>1, <1>2, AfterMoves
<1>. HIDE DEF r
<1>4. /\ r.wr \in {0, pipe[q].wr}
      /\ r.ins = NoInstr \/ (r.ins = pipe[q].ins /\ pipe[q].valid)
      /\ r.valid /\ q < 6 => r.ins = pipe[q].ins /\ pipe[q].valid
  BY <1>3, EmptyIsEntry DEF Moved
<1>. QED  BY <1>3, <1>4 DEF r

\* A pair that is issued
LEMMA IssuedTogether ==
  ASSUME IssueInv, MarkInv
  PROVE  LET o == IssuedPair(1)
             y == IssuedPair(0)
         IN /\ IsPriv(o.ins) => ~y.valid
            /\ o.wr # 0 => \A k \in 1 .. 2 : y.ins.rd[k] # o.wr
            /\ o.ins.cls = "likely" => y.wr = 0 \/ y.Tnew = STALL
<1> DEFINE o == IssuedPair(1)
           y == IssuedPair(0)
           i == queue_head(0).ins
           j == queue_head(1).ins
<1>1. CASE y = Empty
  <2>1. ~y.valid /\ y.wr = 0 /\ \A k \in 1 .. 2 : y.ins.rd[k] = 0
    BY <1>1, EmptyIsEntry
  <2>. QED  BY <2>1
<1>2. CASE y # Empty
  <2>0. Way(0) = 1 /\ Way(1) = 0 /\ 0 \in EX /\ 1 \in EX
    BY DEF Way, EX
  <2>1. /\ y.ins = j /\ y.wr = j.wr /\ way1_valid /\ way0_valid
        /\ y.Tnew = TnewDecoder(j, queue_head(1).likely_delayslot, delay_exec(j))
    BY <1>2, <2>0, IssuedEntry
  <2>2. o = Issued(0)
    <3>1. Way0(1)
      BY DEF Way0
    <3>. QED  BY <2>1, <3>1 DEF IssuedPair
  <2>3. o.ins = i /\ o.wr = i.wr
    BY <2>2 DEF Issued
  <2>4. ~way1_stop /\ Valid(1) /\ ~InClass(i, j)
    BY <2>1 DEF way1_valid, ready1
  <2>5. ~IsPriv(o.ins)
    BY <2>3, <2>4 DEF way1_stop
  <2>6. o.wr # 0 => \A k \in 1 .. 2 : y.ins.rd[k] # o.wr
    BY <2>1, <2>3, <2>4 DEF InClass
  <2>7. ASSUME o.ins.cls = "likely" PROVE y.wr = 0 \/ y.Tnew = STALL
    <3>1. /\ size >= 2 /\ size \in Nat /\ i = Waiting[1]
      BY <2>1, Heads DEF IssueInv, QueueInv, QueueTypeOK
    <3>2. 1 \in 1 .. size - 1 /\ 1 + 1 = 2 /\ 2 - 1 = 1
      BY <3>1
    <3>3. Mark(2)
      BY <2>3, <2>7, <3>1, <3>2 DEF MarkInv
    <3>4. queue_head(1).likely_delayslot
      BY <3>2, <3>3 DEF Mark, queue_head
    <3>. QED  BY <2>1, <3>4 DEF TnewDecoder
  <2>. QED  BY <2>5, <2>6, <2>7
<1>. QED  BY <1>1, <1>2

LEMMA PairsStay ==
  ASSUME ResultInv, NEW h, NEW f, NEW event, NEW annul, NEW fault, NEW taken,
         Turn(h, f, event, annul, fault, taken)
  PROVE  PairsInv'
<1>0. IssueInv /\ MarkInv /\ PairsInv /\ ShapeInv /\ Typed
  BY DEF ResultInv, RequestInv
<1>1. ASSUME NEW t \in {0, 2, 4, 6}
      PROVE  LET o == pipe'[t + 1]
                 y == pipe'[t]
             IN /\ t # 6 /\ IsPriv(o.ins) => ~y.valid
                /\ o.wr # 0 => \A k \in 1 .. 2 : y.ins.rd[k] # o.wr
                /\ t = 0 /\ o.ins.cls = "likely" => y.wr = 0 \/ y.Tnew = STALL
  <2>1. CASE pipe'[t] = Empty /\ pipe'[t + 1] = Empty
    BY <2>1, EmptyIsEntry
  <2>2. CASE pipe'[t] = Held(t) /\ pipe'[t + 1] = Held(t + 1)
    <3>1. t \in Places /\ t + 1 \in Places
      BY DEF Places
    <3>2. /\ pipe'[t].ins = pipe[t].ins /\ pipe'[t].valid = pipe[t].valid
          /\ pipe'[t].wr = pipe[t].wr /\ pipe'[t].Tnew = pipe[t].Tnew
          /\ pipe'[t + 1].ins = pipe[t + 1].ins /\ pipe'[t + 1].wr = pipe[t + 1].wr
      BY <1>0, <2>2, <3>1, HeldShaped
    <3>3. t # 6 /\ IsPriv(pipe[t + 1].ins) => ~pipe[t].valid
      BY <1>0 DEF PairsInv
    <3>4. pipe[t + 1].wr # 0 => \A k \in 1 .. 2 : pipe[t].ins.rd[k] # pipe[t + 1].wr
      BY <1>0 DEF PairsInv
    <3>5. t = 0 /\ pipe[t + 1].ins.cls = "likely" => pipe[t].wr = 0 \/ pipe[t].Tnew = STALL
      <4>1. 0 + 1 = 1
        OBVIOUS
      <4>. QED  BY <1>0, <4>1 DEF PairsInv
    <3>. QED  BY <3>2, <3>3, <3>4, <3>5
  <2>3. CASE t = 0 /\ pipe'[0] = IssuedPair(0) /\ pipe'[1] = IssuedPair(1)
    <3>1. t + 1 = 1
      BY <2>3
    <3>. QED  BY <1>0, <2>3, <3>1, IssuedTogether
  <2>4. ASSUME NEW q \in {0, 2, 4, 6}, t = q + 2,
               pipe'[t] = After(q, event, annul, fault, taken),
               pipe'[t + 1] = After(q + 1, event, annul, fault, taken)
        PROVE  LET o == pipe'[t + 1]
                   y == pipe'[t]
               IN /\ t # 6 /\ IsPriv(o.ins) => ~y.valid
                  /\ o.wr # 0 => \A k \in 1 .. 2 : y.ins.rd[k] # o.wr
                  /\ t = 0 /\ o.ins.cls = "likely" => y.wr = 0 \/ y.Tnew = STALL
    <3> DEFINE z == q + 1
               o == After(z, event, annul, fault, taken)
               y == After(q, event, annul, fault, taken)
    <3>1. q \in 0 .. 7 /\ z \in 0 .. 7 /\ q < 6 /\ t # 0 /\ (t # 6 => q \in {0, 2, 4})
      BY <2>4
    <3>2. IsPriv(pipe[z].ins) /\ t # 6 => ~pipe[q].valid
      BY <1>0, <3>1 DEF PairsInv
    <3>3. pipe[z].wr # 0 => \A k \in 1 .. 2 : pipe[q].ins.rd[k] # pipe[z].wr
      BY <1>0, <3>1 DEF PairsInv
    <3>4. pipe'[t] = y /\ pipe'[t + 1] = o
      BY <2>4
    <3>. HIDE DEF z
    <3>5. /\ o.wr \in {0, pipe[z].wr}
          /\ o.ins = NoInstr \/ o.ins = pipe[z].ins
      BY <3>1, MovedOn
    <3>6. /\ y.ins = NoInstr \/ y.ins = pipe[q].ins
          /\ y.valid => pipe[q].valid
      BY <3>1, MovedOn
    <3>. HIDE DEF o, y
    <3>7. t # 6 /\ IsPriv(o.ins) => ~y.valid
      BY <3>2, <3>5, <3>6, NoInstrReads DEF IsPriv
    <3>8. o.wr # 0 => \A k \in 1 .. 2 : y.ins.rd[k] # o.wr
      BY <3>3, <3>5, <3>6, NoInstrReads
    <3>. QED  BY <3>1, <3>4, <3>7, <3>8
  <2>5. t \in {0, 2, 4, 6, 8}
    OBVIOUS
  <2>. QED  BY <2>1, <2>2, <2>3, <2>4, <2>5, TurnPair
<1>2. /\ {0, 2, 4} \subseteq {0, 2, 4, 6} /\ 6 \notin {0, 2, 4} /\ 0 + 1 = 1
  OBVIOUS
<1>3. (\A p \in {0, 2, 4} : IsPriv(pipe[p + 1].ins) => ~pipe[p].valid)'
  BY <1>1, <1>2 DEF IsPriv
<1>4. (\A p \in {0, 2, 4, 6} :
       pipe[p + 1].wr # 0 => \A k \in 1 .. 2 : pipe[p].ins.rd[k] # pipe[p + 1].wr)'
  BY <1>1
<1>5. (pipe[1].ins.cls = "likely" => pipe[0].wr = 0 \/ pipe[0].Tnew = STALL)'
  BY <1>1, <1>2
<1>. QED  BY <1>3, <1>4, <1>5 DEF PairsInv

-----------------------------------------------------------------------------
(* The pair whose exception has been taken.                                *)

LEMMA HandledStays ==
  ASSUME ResultInv, NEW h, NEW f, NEW event, NEW annul, NEW fault, NEW taken,
         Turn(h, f, event, annul, fault, taken)
  PROVE  Handled'
<1>0. QueueInv /\ Handled /\ ShapeInv /\ Typed /\ Beside(pipe[5], pipe[4])
  BY DEF ResultInv, RequestInv, IssueInv, AnswerInv, PairInv
<1>. SUFFICES ASSUME exc_req_complete'
     PROVE  /\ \A p \in EX \cup AT : ~pipe'[p].valid
            /\ ~pipe'[5].exc /\ ~pipe'[5].flt
            /\ HandlerNext'
  BY DEF Handled
<1>1. h \in {6, 8} /\ f \in {0, 2, 4, 6}
  BY DEF Turn
<1>2. \A p \in 0 .. 5 : p < f => pipe'[p] = Empty
  BY DEF Turn, Shift, Places
<1>3. \A p \in 0 .. 5 : p >= f => pipe'[p] = Held(p)
  <2>. SUFFICES ASSUME NEW p \in 0 .. 5, p >= f PROVE pipe'[p] = Held(p)
    OBVIOUS
  <2>1. p \in 0 .. 7 /\ p < h
    BY <1>1
  <2>. QED  BY <2>1, TurnTo
<1>4. \A p \in 0 .. 5 : /\ Held(p).valid = pipe[p].valid /\ Held(p).exc = pipe[p].exc
                        /\ Held(p).flt = pipe[p].flt
  BY <1>0, HeldShaped DEF Places
<1>5. CASE taken /\ FlushRing("handler")
  <2>1. f = 6 \/ (f = 4 /\ priv_way)
    BY <1>5 DEF Turn
  <2>2. \A p \in EX \cup AT : ~pipe'[p].valid
    <3>1. \A p \in EX \cup AT : p \in 0 .. 5 /\ p < f
      BY <2>1 DEF EX, AT
    <3>. QED  BY <1>2, <3>1, EmptyIsEntry
  <2>3. ~pipe'[5].exc /\ ~pipe'[5].flt
    <3>1. CASE f = 6
      <4>1. pipe'[5] = Empty
        BY <1>2, <3>1
      <4>. QED  BY <4>1, EmptyIsEntry
    <3>2. CASE f = 4 /\ priv_way
      <4>1. ~(pipe[5].exc \/ pipe[5].flt)
        BY <3>2, ExceptionSeen DEF ResultInv, RequestInv, AnswerInv, DR
      <4>2. pipe'[5] = Held(5)
        BY <1>3, <3>2
      <4>. QED  BY <1>4, <4>1, <4>2
    <3>. QED  BY <2>1, <3>1, <3>2
  <2>. QED  BY <1>5, <2>2, <2>3, HandlerFlush
<1>6. CASE exc_req_complete /\ f = 0
  <2>1. /\ \A p \in EX \cup AT : ~pipe[p].valid
        /\ ~pipe[5].exc /\ ~pipe[5].flt /\ HandlerNext
    BY <1>0, <1>6 DEF Handled
  <2>2. \A p \in EX \cup AT : p \in 0 .. 5 /\ p >= f
    BY <1>6 DEF EX, AT
  <2>3. 5 \in 0 .. 5 /\ 5 >= f
    BY <1>6
  <2>4. PICK g \in Groups : Ring(g, IF h = 0 THEN issue_instr_num ELSE 0)
    BY <1>6 DEF Turn
  <2>5. Ring(g, 0)
    <3>1. h # 0
      BY <1>1
    <3>. QED  BY <2>4, <3>1
  <2>6. HandlerNext'
    BY <1>0, <2>1, <2>5, HandlerRing
  <2>. QED  BY <1>3, <1>4, <2>1, <2>2, <2>3, <2>6
<1>7. CASE exc_req_complete /\ \E p \in EX : pipe[p].valid
  BY <1>0, <1>7 DEF Handled
<1>. QED  BY <1>5, <1>6, <1>7 DEF Turn

-----------------------------------------------------------------------------
(* The programs the theorems are about.                                    *)

\* The slot of a likely branch is no access, and no addition that reads
SlotsAreSimple ==
  \A j \in Slots["likely"] :
    ~IsAccmem(j) /\ (j.cls = "cal" => \A k \in 1 .. 2 : j.rd[k] = 0)

\* A handler begins with a privileged instruction that reads nothing
HandlersArePriv ==
  \A j \in Slots["handler"] : IsPriv(j) /\ \A k \in 1 .. 2 : j.rd[k] = 0

-----------------------------------------------------------------------------
(* Time goes on.                                                           *)

\* The slot of a likely branch as it is issued
LEMMA MarkedIsSlot ==
  ASSUME IssueInv, MarkInv, NEW w \in {0, 1}, size > w, queue_head(w).likely_delayslot
  PROVE  /\ w = 1 /\ queue_head(0).ins.cls = "likely" /\ queue_head(0).ins \in Program
         /\ queue_head(1).ins \in Slots["likely"] /\ queue_head(1).ins \in Program
<1>1. size \in Nat /\ QueueInv
  BY DEF IssueInv, QueueInv, QueueTypeOK
<1>2. w + 1 \in 1 .. size /\ (w + 1) - 1 = w
  BY <1>1
<1>3. Mark(w + 1)
  BY <1>2 DEF Mark, queue_head
<1>4. w + 1 > 1 /\ Waiting[(w + 1) - 1].cls = "likely"
  BY <1>2, <1>3 DEF MarkInv
<1>5. w = 1 /\ size >= 2
  BY <1>1, <1>4
<1>6. Waiting[1].cls = "likely"
  BY <1>2, <1>4, <1>5
<1>7. /\ queue_head(0).ins = Waiting[1] /\ Waiting[1] \in Program
      /\ queue_head(1).ins = Waiting[2] /\ Waiting[2] \in Program
  BY <1>1, <1>5, Heads
<1>8. Waiting[2] \in Slots[Waiting[1].cls]
  <2>1. 1 \in 1 .. size - 1 /\ 1 + 1 = 2
    BY <1>1, <1>5
  <2>. QED  BY <1>6, <2>1 DEF IssueInv, SlotsInv, IsBranch
<1>. QED  BY <1>5, <1>6, <1>7, <1>8

LEMMA IssuedTime ==
  ASSUME IssueInv, MarkInv, SlotsAreSimple, NEW p \in EX, IssuedPair(p).wr # 0
  PROVE  LET e == IssuedPair(p)
         IN /\ TimeInEX(e)
            /\ e.Tnew = 7 /\ ~IsAlu(e.ins) => p = 0 /\ IssuedPair(1).wr = 0
            /\ e.Tnew = 7 /\ e.ins.cls = "cal" => \A k \in 1 .. 2 : e.ins.rd[k] = 0
            /\ queue_head(Way(p)).likely_delayslot /\ e.ins.cls = "cal" =>
                 \A k \in 1 .. 2 : e.ins.rd[k] = 0
<1> DEFINE e == IssuedPair(p)
           w == Way(p)
           i == queue_head(w).ins
           slot == queue_head(w).likely_delayslot
<1>1. e # Empty
  BY EmptyIsEntry
<1>2. /\ e.ins = i /\ e.wr = i.wr /\ i \in Program /\ size > w /\ way0_valid
      /\ e.acc <=> IsAccmem(i)
      /\ e.Tnew = TnewDecoder(i, slot, delay_exec(i))
  BY <1>1, IssuedEntry
<1>3. i.wr # 0 /\ i.cls \in Writers
  BY <1>2, RegisterAssumption
<1>4. w \in {0, 1} /\ (w = 1 => p = 0)
  BY DEF Way, EX
<1>5. ASSUME slot
      PROVE  /\ e.Tnew = 7 /\ i.cls \in {"cal", "ov", "mov", "mdu", "mfc0"}
             /\ p = 0 /\ IssuedPair(1).wr = 0
             /\ i.cls = "cal" => \A k \in 1 .. 2 : i.rd[k] = 0
  <2>1. /\ w = 1 /\ queue_head(0).ins.cls = "likely" /\ queue_head(0).ins \in Program
        /\ i \in Slots["likely"]
    BY <1>2, <1>4, <1>5, MarkedIsSlot
  <2>2. ~IsAccmem(i) /\ (i.cls = "cal" => \A k \in 1 .. 2 : i.rd[k] = 0)
    BY <2>1 DEF SlotsAreSimple
  <2>3. ~IsBranch(i)
    BY <2>1, SlotsAssumption DEF IsBranch
  <2>4. e.Tnew = 7
    BY <1>2, <1>3, <1>5 DEF TnewDecoder, STALL
  <2>5. IssuedPair(1).wr = 0
    <3>1. IssuedPair(1).wr = queue_head(0).ins.wr
      BY <1>2 DEF IssuedPair, Way0, Issued
    <3>. QED  BY <2>1, <3>1, RegisterAssumption DEF Writers
  <2>. QED  BY <1>3, <1>4, <2>1, <2>2, <2>3, <2>4, <2>5 DEF Writers, IsAccmem, IsBranch
<1>6. ASSUME ~slot
      PROVE  TimeInEX(e) /\ (e.Tnew = 7 => i.cls = "mov")
  <2> DEFINE late == delay_exec(i)
  <2>1. late \in BOOLEAN /\ (late => i.cls = "cal")
    BY DEF delay_exec
  <2>2. e.Tnew = TnewDecoder(i, slot, late)
    BY <1>2
  <2>. HIDE DEF late, e, i
  <2>. QED  BY <1>2, <1>3, <1>6, <2>1, <2>2 DEF TimeInEX, TnewDecoder, IsAlu, IsAccmem, Writers,
         STALL, MEM_GEN, ALU_GEN, CP0_GEN, NOT_WRITE
<1>7. CASE slot
  BY <1>2, <1>5, <1>7 DEF TimeInEX
<1>8. CASE ~slot
  BY <1>2, <1>6, <1>8 DEF IsAlu
<1>. QED  BY <1>7, <1>8

LEMMA SlotStays ==
  ASSUME ResultInv, NEW h, NEW f, NEW event, NEW annul, NEW fault, NEW taken,
         Turn(h, f, event, annul, fault, taken), NEW o \in 0 .. 7, NEW t, Goes(o, t, h),
         t >= f, Slot(o)
  PROVE  Slot(t)'
<1>1. ~Way0(o) /\ o \in {0, 2, 4, 6} /\ pipe[o + 1].wr = 0
  BY DEF Slot, Way0
<1>2. h \in {0, 2, 6, 8} /\ f \in {0, 2, 4, 6} /\ o + 1 \in 0 .. 7 /\ o + 1 \in Places
      /\ t \in {0, 2, 4, 6, 8} /\ t \in Int
  BY <1>1 DEF Turn, Goes, Places
<1>3. CASE o < h /\ t = o
  <2>1. o + 1 < h /\ o + 1 >= f
    BY <1>1, <1>2, <1>3
  <2>2. pipe'[o + 1] = Held(o + 1)
    BY <1>2, <2>1, TurnTo
  <2>3. pipe'[t + 1].wr = 0
    BY <1>1, <1>2, <1>3, <2>2, HeldShaped DEF ResultInv
  <2>. QED  BY <1>1, <1>3, <2>3 DEF Slot, Way0
<1>4. CASE o >= h /\ t = o + 2
  <2> DEFINE z == o + 1
             r == After(z, event, annul, fault, taken)
  <2>1. z >= h /\ z + 2 >= f /\ t + 1 = z + 2 /\ z \in 0 .. 7
    BY <1>1, <1>2, <1>4
  <2>2. pipe[z].wr = 0
    BY <1>1
  <2>. HIDE DEF z
  <2>3. pipe'[z + 2] = r
    BY <2>1, TurnTo
  <2>4. r.wr = 0
    BY <2>1, <2>2, MovedOn
  <2>. HIDE DEF r
  <2>5. pipe'[t + 1].wr = 0
    BY <2>1, <2>3, <2>4
  <2>6. ~Way0(t)
    BY <1>1, <1>4 DEF Way0
  <2>. QED  BY <2>5, <2>6 DEF Slot, Way0
<1>. QED  BY <1>3, <1>4 DEF Goes

-----------------------------------------------------------------------------
(* The time of an entry from stage to stage.                               *)

\* What FU computes with is right
LEMMA ComputedRight ==
  ASSUME ResultInv, OperandsInv, NEW p \in EX, ~Doomed(p), pipe[p].wr # 0,
         pipe[p].ins.cls \in {"ov", "mov", "mdu"} \/
           (pipe[p].ins.cls = "cal" /\ pipe[p].Tnew # MEM_GEN)
  PROVE  Operands(p)
<1>0. /\ p \in Places /\ Stage(p) = 0 /\ ShapeInv /\ PairsInv /\ TimeInv /\ Typed
      /\ p \in 0 .. 7
  BY Stages04 DEF EX, Places, ResultInv
<1>1. pipe[p].ins.wr # 0
  BY <1>0 DEF ShapeInv, Shaped
<1>2. ASSUME NEW k \in 1 .. 2 PROVE Operand(p, k)
  <2>1. OperandOK(p, k)
    BY <1>0 DEF OperandsInv
  <2>2. CASE pipe[p].ins.rd[k] = 0
    <3>1. pipe[p].v[k]
      BY <2>1, <2>2 DEF OperandOK
    <3>. QED  BY <1>0, <2>2, <3>1, ForwardingIs
  <2>3. CASE pipe[p].ins.rd[k] # 0
    <3>1. Tuse(pipe[p].ins, k) = 0
      BY <2>3 DEF Tuse
    <3>2. UsedIn(p, k) = Stage(p)
      BY <1>0, <1>1, <2>3, <3>1 DEF UsedIn, MEM_GEN
    <3>. QED  BY <1>0, <2>1, <3>2, DueIsRight
  <2>. QED  BY <2>2, <2>3
<1>. QED  BY <1>2 DEF Operands

LEMMA ExecutedTime ==
  ASSUME ResultInv, OperandsInv, NEW p \in EX, ~Doomed(p),
         NEW event \in BOOLEAN, NEW annul \in BOOLEAN,
         pipe[p].acc => ~(annul /\ ~Way0(p)),
         AfterEX(p, event, annul).wr # 0, NEW slot \in BOOLEAN, Slot(p) => slot
  PROVE  TimeOf(AfterEX(p, event, annul), 1, slot)
<1> DEFINE e == pipe[p]
           r == AfterEX(p, event, annul)
<1>1. /\ Onward(p, r)
      /\ r.wr = e.wr
      /\ r.Tnew = IF ~e.acc /\ IsAlu(e.ins) /\ e.Tnew # MEM_GEN THEN 0
                  ELSE Dec(e.Tnew)
      /\ ~e.acc /\ e.wr # 0 =>
           (r.data <=> \/ e.ins.cls = "link"
                       \/ (IsAlu(e.ins) \/ e.ins.cls = "mdu") /\ Operands(p))
  BY Executed, EmptyIsEntry DEF ResultInv, Typed, NoResult
<1>2. e.wr # 0 /\ r.ins = e.ins /\ r.acc = e.acc
  BY <1>1 DEF Onward
<1>3. /\ TimeInEX(e)
      /\ e.Tnew = 7 /\ ~IsAlu(e.ins) => Slot(p)
  BY <1>2 DEF ResultInv, TimeInv
<1>4. e.acc => IsAccmem(e.ins)
  BY DEF ResultInv, RequestInv, AnswerInv, PairInv, Beside, EX
<1>5. e.ins.cls \in {"ov", "mov", "mdu"} \/ (e.ins.cls = "cal" /\ e.Tnew # MEM_GEN)
        => Operands(p)
  BY <1>2, ComputedRight
<1>. HIDE DEF e, r
<1>6. CASE e.Tnew = 1 /\ e.ins.cls \in {"cal", "ov", "mdu", "link"}
  <2>1. r.Tnew = 0
    BY <1>1, <1>6 DEF Dec
  <2>2. r.data
    BY <1>1, <1>2, <1>4, <1>5, <1>6 DEF IsAlu, IsAccmem, MEM_GEN
  <2>. QED  BY <1>2, <1>6, <2>1, <2>2 DEF TimeOf, r
<1>7. CASE e.Tnew = 3 /\ (e.ins.cls = "mfc0" \/ (e.ins.cls = "sc" /\ e.acc))
  <2>1. r.Tnew = 2
    BY <1>1, <1>7 DEF Dec, IsAlu
  <2>. QED  BY <1>2, <1>7, <2>1 DEF TimeOf, r
<1>8. CASE e.Tnew = 4 /\ (e.ins.cls = "cal" \/ (e.ins.cls \in {"load", "merge", "ll"} /\ e.acc))
  <2>1. r.Tnew = 3
    BY <1>1, <1>8 DEF Dec, MEM_GEN
  <2>. QED  BY <1>2, <1>8, <2>1 DEF TimeOf, r
<1>9. CASE e.Tnew = 7 /\ e.ins.cls \in {"cal", "ov", "mov", "mdu", "mfc0"}
  <2>0. ~e.acc
    BY <1>4, <1>9 DEF IsAccmem
  <2>1. CASE IsAlu(e.ins)
    <3>1. r.Tnew = 0
      BY <1>1, <1>9, <2>0, <2>1 DEF MEM_GEN
    <3>2. r.data
      BY <1>1, <1>2, <1>5, <1>9, <2>0, <2>1 DEF IsAlu, MEM_GEN
    <3>. QED  BY <1>2, <2>1, <3>1, <3>2 DEF TimeOf, IsAlu, r
  <2>2. CASE ~IsAlu(e.ins)
    <3>1. r.Tnew = 6 /\ slot
      BY <1>1, <1>3, <1>9, <2>2 DEF Dec
    <3>2. r.data \/ e.ins.cls = "mfc0"
      BY <1>1, <1>2, <1>5, <1>9, <2>0, <2>2 DEF IsAlu
    <3>3. e.ins.cls # "sc"
      BY <1>9
    <3>. QED  BY <1>2, <3>1, <3>2, <3>3 DEF TimeOf, r
  <2>. QED  BY <2>1, <2>2
<1>. QED  BY <1>3, <1>6, <1>7, <1>8, <1>9 DEF TimeInEX

LEMMA TranslatedTime ==
  ASSUME ResultInv, NEW p \in AT, ~Doomed(p), NEW event \in BOOLEAN,
         AfterAT(p, event).wr # 0, NEW slot \in BOOLEAN, Slot(p) => slot
  PROVE  TimeOf(AfterAT(p, event), 2, slot)
<1> DEFINE e == pipe[p]
           r == AfterAT(p, event)
<1>1. /\ r.ins = e.ins /\ r.acc = e.acc /\ r.wr = e.wr
      /\ r.data = e.data /\ r.Tnew = Dec(e.Tnew)
  BY Translated, EmptyIsEntry DEF ResultInv, Typed
<1>2. p \in Places \ EX /\ Stage(p) = 1 /\ e.Tnew \in 0 .. 7
  BY Stages04 DEF AT, EX, Places, ResultInv, Typed, Entry
<1>3. TimeOf(e, 1, Slot(p))
  BY <1>1, <1>2 DEF ResultInv, TimeInv, TimeIn
<1>. HIDE DEF e, r
<1>. QED  BY <1>1, <1>2, <1>3 DEF TimeOf, Dec, r

LEMMA LeftTime ==
  ASSUME ResultInv, NEW p \in DR, ~Doomed(p), NEW taken \in BOOLEAN,
         AfterDR(p, taken).wr # 0, NEW slot \in BOOLEAN, Slot(p) => slot
  PROVE  TimeOf(AfterDR(p, taken), 3, slot)
<1> DEFINE e == pipe[p]
           r == AfterDR(p, taken)
<1>0. Beside(pipe[5], pipe[4]) /\ SentInv /\ Typed
  BY DEF ResultInv, RequestInv, AnswerInv, PairInv
<1>1. /\ r.ins = e.ins /\ r.wr = e.wr /\ r.Tnew = Dec(e.Tnew)
      /\ e.wr # 0 => (r.data <=> CASE e.ins.cls = "mfc0" -> TRUE
                                   [] e.ins.cls = "sc"   -> ResultIsTrue
                                   [] OTHER              -> e.data)
  BY <1>0, Left, EmptyIsEntry DEF Typed, NoResult
<1>2. p \in Places \ EX /\ Stage(p) = 2 /\ e.Tnew \in 0 .. 7
  BY <1>0, Stages04 DEF DR, EX, Places, Typed, Entry
<1>3. TimeOf(e, 2, Slot(p))
  BY <1>1, <1>2 DEF ResultInv, TimeInv, TimeIn
<1>4. ASSUME e.ins.cls = "sc" PROVE ResultIsTrue
  <2>1. e.acc
    BY <1>3, <1>4 DEF TimeOf
  <2>2. selected = p
    BY <1>0, <2>1, SelectedIsTheAccess
  <2>3. req_completed => ~Unlinked(p)
    BY <1>0, <2>2 DEF SentInv, accessing
  <2>. QED  BY <1>4, <2>3 DEF Unlinked, ResultIsTrue
<1>5. r.data \/ e.Tnew + 2 = 4
  BY <1>1, <1>3, <1>4 DEF TimeOf
<1>. HIDE DEF e, r
<1>. QED  BY <1>1, <1>2, <1>3, <1>5 DEF TimeOf, Dec, r

LEMMA DeliveredTime ==
  ASSUME ResultInv, OperandsInv, NEW p \in MEM,
         AfterMEM(p).wr # 0, NEW slot \in BOOLEAN, Slot(p) => slot
  PROVE  TimeOf(AfterMEM(p), 4, slot)
<1> DEFINE e == pipe[p]
           r == AfterMEM(p)
<1>1. /\ r.wr = e.wr /\ r.Tnew = Dec(e.Tnew) /\ e.wr # 0
      /\ r.data <=> IF e.acc /\ e.ins.cls # "sc" THEN Operand(p, 2)
                    ELSE IF e.Tnew = 1 THEN Operands(p)
                    ELSE e.data
  BY Delivered DEF ResultInv, Typed
<1>2. p \in Places \ EX /\ Stage(p) = 3 /\ e.Tnew \in 0 .. 7 /\ ~Doomed(p)
  BY Stages04, FarUndoomed DEF MEM, EX, Places, ResultInv, Typed, Entry
<1>3. TimeOf(e, 3, Slot(p))
  BY <1>1, <1>2 DEF ResultInv, TimeInv, TimeIn
<1>4. \A k \in 1 .. 2 : Operand(p, k)
  BY <1>2, DeliveredIsRight DEF ResultInv, OperandsInv
<1>5. Operands(p)
  BY <1>4 DEF Operands
<1>6. r.data
  BY <1>1, <1>2, <1>3, <1>4, <1>5 DEF TimeOf
<1>. HIDE DEF e, r
<1>. QED  BY <1>1, <1>2, <1>3, <1>6 DEF TimeOf, Dec, r

\* A result that has moved on by a stage
LEMMA MovedTime ==
  ASSUME ResultInv, OperandsInv, NEW h, NEW f, NEW event, NEW annul, NEW fault, NEW taken,
         Turn(h, f, event, annul, fault, taken), NEW q \in 0 .. 7, ~Doomed(q),
         After(q, event, annul, fault, taken).wr # 0,
         NEW slot \in BOOLEAN, Slot(q) => slot
  PROVE  TimeOf(After(q, event, annul, fault, taken), Stage(q) + 1, slot)
<1>0. /\ event \in [EX -> BOOLEAN] /\ annul \in BOOLEAN /\ fault \in [AT -> BOOLEAN]
      /\ taken \in BOOLEAN /\ (annul => pipe[1].ins.cls = "likely")
  BY DEF Turn
<1>1. CASE q \in EX
  <2>1. q < 2 /\ event[q] \in BOOLEAN /\ Stage(q) + 1 = 1
    BY <1>0, <1>1, Stages04 DEF EX, Places
  <2>2. pipe[q].acc => ~(annul /\ ~Way0(q))
    BY <1>0, <1>1 DEF EX, Way0, ResultInv, RequestInv, CommittedInv
  <2>3. After(q, event, annul, fault, taken) = AfterEX(q, event[q], annul)
    BY <2>1 DEF After
  <2>. QED  BY <1>0, <1>1, <2>1, <2>2, <2>3, ExecutedTime
<1>2. CASE q \in AT
  <2>1. q < 4 /\ ~(q < 2) /\ fault[q] \in BOOLEAN /\ Stage(q) + 1 = 2
    BY <1>0, <1>2, Stages04 DEF AT, Places
  <2>2. After(q, event, annul, fault, taken) = AfterAT(q, fault[q])
    BY <2>1 DEF After
  <2>. QED  BY <1>2, <2>1, <2>2, TranslatedTime
<1>3. CASE q \in DR
  <2>1. q < 6 /\ ~(q < 4) /\ ~(q < 2) /\ Stage(q) + 1 = 3
    BY <1>3, Stages04 DEF DR, Places
  <2>2. After(q, event, annul, fault, taken) = AfterDR(q, taken)
    BY <2>1 DEF After
  <2>. QED  BY <1>0, <1>3, <2>1, <2>2, LeftTime
<1>4. CASE q \in MEM
  <2>1. ~(q < 6) /\ ~(q < 4) /\ ~(q < 2) /\ Stage(q) + 1 = 4
    BY <1>4, Stages04 DEF MEM, Places
  <2>2. After(q, event, annul, fault, taken) = AfterMEM(q)
    BY <2>1 DEF After
  <2>. QED  BY <1>4, <2>1, <2>2, DeliveredTime
<1>. QED  BY <1>1, <1>2, <1>3, <1>4 DEF EX, AT, DR, MEM

LEMMA TimeStays ==
  ASSUME ResultInv, OperandsInv, SlotsAreSimple,
         NEW h, NEW f, NEW event, NEW annul, NEW fault, NEW taken,
         Turn(h, f, event, annul, fault, taken)
  PROVE  TimeInv'
<1>0. IssueInv /\ MarkInv /\ ShapeInv /\ Typed /\ TimeInv
  BY DEF ResultInv, RequestInv
<1>1. ASSUME NEW t \in EX, pipe'[t].wr # 0
      PROVE  /\ TimeInEX(pipe'[t])
             /\ pipe'[t].Tnew = 7 /\ ~IsAlu(pipe'[t].ins) => Slot(t)'
             /\ pipe'[t].Tnew = 7 /\ pipe'[t].ins.cls = "cal" =>
                  \A k \in 1 .. 2 : pipe'[t].ins.rd[k] = 0
  <2>0. t \in Places /\ t \in 0 .. 7
    BY DEF EX, Places
  <2>1. CASE pipe'[t] = Empty
    BY <1>1, <2>1, EmptyIsEntry
  <2>2. CASE t >= f /\ t < h /\ Goes(t, t, h) /\ pipe'[t] = Held(t)
    <3>1. /\ pipe'[t].wr = pipe[t].wr /\ pipe'[t].ins = pipe[t].ins
          /\ pipe'[t].Tnew = pipe[t].Tnew /\ pipe'[t].acc = pipe[t].acc
      BY <1>0, <2>0, <2>2, HeldShaped
    <3>2. /\ TimeInEX(pipe[t])
          /\ pipe[t].Tnew = 7 /\ ~IsAlu(pipe[t].ins) => Slot(t)
          /\ pipe[t].Tnew = 7 /\ pipe[t].ins.cls = "cal" =>
               \A k \in 1 .. 2 : pipe[t].ins.rd[k] = 0
      BY <1>0, <1>1, <3>1 DEF TimeInv
    <3>3. Slot(t) => Slot(t)'
      BY <2>0, <2>2, SlotStays
    <3>. QED  BY <3>1, <3>2, <3>3 DEF TimeInEX
  <2>3. CASE h = 0 /\ f = 0 /\ pipe'[t] = IssuedPair(t)
    <3>1. pipe'[1] = IssuedPair(1)
      BY <2>3 DEF Turn, Shift, Places
    <3>2. t = 0 /\ IssuedPair(1).wr = 0 => Slot(t)'
      BY <3>1 DEF Slot, Way0
    <3>. QED  BY <1>0, <1>1, <2>3, <3>2, IssuedTime
  <2>4. ASSUME NEW q \in 0 .. 7, t = q + 2
        PROVE  FALSE
    BY <2>4 DEF EX
  <2>. QED  BY <2>0, <2>1, <2>2, <2>3, <2>4, TurnFrom
<1>2. ASSUME NEW t \in Places \ EX, pipe'[t].wr # 0, ~Doomed(t)'
      PROVE  TimeOf(pipe'[t], Stage(t), Slot(t)')
  <2>1. pipe'[t] # Empty
    BY <1>2, EmptyIsEntry
  <2>2. CASE t >= f /\ t < h /\ t \in 0 .. 7 /\ Goes(t, t, h) /\ pipe'[t] = Held(t)
    <3>1. /\ pipe'[t].wr = pipe[t].wr /\ pipe'[t].ins = pipe[t].ins
          /\ pipe'[t].Tnew = pipe[t].Tnew /\ pipe'[t].acc = pipe[t].acc
          /\ pipe'[t].data = pipe[t].data
      BY <1>0, <2>2, HeldShaped
    <3>2. ~Doomed(t)
      BY <1>2, <2>1, <2>2, DoomStays
    <3>3. TimeOf(pipe[t], Stage(t), Slot(t))
      BY <1>0, <1>2, <3>1, <3>2 DEF TimeInv, TimeIn
    <3>4. Slot(t) => Slot(t)'
      BY <2>2, SlotStays
    <3>. QED  BY <3>1, <3>3, <3>4 DEF TimeOf
  <2>3. ASSUME NEW q \in 0 .. 7, t = q + 2, t >= f, Goes(q, t, h),
               pipe'[t] = After(q, event, annul, fault, taken)
        PROVE  TimeOf(pipe'[t], Stage(t), Slot(t)')
    <3>1. ~Doomed(q)
      BY <1>2, <2>1, <2>3, DoomStays
    <3>2. Slot(q) => Slot(t)'
      BY <2>3, SlotStays
    <3>3. Stage(t) = Stage(q) + 1
      BY <2>3, NextStage
    <3>4. PICK b \in BOOLEAN : b <=> Slot(t)'
      BY DEF Slot
    <3>5. TimeOf(After(q, event, annul, fault, taken), Stage(q) + 1, b)
      BY <1>2, <2>3, <3>1, <3>2, <3>4, MovedTime
    <3>6. TimeOf(pipe'[t], Stage(t), b)
      BY <2>3, <3>3, <3>5
    <3>. QED  BY <3>4, <3>6 DEF TimeOf
  <2>. QED  BY <1>2, <2>1, <2>2, <2>3, TurnFrom
<1>3. (\A p \in EX : pipe[p].wr # 0 =>
       /\ TimeInEX(pipe[p])
       /\ pipe[p].Tnew = 7 /\ ~IsAlu(pipe[p].ins) => Slot(p)
       /\ pipe[p].Tnew = 7 /\ pipe[p].ins.cls = "cal" =>
            \A k \in 1 .. 2 : pipe[p].ins.rd[k] = 0)'
  BY <1>1 DEF TimeInEX, IsAlu, Slot
<1>4. (\A p \in Places \ EX : pipe[p].wr # 0 /\ ~Doomed(p) => TimeIn(p))'
  BY <1>2 DEF TimeIn, TimeOf, Slot, Doomed
<1>. QED  BY <1>3, <1>4 DEF TimeInv

-----------------------------------------------------------------------------
(* A result that is waited for comes.                                      *)

\* The handler of an exception that is being taken reads nothing
LEMMA HandlerReadsNothing ==
  ASSUME ResultInv, HandlersArePriv, exc_req_complete, NEW p \in EX, NEW k \in 1 .. 2
  PROVE  IssuedPair(p).ins.rd[k] = 0
<1>1. IssueInv /\ HandlerNext
  BY DEF ResultInv, RequestInv, Handled
<1>2. CASE IssuedPair(p) = Empty
  BY <1>2, EmptyIsEntry
<1>3. CASE IssuedPair(p) # Empty
  <2>1. /\ IssuedPair(p).ins = queue_head(Way(p)).ins /\ way0_valid
        /\ Way(p) = 1 => way1_valid
    BY <1>1, <1>3, IssuedEntry
  <2>2. size >= 1 /\ size \in Nat /\ queue_head(0).ins = Waiting[1]
    BY <1>1, <2>1, Heads DEF IssueInv, QueueInv, QueueTypeOK
  <2>3. Waiting[1] \in Slots["handler"]
    BY <1>1, <2>2 DEF HandlerNext
  <2>4. IsPriv(queue_head(0).ins) /\ queue_head(0).ins.rd[k] = 0
    BY <2>2, <2>3 DEF HandlersArePriv
  <2>5. ~way1_valid
    BY <2>4 DEF way1_valid, ready1, way1_stop
  <2>. QED  BY <2>1, <2>4, <2>5 DEF Way
<1>. QED  BY <1>2, <1>3

\* What reads a register after the cycle has an instruction that reads it now
LEMMA ReaderBefore ==
  ASSUME ResultInv, NEW h, NEW f, NEW event, NEW annul, NEW fault, NEW taken,
         Turn(h, f, event, annul, fault, taken), NEW o, NEW t, Goes(o, t, h), t >= f
  PROVE  /\ o >= 0 => pipe'[t].ins = NoInstr \/ pipe'[t].ins = pipe[o].ins
         /\ o < 0 => f = 0 /\ t \in EX /\ pipe'[t] = IssuedPair(t)
<1>1. h \in {0, 2, 6, 8} /\ f \in {0, 2, 4, 6} /\ o \in Int /\ t \in Int
  BY DEF Turn, Goes, Places
<1>2. CASE o >= 0 /\ o < h /\ t = o
  <2>1. o \in 0 .. 7 /\ o \in Places
    BY <1>2 DEF Goes, Places
  <2>2. pipe'[t] = Held(o)
    BY <1>2, <2>1, TurnTo
  <2>. QED  BY <1>1, <1>2, <2>1, <2>2, HeldShaped DEF ResultInv
<1>3. CASE o >= 0 /\ o >= h /\ t = o + 2
  <2>1. o \in 0 .. 7
    BY <1>3 DEF Goes
  <2>2. pipe'[o + 2] = After(o, event, annul, fault, taken)
    BY <1>3, <2>1, TurnTo
  <2>3. pipe'[t] = After(o, event, annul, fault, taken)
    BY <1>3, <2>2
  <2>. QED  BY <1>1, <1>3, <2>1, <2>3, MovedOn
<1>4. CASE o < 0 /\ h = 0 /\ t = o + 2
  <2>1. t \in {0, 1}
    BY <1>1, <1>4 DEF Goes, Places
  <2>2. f = 0
    BY <1>1, <2>1
  <2>3. pipe'[t] = IssuedPair(t)
    BY <1>4, <2>1, <2>2 DEF Turn, Shift, Places
  <2>. QED  BY <1>1, <1>4, <2>1, <2>2, <2>3 DEF EX
<1>. QED  BY <1>2, <1>3, <1>4 DEF Goes

LEMMA WriterGoesOn ==
  ASSUME ResultInv, HandlersArePriv,
         NEW h, NEW f, NEW event, NEW annul, NEW fault, NEW taken,
         Turn(h, f, event, annul, fault, taken),
         NEW o, NEW t, Goes(o, t, h), t >= f,
         NEW k \in 1 .. 2, pipe'[t].ins.rd[k] # 0,
         NEW q \in 2 .. 7, q > o, o < 0 \/ q \in Later(o),
         pipe[q].wr = pipe'[t].ins.rd[k], pipe[q].Tnew > 0, pipe[q].Tnew + Stage(q) # 7
  PROVE  \E x \in Places : /\ x > t /\ pipe'[x].wr = pipe'[t].ins.rd[k]
                           /\ pipe'[x].Tnew + Stage(x) # 7
<1> DEFINE e == pipe[q]
           z == q + 2
           r == After(q, event, annul, fault, taken)
<1>0. /\ h \in {0, 2, 6, 8} /\ f \in {0, 2, 4, 6} /\ o \in Int /\ t \in Int /\ q \in Int
      /\ t <= o + 2 /\ (o < h /\ o >= 0 => t = o) /\ q \in 0 .. 7 /\ q \in Places
      /\ z \in Places /\ Stage(z) = Stage(q) + 1 /\ Stage(q) \in 0 .. 4
  BY Stages04, NextStage DEF Turn, Goes, Places
<1>1. e.wr # 0 /\ e.valid /\ e \in Entry /\ e.Tnew \in 0 .. 7
  BY <1>0 DEF ResultInv, Typed, ShapeInv, Shaped, Entry
<1>2. CASE q < h
  <2>1. t = o
    BY <1>0, <1>2 DEF Goes
  <2>2. pipe'[q] = Held(q)
    <3>1. q >= f
      BY <1>0, <2>1
    <3>. QED  BY <1>0, <1>2, <3>1, TurnTo
  <2>3. pipe'[q].wr = e.wr /\ pipe'[q].Tnew = e.Tnew
    BY <1>0, <2>2, HeldShaped DEF ResultInv
  <2>. QED  BY <1>0, <2>1, <2>3
<1>3. CASE ~(q < h)
  <2>1. z > t /\ z >= f /\ q >= h
    BY <1>0, <1>3
  <2>2. pipe'[z] = r
    BY <1>0, <2>1, TurnTo
  <2>3. \/ r.wr = e.wr /\ r.Tnew = Dec(e.Tnew)
        \/ q \in DR /\ (Faulty(q) \/ taken \/ (q = 4 /\ Faulty(5)))
    <3>1. CASE q \in AT
      <4>1. r = AfterAT(q, fault[q]) /\ fault[q] \in BOOLEAN
        <5>1. q < 4 /\ ~(q < 2)
          BY <3>1 DEF AT
        <5>. QED  BY <3>1, <5>1 DEF After, Turn
      <4>. QED  BY <1>1, <3>1, <4>1, Translated DEF ResultInv, Typed
    <3>2. CASE q \in DR
      <4>1. r = AfterDR(q, taken) /\ taken \in BOOLEAN
        <5>1. q < 6 /\ ~(q < 2) /\ ~(q < 4)
          BY <3>2 DEF DR
        <5>. QED  BY <3>2, <5>1 DEF After, Turn
      <4>2. Beside(pipe[5], pipe[4])
        BY DEF ResultInv, RequestInv, AnswerInv, PairInv
      <4>. QED  BY <1>1, <3>2, <4>1, <4>2, Left DEF ResultInv, Typed
    <3>3. CASE q \in MEM
      <4>1. r = AfterMEM(q)
        <5>1. ~(q < 2) /\ ~(q < 4) /\ ~(q < 6)
          BY <3>3 DEF MEM
        <5>. QED  BY <5>1 DEF After
      <4>. QED  BY <3>3, <4>1, Delivered DEF ResultInv, Typed
    <3>. QED  BY <3>1, <3>2, <3>3 DEF AT, DR, MEM
  <2>4. CASE r.wr = e.wr /\ r.Tnew = Dec(e.Tnew)
    <3>1. r.Tnew + Stage(z) # 7
      BY <1>0, <1>1, <2>4 DEF Dec
    <3>. QED  BY <1>0, <2>1, <2>2, <2>4, <3>1
  <2>5. CASE q \in DR /\ taken
    <3>1. f = 6
      <4>1. ~(h >= 6)
        BY <1>0, <1>3, <2>5 DEF DR
      <4>. QED  BY <2>5, <4>1 DEF Turn
    <3>2. o \in {4, 5}
      BY <1>0, <2>5, <3>1 DEF DR
    <3>3. q \in Later(o) /\ o \in Places
      BY <3>2 DEF Places
    <3>4. Stage(q) > Stage(o)
      BY <1>0, <3>3, LaterIs
    <3>. QED  BY <2>5, <3>2, <3>4 DEF DR, Stage
  <2>6. CASE q \in DR /\ ~taken /\ (Faulty(q) \/ (q = 4 /\ Faulty(5)))
    <3>1. exception_ori
      BY <2>6, ExceptionSeen DEF Faulty, ResultInv, RequestInv, AnswerInv
    <3>2. exc_req_complete
      BY <2>6, <3>1 DEF Turn
    <3>3. \A p \in EX \cup AT : ~pipe[p].valid
      BY <3>2 DEF ResultInv, Handled
    <3>4. CASE o < 0
      BY <3>2, <3>4, ReaderBefore, HandlerReadsNothing
    <3>5. CASE o >= 0
      <4>1. o \in Places /\ o \in 0 .. 7
        BY <1>0, <3>5 DEF Goes, Places
      <4>2. Stage(q) > Stage(o) /\ Stage(q) = 2 /\ Stage(o) \in 0 .. 4
        BY <1>0, <2>6, <3>5, <4>1, LaterIs, Stages04
      <4>3. o \in EX \cup AT
        <5>1. Stage(o) = 0 \/ Stage(o) = 1
          BY <4>2
        <5>. QED  BY <4>1, <5>1, Stages04
      <4>4. pipe[o].ins = NoInstr
        BY <3>3, <4>1, <4>3 DEF ResultInv, ShapeInv, Shaped
      <4>. QED  BY <3>5, <4>4, ReaderBefore, NoInstrReads
    <3>. QED  BY <1>0, <3>4, <3>5
  <2>. QED  BY <2>3, <2>4, <2>5, <2>6 DEF Turn
<1>. QED  BY <1>2, <1>3

\* The same of a writer in EX, for what is issued behind it
LEMMA WriterInEXGoesOn ==
  ASSUME ResultInv,
         NEW h, NEW f, NEW event, NEW annul, NEW fault, NEW taken,
         Turn(h, f, event, annul, fault, taken), h = 0, f = 0,
         NEW t \in EX, ~Doomed(t)', NEW q \in EX, pipe[q].wr # 0, pipe[q].Tnew <= 4
  PROVE  \E x \in Places : /\ x > t /\ pipe'[x].wr = pipe[q].wr
                           /\ pipe'[x].Tnew + Stage(x) # 7
<1> DEFINE e == pipe[q]
           z == q + 2
           r == After(q, event, annul, fault, taken)
<1>0. q \in {0, 1} /\ t \in {0, 1} /\ q \in 0 .. 7 /\ z \in AT /\ z > t /\ z \in Places
  BY DEF EX, AT, Places
<1>1. pipe'[z] = r
  BY <1>0, TurnTo
<1>2. r = AfterEX(q, event[q], annul) /\ event[q] \in BOOLEAN /\ annul \in BOOLEAN
      /\ (annul => pipe[1].ins.cls = "likely")
  <2>1. q < 2
    BY <1>0
  <2>. QED  BY <2>1 DEF After, Turn
<1>3. e \in Entry /\ e.valid /\ e.Tnew \in 0 .. 7 /\ TimeInEX(e)
  BY <1>0 DEF ResultInv, Typed, ShapeInv, Shaped, Entry, Places, TimeInv
<1>4. e.acc => ~(annul /\ ~Way0(q)) /\ IsAccmem(e.ins)
  BY <1>0, <1>2 DEF EX, Way0, ResultInv, RequestInv, CommittedInv, AnswerInv, PairInv, Beside
<1>5. \/ annul /\ ~Way0(q)
      \/ Raised(q, r) /\ (e.acc \/ e.ins.cls = "ov")
      \/ e.ins.cls = "mov"
      \/ r.wr = e.wr /\ (r.Tnew = 0 \/ r.Tnew = Dec(e.Tnew))
  BY <1>2, <1>3, <1>4, Executed DEF ResultInv, Typed
<1>6. ~(annul /\ ~Way0(q))
  <2>. SUFFICES ASSUME annul, q = 0 PROVE FALSE
    BY <1>0 DEF Way0
  <2>1. e.Tnew = 7
    BY <1>2 DEF ResultInv, PairsInv, STALL
  <2>. QED  BY <2>1
<1>7. ~(Raised(q, r) /\ (e.acc \/ e.ins.cls = "ov"))
  <2>. SUFFICES ASSUME Raised(q, r), e.acc \/ e.ins.cls = "ov" PROVE FALSE
    OBVIOUS
  <2>1. e.ins.cls # "trap"
    BY <1>4 DEF IsAccmem
  <2>2. pipe'[z].exc /\ pipe'[z].ins.cls # "trap"
    BY <1>1, <2>1 DEF Raised
  <2>. QED  BY <1>0, <2>2 DEF Doomed
<1>8. e.ins.cls # "mov"
  BY <1>3 DEF TimeInEX
<1>9. r.wr = e.wr /\ (r.Tnew = 0 \/ r.Tnew = Dec(e.Tnew))
  BY <1>5, <1>6, <1>7, <1>8
<1>10. r.Tnew + Stage(z) # 7
  <2>1. Stage(z) = 1
    BY <1>0, Stages04
  <2>. QED  BY <1>3, <1>9, <2>1 DEF Dec
<1>. QED  BY <1>0, <1>1, <1>9, <1>10

-----------------------------------------------------------------------------
(* Operands go on.                                                         *)

\* The stage in which an entry that stands in stage s reads operand k
UsedBy(e, s, k) ==
  IF e.ins.rd[k] = 0 \/ (e.ins.cls = "cal" /\ e.ins.wr = 0) THEN 5
  ELSE CASE e.ins.cls = "cal" /\ e.Tnew = MEM_GEN - s -> 3
         [] e.ins.cls \in {"store", "sc"} /\ k = 2 -> 2
         [] OTHER -> Tuse(e.ins, k)

LEMMA UsedByIs ==
  ASSUME NEW p, NEW k
  PROVE  UsedIn(p, k) = UsedBy(pipe[p], Stage(p), k)
BY DEF UsedIn, UsedBy

LEMMA UsedByNext ==
  ASSUME NEW p, NEW k
  PROVE  UsedIn(p, k)' = UsedBy(pipe'[p], Stage(p), k)
BY DEF UsedIn, UsedBy, Stage

\* An entry reads its operands in the same stage wherever it stands
LEMMA UsedStays ==
  ASSUME NEW p \in 0 .. 5, NEW k \in 1 .. 2, NEW r, pipe[p] \in Entry,
         Moved(p, r), r # Empty
  PROVE  UsedBy(r, Stage(p) + 1, k) = UsedIn(p, k)
<1> DEFINE e == pipe[p]
           s == Stage(p)
<1>1. s \in 0 .. 2 /\ (p < 2 <=> s = 0)
  BY DEF Stage
<1>2. e.Tnew \in 0 .. 7 /\ r.Tnew \in 0 .. 7
  BY DEF Entry, Moved
<1>3. r.ins = e.ins
  BY DEF Moved
<1>4. e.ins.cls = "cal" => (r.Tnew = MEM_GEN - (s + 1) <=> e.Tnew = MEM_GEN - s)
  <2>. SUFFICES ASSUME e.ins.cls = "cal"
       PROVE  r.Tnew = MEM_GEN - (s + 1) <=> e.Tnew = MEM_GEN - s
    OBVIOUS
  <2>1. r.Tnew = Dec(e.Tnew) \/ (p < 2 /\ r.Tnew = 0 /\ e.Tnew # MEM_GEN)
    BY <1>3 DEF Moved
  <2>. HIDE DEF s, e
  <2>. QED  BY <1>1, <1>2, <2>1 DEF Dec, MEM_GEN
<1>5. UsedIn(p, k) = UsedBy(e, s, k)
  BY UsedByIs
<1>. HIDE DEF s, e
<1>. QED  BY <1>3, <1>4, <1>5 DEF UsedBy, s

\* The writers of an operand come closer to their results
LEMMA WritersBound ==
  ASSUME ResultInv, NEW h, NEW f, NEW event, NEW annul, NEW fault, NEW taken,
         Turn(h, f, event, annul, fault, taken), NEW o, NEW t, Goes(o, t, h), t >= f,
         NEW k \in 1 .. 2, pipe'[t].ins.rd[k] # 0, NEW m \in Int, m >= 0,
         \A q \in Places : q > o /\ pipe[q].wr = pipe'[t].ins.rd[k] =>
           pipe[q].Tnew <= (IF t = o THEN m ELSE m + 1),
         NEW x \in Places, x > t, pipe'[x].wr = pipe'[t].ins.rd[k]
  PROVE  pipe'[x].Tnew <= m
<1>0. /\ h \in {0, 2, 6, 8} /\ f \in {0, 2, 4, 6} /\ o \in Int /\ t \in Int /\ x \in Int
      /\ x >= 0 /\ t >= 0
  BY DEF Turn, Goes, Places
<1>1. CASE pipe'[x] = Empty
  BY <1>1, EmptyIsEntry
<1>2. CASE x < h /\ pipe'[x] = Held(x)
  <2>1. t = o
    BY <1>0, <1>2 DEF Goes
  <2>2. pipe'[x].wr = pipe[x].wr /\ pipe'[x].Tnew = pipe[x].Tnew
    BY <1>2, HeldShaped DEF ResultInv
  <2>. QED  BY <2>1, <2>2
<1>3. CASE x \in EX
  <2>1. t = 0 /\ x = 1
    BY <1>0, <1>3 DEF EX
  <2>2. pipe'[1].wr # 0 => pipe'[0].ins.rd[k] # pipe'[1].wr
    <3>1. PairsInv'
      BY PairsStay
    <3>2. (\A p \in {0, 2, 4, 6} :
             pipe[p + 1].wr # 0 => \A j \in 1 .. 2 : pipe[p].ins.rd[j] # pipe[p + 1].wr)'
      BY <3>1 DEF PairsInv
    <3>3. 0 \in {0, 2, 4, 6} /\ 0 + 1 = 1
      OBVIOUS
    <3>. QED  BY <3>2, <3>3
  <2>. QED  BY <2>1, <2>2
<1>4. ASSUME NEW q \in 0 .. 7, x = q + 2, q >= h,
             pipe'[x] = After(q, event, annul, fault, taken)
      PROVE  pipe'[x].Tnew <= m
  <2> DEFINE r == After(q, event, annul, fault, taken)
  <2>1. Moved(q, r) /\ r.wr \in {0, pipe[q].wr}
    BY MovedOn
  <2>2. q \in Places /\ q > o /\ pipe[q].Tnew \in 0 .. 7
    <3>1. q \in Places
      BY DEF Places
    <3>2. q > o
      BY <1>0, <1>4 DEF Goes
    <3>. QED  BY <3>1, <3>2 DEF ResultInv, Typed, Entry
  <2>3. r.wr = pipe'[t].ins.rd[k] /\ r.wr # 0 /\ pipe[q].wr = r.wr /\ pipe'[x] = r
    BY <1>4, <2>1
  <2>4. pipe[q].Tnew <= m + 1
    BY <2>2, <2>3
  <2>5. r.Tnew = Dec(pipe[q].Tnew) \/ r.Tnew = 0
    BY <2>1, <2>3 DEF Moved
  <2>. HIDE DEF r
  <2>. QED  BY <2>2, <2>3, <2>4, <2>5 DEF Dec
<1>. QED  BY <1>1, <1>2, <1>3, <1>4, TurnFrom

\* OperandOK of the state after the cycle
OperandNext(t, k) ==
  LET e == pipe'[t]
      r == e.ins.rd[k]
      s == Stage(t)
      u == UsedBy(e, s, k)
  IN /\ r = 0 \/ (s > 0 /\ u \notin s .. 4) => e.v[k]
     /\ u \in s .. 4 =>
          /\ \A q \in Places : q > t /\ pipe'[q].wr = r => pipe'[q].Tnew <= u - s
          /\ \/ e.v[k]
             \/ \E q \in Places : q > t /\ pipe'[q].wr = r /\ pipe'[q].Tnew + Stage(q) # 7

LEMMA OperandNextIs ==
  ASSUME NEW t, NEW k, OperandNext(t, k)
  PROVE  OperandOK(t, k)'
BY UsedByNext DEF OperandNext, OperandOK, Stage

LEMMA UsedByRange ==
  ASSUME NEW e, NEW s, NEW k
  PROVE  /\ UsedBy(e, s, k) \in {0, 1, 2, 3, 5}
         /\ e.ins.rd[k] = 0 => UsedBy(e, s, k) = 5
BY DEF UsedBy, Tuse

\* An instruction that waits
LEMMA HeldOperand ==
  ASSUME ResultInv, OperandsInv, HandlersArePriv,
         NEW h, NEW f, NEW event, NEW annul, NEW fault, NEW taken,
         Turn(h, f, event, annul, fault, taken),
         NEW t \in 0 .. 7, t >= f, t < h, Goes(t, t, h), pipe'[t] = Held(t),
         ~Doomed(t), NEW k \in 1 .. 2
  PROVE  OperandNext(t, k)
<1> DEFINE e == pipe'[t]
           r == e.ins.rd[k]
           s == Stage(t)
           u == UsedIn(t, k)
<1>0. t \in Places /\ s \in 0 .. 4 /\ t \in Int
  BY Stages04 DEF Places
<1>1. /\ e.ins = pipe[t].ins /\ e.Tnew = pipe[t].Tnew
      /\ e.v[k] <=> (u \in s .. 4 => Operand(t, k))
  BY <1>0, HeldShaped, HeldEntry DEF ResultInv, Typed
<1>2. UsedBy(e, s, k) = u
  BY <1>1, UsedByIs DEF UsedBy
<1>3. u \in {0, 1, 2, 3, 5} /\ (r = 0 => u = 5)
  BY <1>1, UsedRange
<1>4. OperandOK(t, k)
  BY <1>0 DEF OperandsInv
<1>5. r = 0 \/ (s > 0 /\ u \notin s .. 4) => e.v[k]
  BY <1>1, <1>3
<1>6. ASSUME u \in s .. 4
      PROVE  /\ \A q \in Places : q > t /\ pipe'[q].wr = r => pipe'[q].Tnew <= u - s
             /\ \/ e.v[k]
                \/ \E q \in Places : q > t /\ pipe'[q].wr = r /\ pipe'[q].Tnew + Stage(q) # 7
  <2> DEFINE m == u - s
  <2>1. m \in Int /\ m >= 0 /\ r # 0
    BY <1>0, <1>3, <1>6
  <2>2. \A q \in Places : q > t /\ pipe[q].wr = r => pipe[q].Tnew <= m
    BY <1>1, <1>4, <1>6 DEF OperandOK
  <2>. HIDE DEF m
  <2>3. \A x \in Places : x > t /\ pipe'[x].wr = r => pipe'[x].Tnew <= m
    BY <2>1, <2>2, WritersBound
  <2>4. ASSUME ~e.v[k]
        PROVE  \E q \in Places : q > t /\ pipe'[q].wr = r /\ pipe'[q].Tnew + Stage(q) # 7
    <3>1. ~Operand(t, k)
      BY <1>1, <2>4
    <3>2. PICK q \in Later(t) :
            /\ q \in 2 .. 7 /\ q > t /\ pipe[q].wr = pipe[t].ins.rd[k]
            /\ pipe[q].Tnew > 0 /\ pipe[q].Tnew <= 3 /\ pipe[q].Tnew + Stage(q) # 7
      BY <1>0, <1>4, <1>6, <3>1, Missing DEF ResultInv
    <3>. QED  BY <1>0, <1>1, <2>1, <3>2, WriterGoesOn
  <2>. QED  BY <2>3, <2>4 DEF m
<1>. QED  BY <1>2, <1>5, <1>6 DEF OperandNext

\* An instruction that moves on by a stage
LEMMA MovedOperand ==
  ASSUME ResultInv, OperandsInv, HandlersArePriv,
         NEW h, NEW f, NEW event, NEW annul, NEW fault, NEW taken,
         Turn(h, f, event, annul, fault, taken),
         NEW o \in 0 .. 7, NEW t \in Places, t = o + 2, t >= f, Goes(o, t, h),
         pipe'[t] = After(o, event, annul, fault, taken), pipe'[t] # Empty,
         ~Doomed(o), NEW k \in 1 .. 2
  PROVE  OperandNext(t, k)
<1> DEFINE e == pipe'[t]
           r == e.ins.rd[k]
           s == Stage(o)
           z == Stage(t)
           u == UsedIn(o, k)
<1>0. o \in Places /\ s \in 0 .. 4 /\ o \in Int /\ t \in Int /\ z = s + 1
  BY Stages04, NextStage DEF Places
<1>1. Moved(o, e)
  BY MovedOn
<1>2. CASE o >= 6
  <2>1. e.ins = NoInstr /\ e.v[k]
    BY <1>1, <1>2 DEF Moved
  <2>2. r = 0
    BY <2>1, NoInstrReads
  <2>3. UsedBy(e, z, k) = 5
    BY <2>2, UsedByRange
  <2>. QED  BY <2>1, <2>3 DEF OperandNext
<1>3. CASE o < 6
  <2>1. o \in 0 .. 5 /\ pipe[o] \in Entry
    BY <1>0, <1>3 DEF ResultInv, Typed
  <2>2. e.ins = pipe[o].ins /\ e.v = Carried(o)
    BY <1>1, <1>3 DEF Moved
  <2>3. UsedBy(e, z, k) = u
    <3>1. UsedBy(e, s + 1, k) = u
      BY <1>1, <2>1, UsedStays
    <3>. QED  BY <1>0, <3>1
  <2>4. u \in {0, 1, 2, 3, 5} /\ (r = 0 => u = 5)
    BY <2>2, UsedRange
  <2>5. e.v[k] <=> (u \in s + 1 .. 4 => Operand(o, k))
    BY <2>2 DEF Carried, OperandsFrom
  <2>6. OperandOK(o, k)
    BY <1>0 DEF OperandsInv
  <2>7. r = 0 \/ (z > 0 /\ u \notin z .. 4) => e.v[k]
    BY <1>0, <2>4, <2>5
  <2>8. ASSUME u \in z .. 4
        PROVE  /\ \A q \in Places : q > t /\ pipe'[q].wr = r => pipe'[q].Tnew <= u - z
               /\ \/ e.v[k]
                  \/ \E q \in Places : q > t /\ pipe'[q].wr = r /\ pipe'[q].Tnew + Stage(q) # 7
    <3> DEFINE m == u - z
    <3>1. m \in Int /\ m >= 0 /\ r # 0 /\ u \in s .. 4 /\ t # o /\ m + 1 = u - s
      BY <1>0, <2>4, <2>8
    <3>2. \A q \in Places : q > o /\ pipe[q].wr = r => pipe[q].Tnew <= u - s
      BY <2>2, <2>6, <3>1 DEF OperandOK
    <3>3. \A q \in Places : q > o /\ pipe[q].wr = r =>
            pipe[q].Tnew <= (IF t = o THEN m ELSE m + 1)
      BY <3>1, <3>2
    <3>. HIDE DEF m
    <3>4. \A x \in Places : x > t /\ pipe'[x].wr = r => pipe'[x].Tnew <= m
      BY <3>1, <3>3, WritersBound
    <3>5. ASSUME ~e.v[k]
          PROVE  \E q \in Places : q > t /\ pipe'[q].wr = r /\ pipe'[q].Tnew + Stage(q) # 7
      <4>1. ~Operand(o, k)
        BY <2>5, <3>5
      <4>2. PICK q \in Later(o) :
              /\ q \in 2 .. 7 /\ q > o /\ pipe[q].wr = pipe[o].ins.rd[k]
              /\ pipe[q].Tnew > 0 /\ pipe[q].Tnew <= 3 /\ pipe[q].Tnew + Stage(q) # 7
        BY <1>0, <2>6, <3>1, <4>1, Missing DEF ResultInv
      <4>. QED  BY <2>2, <3>1, <4>2, WriterGoesOn
    <3>. QED  BY <3>4, <3>5 DEF m
  <2>. QED  BY <2>3, <2>7, <2>8 DEF OperandNext
<1>. QED  BY <1>0, <1>2, <1>3

\* What the scoreboard lets pass comes in time
LEMMA IssuedInTime ==
  ASSUME ResultInv, SlotsAreSimple, NEW p \in EX, IssuedPair(p) # Empty, NEW k \in 1 .. 2,
         UsedBy(IssuedPair(p), 0, k) \in 0 .. 4,
         NEW q \in Places, pipe[q].wr = IssuedPair(p).ins.rd[k]
  PROVE  pipe[q].Tnew <= UsedBy(IssuedPair(p), 0, k) + 1
<1> DEFINE e == IssuedPair(p)
           w == Way(p)
           i == queue_head(w).ins
           slot == queue_head(w).likely_delayslot
           u == UsedBy(e, 0, k)
<1>1. /\ e.ins = i /\ e.wr = i.wr /\ e.Tnew = TnewDecoder(i, slot, delay_exec(i))
      /\ ~Late(i, 0) \/ delay_exec(i)
  BY IssuedEntry DEF ResultInv, RequestInv
<1>2. i.rd[k] # 0 /\ pipe[q].Tnew \in 0 .. 7
  BY <1>1, UsedByRange DEF ResultInv, Typed, Entry
<1>3. Tuse(i, k) \in 0 .. 3 /\ Tuse(i, k) <= u /\ u \in 0 .. 3
  BY <1>1, <1>2, UsedByRange DEF UsedBy, Tuse
<1>4. CASE ~Late(i, 0)
  <2>1. ~(Tuse(i, k) + 0 + 1 < pipe[q].Tnew)
    BY <1>1, <1>2, <1>4 DEF Late
  <2>2. Tuse(i, k) + 0 + 1 >= pipe[q].Tnew
    BY <1>2, <1>3, <2>1
  <2>. HIDE DEF u, i
  <2>3. pipe[q].Tnew <= u + 1
    BY <1>2, <1>3, <2>2
  <2>. QED  BY <2>3 DEF u
<1>5. CASE delay_exec(i)
  <2>1. i.cls = "cal" /\ ~Late(i, 3)
    BY <1>5 DEF delay_exec, MEM_GEN, ALU_GEN
  <2>2. Tuse(i, k) = 0
    BY <1>2, <2>1 DEF Tuse
  <2>3. ~(Tuse(i, k) + 3 + 1 < pipe[q].Tnew)
    BY <1>1, <1>2, <2>1 DEF Late
  <2>4. i.wr # 0
    BY <1>1, <2>1 DEF UsedBy
  <2>5. ~slot
    BY <1>1, <1>2, <2>1, <2>4, IssuedTime DEF ResultInv, RequestInv
  <2>6. e.Tnew = MEM_GEN - 0
    BY <1>1, <1>5, <2>1, <2>4, <2>5 DEF TnewDecoder, IsAlu, MEM_GEN
  <2>7. u = 3
    BY <1>1, <1>2, <2>1, <2>4, <2>6 DEF UsedBy
  <2>. QED  BY <1>2, <2>2, <2>3, <2>7
<1>. QED  BY <1>1, <1>4, <1>5

\* What Forward_ISSUE gets wrong has a writer that has no result yet
LEMMA IssuedMissing ==
  ASSUME ResultInv, RegisterFileIsCurrent, NEW p \in EX, IssuedPair(p) # Empty,
         NEW k \in 1 .. 2, ~IssuedPair(p).v[k]
  PROVE  \E q \in Places : pipe[q].wr = IssuedPair(p).ins.rd[k] /\ ~pipe[q].data
<1> DEFINE e == IssuedPair(p)
           w == Way(p)
           i == queue_head(w).ins
           r == i.rd[k]
           S == {x \in Places : pipe[x].wr = r}
           q == Nearest(S)
           paired == w = 1 /\ queue_head(0).ins.wr = r
<1>1. /\ e.ins = i /\ i \in Program /\ ~IssueOperand(w, k)
      /\ w = 1 => way1_valid
  BY IssuedEntry DEF ResultInv, RequestInv
<1>2. /\ r # 0
      /\ ~(~paired /\ q = LastWriter(-1, r) /\ (IF q = None THEN lrf[r] ELSE pipe[q].data))
  BY <1>1 DEF IssueOperand
<1>3. ~paired
  BY <1>1, <1>2 DEF way1_valid, ready1, InClass
<1>4. q = LastWriter(-1, r)
  <2>1. {x \in Places : x > -1 /\ pipe[x].wr = r} = S
    BY DEF Places
  <2>2. LastWriter(-1, r) = Nearest({x \in Places : x > -1 /\ pipe[x].wr = r})
    BY LastWriterIs DEF ResultInv
  <2>. QED  BY <2>1, <2>2
<1>5. r \in Regs
  BY <1>1, <1>2, RegisterAssumption
<1>6. q # None /\ ~pipe[q].data
  BY <1>2, <1>3, <1>4, <1>5 DEF RegisterFileIsCurrent
<1>7. q \in S
  BY <1>6, NearestIs
<1>. QED  BY <1>1, <1>6, <1>7

\* An instruction that is issued
LEMMA IssuedOperandIs ==
  ASSUME ResultInv, RegisterFileIsCurrent, SlotsAreSimple, HandlersArePriv,
         NEW h, NEW f, NEW event, NEW annul, NEW fault, NEW taken,
         Turn(h, f, event, annul, fault, taken), h = 0, f = 0,
         NEW t \in EX, Goes(t - 2, t, h), pipe'[t] = IssuedPair(t), pipe'[t] # Empty,
         ~Doomed(t - 2), ~Doomed(t)', NEW k \in 1 .. 2
  PROVE  OperandNext(t, k)
<1> DEFINE e == pipe'[t]
           o == t - 2
           r == e.ins.rd[k]
           u == UsedBy(e, 0, k)
<1>0. t \in {0, 1} /\ t \in Places /\ Stage(t) = 0 /\ o \in Int /\ o < 0 /\ o # t /\ t >= f
      /\ \A q \in Places : q > o /\ q \in Int
  BY Stages04 DEF EX, Places
<1>1. u \in {0, 1, 2, 3, 5} /\ (r = 0 => u = 5)
  BY UsedByRange
<1>2. ASSUME r = 0 PROVE e.v[k]
  <2>1. /\ e.ins = queue_head(Way(t)).ins
        /\ e.v[k] <=> IssueOperand(Way(t), k)
    BY IssuedEntry DEF ResultInv, RequestInv
  <2>. QED  BY <1>2, <2>1 DEF IssueOperand
<1>3. ASSUME u \in 0 .. 4
      PROVE  /\ \A q \in Places : q > t /\ pipe'[q].wr = r => pipe'[q].Tnew <= u - 0
             /\ \/ e.v[k]
                \/ \E q \in Places : q > t /\ pipe'[q].wr = r /\ pipe'[q].Tnew + Stage(q) # 7
  <2>1. r # 0 /\ u \in 0 .. 3
    BY <1>1, <1>3
  <2>2. \A q \in Places : pipe[q].wr = r => pipe[q].Tnew <= u + 1
    BY <1>0, <1>3, IssuedInTime
  <2>3. \A x \in Places : x > t /\ pipe'[x].wr = r => pipe'[x].Tnew <= u
    <3> DEFINE m == u
    <3>1. m \in Int /\ m >= 0
      BY <2>1
    <3>2. \A q \in Places : q > o /\ pipe[q].wr = r =>
            pipe[q].Tnew <= (IF t = o THEN m ELSE m + 1)
      BY <1>0, <2>2
    <3>. HIDE DEF m, o
    <3>3. \A x \in Places : x > t /\ pipe'[x].wr = r => pipe'[x].Tnew <= m
      <4>1. Goes(o, t, h)
        BY DEF o
      <4>. QED  BY <1>0, <2>1, <3>1, <3>2, <4>1, WritersBound
    <3>. QED  BY <3>3 DEF m
  <2>4. ASSUME ~e.v[k]
        PROVE  \E q \in Places : q > t /\ pipe'[q].wr = r /\ pipe'[q].Tnew + Stage(q) # 7
    <3>1. PICK q \in Places : pipe[q].wr = r /\ ~pipe[q].data
      BY <2>4, IssuedMissing
    <3>2. pipe[q].Tnew <= u + 1 /\ pipe[q].Tnew \in 0 .. 7 /\ q \in Int /\ q >= 0 /\ q <= 9
      BY <2>2, <3>1 DEF ResultInv, Typed, Entry, Places
    <3>3. pipe[q].Tnew <= 4
      BY <2>1, <3>2
    <3>4. CASE q \in EX
      BY <1>0, <2>1, <3>1, <3>3, <3>4, WriterInEXGoesOn
    <3>5. CASE q \notin EX
      <4>1. ~Doomed(q)
        <5>. SUFFICES ASSUME Doomed(q) PROVE FALSE
          OBVIOUS
        <5>1. Doomed(o)
          <6>1. q >= o
            BY <1>0, <3>2
          <6>. QED  BY <1>0, <3>2, <6>1, DoomGrows
        <5>. QED  BY <5>1
      <4>2. TimeOf(pipe[q], Stage(q), Slot(q))
        BY <2>1, <3>1, <3>5, <4>1 DEF ResultInv, TimeInv, TimeIn
      <4>3. Stage(q) \in 0 .. 4 /\ (Stage(q) = 4 <=> q \in WB)
        BY Stages04
      <4>4. pipe[q].Tnew > 0 /\ pipe[q].Tnew + Stage(q) # 7 /\ Stage(q) <= 3
        BY <3>1, <3>2, <3>3, <4>2, <4>3 DEF TimeOf
      <4>5. q \in 2 .. 7
        BY <3>2, <3>5, <4>3, <4>4 DEF EX, WB
      <4> HIDE DEF o
      <4>6. Goes(o, t, h)
        BY DEF o
      <4>. QED  BY <1>0, <2>1, <3>1, <4>4, <4>5, <4>6, WriterGoesOn
    <3>. QED  BY <3>4, <3>5
  <2>5. u - 0 = u
    BY <2>1
  <2>. QED  BY <2>3, <2>4, <2>5
<1>. QED  BY <1>0, <1>2, <1>3 DEF OperandNext

LEMMA OperandsStay ==
  ASSUME ResultInv, OperandsInv, RegisterFileIsCurrent, SlotsAreSimple, HandlersArePriv,
         NEW h, NEW f, NEW event, NEW annul, NEW fault, NEW taken,
         Turn(h, f, event, annul, fault, taken)
  PROVE  OperandsInv'
<1>1. ASSUME NEW t \in Places, NEW k \in 1 .. 2, ~Doomed(t)'
      PROVE  OperandNext(t, k)
  <2>0. h \in Int /\ f \in Int
    BY DEF Turn
  <2>1. CASE pipe'[t] = Empty
    <3>1. pipe'[t].ins.rd[k] = 0 /\ pipe'[t].v[k]
      BY <2>1, EmptyIsEntry
    <3>2. UsedBy(pipe'[t], Stage(t), k) = 5
      BY <3>1, UsedByRange
    <3>. QED  BY <3>1, <3>2 DEF OperandNext
  <2>2. ASSUME pipe'[t] # Empty, NEW o, Goes(o, t, h), t >= f
        PROVE  ~Doomed(o)
    BY <1>1, <2>2, DoomStays
  <2>3. CASE t >= f /\ t < h /\ t \in 0 .. 7 /\ Goes(t, t, h) /\ pipe'[t] = Held(t)
    BY <2>1, <2>2, <2>3, HeldOperand
  <2>4. CASE /\ t >= f /\ h = 0 /\ f = 0 /\ t \in EX /\ Goes(t - 2, t, h)
             /\ pipe'[t] = IssuedPair(t)
    BY <1>1, <2>1, <2>2, <2>4, IssuedOperandIs
  <2>5. ASSUME NEW q \in 0 .. 7, t = q + 2, t >= f, Goes(q, t, h),
               pipe'[t] = After(q, event, annul, fault, taken)
        PROVE  OperandNext(t, k)
    BY <2>1, <2>2, <2>5, MovedOperand
  <2>. QED  BY <2>1, <2>3, <2>4, <2>5, TurnFrom
<1>2. ASSUME NEW t \in Places, NEW k \in 1 .. 2
      PROVE  ~Doomed(t)' => OperandOK(t, k)'
  BY <1>1, <1>2, OperandNextIs
<1>. QED  BY <1>2 DEF OperandsInv

-----------------------------------------------------------------------------
(* The register file, and the step.                                        *)

LEMMA RegistersStay ==
  ASSUME ResultInv, RegisterFileIsCurrent, WriteBack
  PROVE  lrf' \in [Regs -> BOOLEAN] /\ RegisterFileIsCurrent'
<1>. DEFINE W(r) == {p \in WB : pipe[p].wr = r}
            D(r) == {p \in WB : pipe[p].dst = r}
            Value(r) == IF Nearest(W(r)) = None /\ Nearest(D(r)) = None THEN lrf[r]
                        ELSE Nearest(W(r)) = Nearest(D(r)) /\ pipe[Nearest(W(r))].data
<1>1. lrf' = [r \in Regs |-> Value(r)]
  BY DEF WriteBack
<1>2. ASSUME NEW r \in Regs
      PROVE  Value(r) \in BOOLEAN /\ Value(r)
  <2>1. W(r) = D(r) /\ W(r) \in SUBSET Places
    BY DEF ResultInv, ShapeInv, WB, Places
  <2>2. lrf[r] \in BOOLEAN /\ lrf[r]
    BY DEF ResultInv, Typed, RegisterFileIsCurrent
  <2>3. CASE W(r) = {}
    <3>1. Nearest(W(r)) = None /\ Nearest(D(r)) = None
      BY <2>1, <2>3, NearestIs
    <3>. QED  BY <2>2, <3>1
  <2>4. CASE W(r) # {}
    <3> DEFINE w == Nearest(W(r))
    <3>1. w \in W(r) /\ w # None
      BY <2>1, <2>4, NearestIs
    <3>2. pipe[w].wr = r /\ w \in WB /\ w \in Places /\ w \notin EX /\ ~Doomed(w)
      BY <2>1, <3>1, FarUndoomed DEF WB, EX
    <3>3. r # 0
      BY RegsAssumption
    <3>4. pipe[w].data
      BY <3>2, <3>3, ReadyIsRight DEF ResultInv
    <3>5. Nearest(D(r)) = w
      BY <2>1
    <3>. QED  BY <3>1, <3>4, <3>5
  <2>. QED  BY <2>3, <2>4
<1>. HIDE DEF Value
<1>3. \A r \in Regs : lrf'[r]
  BY <1>1, <1>2
<1>4. lrf' \in [Regs -> BOOLEAN]
  BY <1>1, <1>2
<1>. QED  BY <1>3, <1>4 DEF RegisterFileIsCurrent

\* What is not in the stages
Flags == /\ req_completed \in BOOLEAN /\ save_data_data_ok \in BOOLEAN
         /\ wait \in {"no", "branch", "likely", "link", "handler"}

OperandInv == ResultInv /\ Flags /\ OperandsInv /\ RegisterFileIsCurrent

LEMMA OperandInit ==
  ASSUME Init
  PROVE  OperandInv
<1>1. /\ pipe = [p \in Places |-> Empty] /\ size = 0 /\ wait = "no"
      /\ lrf = [r \in Regs |-> TRUE]
      /\ req_completed = FALSE /\ save_data_data_ok = FALSE
      /\ exc_req_complete = FALSE /\ LLbit = FALSE
  BY DEF Init
<1>2. /\ \A p \in Places : pipe[p] = Empty
      /\ Empty \in Entry /\ Empty.wr = 0 /\ ~Empty.valid /\ ~Empty.flt /\ ~Empty.exc
      /\ Empty.dst = 0 /\ Empty.ins = NoInstr
      /\ \A k \in 1 .. 2 : Empty.ins.rd[k] = 0 /\ Empty.v[k]
      /\ Empty.ins.cls = "none"
  BY <1>1, EmptyIsEntry, NoInstrReads DEF Empty
<1>3. Typed
  BY <1>1, <1>2 DEF Typed
<1>4. ShapeInv
  BY <1>2, EmptyShaped DEF ShapeInv, Places, WB
<1>5. PairsInv
  <2>1. \A p \in {0, 2, 4, 6} : pipe[p + 1] = Empty /\ pipe[p] = Empty
    BY <1>2 DEF Places
  <2>2. pipe[1] = Empty /\ pipe[0] = Empty
    BY <1>2 DEF Places
  <2>. QED  BY <1>2, <2>1, <2>2 DEF PairsInv
<1>6. MarkInv
  BY <1>1 DEF MarkInv
<1>7. Handled
  BY <1>1 DEF Handled
<1>8. TimeInv
  BY <1>2 DEF TimeInv, EX, Places
<1>9. Flags
  BY <1>1 DEF Flags
<1>10. OperandsInv
  <2>. SUFFICES ASSUME NEW p \in Places, NEW k \in 1 .. 2 PROVE OperandOK(p, k)
    BY DEF OperandsInv
  <2>1. pipe[p].ins.rd[k] = 0 /\ pipe[p].v[k]
    BY <1>2
  <2>2. UsedIn(p, k) = 5
    BY <2>1, UsedRange
  <2>. QED  BY <2>1, <2>2 DEF OperandOK
<1>11. RegisterFileIsCurrent
  BY <1>1 DEF RegisterFileIsCurrent
<1>12. RequestInv
  BY RequestInit
<1>. QED  BY <1>3, <1>4, <1>5, <1>6, <1>7, <1>8, <1>9, <1>10, <1>11, <1>12 DEF OperandInv, ResultInv

LEMMA OperandStutter ==
  ASSUME OperandInv, UNCHANGED vars, RequestInv'
  PROVE  OperandInv'
<1>0. /\ issue_queue' = issue_queue /\ head' = head /\ size' = size /\ wait' = wait
      /\ pipe' = pipe /\ lrf' = lrf /\ req_completed' = req_completed
      /\ save_data_data_ok' = save_data_data_ok
      /\ exc_req_complete' = exc_req_complete /\ LLbit' = LLbit
  BY DEF vars
<1>1. Typed' /\ Flags' /\ RegisterFileIsCurrent'
  BY <1>0 DEF OperandInv, ResultInv, Typed, Flags, RegisterFileIsCurrent
<1>2. ShapeInv'
  BY <1>0 DEF OperandInv, ResultInv, ShapeInv
<1>3. PairsInv'
  BY <1>0 DEF OperandInv, ResultInv, PairsInv
<1>4. Waiting' = Waiting
  BY <1>0 DEF Waiting, Succ
<1>5. MarkInv'
  BY <1>0, <1>4 DEF OperandInv, ResultInv, MarkInv, Mark, Succ
<1>6. Handled'
  BY <1>0, <1>4 DEF OperandInv, ResultInv, Handled, HandlerNext
<1>7. \A p : Doomed(p)' <=> Doomed(p)
  BY <1>0 DEF Doomed
<1>8. TimeInv'
  BY <1>0, <1>7 DEF OperandInv, ResultInv, TimeInv, TimeIn, Slot, Stage
<1>9. \A p, k : UsedIn(p, k)' = UsedIn(p, k)
  BY <1>0 DEF UsedIn, Stage
<1>10. OperandsInv'
  BY <1>0, <1>7, <1>9 DEF OperandInv, OperandsInv, OperandOK, Stage
<1>. QED  BY <1>1, <1>2, <1>3, <1>5, <1>6, <1>8, <1>10 DEF OperandInv, ResultInv

LEMMA FlagsStay ==
  ASSUME Next, Flags, QueueInv
  PROVE  Flags'
<1>1. PICK addr_ok \in Offered(data_req), data_ok \in Offered(bus > 0) :
        /\ Handshake(addr_ok, data_ok)
        /\ \/ \E g \in Groups : \E n : Ring(g, n)
           \/ FlushRing("no") \/ FlushRing("handler")
  BY ZenonT(60) DEF Next, Advance, Mispredict, Redirect
<1>2. addr_ok \in BOOLEAN /\ data_ok \in BOOLEAN
  BY DEF Offered
<1>3. req_completed' \in BOOLEAN
  BY <1>1, <1>2 DEF Handshake
<1>4. save_data_data_ok' \in BOOLEAN
  <2>1. mem_acc \in BOOLEAN
    BY DEF mem_acc
  <2>. QED  BY <1>1, <1>2, <2>1 DEF Handshake, Flags
<1>5. wait' \in {"no", "branch", "likely", "link", "handler"}
  BY <1>1 DEF Ring, FlushRing, Due, IsBranch, Flags
<1>. QED  BY <1>3, <1>4, <1>5 DEF Flags

LEMMA OperandStep ==
  ASSUME OperandInv, [Next]_vars, PairedOverflow = FALSE, SlotsAreSimple, HandlersArePriv
  PROVE  OperandInv'
<1>1. RequestInv'
  <2>1. \A j \in Slots["likely"] : ~IsAccmem(j)
    BY DEF SlotsAreSimple
  <2>. QED  BY <2>1, RequestStep DEF OperandInv, ResultInv
<1>2. CASE UNCHANGED vars
  BY <1>1, <1>2, OperandStutter
<1>3. CASE Next
  <2>0. /\ ResultInv /\ OperandsInv /\ RegisterFileIsCurrent /\ Flags
        /\ IssueInv /\ PairInv /\ CommittedInv /\ QueueInv /\ MarkInv /\ Typed /\ ShapeInv
        /\ Beside(pipe[5], pipe[4])
    BY DEF OperandInv, ResultInv, RequestInv, AnswerInv, PairInv, IssueInv
  <2>1. WriteBack
    BY <1>3, <2>0, NextIsTurn
  <2>2. PICK h, f, event, annul, fault, taken : Turn(h, f, event, annul, fault, taken)
    BY <1>3, <2>0, NextIsTurn
  <2>3. PICK addr_ok, data_ok, mdu, e, a, x, bp_fail, exception :
          ClockCycle(addr_ok, data_ok, mdu, e, a, x, bp_fail, exception)
    BY <1>3, NextIsClockCycle
  <2>4. /\ \A p \in Places : pipe'[p] \in Entry
        /\ ShapeInv'
    BY <2>0, <2>2, ShapeKept
  <2>5. lrf' \in [Regs -> BOOLEAN] /\ RegisterFileIsCurrent'
    BY <2>0, <2>1, RegistersStay
  <2>6. pipe' \in [Places -> Entry]
    <3>1. pipe' = [p \in Places |-> pipe'[p]]
      BY <2>3 DEF ClockCycle, Stages
    <3>. QED  BY <2>4, <3>1
  <2>7. exc_req_complete' \in BOOLEAN
    BY <2>2 DEF Turn
  <2>8. LLbit' \in BOOLEAN
    BY <2>0, <2>3 DEF ClockCycle, Link, Typed
  <2>9. Typed'
    BY <2>5, <2>6, <2>7, <2>8 DEF Typed
  <2>10. PairsInv'
    BY <2>0, <2>2, PairsStay
  <2>11. MarkInv'
    BY <2>0, <2>2, MarksKept
  <2>12. Handled'
    BY <2>0, <2>2, HandledStays
  <2>13. TimeInv'
    BY <2>0, <2>2, TimeStays
  <2>14. OperandsInv'
    BY <2>0, <2>2, OperandsStay
  <2>15. Flags'
    BY <1>3, <2>0, FlagsStay
  <2>16. ResultInv'
    BY <1>1, <2>4, <2>9, <2>10, <2>11, <2>12, <2>13 DEF ResultInv
  <2>. QED  BY <2>5, <2>14, <2>15, <2>16 DEF OperandInv
<1>. QED  BY <1>2, <1>3

LEMMA OperandAlways ==
  ASSUME PairedOverflow = FALSE, SlotsAreSimple, HandlersArePriv
  PROVE  Spec => []OperandInv
<1>1. Init => OperandInv
  BY OperandInit
<1>2. OperandInv /\ [Next]_vars => OperandInv'
  BY OperandStep
<1>. QED  BY <1>1, <1>2, PTL DEF Spec

(* Every register of the pipeline, the scoreboard and the handshake keeps  *)
(* its type, for every program that meets the three assumptions.           *)
THEOREM PipelineTypes ==
  ASSUME PairedOverflow = FALSE, SlotsAreSimple, HandlersArePriv
  PROVE  Spec => []TypeOK
<1>1. ASSUME OperandInv PROVE TypeOK
  <2>1. QueueInv /\ RequestsMatchAccesses /\ Typed /\ Flags
    BY <1>1 DEF OperandInv, ResultInv, RequestInv, IssueInv, AnswerInv
  <2>2. bus \in 0 .. 2
    BY <2>1 DEF RequestsMatchAccesses
  <2>3. Cells = 0 .. IQ_LENGTH - 1
    BY DEF Cells
  <2>. QED  BY <2>1, <2>2, <2>3 DEF QueueInv, QueueTypeOK, Typed, Flags, TypeOK
<1>2. OperandInv => TypeOK
  BY <1>1
<1>. QED  BY <1>2, OperandAlways, PTL

(* An instruction computes with the results of the last writers before it: *)
(* no stall is missing in the scoreboard, and no bypass or save register   *)
(* hands over a value that a later writer has replaced.                    *)
THEOREM OperandsAreRight ==
  ASSUME PairedOverflow = FALSE, SlotsAreSimple, HandlersArePriv
  PROVE  Spec => []OperandsAreLatest
<1>1. ASSUME OperandInv, NEW p \in Places, NEW k \in 1 .. 2,
             UsedIn(p, k) = Stage(p), ~Doomed(p)
      PROVE  Operand(p, k)
  BY <1>1, DueIsRight DEF OperandInv, ResultInv, OperandsInv
<1>2. OperandInv => OperandsAreLatest
  BY <1>1 DEF OperandsAreLatest
<1>. QED  BY <1>2, OperandAlways, PTL

(* The register file is that of in-order execution: what is written back   *)
(* in a cycle, of two instructions at a time, squashed ones among them, is *)
(* for every register what the last of its writers computed.               *)
THEOREM RegistersAreRight ==
  ASSUME PairedOverflow = FALSE, SlotsAreSimple, HandlersArePriv
  PROVE  Spec => []RegisterFileIsCurrent
<1>1. OperandInv => RegisterFileIsCurrent
  BY DEF OperandInv
<1>. QED  BY <1>1, OperandAlways, PTL
=============================================================================
