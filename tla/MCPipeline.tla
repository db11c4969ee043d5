----------------------------- MODULE MCPipeline -----------------------------
(***************************************************************************)
(* An instance of Pipeline: one instruction of every class over two        *)
(* registers, with the operands that can meet.                             *)
(***************************************************************************)
EXTENDS Pipeline

I(c, r1, r2, w) == [cls |-> c, rd |-> <<r1, r2>>, wr |-> w]

lw     == I("load",   0, 0, 1)
addu   == I("cal",    1, 2, 2)
lwl    == I("merge",  2, 1, 1)
sw     == I("store",  2, 1, 0)
movn   == I("mov",    2, 1, 1)
add    == I("ov",     1, 0, 1)
mul    == I("mdu",    1, 0, 2)
beql   == I("likely", 2, 0, 0)
bgezal == I("link",   2, 0, 1)
mfc0   == I("mfc0",   0, 0, 1)
mtc0   == I("mtc0",   0, 1, 0)
teq    == I("trap",   1, 0, 0)
ll     == I("ll",     0, 0, 2)
sc     == I("sc",     0, 1, 1)
eret   == I("eret",   0, 0, 0)
li     == I("cal",    2, 0, 2)

MCRegs == {1, 2}
MCRare == {lwl, sw, movn, add, mul, bgezal, mfc0, mtc0, teq, ll, sc, eret}
MCInstrs == MCRare \cup {lw, addu, beql}
MCSlots == [link |-> {li}, likely |-> {add}, handler |-> {mfc0}]

\* The slot of a likely branch may be a load
MCLoadSlots == [MCSlots EXCEPT !.likely = {lw}]
=============================================================================
