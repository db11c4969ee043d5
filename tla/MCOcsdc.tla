------------------------------ MODULE MCOcsdc ------------------------------
(* Commands without data, with and without response and busy state, reads  *)
(* of one and of two blocks into two buffers, and a write.                 *)
EXTENDS Ocsdc

CONSTANTS bufA, bufB

MCDsts == {bufA, bufB}
MCBlks == {"block 0", "block 1"}

Plain(rsp, busy) ==
  [op |-> "none", rsp |-> rsp, busy |-> busy, xfer |-> [n |-> 1, dst |-> bufA], blk |-> "block 0"]
Data(op, n, dst, blk) ==
  [op |-> op, rsp |-> TRUE, busy |-> FALSE, xfer |-> [n |-> n, dst |-> dst], blk |-> blk]

MCCommands ==
  {Plain(FALSE, FALSE), Plain(TRUE, TRUE),
   Data("read", 1, bufA, "block 0"), Data("read", 2, bufB, "block 1"),
   Data("write", 1, bufA, "block 0")}
=============================================================================
