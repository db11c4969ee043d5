--------------------------- MODULE MCDCacheSystem ---------------------------
(* Instances of DCacheSystem: one set, one word a line.                    *)
EXTENDS DCacheSystem

Req(op, t, v) ==
  [valid |-> TRUE, uncache |-> FALSE, op |-> op, CACHE |-> FALSE,
   cache_op |-> FALSE, cache_writeback |-> FALSE, tag |-> t, index |-> 0,
   offset |-> 0, way |-> 0, wdata |-> v, wstrb |-> op]

LoadRequests == {Req(FALSE, t, 0) : t \in Tags}

WriteBackOf(t) ==
  [Req(FALSE, t, 0) EXCEPT !.CACHE = TRUE, !.cache_op = TRUE, !.cache_writeback = TRUE]

(* A stream over lines 0 and 1 beside a dirty line 2.                      *)
StreamRequests ==
  {Req(FALSE, 0, 0), Req(FALSE, 1, 0), Req(FALSE, 2, 0), Req(TRUE, 2, 1), WriteBackOf(2)}

AllLines == Lines
=============================================================================
