------------------------------ MODULE MCICache ------------------------------
(* Fetches of every pair of two lines of one set and of a line of the    *)
(* other set, an uncached word, and CACHE operations of both kinds.        *)
EXTENDS ICache

MCFetch(t, i, o) ==
  [valid |-> TRUE, uncache |-> FALSE, CACHE |-> FALSE, cache_op |-> FALSE,
   tag |-> t, index |-> i, offset |-> o, way |-> 0]
MCOp(t, w, hit) ==
  [MCFetch(t, 0, 0) EXCEPT !.CACHE = TRUE, !.cache_op = hit, !.way = w]
MCUncached(t, o) == [MCFetch(t, 0, o) EXCEPT !.uncache = TRUE]

MCRequests ==
  {MCFetch(t, 0, o) : t \in {0, 1}, o \in {0, 2}} \cup {MCFetch(0, 1, 0)}
  \cup {MCOp(0, 0, TRUE), MCOp(0, 1, FALSE), MCUncached(1, 1)}

MCWritten == {[tag |-> 0, index |-> 0]}
MCPrefetch == {[tag |-> 0, index |-> 0], [tag |-> 1, index |-> 0]}
=============================================================================
