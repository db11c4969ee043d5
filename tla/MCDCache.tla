------------------------------ MODULE MCDCache ------------------------------
EXTENDS DCacheProps

Req(op, t, o, v, s) ==
  [valid |-> TRUE, uncache |-> FALSE, op |-> op, CACHE |-> FALSE,
   cache_op |-> FALSE, cache_writeback |-> FALSE, tag |-> t, index |-> 0,
   offset |-> o, way |-> t % SET_SIZE, wdata |-> v, wstrb |-> s]

Loads  == {Req(FALSE, t, o, 0, FALSE) : t \in Tags, o \in Words}
Stores == {Req(TRUE, 0, 0, v, TRUE) : v \in Vals} \cup {Req(TRUE, 0, 0, 0, FALSE)}

CachedRequests == Loads \cup Stores

(* The line of the other set, so that the two RAM ports may differ.        *)
InSet1(r) == [r EXCEPT !.index = 1]
TwoSetRequests ==
  CachedRequests \cup {InSet1(Req(FALSE, 0, 0, 0, FALSE)), InSet1(Req(TRUE, 0, 0, 1, TRUE))}

AllLines == Lines
NextLines == {[tag |-> 1, index |-> 0], [tag |-> 0, index |-> 1]}

CacheOp(t, hit, wb) ==
  [Req(FALSE, t, 0, 0, FALSE) EXCEPT !.CACHE = TRUE, !.cache_op = hit,
                                     !.cache_writeback = wb]
CacheOps ==
  {CacheOp(t, TRUE, TRUE) : t \in {0, 1}} \cup {CacheOp(t, FALSE, TRUE) : t \in {0}}
  \cup {CacheOp(0, TRUE, FALSE)}

(* Two lines that may be dirty, so that one waits while the other goes.    *)
TwoDirtyAndOps ==
  {Req(FALSE, t, 0, 0, FALSE) : t \in Tags} \cup {Req(TRUE, t, 0, 1, TRUE) : t \in {0, 1}}
  \cup CacheOps
NoLines == {}

Uncached(r) == [r EXCEPT !.uncache = TRUE]
DeviceTag == TAG_NUM - 1
MixedRequests ==
  {Uncached(Req(FALSE, DeviceTag, o, 0, FALSE)) : o \in Words}
  \cup {Uncached(Req(TRUE, DeviceTag, 0, v, TRUE)) : v \in Vals}
  \cup {Req(FALSE, 0, 0, 0, FALSE)}
  \cup {Req(TRUE, 0, 0, 1, TRUE), CacheOp(0, TRUE, TRUE)}
=============================================================================
