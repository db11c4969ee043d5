------------------------------ MODULE SendCmd ------------------------------
(***************************************************************************)
(* The promise of mmc->send_cmd as a state machine: one call at a time,    *)
(* that returns with one of the outcomes of DataPath.                      *)
(***************************************************************************)
EXTENDS DataPath

CONSTANT Commands   \* records with at least op and xfer

VARIABLES
  call,   \* the command being sent, or NoCall
  path,   \* the data path before the call
  ret,    \* result of the last call: "ok" or "err"
  good    \* the last call was ok, and a read filled its own buffer

vars == <<call, path, ret, good>>

NoCall == [op |-> "no call"]

Transfers == {m.xfer : m \in Commands}

Init ==
  /\ call = NoCall
  /\ path = Clean
  /\ ret = "ok"
  /\ good = TRUE

Call(m) ==
  /\ call = NoCall
  /\ call' = m
  /\ UNCHANGED <<path, ret, good>>

Return ==
  /\ call # NoCall
  /\ \E answered \in BOOLEAN : \E o \in Outcomes(path, call, answered, Transfers) :
       /\ ret' = o.ret
       /\ good' = o.good
       /\ path' = o.path
  /\ call' = NoCall

(* Between two calls: a software reset, or late data that go by; either    *)
(* may leave the path dirty.                                               *)
Settle ==
  /\ call = NoCall
  /\ path' \in AfterReset(path)
  /\ UNCHANGED <<call, ret, good>>

Next == (\E m \in Commands : Call(m)) \/ Return \/ Settle

Spec == Init /\ [][Next]_vars
=============================================================================
