------------------------------ MODULE DataPath ------------------------------
(***************************************************************************)
(* What a call of mmc->send_cmd (mmc.h:255) can come to with               *)
(* ocsdc_send_cmd behind it. How far a read can be trusted depends on what *)
(* earlier calls left behind in the data path of the controller: the data  *)
(* status, the receiver and the blocks that are still on the data lines.   *)
(***************************************************************************)

(* Nothing is under way and no status is pending.                          *)
Clean == [st |-> "clean", xfer |-> [n |-> 0, dst |-> "none"]]

(* The receiver waits for the data of an earlier command.                  *)
Armed(x) == [st |-> "armed", xfer |-> x]

(* A status is pending, data of an earlier command are on their way, or    *)
(* the receiver has got a part of what it waits for.                       *)
Dirty == [st |-> "dirty", xfer |-> [n |-> 0, dst |-> "none"]]

Paths(Transfers) == {Clean, Dirty} \cup {Armed(x) : x \in Transfers}

(* A software reset of the controller; data that are still on their way    *)
(* are not stopped by it.                                                  *)
AfterReset(p) == {Clean} \cup ({p} \cap {Dirty})

Outcome(rets, goods, paths) == [ret : rets, good : goods, path : paths]

(* The outcomes of a call of m that finds the data path in state p, by     *)
(* whether its response came back undamaged. good: the result is "ok" and  *)
(* a read has filled its own buffer with the blocks it asked for. Where    *)
(* the code would poll for ever there is no outcome.                       *)
Outcomes(p, m, answered, Transfers) ==
  IF m.op = "none"
    THEN Outcome({IF answered THEN "ok" ELSE "err"}, {answered},
                 IF p = Dirty THEN Paths(Transfers) ELSE {p})
  ELSE IF p = Dirty
    THEN Outcome({"err"}, {FALSE}, Paths(Transfers))
           \cup (IF answered THEN Outcome({"ok"}, BOOLEAN, Paths(Transfers)) ELSE {})
  ELSE IF ~answered
    THEN Outcome({"err"}, {FALSE},
                 {Dirty, IF m.op = "read" /\ p = Clean THEN Armed(m.xfer) ELSE p})
  ELSE IF p = Clean \/ (m.op = "read" /\ p = Armed(m.xfer))
    THEN Outcome({"ok"}, {TRUE}, {Clean})
           \cup Outcome({"err"}, {FALSE}, IF m.op = "read" THEN {Clean, Dirty} ELSE {Clean})
  ELSE Outcome({"ok"}, BOOLEAN, {Clean, Dirty}) \cup Outcome({"err"}, {FALSE}, {Clean, Dirty})
=============================================================================
