----------------------------- MODULE OcsdcProofs -----------------------------
(***************************************************************************)
(* The driver on its controller keeps the promise of send_cmd, whatever    *)
(* the commands, the buffers and the sizes.                                *)
(***************************************************************************)
EXTENDS Ocsdc, SequenceTheorems, TLAPS

-----------------------------------------------------------------------------
(* Types.                                                                  *)

LEMMA CommandType ==
  ASSUME NEW m \in Commands
  PROVE  /\ m.op \in {"none", "read", "write"}
         /\ m.rsp \in BOOLEAN /\ m.busy \in BOOLEAN
         /\ m.xfer \in [n : 1 .. MaxBlocks, dst : Dsts]
         /\ m.blk \in Blks
BY OcsdcAssumption DEF Command

LEMMA BlocksType ==
  ASSUME NEW m \in Commands, NEW n \in 0 .. m.xfer.n
  PROVE  /\ SubSeq(Blocks(m), 1, n) \in Seq(Content)
         /\ Len(SubSeq(Blocks(m), 1, n)) = n
         /\ \A i \in 1 .. n : SubSeq(Blocks(m), 1, n)[i] = Unit(m.blk, i)
<1>1. m.xfer.n \in 1 .. MaxBlocks /\ m.blk \in Blks /\ MaxBlocks \in Nat
  BY CommandType, OcsdcAssumption
<1>2. \A i \in 1 .. n : Blocks(m)[i] = Unit(m.blk, i)
  BY <1>1 DEF Blocks
<1>3. \A i \in 1 .. n : Unit(m.blk, i) \in Content
  BY <1>1 DEF Content
<1>4. n \in Int /\ 1 \in Int
  BY <1>1
<1>5. /\ SubSeq(Blocks(m), 1, n) \in Seq(Content)
      /\ Len(SubSeq(Blocks(m), 1, n)) = IF 1 <= n THEN n - 1 + 1 ELSE 0
      /\ \A i \in 1 .. n - 1 + 1 : SubSeq(Blocks(m), 1, n)[i] = Blocks(m)[1 + i - 1]
  BY <1>2, <1>3, <1>4, SubSeqProperties
<1> QED BY <1>1, <1>2, <1>5

LEMMA InitType == Init => TypeOK
<1> SUFFICES ASSUME Init PROVE TypeOK
  OBVIOUS
<1>1. cmd.xfer \in [n : 1 .. MaxBlocks, dst : Dsts]
  BY CommandType DEF Init
<1>2. <<>> \in Seq(Content)
  BY EmptySeq
<1>3. mem \in [Dsts -> [1 .. MaxBlocks -> Content]]
  BY DEF Init, Content
<1>4. dm \in [st : {"IDLE", "RX", "TX"}, isr : SUBSET {"CC", "EI"},
              xfer : [n : 1 .. MaxBlocks, dst : Dsts], k : 1 .. MaxBlocks]
      /\ dm.k <= dm.xfer.n
  BY <1>1, OcsdcAssumption DEF Init
<1> QED BY <1>2, <1>3, <1>4 DEF Init, TypeOK

LEMMA StepType == TypeOK /\ [Next]_vars => TypeOK'
<1> SUFFICES ASSUME TypeOK, [Next]_vars PROVE TypeOK'
  OBVIOUS
<1> DEFINE DmType == /\ dm \in [st : {"IDLE", "RX", "TX"}, isr : SUBSET {"CC", "EI"},
                                xfer : [n : 1 .. MaxBlocks, dst : Dsts], k : 1 .. MaxBlocks]
                     /\ dm.k <= dm.xfer.n
<1>0. /\ MaxBlocks \in Nat /\ MaxBlocks >= 1
      /\ cmd.xfer \in [n : 1 .. MaxBlocks, dst : Dsts]
      /\ DmType
  BY OcsdcAssumption, CommandType DEF TypeOK
<1>1. ASSUME NEW isr \in SUBSET {"CC", "EI"}, dm' = DataIdle(isr) PROVE DmType'
  <2>1. dm'.xfer = dm.xfer /\ dm'.k = 1 /\ dm'.st = "IDLE" /\ dm'.isr = isr
    BY <1>0, <1>1 DEF DataIdle
  <2>2. dm' = [st |-> dm'.st, isr |-> dm'.isr, xfer |-> dm'.xfer, k |-> dm'.k]
    BY <1>0, <1>1 DEF DataIdle
  <2>3. dm.xfer.n \in 1 .. MaxBlocks
    BY <1>0
  <2> QED BY <1>0, <2>1, <2>2, <2>3
<1>2. ASSUME NEW st \in {"IDLE", "EXECUTE", "BUSY_CHECK"}, NEW isr \in SUBSET {"CC", "EI"},
             EndCommand(st, isr)
      PROVE  DmType' /\ cm' \in [st : {"IDLE", "EXECUTE", "BUSY_CHECK"}, isr : SUBSET {"CC", "EI"}]
  BY <1>0, <1>2 DEF EndCommand, DataAfter
<1>3. ASSUME NEW m \in Commands, SendCmd(m) PROVE TypeOK'
  BY <1>3 DEF SendCmd, TypeOK, controllerVars, cardVars
<1>4. CASE SetClock
  <2>1. DmType'
    BY <1>1, <1>4 DEF SetClock
  <2> QED BY <1>4, <2>1 DEF SetClock, TypeOK, driverVars, cardVars
<1>5. CASE WriteArgument
  BY <1>5 DEF WriteArgument, TypeOK, cardVars
<1>6. CASE FinishError
  BY <1>6 DEF FinishError, Return, TypeOK, cardVars
<1>7. CASE FinishComplete
  BY <1>7 DEF FinishComplete, Return, TypeOK, cardVars
<1>8. CASE DataFinish
  <2>1. DmType'
    BY <1>0, <1>8 DEF DataFinish
  <2> QED BY <1>8, <2>1 DEF DataFinish, Return, TypeOK, cardVars
<1>9. CASE CmdStart
  <2>1. DmType'
    <3>1. CASE cmd.op = "read" /\ dm.st = "IDLE"
      <4>1. dm' = [st |-> "RX", isr |-> dm.isr, xfer |-> cmd.xfer, k |-> 1]
        BY <1>0, <1>9, <3>1 DEF CmdStart
      <4>2. cmd.xfer.n \in 1 .. MaxBlocks
        BY <1>0
      <4> QED BY <1>0, <4>1, <4>2
    <3>2. CASE ~(cmd.op = "read" /\ dm.st = "IDLE")
      BY <1>0, <1>9, <3>2 DEF CmdStart
    <3> QED BY <3>1, <3>2
  <2>2. cm' \in [st : {"IDLE", "EXECUTE", "BUSY_CHECK"}, isr : SUBSET {"CC", "EI"}]
        /\ card' \in {"idle", "waiting", "ok", "bad", "none"}
    BY <1>9 DEF CmdStart, TypeOK
  <2> QED BY <1>9, <2>1, <2>2 DEF CmdStart, TypeOK, driverVars
<1>10. CASE CmdResponse
  <2>1. DmType' /\ cm' \in [st : {"IDLE", "EXECUTE", "BUSY_CHECK"}, isr : SUBSET {"CC", "EI"}]
    BY <1>2, <1>10 DEF CmdResponse
  <2> QED BY <1>10, <2>1 DEF CmdResponse, TypeOK, driverVars
<1>11. CASE CmdTimeout
  <2>1. DmType' /\ cm' \in [st : {"IDLE", "EXECUTE", "BUSY_CHECK"}, isr : SUBSET {"CC", "EI"}]
    BY <1>2, <1>11 DEF CmdTimeout
  <2> QED BY <1>11, <2>1 DEF CmdTimeout, TypeOK, driverVars
<1>12. CASE BusyEnd
  <2>1. DmType' /\ cm' \in [st : {"IDLE", "EXECUTE", "BUSY_CHECK"}, isr : SUBSET {"CC", "EI"}]
    BY <1>2, <1>12 DEF BusyEnd, TypeOK
  <2> QED BY <1>12, <2>1 DEF BusyEnd, TypeOK, driverVars, cardVars
<1>13. ASSUME NEW damaged \in BOOLEAN, DataIn(damaged) PROVE TypeOK'
  <2>1. Head(dat) \in Content /\ dat' \in Seq(Content)
    BY <1>13, HeadTailProperties DEF DataIn, TypeOK
  <2>2. mem' \in [Dsts -> [1 .. MaxBlocks -> Content]]
    <3>1. Other \in Content
      BY DEF Content
    <3>2. mem \in [Dsts -> [1 .. MaxBlocks -> Content]]
      BY DEF TypeOK
    <3>3. CASE dm.st = "RX"
      <4>1. PICK c \in Content : mem' = [mem EXCEPT ![dm.xfer.dst][dm.k] = c]
        BY <1>13, <2>1, <3>1, <3>3 DEF DataIn
      <4>2. dm.xfer.dst \in Dsts /\ dm.k \in 1 .. MaxBlocks
        BY <1>0
      <4>3. [mem[dm.xfer.dst] EXCEPT ![dm.k] = c] \in [1 .. MaxBlocks -> Content]
        BY <3>2, <4>2
      <4> QED BY <3>2, <4>1, <4>3
    <3>4. CASE dm.st # "RX"
      BY <1>13, <3>2, <3>4 DEF DataIn
    <3> QED BY <3>3, <3>4
  <2>3. DmType'
    <3>1. CASE dm.st # "RX"
      BY <1>0, <1>13, <3>1 DEF DataIn
    <3>2. CASE dm.st = "RX" /\ (damaged \/ dm.k = dm.xfer.n)
      <4>1. dm.isr \cup {"EI"} \in SUBSET {"CC", "EI"} /\ dm.isr \cup {"CC"} \in SUBSET {"CC", "EI"}
        BY <1>0
      <4> QED BY <1>1, <1>13, <3>2, <4>1 DEF DataIn
    <3>3. CASE dm.st = "RX" /\ ~damaged /\ dm.k # dm.xfer.n
      <4>1. dm' = [dm EXCEPT !.k = @ + 1]
        BY <1>13, <3>3 DEF DataIn
      <4>2. dm.k + 1 <= dm.xfer.n /\ dm.k + 1 \in 1 .. MaxBlocks
        BY <1>0, <3>3
      <4> QED BY <1>0, <4>1, <4>2
    <3> QED BY <3>1, <3>2, <3>3
  <2> QED BY <1>13, <2>1, <2>2, <2>3 DEF DataIn, TypeOK, driverVars
<1>14. ASSUME NEW damaged \in BOOLEAN, DataOut(damaged) PROVE TypeOK'
  <2>1. dm.isr \cup (IF damaged THEN {"EI"} ELSE {"CC"}) \in SUBSET {"CC", "EI"}
    BY <1>0
  <2>2. DmType'
    BY <1>1, <1>14, <2>1 DEF DataOut
  <2> QED BY <1>14, <2>2 DEF DataOut, TypeOK, driverVars, cardVars
<1>15. CASE CardGetsCommand
  <2>1. card' \in {"idle", "waiting", "ok", "bad", "none"}
    BY <1>15 DEF CardGetsCommand
  <2>2. dat' \in Seq(Content)
    <3>1. <<>> \in Seq(Content) /\ dat \in Seq(Content) /\ cmd \in Commands
      BY EmptySeq DEF TypeOK
    <3>2. \A n \in 0 .. cmd.xfer.n : SubSeq(Blocks(cmd), 1, n) \in Seq(Content)
      BY <3>1, BlocksType
    <3> QED BY <1>15, <3>1, <3>2 DEF CardGetsCommand
  <2> QED BY <1>15, <2>1, <2>2 DEF CardGetsCommand, TypeOK, driverVars, controllerVars
<1>16. CASE CardIgnoresCommand
  BY <1>16 DEF CardIgnoresCommand, TypeOK, driverVars, controllerVars
<1>17. CASE UNCHANGED vars
  BY <1>17 DEF vars, driverVars, controllerVars, cardVars, TypeOK
<1> QED
  BY <1>3, <1>4, <1>5, <1>6, <1>7, <1>8, <1>9, <1>10, <1>11, <1>12, <1>13, <1>14,
     <1>15, <1>16, <1>17 DEF Next

(* The driver and the controller stay within their registers and buffers:  *)
(* the receiver never counts past the blocks it was set up for.            *)
THEOREM TypeCorrect == Spec => []TypeOK
BY InitType, StepType, PTL DEF Spec

-----------------------------------------------------------------------------
(* The transaction of a command.                                           *)

CmdIdle == [st |-> "IDLE", isr |-> {}]

(* Only a driver in its polling loop has a command under way, and a card   *)
(* only answers while sd_cmd_master waits for it.                          *)
CommandInv ==
  /\ start => pc = "finish" /\ cm = CmdIdle
  /\ pc # "finish" => cm = CmdIdle
  /\ card # "idle" => cm.st = "EXECUTE"
  /\ pc = "data_finish" => cmd.op # "none"

LEMMA InitCommand == Init => CommandInv
BY DEF Init, CommandInv, CmdIdle

LEMMA StepCommand == TypeOK /\ CommandInv /\ [Next]_vars => CommandInv'
<1> SUFFICES ASSUME TypeOK, CommandInv, [Next]_vars PROVE CommandInv'
  OBVIOUS
<1>0. cm \in [st : {"IDLE", "EXECUTE", "BUSY_CHECK"}, isr : SUBSET {"CC", "EI"}]
  BY DEF TypeOK
<1>1. ASSUME NEW m \in Commands, SendCmd(m) PROVE CommandInv'
  BY <1>1 DEF SendCmd, CommandInv, CmdIdle, controllerVars, cardVars
<1>2. CASE SetClock
  BY <1>2 DEF SetClock, CommandInv, CmdIdle, driverVars, cardVars
<1>3. CASE WriteArgument
  BY <1>3 DEF WriteArgument, CommandInv, CmdIdle, cardVars
<1>4. CASE FinishError
  <2>1. cm.st = "IDLE" /\ ~start
    BY <1>4 DEF FinishError, CmdIntStatus, CommandInv, CmdIdle
  <2> QED BY <1>0, <1>4, <2>1 DEF FinishError, Return, CommandInv, CmdIdle, cardVars
<1>5. CASE FinishComplete
  <2>1. cm.st = "IDLE" /\ ~start
    BY <1>5 DEF FinishComplete, CmdIntStatus, CommandInv, CmdIdle
  <2> QED BY <1>0, <1>5, <2>1 DEF FinishComplete, Return, CommandInv, CmdIdle, cardVars
<1>6. CASE DataFinish
  BY <1>6 DEF DataFinish, Return, CommandInv, CmdIdle, cardVars
<1>7. CASE CmdStart
  BY <1>7 DEF CmdStart, CommandInv, CmdIdle, driverVars
<1>8. CASE CmdResponse
  BY <1>8 DEF CmdResponse, EndCommand, CommandInv, CmdIdle, driverVars
<1>9. CASE CmdTimeout
  BY <1>9 DEF CmdTimeout, EndCommand, CommandInv, CmdIdle, driverVars
<1>10. CASE BusyEnd
  BY <1>10 DEF BusyEnd, EndCommand, CommandInv, CmdIdle, driverVars, cardVars
<1>11. ASSUME NEW damaged \in BOOLEAN, DataIn(damaged) PROVE CommandInv'
  BY <1>11 DEF DataIn, CommandInv, driverVars
<1>12. ASSUME NEW damaged \in BOOLEAN, DataOut(damaged) PROVE CommandInv'
  BY <1>12 DEF DataOut, CommandInv, driverVars, cardVars
<1>13. CASE CardGetsCommand
  BY <1>13 DEF CardGetsCommand, CommandInv, driverVars, controllerVars
<1>14. CASE CardIgnoresCommand
  BY <1>14 DEF CardIgnoresCommand, CommandInv, driverVars, controllerVars
<1>15. CASE UNCHANGED vars
  BY <1>15 DEF vars, driverVars, controllerVars, cardVars, CommandInv
<1> QED
  BY <1>1, <1>2, <1>3, <1>4, <1>5, <1>6, <1>7, <1>8, <1>9, <1>10, <1>11, <1>12, <1>13,
     <1>14, <1>15 DEF Next

(* A start pulse always finds sd_cmd_master idle with no status pending,   *)
(* so no command is dropped and none is taken for complete by the status   *)
(* of the command before it.                                               *)
THEOREM StartReaches == Spec => []StartNeverLost
<1>1. CommandInv => StartNeverLost
  BY DEF CommandInv, StartNeverLost, CmdIdle
<1> QED BY <1>1, InitType, StepType, InitCommand, StepCommand, PTL DEF Spec

-----------------------------------------------------------------------------
(* The data path between the call and its return.                          *)

CleanNow == dm.st = "IDLE" /\ dm.isr = {} /\ dat = <<>>
ArmedNow == dm.st = "RX" /\ dm.isr = {} /\ dm.k = 1 /\ dat = <<>>

LEMMA PathsDiffer ==
  /\ Clean # Dirty
  /\ \A x : Armed(x) # Clean /\ Armed(x) # Dirty /\ Armed(x).xfer = x
BY DEF Clean, Dirty, Armed

LEMMA PathNowIs ==
  /\ CleanNow => PathNow = Clean
  /\ ArmedNow => PathNow = Armed(dm.xfer)
  /\ ~CleanNow /\ ~ArmedNow => PathNow = Dirty
BY DEF CleanNow, ArmedNow, PathNow

LEMMA PathNextIs ==
  /\ CleanNow' => PathNow' = Clean
  /\ ArmedNow' => PathNow' = Armed(dm'.xfer)
  /\ ~CleanNow' /\ ~ArmedNow' => PathNow' = Dirty
BY DEF CleanNow, ArmedNow, PathNow

(* The start pulse is gone.                                                *)
Sent == ~(pc = "argument" \/ start)

Untouched == PathNow = entry

(* What the receiver waits for while a read is under way.                  *)
Expected == IF entry = Clean THEN cmd.xfer ELSE entry.xfer

(* The receiver has got the first blocks of this read, and the ones on the *)
(* lines are the next ones.                                                *)
Filling ==
  /\ \A i \in 1 .. MaxBlocks : i < dm.k => mem[cmd.xfer.dst][i] = Unit(cmd.blk, i)
  /\ Len(dat) + dm.k <= cmd.xfer.n + 1
  /\ \A j \in 1 .. Len(dat) : dat[j] = Unit(cmd.blk, dm.k + j - 1)

ReadInv ==
  /\ ~Sent => Untouched
  /\ card = "waiting" => dm.st = "RX" /\ dm.k = 1 /\ dat = <<>>
  /\ dm.st # "TX"
  /\ dm.st = "RX" => dm.isr = {} /\ dm.xfer = Expected
  /\ Expected = cmd.xfer =>
       /\ dm.st = "RX" => Filling
       /\ "CC" \in dm.isr => dat = <<>> /\ Delivered

WriteInv ==
  /\ dat = <<>>
  /\ dm.st # "RX"
  /\ dm.isr # {} => dm.st = "IDLE"
  /\ ~Sent \/ cm.st # "IDLE" => Untouched

CallInv ==
  pc # "idle" /\ entry # Dirty =>
    /\ cmd.op = "read" => ReadInv
    /\ cmd.op = "write" /\ entry = Clean => WriteInv
    /\ cmd.op = "none" \/ (cmd.op = "write" /\ entry # Clean) => Untouched

EntryInv == entry \in Paths(S!Transfers) /\ dm.xfer \in S!Transfers

LEMMA InitPath == Init => CallInv /\ EntryInv
<1> SUFFICES ASSUME Init PROVE CallInv /\ EntryInv
  OBVIOUS
<1>1. pc = "idle" /\ entry = Clean /\ dm.xfer = cmd.xfer /\ cmd \in Commands
  BY DEF Init
<1>2. entry \in Paths(S!Transfers)
  BY <1>1 DEF Paths
<1>3. cmd.xfer \in S!Transfers
  BY <1>1 DEF S!Transfers
<1> QED BY <1>1, <1>2, <1>3 DEF CallInv, EntryInv

LEMMA StepEntry == TypeOK /\ EntryInv /\ [Next]_vars => EntryInv'
<1> SUFFICES ASSUME TypeOK, EntryInv, [Next]_vars PROVE EntryInv'
  OBVIOUS
<1>1. dm'.xfer \in {dm.xfer, cmd.xfer}
  BY DEF Next, TypeOK, vars, driverVars, controllerVars, cardVars, SendCmd, SetClock,
     WriteArgument, FinishError, FinishComplete, DataFinish, CmdStart, CmdResponse, CmdTimeout,
     BusyEnd, EndCommand, DataAfter, DataIn, DataOut, DataIdle, CardGetsCommand, CardIgnoresCommand
<1>2. entry' \in {entry, Clean, PathNow}
  BY DEF Next, vars, driverVars, controllerVars, cardVars, SendCmd, SetClock, Return,
     WriteArgument, FinishError, FinishComplete, DataFinish, CmdStart, CmdResponse, CmdTimeout,
     BusyEnd, DataIn, DataOut, CardGetsCommand, CardIgnoresCommand
<1>3. PathNow \in Paths(S!Transfers)
  BY PathNowIs DEF EntryInv, Paths
<1>4. cmd.xfer \in S!Transfers /\ Clean \in Paths(S!Transfers)
  BY DEF TypeOK, S!Transfers, Paths
<1> QED BY <1>1, <1>2, <1>3, <1>4 DEF EntryInv

(* An action that leaves the call and the data path alone.                 *)
LEMMA CallKept ==
  ASSUME CallInv, pc # "idle", UNCHANGED <<cmd, entry, dm, dat, mem>>,
         card' = "waiting" => card = "waiting",
         ~Sent' => ~Sent,
         cm'.st # "IDLE" => cm.st # "IDLE"
  PROVE  CallInv'
<1>1. (Untouched' <=> Untouched) /\ (Delivered' <=> Delivered) /\ (Filling' <=> Filling)
      /\ Expected' = Expected
  BY DEF Untouched, PathNow, Delivered, Filling, Expected
<1>2. ReadInv => ReadInv'
  BY <1>1 DEF ReadInv
<1>3. WriteInv => WriteInv'
  BY <1>1 DEF WriteInv
<1> QED BY <1>1, <1>2, <1>3 DEF CallInv

LEMMA StepCall == TypeOK /\ CommandInv /\ CallInv /\ EntryInv /\ [Next]_vars => CallInv'
<1> SUFFICES ASSUME TypeOK, CommandInv, CallInv, EntryInv, [Next]_vars,
                    pc' # "idle", entry' # Dirty
             PROVE  CallInv'
  BY DEF CallInv
<1>0. /\ cmd \in Commands
      /\ cmd.op \in {"none", "read", "write"} /\ cmd.xfer.n \in 1 .. MaxBlocks
      /\ MaxBlocks \in Nat /\ MaxBlocks >= 1
      /\ dm \in [st : {"IDLE", "RX", "TX"}, isr : SUBSET {"CC", "EI"},
                 xfer : [n : 1 .. MaxBlocks, dst : Dsts], k : 1 .. MaxBlocks]
      /\ cm \in [st : {"IDLE", "EXECUTE", "BUSY_CHECK"}, isr : SUBSET {"CC", "EI"}]
      /\ dat \in Seq(Content) /\ mem \in [Dsts -> [1 .. MaxBlocks -> Content]]
      /\ Len(dat) \in Nat
  BY CommandType, OcsdcAssumption, LenProperties DEF TypeOK
<1>1. ASSUME NEW m \in Commands, SendCmd(m) PROVE CallInv'
  <2>1. /\ pc = "idle" /\ pc' = "argument" /\ cmd' = m /\ entry' = PathNow
        /\ UNCHANGED <<start, cm, dm, card, dat, mem>>
    BY <1>1 DEF SendCmd, controllerVars, cardVars
  <2>2. cm = CmdIdle /\ card = "idle" /\ m.xfer.n \in 1 .. MaxBlocks
    BY <2>1, CommandType DEF CommandInv, CmdIdle
  <2>3. Untouched' /\ (CleanNow \/ ArmedNow)
    BY <2>1, PathNowIs DEF Untouched, PathNow
  <2>4. ReadInv'
    <3>1. dm.st = "RX" => dm'.xfer = Expected'
      BY <2>1, <2>3, PathNowIs, PathsDiffer DEF Expected, ArmedNow, CleanNow
    <3>2. dm.st = "RX" => Filling'
      <4>1. dm.st = "RX" => dm'.k = 1 /\ dat' = <<>>
        BY <2>1, <2>3 DEF ArmedNow, CleanNow
      <4> QED BY <2>1, <2>2, <4>1, EmptySeq DEF Filling
    <3> QED BY <2>1, <2>2, <2>3, <3>1, <3>2 DEF ReadInv, ArmedNow, CleanNow
  <2>5. entry' = Clean => WriteInv'
    <3>1. entry' = Clean => CleanNow
      BY <2>1, <2>3, PathNowIs, PathsDiffer
    <3> QED BY <2>1, <2>3, <3>1 DEF WriteInv, CleanNow
  <2> QED BY <2>3, <2>4, <2>5 DEF CallInv
<1>2. CASE SetClock
  BY <1>2 DEF SetClock, driverVars
<1>3. CASE WriteArgument
  BY <1>3, CallKept DEF WriteArgument, Sent, cardVars
<1>4. CASE FinishError
  BY <1>4 DEF FinishError, Return
<1>5. CASE FinishComplete
  <2>1. cm.st = "IDLE" /\ pc' = "data_finish" /\ cm'.st = "IDLE" /\ ~start
    BY <1>0, <1>5 DEF FinishComplete, Return, CmdIntStatus, CommandInv, CmdIdle
  <2> QED BY <1>5, <2>1, CallKept DEF FinishComplete, Return, Sent, cardVars
<1>6. CASE DataFinish
  BY <1>6 DEF DataFinish, Return
<1>7. CASE CmdStart
  <2>1. /\ pc = "finish" /\ cm = CmdIdle /\ ~Sent
        /\ UNCHANGED <<pc, cmd, entry, dat, mem>>
        /\ card' = "waiting" /\ start' = FALSE /\ cm'.st = "EXECUTE"
    BY <1>7 DEF CmdStart, CommandInv, CmdIdle, Sent, driverVars
  <2>2. CASE cmd.op # "read"
    <3>1. dm' = dm /\ Untouched' = Untouched
      BY <1>7, <2>1, <2>2 DEF CmdStart, Untouched, PathNow
    <3> QED BY <2>1, <2>2, <3>1 DEF CallInv, WriteInv, Sent
  <2>3. CASE cmd.op = "read"
    <3>0. entry # Dirty /\ ReadInv /\ PathNow = entry
      BY <2>1, <2>3 DEF CallInv, ReadInv, Untouched
    <3>1. ReadInv /\ ((CleanNow /\ entry = Clean) \/ (ArmedNow /\ entry # Clean))
      <4>1. CASE CleanNow
        BY <3>0, <4>1, PathNowIs
      <4>2. CASE ArmedNow
        BY <3>0, <4>2, PathNowIs, PathsDiffer
      <4> QED BY <3>0, <4>1, <4>2, PathNowIs
    <3>2. dm'.st = "RX" /\ dm'.k = 1 /\ dm'.isr = {} /\ dm'.xfer = Expected' /\ dat' = <<>>
      <4>1. CASE CleanNow /\ entry = Clean
        BY <1>0, <1>7, <2>1, <2>3, <4>1 DEF CmdStart, CleanNow, Expected
      <4>2. CASE ArmedNow /\ entry # Clean
        BY <1>0, <1>7, <2>1, <2>3, <3>1, <4>2 DEF CmdStart, ArmedNow, Expected, ReadInv
      <4> QED BY <3>1, <4>1, <4>2
    <3>3. Filling'
      BY <1>0, <2>1, <3>2, EmptySeq DEF Filling
    <3> QED BY <2>1, <2>3, <3>2, <3>3 DEF CallInv, ReadInv, Sent
  <2> QED BY <2>2, <2>3
<1> DEFINE Ends == /\ cm.st # "IDLE" /\ UNCHANGED <<pc, start, cmd, entry, dat, mem>>
                   /\ card' # "waiting"
<1>8. ASSUME NEW st \in {"IDLE", "BUSY_CHECK"}, NEW isr, Ends, EndCommand(st, isr)
      PROVE  CallInv'
  <2>1. pc = "finish" /\ Sent' /\ cm'.st = st
    BY <1>8 DEF CommandInv, CmdIdle, EndCommand, Sent
  <2>2. CASE dm' = dm
    BY <1>8, <2>1, <2>2, CallKept DEF Sent
  <2>3. CASE dm' # dm
    <3>1. st = "IDLE" /\ cmd.op = "write" /\ dm.st = "IDLE" /\ dm' = [dm EXCEPT !.st = "TX"]
      BY <1>8, <2>3 DEF EndCommand, DataAfter
    <3>2. entry = Clean /\ WriteInv /\ CleanNow
      <4>1. Untouched
        BY <1>8, <2>1, <3>1 DEF CallInv, WriteInv
      <4>2. CleanNow
        BY <1>8, <2>1, <3>1, <4>1, PathNowIs DEF Untouched, ArmedNow
      <4> QED BY <1>8, <2>1, <3>1, <4>1, <4>2, PathNowIs DEF CallInv, Untouched
    <3>3. dm'.st = "TX" /\ dm'.isr = {}
      BY <1>0, <3>1, <3>2 DEF CleanNow
    <3> QED BY <1>8, <2>1, <3>1, <3>2, <3>3 DEF CallInv, WriteInv
  <2> QED BY <2>2, <2>3
<1>9. CASE CmdResponse
  BY <1>8, <1>9 DEF CmdResponse, driverVars
<1>10. CASE CmdTimeout
  BY <1>8, <1>10 DEF CmdTimeout, driverVars
<1>11. CASE BusyEnd
  BY <1>8, <1>11 DEF BusyEnd, CommandInv, driverVars, cardVars
<1>12. ASSUME NEW damaged \in BOOLEAN, DataIn(damaged) PROVE CallInv'
  <2>0. \A isr : DataIdle(isr).st = "IDLE" /\ DataIdle(isr).isr = isr
    BY <1>0 DEF DataIdle
  <2>1. /\ dat # <<>> /\ dat' = Tail(dat) /\ UNCHANGED <<pc, cmd, entry, start, cm, card>>
        /\ dm.st # "RX" => UNCHANGED <<dm, mem>>
    BY <1>12 DEF DataIn, driverVars
  <2>2. ~Untouched
    BY <2>1, PathNowIs DEF Untouched, CleanNow, ArmedNow
  <2>3. cmd.op = "read" /\ ReadInv /\ Sent /\ Sent' /\ card # "waiting"
    BY <1>0, <2>1, <2>2 DEF CallInv, WriteInv, ReadInv, Sent
  <2>4. CASE dm.st # "RX"
    BY <2>1, <2>3, <2>4 DEF CallInv, ReadInv, Expected
  <2>5. CASE dm.st = "RX" /\ Expected # cmd.xfer
    <3>1. \/ dm'.st = "IDLE"
          \/ dm'.st = "RX" /\ dm'.isr = dm.isr /\ dm'.xfer = dm.xfer
      <4>1. \/ dm'.st = "IDLE"
            \/ dm' = [dm EXCEPT !.k = @ + 1]
        BY <1>12, <2>0, <2>5 DEF DataIn
      <4>2. ([dm EXCEPT !.k = @ + 1]).st = dm.st /\ ([dm EXCEPT !.k = @ + 1]).isr = dm.isr
            /\ ([dm EXCEPT !.k = @ + 1]).xfer = dm.xfer
        BY <1>0
      <4> QED BY <2>5, <4>1, <4>2
    <3> QED BY <2>1, <2>3, <2>5, <3>1 DEF CallInv, ReadInv, Expected
  <2>6. CASE dm.st = "RX" /\ Expected = cmd.xfer
    <3>1. Filling /\ dm.isr = {} /\ dm.xfer = cmd.xfer
      BY <2>3, <2>6 DEF ReadInv
    <3>2. /\ Head(dat) = Unit(cmd.blk, dm.k) /\ Len(dat') = Len(dat) - 1
          /\ \A j \in 1 .. Len(dat') : dat'[j] = Unit(cmd.blk, dm.k + 1 + j - 1)
      <4>1. Len(dat) >= 1 /\ dat[1] = Unit(cmd.blk, dm.k + 1 - 1)
        BY <1>0, <2>1, <3>1, EmptySeq DEF Filling
      <4>2. Head(dat) = dat[1]
        BY <1>0, <2>1
      <4>3. Len(dat') = Len(dat) - 1 /\ \A j \in 1 .. Len(dat') : dat'[j] = dat[j + 1]
        BY <1>0, <2>1, HeadTailProperties
      <4>4. \A j \in 1 .. Len(dat') : dat[j + 1] = Unit(cmd.blk, dm.k + (j + 1) - 1)
        BY <1>0, <3>1, <4>3 DEF Filling
      <4>5. dm.k + 1 - 1 = dm.k /\ \A j \in Nat : dm.k + (j + 1) - 1 = dm.k + 1 + j - 1
        BY <1>0
      <4>6. \A j \in 1 .. Len(dat') : j \in Nat
        OBVIOUS
      <4> QED BY <4>1, <4>2, <4>3, <4>4, <4>5, <4>6
    <3>3. CASE damaged
      <4>1. dm'.st = "IDLE" /\ dm'.isr = {"EI"}
        <5>1. dm' = DataIdle(dm.isr \cup {"EI"})
          BY <1>12, <2>6, <3>3 DEF DataIn
        <5> QED BY <2>0, <3>1, <5>1
      <4> QED BY <2>1, <2>3, <4>1 DEF CallInv, ReadInv
    <3>4. ASSUME ~damaged
          PROVE  \A i \in 1 .. MaxBlocks : i < dm.k + 1 => mem'[cmd.xfer.dst][i] = Unit(cmd.blk, i)
      <4>1. mem' = [mem EXCEPT ![cmd.xfer.dst][dm.k] = Head(dat)]
        BY <1>12, <2>6, <3>1, <3>4 DEF DataIn
      <4>2. cmd.xfer.dst \in Dsts
        BY <1>0, CommandType
      <4>3. mem'[cmd.xfer.dst] = [mem[cmd.xfer.dst] EXCEPT ![dm.k] = Head(dat)]
        BY <1>0, <4>1, <4>2
      <4> QED BY <1>0, <3>1, <3>2, <4>2, <4>3 DEF Filling
    <3>5. CASE ~damaged /\ dm.k = cmd.xfer.n
      <4>1. dm'.st = "IDLE" /\ dm'.isr = {"CC"}
        <5>1. dm' = DataIdle(dm.isr \cup {"CC"})
          BY <1>12, <2>6, <3>1, <3>5 DEF DataIn
        <5> QED BY <2>0, <3>1, <5>1
      <4>2. dat' = <<>>
        <5>1. Len(dat') = 0
          BY <1>0, <2>1, <3>1, <3>2, <3>5, EmptySeq DEF Filling
        <5>2. dat' \in Seq(Content)
          BY <1>0, <2>1, HeadTailProperties
        <5> QED BY <5>1, <5>2, EmptySeq
      <4>3. Delivered'
        <5>1. \A i \in 1 .. cmd.xfer.n : i \in 1 .. MaxBlocks /\ i < dm.k + 1
          BY <1>0, <3>5
        <5>2. \A i \in 1 .. cmd.xfer.n : mem'[cmd.xfer.dst][i] = Unit(cmd.blk, i)
          BY <3>4, <3>5, <5>1
        <5> QED BY <2>1, <5>2 DEF Delivered
      <4> QED BY <2>1, <2>3, <4>1, <4>2, <4>3 DEF CallInv, ReadInv
    <3>6. CASE ~damaged /\ dm.k # cmd.xfer.n
      <4>1. dm' = [dm EXCEPT !.k = @ + 1]
        BY <1>12, <2>6, <3>1, <3>6 DEF DataIn
      <4>2. /\ dm'.st = "RX" /\ dm'.isr = {} /\ dm'.xfer = cmd.xfer /\ dm'.k = dm.k + 1
        BY <1>0, <2>6, <3>1, <4>1
      <4>3. Filling'
        <5>1. Len(dat') + (dm.k + 1) <= cmd.xfer.n + 1
          BY <1>0, <3>1, <3>2 DEF Filling
        <5> QED BY <2>1, <3>2, <3>4, <3>6, <4>2, <5>1 DEF Filling
      <4> QED BY <2>1, <2>3, <2>6, <4>2, <4>3 DEF CallInv, ReadInv, Expected
    <3> QED BY <3>3, <3>5, <3>6
  <2> QED BY <2>4, <2>5, <2>6
<1>13. ASSUME NEW damaged \in BOOLEAN, DataOut(damaged) PROVE CallInv'
  <2>1. /\ dm.st = "TX" /\ UNCHANGED <<pc, cmd, entry, start, cm, card, dat, mem>>
        /\ dm'.st = "IDLE"
    BY <1>0, <1>13 DEF DataOut, DataIdle, driverVars, cardVars
  <2>2. ~Untouched
    BY <2>1, PathNowIs DEF Untouched, CleanNow, ArmedNow
  <2>3. cmd.op = "write" /\ entry = Clean /\ WriteInv
    BY <1>0, <2>1, <2>2 DEF CallInv, ReadInv
  <2> QED BY <2>1, <2>2, <2>3 DEF CallInv, WriteInv, Sent
<1>14. CASE CardGetsCommand
  <2>1. /\ card = "waiting" /\ card' # "waiting"
        /\ UNCHANGED <<pc, cmd, ret, entry, good, start, cm, dm, mem>>
    BY <1>14 DEF CardGetsCommand, driverVars, controllerVars
  <2>2. pc = "finish" /\ Sent /\ Sent' /\ pc' # "idle"
    BY <2>1 DEF CommandInv, CmdIdle, Sent
  <2>3. CASE cmd.op = "read"
    <3>1. ReadInv /\ dm.st = "RX" /\ dm.k = 1 /\ dm.isr = {} /\ dat = <<>>
      BY <2>1, <2>2, <2>3 DEF CallInv, ReadInv
    <3>2. PICK n \in 0 .. cmd.xfer.n : dat' = SubSeq(Blocks(cmd), 1, n)
      BY <1>14, <2>3, <3>1 DEF CardGetsCommand
    <3>3. Filling'
      <4>1. Len(dat') = n /\ \A i \in 1 .. n : dat'[i] = Unit(cmd.blk, i)
        BY <1>0, <3>2, BlocksType
      <4>2. \A i \in 1 .. n : 1 + i - 1 = i
        BY <1>0
      <4> QED BY <1>0, <2>1, <3>1, <4>1, <4>2 DEF Filling
    <3> QED BY <2>1, <2>2, <2>3, <3>1, <3>3 DEF CallInv, ReadInv, Expected
  <2>4. CASE cmd.op = "write"
    <3>1. dat' = dat
      BY <1>14, <2>4 DEF CardGetsCommand
    <3> QED BY <2>1, <2>2, <3>1, CallKept
  <2>5. CASE cmd.op = "none"
    <3>1. Untouched
      BY <2>1, <2>2, <2>5 DEF CallInv
    <3>2. dat = <<>> /\ dat' \in {dat, <<>>}
      BY <1>14, <2>1, <2>5, <3>1, PathNowIs DEF CardGetsCommand, Untouched, CleanNow, ArmedNow
    <3> QED BY <2>1, <2>2, <3>2, CallKept
  <2> QED BY <1>0, <2>3, <2>4, <2>5
<1>15. CASE CardIgnoresCommand
  BY <1>15, CallKept DEF CardIgnoresCommand, driverVars, controllerVars, Sent, CommandInv, CmdIdle
<1>16. CASE UNCHANGED vars
  BY <1>16, CallKept DEF vars, driverVars, controllerVars, cardVars, Sent
<1> QED
  BY <1>1, <1>2, <1>3, <1>4, <1>5, <1>6, <1>7, <1>9, <1>10, <1>11, <1>12, <1>13, <1>14,
     <1>15, <1>16 DEF Next

-----------------------------------------------------------------------------
(* The refinement.                                                         *)

LEMMA InOutcome ==
  ASSUME NEW rets, NEW goods, NEW paths, NEW r \in rets, NEW g \in goods, NEW q \in paths
  PROVE  [ret |-> r, good |-> g, path |-> q] \in Outcome(rets, goods, paths)
BY DEF Outcome

(* The rows of DataPath, one by one.                                       *)
LEMMA PlainRow ==
  ASSUME NEW p, NEW m, NEW T, NEW q, m.op = "none",
         q \in IF p = Dirty THEN Paths(T) ELSE {p}
  PROVE  /\ [ret |-> "ok", good |-> TRUE, path |-> q] \in Outcomes(p, m, TRUE, T)
         /\ [ret |-> "err", good |-> FALSE, path |-> q] \in Outcomes(p, m, FALSE, T)
<1> DEFINE paths == IF p = Dirty THEN Paths(T) ELSE {p}
<1>1. /\ Outcomes(p, m, TRUE, T) = Outcome({"ok"}, {TRUE}, paths)
      /\ Outcomes(p, m, FALSE, T) = Outcome({"err"}, {FALSE}, paths)
  BY DEF Outcomes
<1> HIDE DEF paths
<1>2. q \in paths
  BY DEF paths
<1>3. [ret |-> "ok", good |-> TRUE, path |-> q] \in Outcome({"ok"}, {TRUE}, paths)
  BY <1>2, InOutcome
<1>4. [ret |-> "err", good |-> FALSE, path |-> q] \in Outcome({"err"}, {FALSE}, paths)
  BY <1>2, InOutcome
<1> QED BY <1>1, <1>3, <1>4

LEMMA DirtyRow ==
  ASSUME NEW p, NEW m, NEW T, NEW r \in {"ok", "err"}, NEW g \in BOOLEAN, NEW q \in Paths(T),
         m.op # "none", p = Dirty, r = "err" => g = FALSE
  PROVE  [ret |-> r, good |-> g, path |-> q] \in Outcomes(p, m, TRUE, T)
<1>1. Outcomes(p, m, TRUE, T) =
        Outcome({"err"}, {FALSE}, Paths(T)) \cup Outcome({"ok"}, BOOLEAN, Paths(T))
  BY DEF Outcomes
<1>2. CASE r = "ok"
  BY <1>1, <1>2, InOutcome
<1>3. CASE r = "err"
  BY <1>1, <1>3, InOutcome
<1> QED BY <1>2, <1>3

LEMMA UnansweredRow ==
  ASSUME NEW p, NEW m, NEW T, NEW q, m.op # "none", p # Dirty,
         q \in {Dirty, IF m.op = "read" /\ p = Clean THEN Armed(m.xfer) ELSE p}
  PROVE  [ret |-> "err", good |-> FALSE, path |-> q] \in Outcomes(p, m, FALSE, T)
<1>1. Outcomes(p, m, FALSE, T) =
        Outcome({"err"}, {FALSE}, {Dirty, IF m.op = "read" /\ p = Clean THEN Armed(m.xfer) ELSE p})
  BY DEF Outcomes
<1> QED BY ZenonT(60), <1>1, InOutcome

LEMMA OwnRow ==
  ASSUME NEW p, NEW m, NEW T, m.op # "none", p # Dirty,
         p = Clean \/ (m.op = "read" /\ p = Armed(m.xfer))
  PROVE  /\ [ret |-> "ok", good |-> TRUE, path |-> Clean] \in Outcomes(p, m, TRUE, T)
         /\ [ret |-> "err", good |-> FALSE, path |-> Clean] \in Outcomes(p, m, TRUE, T)
         /\ m.op = "read" =>
              [ret |-> "err", good |-> FALSE, path |-> Dirty] \in Outcomes(p, m, TRUE, T)
<1>1. Outcomes(p, m, TRUE, T) =
        Outcome({"ok"}, {TRUE}, {Clean})
          \cup Outcome({"err"}, {FALSE}, IF m.op = "read" THEN {Clean, Dirty} ELSE {Clean})
  BY DEF Outcomes
<1>2. [ret |-> "ok", good |-> TRUE, path |-> Clean] \in Outcome({"ok"}, {TRUE}, {Clean})
  BY InOutcome
<1>3. \A q \in IF m.op = "read" THEN {Clean, Dirty} ELSE {Clean} :
        [ret |-> "err", good |-> FALSE, path |-> q] \in
          Outcome({"err"}, {FALSE}, IF m.op = "read" THEN {Clean, Dirty} ELSE {Clean})
  BY InOutcome
<1> QED BY <1>1, <1>2, <1>3

LEMMA OtherRow ==
  ASSUME NEW p, NEW m, NEW T, NEW r \in {"ok", "err"}, NEW g \in BOOLEAN, NEW q \in {Clean, Dirty},
         m.op # "none", p # Dirty, ~(p = Clean \/ (m.op = "read" /\ p = Armed(m.xfer))),
         r = "err" => g = FALSE
  PROVE  [ret |-> r, good |-> g, path |-> q] \in Outcomes(p, m, TRUE, T)
<1>1. Outcomes(p, m, TRUE, T) =
        Outcome({"ok"}, BOOLEAN, {Clean, Dirty}) \cup Outcome({"err"}, {FALSE}, {Clean, Dirty})
  BY DEF Outcomes
<1>2. CASE r = "ok"
  BY <1>1, <1>2, InOutcome
<1>3. CASE r = "err"
  BY <1>1, <1>3, InOutcome
<1> QED BY <1>2, <1>3

(* SendCmd and Ocsdc speak of the same data path.                          *)
LEMMA SamePath ==
  /\ S!Clean = Clean /\ S!Dirty = Dirty
  /\ \A x : S!Armed(x) = Armed(x)
  /\ \A T : S!Paths(T) = Paths(T)
  /\ \A a, b, c : S!Outcome(a, b, c) = Outcome(a, b, c)
<1>1. S!Clean = Clean /\ S!Dirty = Dirty /\ \A x : S!Armed(x) = Armed(x)
  BY DEF S!Clean, Clean, S!Dirty, Dirty, S!Armed, Armed
<1>2. ASSUME NEW T PROVE S!Paths(T) = Paths(T)
  BY <1>1 DEF S!Paths, Paths
<1>3. \A a, b, c : S!Outcome(a, b, c) = Outcome(a, b, c)
  BY DEF S!Outcome, Outcome
<1> QED BY <1>1, <1>2, <1>3

LEMMA SameOutcomes ==
  ASSUME NEW p, NEW m, NEW a, NEW T
  PROVE  S!Outcomes(p, m, a, T) = Outcomes(p, m, a, T)
BY SamePath DEF S!Outcomes, Outcomes

LEMMA SameReset ==
  ASSUME NEW p PROVE S!AfterReset(p) = AfterReset(p)
BY SamePath DEF S!AfterReset, AfterReset

Answer(r) == [ret |-> r, good |-> (r = "ok" /\ Delivered), path |-> PathNow']

LEMMA ReturnsAsPromised ==
  ASSUME TypeOK, NEW r \in {"ok", "err"}, Return(r), pc # "idle", NEW answered \in BOOLEAN,
         Answer(r) \in Outcomes(entry, cmd, answered, S!Transfers)
  PROVE  S!Return
<1>1. cmd # S!NoCall
  <2>1. cmd.op # "no call"
    BY CommandType DEF TypeOK
  <2>2. S!NoCall.op = "no call"
    BY DEF S!NoCall
  <2> QED BY <2>1, <2>2
<1>2. ret' = r /\ good' = (r = "ok" /\ Delivered) /\ pc' = "idle"
  BY DEF Return
<1>3. \E o \in Outcomes(entry, cmd, answered, S!Transfers) :
        ret' = o.ret /\ good' = o.good /\ PathNow' = o.path
  <2>1. ret' = Answer(r).ret /\ good' = Answer(r).good /\ PathNow' = Answer(r).path
    BY <1>2 DEF Answer
  <2> WITNESS Answer(r) \in Outcomes(entry, cmd, answered, S!Transfers)
  <2> QED BY <2>1
<1>4. \E o \in S!Outcomes(entry, cmd, answered, S!Transfers) :
        ret' = o.ret /\ good' = o.good /\ PathNow' = o.path
  BY <1>3, SameOutcomes
<1> QED BY <1>1, <1>2, <1>4 DEF S!Return, S!NoCall

LEMMA NextPathType == EntryInv' => PathNow' \in Paths(S!Transfers)
BY PathNextIs DEF EntryInv, Paths

(* A command without data, or a call that found the data path dirty.       *)
LEMMA PlainOutcome ==
  ASSUME TypeOK, CallInv, EntryInv', pc # "idle", UNCHANGED <<dm, dat>>,
         NEW r \in {"ok", "err"}, cmd.op = "none"
  PROVE  \E answered \in BOOLEAN : Answer(r) \in Outcomes(entry, cmd, answered, S!Transfers)
<1>1. PathNow' \in Paths(S!Transfers) /\ PathNow' = PathNow
  BY NextPathType DEF PathNow
<1>2. entry # Dirty => PathNow' = entry
  BY <1>1 DEF CallInv, Untouched
<1>3. PathNow' \in IF entry = Dirty THEN Paths(S!Transfers) ELSE {entry}
  BY <1>1, <1>2
<1>4. CASE r = "ok"
  <2>1. Answer(r) = [ret |-> "ok", good |-> TRUE, path |-> PathNow']
    BY <1>4 DEF Answer, Delivered
  <2> QED BY <1>3, <2>1, PlainRow
<1>5. CASE r = "err"
  <2>1. Answer(r) = [ret |-> "err", good |-> FALSE, path |-> PathNow']
    BY <1>5 DEF Answer
  <2> QED BY <1>3, <2>1, PlainRow
<1> QED BY <1>4, <1>5

LEMMA DirtyOutcome ==
  ASSUME EntryInv', NEW r \in {"ok", "err"}, cmd.op # "none", entry = Dirty
  PROVE  Answer(r) \in Outcomes(entry, cmd, TRUE, S!Transfers)
<1>1. PathNow' \in Paths(S!Transfers)
  BY NextPathType
<1>2. (r = "ok" /\ Delivered) \in BOOLEAN
  OBVIOUS
<1>3. r = "err" => (r = "ok" /\ Delivered) = FALSE
  OBVIOUS
<1> QED BY <1>1, <1>2, <1>3, DirtyRow DEF Answer

(* The command of a transfer failed.                                       *)
LEMMA FailedOutcome ==
  ASSUME TypeOK, CallInv, EntryInv, pc # "idle", UNCHANGED <<dm, dat>>,
         cmd.op # "none", entry # Dirty
  PROVE  \E answered \in BOOLEAN :
           Answer("err") \in Outcomes(entry, cmd, answered, S!Transfers)
<1>1. cmd.op \in {"read", "write"}
  BY CommandType DEF TypeOK
<1>2. PathNow' \in {Clean, Dirty, Armed(dm.xfer)} /\ PathNow' = PathNow
  BY PathNowIs DEF PathNow
<1>3. Answer("err") = [ret |-> "err", good |-> FALSE, path |-> PathNow']
  BY DEF Answer
<1>4. CASE cmd.op = "read" /\ entry = Clean
  <2>1. ArmedNow => dm.xfer = cmd.xfer
    BY <1>4 DEF CallInv, ReadInv, Expected, ArmedNow
  <2>2. PathNow' \in {Clean, Dirty, Armed(cmd.xfer)}
    BY <1>2, <2>1, PathNowIs
  <2>3. CASE PathNow' \in {Clean, Dirty}
    <3>1. Answer("err") \in Outcomes(entry, cmd, TRUE, S!Transfers)
      BY <1>3, <1>4, <2>3, PathsDiffer, OwnRow
    <3> QED BY <3>1
  <2>4. CASE PathNow' = Armed(cmd.xfer)
    <3>1. Answer("err") \in Outcomes(entry, cmd, FALSE, S!Transfers)
      BY <1>3, <1>4, <2>4, PathsDiffer, UnansweredRow
    <3> QED BY <3>1
  <2> QED BY <2>2, <2>3, <2>4
<1>5. CASE cmd.op = "read" /\ entry # Clean
  <2>1. ArmedNow => dm.xfer = entry.xfer
    BY <1>5 DEF CallInv, ReadInv, Expected, ArmedNow
  <2>2. PICK x : entry = Armed(x)
    BY <1>5 DEF EntryInv, Paths
  <2>3. PathNow' \in {Clean, Dirty, entry}
    BY <1>2, <2>1, <2>2, PathNowIs, PathsDiffer
  <2>4. CASE PathNow' \in {Clean, Dirty}
    <3>1. Answer("err") \in Outcomes(entry, cmd, TRUE, S!Transfers)
      BY <1>3, <1>5, <2>4, OwnRow, OtherRow
    <3> QED BY <3>1
  <2>5. CASE PathNow' = entry
    <3>1. Answer("err") \in Outcomes(entry, cmd, FALSE, S!Transfers)
      BY <1>3, <1>5, <2>5, UnansweredRow
    <3> QED BY <3>1
  <2> QED BY <2>3, <2>4, <2>5
<1>6. CASE cmd.op = "write"
  <2>1. PathNow' \in {Dirty, entry}
    <3>1. CASE entry = Clean
      <4>1. ~ArmedNow
        BY <1>6, <3>1 DEF CallInv, WriteInv, ArmedNow
      <4> QED BY <1>2, <3>1, <4>1, PathNowIs
    <3>2. CASE entry # Clean
      BY <1>2, <1>6, <3>2 DEF CallInv, Untouched
    <3> QED BY <3>1, <3>2
  <2>2. Answer("err") \in Outcomes(entry, cmd, FALSE, S!Transfers)
    BY <1>3, <1>6, <2>1, UnansweredRow
  <2> QED BY <2>2
<1> QED BY <1>1, <1>4, <1>5, <1>6

(* The data of a transfer came to an end, or the status of another did.    *)
LEMMA FinishedOutcome ==
  ASSUME TypeOK, CommandInv, CallInv, DataFinish, entry # Dirty
  PROVE  Answer(IF "CC" \in dm.isr THEN "ok" ELSE "err")
           \in Outcomes(entry, cmd, TRUE, S!Transfers)
<1> DEFINE r == IF "CC" \in dm.isr THEN "ok" ELSE "err"
<1>1. pc = "data_finish" /\ dm.isr # {} /\ dm' = [dm EXCEPT !.isr = {}] /\ dat' = dat
  BY DEF DataFinish, cardVars
<1>2. cmd.op \in {"read", "write"}
  BY <1>1, CommandType DEF TypeOK, CommandInv
<1>3. dm'.st = dm.st /\ dm'.isr = {} /\ dm.st \in {"IDLE", "RX", "TX"}
  BY <1>1 DEF TypeOK
<1>4. CASE cmd.op = "read"
  <2>1. ReadInv /\ dm.st = "IDLE"
    BY <1>1, <1>3, <1>4 DEF CallInv, ReadInv
  <2>2. PathNow' \in {Clean, Dirty}
    BY <1>3, <2>1, PathNextIs DEF ArmedNow
  <2>3. CASE entry = Clean \/ entry = Armed(cmd.xfer)
    <3>1. Expected = cmd.xfer
      BY <2>3, PathsDiffer DEF Expected
    <3>2. CASE "CC" \in dm.isr
      <4>1. dat = <<>> /\ Delivered
        BY <2>1, <3>1, <3>2 DEF ReadInv
      <4>2. PathNow' = Clean
        BY <1>1, <1>3, <2>1, <4>1, PathNextIs DEF CleanNow
      <4>3. Answer(r) = [ret |-> "ok", good |-> TRUE, path |-> Clean]
        BY <3>2, <4>1, <4>2 DEF Answer
      <4> QED BY <1>4, <2>3, <4>3, OwnRow
    <3>3. CASE "CC" \notin dm.isr
      <4>1. Answer(r) = [ret |-> "err", good |-> FALSE, path |-> PathNow']
        BY <3>3 DEF Answer
      <4> QED BY <1>4, <2>2, <2>3, <4>1, OwnRow
    <3> QED BY <3>2, <3>3
  <2>4. CASE entry # Clean /\ entry # Armed(cmd.xfer)
    <3>1. \/ Answer(r) = [ret |-> "ok", good |-> Delivered, path |-> PathNow']
          \/ Answer(r) = [ret |-> "err", good |-> FALSE, path |-> PathNow']
      BY DEF Answer, Delivered
    <3>2. \A g \in BOOLEAN : [ret |-> "ok", good |-> g, path |-> PathNow']
                               \in Outcomes(entry, cmd, TRUE, S!Transfers)
      BY <1>4, <2>2, <2>4, OtherRow
    <3>3. CASE Answer(r) = [ret |-> "ok", good |-> Delivered, path |-> PathNow']
      <4>1. Delivered \in BOOLEAN
        BY DEF Delivered
      <4> QED BY <3>2, <3>3, <4>1
    <3>4. CASE Answer(r) = [ret |-> "err", good |-> FALSE, path |-> PathNow']
      BY <1>4, <2>2, <2>4, <3>4, OtherRow
    <3> QED BY <3>1, <3>3, <3>4
  <2> QED BY <2>3, <2>4
<1>5. CASE cmd.op = "write"
  <2>1. entry = Clean
    <3>1. CASE entry # Clean
      <4>1. PathNow = entry
        BY <1>1, <1>5, <3>1 DEF CallInv, Untouched
      <4> QED BY <1>1, <3>1, <4>1, PathNowIs DEF CleanNow, ArmedNow
    <3> QED BY <3>1
  <2>2. WriteInv
    BY <1>1, <1>5, <2>1 DEF CallInv
  <2>3. PathNow' = Clean
    BY <1>1, <1>3, <2>2, PathNextIs DEF WriteInv, CleanNow
  <2>4. \/ Answer(r) = [ret |-> "ok", good |-> TRUE, path |-> Clean]
        \/ Answer(r) = [ret |-> "err", good |-> FALSE, path |-> Clean]
    BY <1>5, <2>3 DEF Answer, Delivered
  <2> QED BY <1>5, <2>1, <2>4, OwnRow
<1> QED BY <1>2, <1>4, <1>5

LEMMA SettlesAsPromised ==
  ASSUME pc = "idle", pc' = "idle", UNCHANGED <<ret, good>>, PathNow' \in AfterReset(PathNow)
  PROVE  S!Settle
BY SameReset DEF S!Settle, S!NoCall

LEMMA InitRefines == Init => S!Init
<1> SUFFICES ASSUME Init PROVE S!Init
  OBVIOUS
<1>1. PathNow = Clean
  BY DEF Init, PathNow
<1> QED BY <1>1, SamePath DEF Init, S!Init, S!NoCall

LEMMA StepRefines ==
  /\ TypeOK /\ CommandInv /\ CallInv /\ EntryInv /\ EntryInv'
  /\ [Next]_vars
  => [S!Next]_(S!vars)
<1> SUFFICES ASSUME TypeOK, CommandInv, CallInv, EntryInv, EntryInv', [Next]_vars
             PROVE  [S!Next]_(S!vars)
  OBVIOUS
<1>0. /\ dm \in [st : {"IDLE", "RX", "TX"}, isr : SUBSET {"CC", "EI"},
                 xfer : [n : 1 .. MaxBlocks, dst : Dsts], k : 1 .. MaxBlocks]
      /\ MaxBlocks \in Nat
  BY OcsdcAssumption DEF TypeOK
<1>1. ASSUME pc # "idle", pc' # "idle", UNCHANGED <<cmd, entry, ret, good>>
      PROVE  UNCHANGED S!vars
  BY <1>1 DEF S!vars
<1>2. ASSUME pc = "idle", pc' = "idle", UNCHANGED <<ret, good>>, PathNow' \in AfterReset(PathNow)
      PROVE  S!Next
  BY <1>2, SettlesAsPromised DEF S!Next
<1>3. ASSUME pc # "idle", NEW r \in {"ok", "err"}, Return(r),
             \E answered \in BOOLEAN : Answer(r) \in Outcomes(entry, cmd, answered, S!Transfers)
      PROVE  S!Next
  BY <1>3, ReturnsAsPromised DEF S!Next
<1>4. ASSUME NEW m \in Commands, SendCmd(m) PROVE S!Next
  <2>1. S!Call(m)
    BY <1>4 DEF SendCmd, S!Call, S!NoCall, PathNow, controllerVars, cardVars
  <2> QED BY <2>1 DEF S!Next
<1>5. CASE SetClock
  <2>1. dm'.st = "IDLE" /\ dm'.isr = {} /\ dat' = dat
    BY <1>0, <1>5 DEF SetClock, DataIdle, cardVars
  <2>2. PathNow' \in AfterReset(PathNow)
    <3>1. CASE dat = <<>>
      BY <2>1, <3>1, PathNextIs DEF CleanNow, AfterReset
    <3>2. CASE dat # <<>>
      BY <2>1, <3>2, PathNowIs, PathNextIs DEF CleanNow, ArmedNow, AfterReset
    <3> QED BY <3>1, <3>2
  <2> QED BY <1>2, <1>5, <2>2 DEF SetClock, driverVars
<1>6. CASE WriteArgument
  BY <1>1, <1>6 DEF WriteArgument
<1>7. CASE FinishError
  <2>1. pc # "idle" /\ Return("err") /\ UNCHANGED <<dm, dat>>
    BY <1>7 DEF FinishError, cardVars
  <2>2. \E answered \in BOOLEAN : Answer("err") \in Outcomes(entry, cmd, answered, S!Transfers)
    BY <2>1, PlainOutcome, DirtyOutcome, FailedOutcome
  <2> QED BY <1>3, <2>1, <2>2
<1>8. CASE FinishComplete
  <2>1. CASE cmd.op = "none"
    <3>1. pc # "idle" /\ Return("ok") /\ UNCHANGED <<dm, dat>>
      BY <1>8, <2>1 DEF FinishComplete, cardVars
    <3>2. \E answered \in BOOLEAN : Answer("ok") \in Outcomes(entry, cmd, answered, S!Transfers)
      BY <2>1, <3>1, PlainOutcome
    <3> QED BY <1>3, <3>1, <3>2
  <2>2. CASE cmd.op # "none"
    BY <1>1, <1>8, <2>2 DEF FinishComplete
  <2> QED BY <2>1, <2>2
<1>9. CASE DataFinish
  <2> DEFINE r == IF "CC" \in dm.isr THEN "ok" ELSE "err"
  <2>1. pc # "idle" /\ Return(r) /\ r \in {"ok", "err"} /\ cmd.op # "none"
    BY <1>9 DEF DataFinish, CommandInv
  <2>2. Answer(r) \in Outcomes(entry, cmd, TRUE, S!Transfers)
    BY <1>9, <2>1, DirtyOutcome, FinishedOutcome
  <2> HIDE DEF r
  <2> QED BY <1>3, <2>1, <2>2
<1>10. CASE CmdStart
  BY <1>1, <1>10 DEF CmdStart, CommandInv, driverVars
<1>11. CASE CmdResponse
  BY <1>1, <1>11 DEF CmdResponse, CommandInv, CmdIdle, driverVars
<1>12. CASE CmdTimeout
  BY <1>1, <1>12 DEF CmdTimeout, CommandInv, CmdIdle, driverVars
<1>13. CASE BusyEnd
  BY <1>1, <1>13 DEF BusyEnd, CommandInv, CmdIdle, driverVars
<1>14. ASSUME NEW damaged \in BOOLEAN, DataIn(damaged) PROVE [S!Next]_(S!vars)
  <2>1. dat # <<>> /\ UNCHANGED <<pc, cmd, entry, ret, good>>
    BY <1>14 DEF DataIn, driverVars
  <2>2. ~ArmedNow'
    <3>1. CASE dm.st # "RX"
      BY <1>14, <3>1 DEF DataIn, ArmedNow
    <3>2. CASE dm.st = "RX"
      <4>1. \/ dm' \in {DataIdle(dm.isr \cup {"EI"}), DataIdle(dm.isr \cup {"CC"})}
            \/ dm' = [dm EXCEPT !.k = @ + 1]
        BY <1>14, <3>2 DEF DataIn
      <4>2. dm'.st = "IDLE" \/ dm'.k # 1
        <5>1. \A isr : DataIdle(isr).st = "IDLE"
          BY <1>0 DEF DataIdle
        <5>2. ([dm EXCEPT !.k = @ + 1]).k = dm.k + 1 /\ dm.k + 1 # 1
          BY <1>0
        <5> QED BY <4>1, <5>1, <5>2
      <4> QED BY <4>2 DEF ArmedNow
    <3> QED BY <3>1, <3>2
  <2>3. PathNow = Dirty /\ PathNow' \in {Clean, Dirty}
    BY <2>1, <2>2, PathNowIs, PathNextIs DEF CleanNow, ArmedNow
  <2>4. PathNow' \in AfterReset(PathNow)
    BY <2>3 DEF AfterReset
  <2> QED BY <1>1, <1>2, <2>1, <2>4
<1>15. ASSUME NEW damaged \in BOOLEAN, DataOut(damaged) PROVE [S!Next]_(S!vars)
  <2>1. /\ dm.st = "TX" /\ UNCHANGED <<pc, cmd, entry, ret, good, dat>>
        /\ dm'.st = "IDLE"
    BY <1>0, <1>15 DEF DataOut, DataIdle, driverVars, cardVars
  <2>2. PathNow = Dirty /\ PathNow' \in {Clean, Dirty}
    BY <2>1, PathNowIs, PathNextIs DEF CleanNow, ArmedNow
  <2>3. PathNow' \in AfterReset(PathNow)
    BY <2>2 DEF AfterReset
  <2> QED BY <1>1, <1>2, <2>1, <2>3
<1>16. CASE CardGetsCommand
  BY <1>1, <1>16 DEF CardGetsCommand, CommandInv, CmdIdle, driverVars
<1>17. CASE CardIgnoresCommand
  BY <1>1, <1>17 DEF CardIgnoresCommand, CommandInv, CmdIdle, driverVars
<1>18. CASE UNCHANGED vars
  BY <1>18 DEF vars, driverVars, controllerVars, cardVars, S!vars, PathNow
<1> QED
  BY <1>4, <1>5, <1>6, <1>7, <1>8, <1>9, <1>10, <1>11, <1>12, <1>13, <1>14, <1>15, <1>16,
     <1>17, <1>18 DEF Next

(* ocsdc_send_cmd on its controller comes to nothing but what SendCmd      *)
(* allows, whatever the commands and whatever the lines and the card do:   *)
(* in particular a read that found the data path clean and is reported as  *)
(* a success has filled its buffer.                                        *)
THEOREM Implementation == Spec => ImplementsSendCmd
<1>1. Init => TypeOK /\ CommandInv /\ CallInv /\ EntryInv
  BY InitType, InitCommand, InitPath
<1>2. TypeOK /\ CommandInv /\ CallInv /\ EntryInv /\ [Next]_vars
        => (TypeOK /\ CommandInv /\ CallInv /\ EntryInv)'
  BY StepType, StepCommand, StepCall, StepEntry
<1> QED BY <1>1, <1>2, InitRefines, StepRefines, PTL DEF Spec, ImplementsSendCmd, S!Spec
=============================================================================
