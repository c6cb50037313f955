---------------------------- MODULE HostProofs -----------------------------
(***************************************************************************)
(* Proofs about what extensions ask of the host, for every value of the     *)
(* constants.  FfmpegCommands: IInv is inductive and contains               *)
(* CommandsSound.  SignedSession, with AuthRegistry: SessionInv is          *)
(* inductive and contains LoginsSound, ExchangesInv gives the action        *)
(* property of the OAuth records.  ExtensionFiles: FilesInv.                *)
(***************************************************************************)
EXTENDS FfmpegCommands, SignedSession, ExtensionFiles, FiniteSetTheorems, TLAPS

AtWork == {"take", "ffmpeg", "rename", "complete"}

(* Only a pump at work has commands in hand, and it runs one exactly        *)
(* between taking it up and completing it.                                  *)
PumpsAtWork ==
  \A p \in Ops :
    /\ batch[p] # {} => pump[p] \in AtWork
    /\ job[p] # NoJob <=> pump[p] \in {"ffmpeg", "rename", "complete"}

(* A thread inside execute() has drawn a number, and one that is about to   *)
(* draw it has one left.                                                    *)
RoundsLeft ==
  \A o \in Ops :
    /\ exec[o] \in {"checked", "loop", "parked", "dropping"} => round[o] >= 1
    /\ exec[o] = "watched" => round[o] < Rounds[o]

(* No entry was ever made under this id: ids are not used twice.            *)
Unused(id) ==
  \/ id[2] > round[id[1]]
  \/ id[2] = round[id[1]] /\ exec[id[1]] = "checked"

(* What a pump has in hand was inserted once and is not pending any more.   *)
(* Hence once it is absent it stays absent.                                 *)
HandsClaimed ==
  \A p \in Ops : \A id \in Hands(p) : ~Unused(id) /\ entry[id] # "pending"

(* A result is on its way to execute(): from the verdict of a pump through  *)
(* the entry to what execute() returns.                                     *)
ResultsTrue ==
  /\ \A p \in Ops : pump[p] = "complete" =>
       /\ verdict[p] = "ok" => job[p] \in published
       /\ verdict[p] = "cancelled" => entry[job[p]] = "absent"
  /\ \A id \in CommandIds : (entry[id] = "ok" => id \in published) /\ entry[id] # "cancelled"
  /\ \A o \in Ops : outcome[o] # "none" => exec[o] = "dropping"

IInv ==
  /\ TypeOK /\ ClaimedOnce /\ ClaimsServed /\ EntriesOwned /\ OwnResult
  /\ PumpsAtWork /\ RoundsLeft /\ HandsClaimed /\ ResultsTrue

-----------------------------------------------------------------------------
(* The ids of an operation are the pairs of it and its numbers.             *)
LEMMA CommandIdsAre ==
  /\ Rounds \in [Ops -> Nat] /\ NoJob \notin CommandIds
  /\ \A id \in CommandIds : id[1] \in Ops /\ id[2] \in 1 .. Rounds[id[1]] /\ id = <<id[1], id[2]>>
  /\ \A o \in Ops : \A n \in 1 .. Rounds[o] : <<o, n>> \in CommandIds
<1>1. Rounds \in [Ops -> Nat] BY FfmpegAssumption DEF Rounds
<1>2. \A id : id \in CommandIds <=> \E o \in Ops : id \in {o} \X (1 .. Rounds[o]) BY DEF CommandIds
<1>3. \A id \in CommandIds : id[1] \in Ops /\ id[2] \in 1 .. Rounds[id[1]] /\ id = <<id[1], id[2]>>
  BY <1>2
<1>4. \A o \in Ops : \A n \in 1 .. Rounds[o] : <<o, n>> \in CommandIds BY <1>2
<1>5. NoJob \notin CommandIds
  <2>1. \A id \in CommandIds : id \in Ops \X Nat
    <3> SUFFICES ASSUME NEW id \in CommandIds PROVE id \in Ops \X Nat OBVIOUS
    <3>1. id[2] \in Nat BY <1>1, <1>3
    <3> QED BY <1>3, <3>1
  <2> QED BY <2>1, FfmpegAssumption
<1> QED BY <1>1, <1>3, <1>4, <1>5

(* The command execute() works on is an id of its operation.                *)
LEMMA CurrentIs ==
  ASSUME TypeOK, RoundsLeft, NEW o \in Ops,
         exec[o] \in {"checked", "loop", "parked", "dropping"}
  PROVE  /\ Current(o) \in CommandIds /\ Current(o)[1] = o /\ Current(o)[2] = round[o]
<1>1. round[o] \in 1 .. Rounds[o] BY CommandIdsAre DEF TypeOK, RoundsLeft
<1> QED BY <1>1, CommandIdsAre DEF Current

LEMMA InitIInv == Init => IInv
<1> SUFFICES ASSUME Init PROVE IInv OBVIOUS
<1>1. TypeOK
  BY CommandIdsAre DEF Init, TypeOK, EntryState, Verdict, Outcome, ExecState, PumpState
<1>2. \A p \in Ops : Hands(p) = {} BY DEF Init, Hands
<1>3. /\ ClaimedOnce /\ ClaimsServed /\ HandsClaimed
  BY <1>2 DEF Init, ClaimedOnce, ClaimsServed, HandsClaimed
<1>4. EntriesOwned /\ OwnResult /\ PumpsAtWork /\ RoundsLeft /\ ResultsTrue
  BY DEF Init, EntriesOwned, Active, OwnResult, PumpsAtWork, RoundsLeft, ResultsTrue
<1> QED BY <1>1, <1>3, <1>4 DEF IInv

(* Steps that touch neither entries nor pumps, nor let a thread enter or    *)
(* leave execute().                                                         *)
LEMMA QuietIInv ==
  ASSUME IInv, TypeOK', UNCHANGED <<entry, round, outcome, pumpVars, published>>,
         shut' = "closed" => shut = "closed",
         \A o \in Ops : exec'[o] = exec[o] \/ {exec[o], exec'[o]} \subseteq {"loop", "parked"}
  PROVE  IInv'
<1>1. \A p \in Ops : Hands(p)' = Hands(p) BY DEF pumpVars, Hands
<1>2. \A id \in CommandIds : Unused(id)' = Unused(id) BY CommandIdsAre DEF Unused
<1>3. ClaimedOnce' /\ ClaimsServed'
  BY <1>1 DEF IInv, ClaimedOnce, ClaimsServed, pumpVars
<1>4. HandsClaimed'
  BY <1>1, <1>2 DEF IInv, HandsClaimed, TypeOK, Hands
<1>5. EntriesOwned' BY CommandIdsAre DEF IInv, EntriesOwned, Active, Current
<1>6. OwnResult' /\ PumpsAtWork' /\ RoundsLeft' /\ ResultsTrue'
  BY DEF IInv, OwnResult, PumpsAtWork, RoundsLeft, ResultsTrue, pumpVars, TypeOK, Current
<1> QED BY <1>3, <1>4, <1>5, <1>6 DEF IInv

LEMMA QuietStepsIInv ==
  ASSUME IInv,
         \/ \E o \in Ops : Unparked(o) \/ ParkTimeout(o) \/ EndBlock(o) \/ Interrupt(o) \/ Alarm(o)
         \/ CloseEnvironment
  PROVE  IInv'
<1>1. TypeOK'
  <2>1. ASSUME NEW o \in Ops, Unparked(o) PROVE TypeOK'
    BY <2>1 DEF IInv, TypeOK, Unparked, ExecState, registry, control, pumpVars
  <2>4. ASSUME NEW o \in Ops, ParkTimeout(o) PROVE TypeOK'
    <3>1. PICK late \in {expired[o], TRUE} : expired' = [expired EXCEPT ![o] = late]
      BY <2>4 DEF ParkTimeout
    <3>2. expired' \in [Ops -> BOOLEAN] BY <3>1 DEF IInv, TypeOK
    <3>3. exec' \in [Ops -> ExecState] BY <2>4 DEF IInv, TypeOK, ParkTimeout, ExecState
    <3> QED BY <2>4, <3>2, <3>3 DEF IInv, TypeOK, ParkTimeout, registry, control, pumpVars
  <2>2. ASSUME NEW o \in Ops, EndBlock(o) \/ Interrupt(o) \/ Alarm(o) PROVE TypeOK'
    BY <2>2 DEF IInv, TypeOK, EndBlock, Interrupt, Alarm, registry, execVars, control, pumpVars
  <2>3. ASSUME CloseEnvironment PROVE TypeOK'
    BY <2>3 DEF IInv, TypeOK, CloseEnvironment, execVars, pumpVars
  <2> QED BY <2>1, <2>2, <2>3, <2>4
<1>2. /\ UNCHANGED <<entry, round, outcome, pumpVars, published>>
      /\ shut' = "closed" => shut = "closed"
  BY DEF Unparked, ParkTimeout, EndBlock, Interrupt, Alarm, CloseEnvironment, registry, execVars, pumpVars
<1>3. \A o \in Ops : exec'[o] = exec[o] \/ {exec[o], exec'[o]} \subseteq {"loop", "parked"}
  BY DEF IInv, TypeOK, Unparked, ParkTimeout, EndBlock, Interrupt, Alarm, CloseEnvironment, execVars
<1> QED BY <1>1, <1>2, <1>3, QuietIInv

(* Before execute() has inserted its command it has no entry; a new number  *)
(* is one that nobody has in hand.                                          *)
LEMMA EnterIInv == ASSUME IInv, NEW o \in Ops, Watch(o) \/ Check(o) PROVE IInv'
<1>1. TypeOK'
  <2>1. CASE Watch(o)
    BY <2>1 DEF IInv, TypeOK, Watch, ExecState, registry, control, pumpVars
  <2>2. CASE Check(o)
    <3>1. round' \in [Ops -> Nat] /\ \A q \in Ops : round'[q] <= Rounds[q]
      BY <2>2, CommandIdsAre DEF IInv, TypeOK, RoundsLeft, Check
    <3>2. exec' \in [Ops -> ExecState] BY <2>2 DEF IInv, TypeOK, Check, ExecState
    <3> QED BY <2>2, <3>1, <3>2 DEF IInv, TypeOK, Check, registry, control, pumpVars
  <2> QED BY <2>1, <2>2
<1>2. /\ exec[o] \in {"idle", "watched"} /\ exec'[o] \notin {"loop", "parked", "dropping"}
      /\ \A q \in Ops : q # o => exec'[q] = exec[q] /\ round'[q] = round[q]
      /\ UNCHANGED <<entry, shut, outcome, pump, batch, job, verdict, published>>
  BY DEF Watch, Check, registry, pumpVars, IInv, TypeOK
<1>3. \A p \in Ops : Hands(p)' = Hands(p) BY <1>2 DEF Hands
<1>4. \A id \in CommandIds : Unused(id)' => Unused(id)
  BY CommandIdsAre DEF Watch, Check, Unused, IInv, TypeOK
<1>5. ClaimedOnce' /\ ClaimsServed'
  BY <1>2, <1>3 DEF IInv, ClaimedOnce, ClaimsServed
<1>6. HandsClaimed' BY <1>2, <1>3, <1>4 DEF IInv, HandsClaimed, TypeOK, Hands
<1>7. EntriesOwned' BY <1>2, CommandIdsAre DEF IInv, EntriesOwned, Active, Current
<1>8. OwnResult' BY <1>2 DEF IInv, OwnResult, ResultsTrue, Current
<1>9. PumpsAtWork' /\ ResultsTrue' BY <1>2 DEF IInv, PumpsAtWork, ResultsTrue
<1>10. RoundsLeft' BY <1>1, CommandIdsAre DEF IInv, TypeOK, RoundsLeft, Watch, Check
<1> QED BY <1>1, <1>5, <1>6, <1>7, <1>8, <1>9, <1>10 DEF IInv

(* The new command is in nobody's hands, since its id was not used.         *)
LEMMA InsertIInv == ASSUME IInv, NEW o \in Ops, Insert(o) PROVE IInv'
<1>1. Current(o) \in CommandIds /\ Current(o)[1] = o /\ Current(o)[2] = round[o] /\ Unused(Current(o))
  BY CurrentIs DEF Insert, IInv, Unused
<1>2. /\ exec[o] = "checked" /\ exec'[o] \in {"idle", "loop"}
      /\ \A q \in Ops : q # o => exec'[q] = exec[q]
      /\ UNCHANGED <<shut, round, outcome, batch, job, verdict, published>>
      /\ \A q \in Ops : pump'[q] # pump[q] => pump[q] = "asleep" /\ pump'[q] = "waiting"
  BY DEF Insert, NotifyAll, IInv, TypeOK
<1>3. \A id \in CommandIds : entry'[id] # entry[id] =>
        id = Current(o) /\ entry'[id] = "pending" /\ exec'[o] = "loop" /\ shut # "closed"
  BY DEF Insert, IInv, TypeOK
<1>4. TypeOK'
  BY <1>1 DEF IInv, TypeOK, Insert, NotifyAll, EntryState, ExecState, PumpState, control
<1>5. \A p \in Ops : Hands(p)' = Hands(p) /\ Current(o) \notin Hands(p)
  BY <1>1, <1>2 DEF Hands, IInv, HandsClaimed
<1>6. \A id \in CommandIds : Unused(id)' => Unused(id) BY <1>2, CommandIdsAre DEF Unused
<1>7. ClaimedOnce' BY <1>5 DEF IInv, ClaimedOnce
<1>8. ClaimsServed' BY <1>2, <1>3, <1>5 DEF IInv, ClaimsServed
<1>9. HandsClaimed' BY <1>3, <1>5, <1>6 DEF IInv, HandsClaimed, TypeOK, Hands
<1>10. EntriesOwned' BY <1>1, <1>2, <1>3, CommandIdsAre DEF IInv, EntriesOwned, Active, Current
<1>11. OwnResult' /\ PumpsAtWork'
  BY <1>2 DEF IInv, OwnResult, Current, PumpsAtWork, AtWork
<1>12. RoundsLeft' BY <1>2 DEF IInv, RoundsLeft
<1>13. ResultsTrue'
  <2>1. \A p \in Ops : pump'[p] = "complete" =>
          /\ pump[p] = "complete" /\ job[p] # NoJob /\ job[p] \in Hands(p)
    BY <1>2 DEF IInv, PumpsAtWork, Hands
  <2>2. \A p \in Ops : pump'[p] = "complete" => entry'[job[p]] = entry[job[p]]
    BY <2>1, <1>3, <1>5 DEF IInv, TypeOK
  <2> QED BY <2>1, <2>2, <1>2, <1>3 DEF IInv, ResultsTrue
<1> QED BY <1>4, <1>7, <1>8, <1>9, <1>10, <1>11, <1>12, <1>13 DEF IInv

(* Taking out a result, and dropping the command, leave no entry behind.    *)
LEMMA TurnIInv == ASSUME IInv, NEW o \in Ops, Turn(o) PROVE IInv'
<1>1. Current(o) \in CommandIds /\ Current(o)[1] = o BY CurrentIs DEF Turn, IInv
<1>2. /\ exec[o] = "loop" /\ exec'[o] \in {"parked", "dropping"}
      /\ \A q \in Ops : q # o => exec'[q] = exec[q] /\ outcome'[q] = outcome[q]
      /\ UNCHANGED <<shut, round, expired, control, token, running, pump, batch, job, verdict, published>>
  BY DEF Turn, IInv, TypeOK, pumpVars
<1>3. \A id \in CommandIds : entry'[id] # entry[id] => id = Current(o) /\ entry'[id] = "absent"
  BY DEF Turn, IInv, TypeOK
<1>4. /\ exec'[o] = "dropping" => outcome'[o] = Returns(o)
      /\ exec'[o] # "dropping" => outcome'[o] = outcome[o]
      /\ Returns(o) \in Outcome
      /\ Returns(o) = "ok" => entry[Current(o)] = "ok"
      /\ Returns(o) = "cancelled" => entry[Current(o)] = "cancelled"
  BY <1>1 DEF Turn, Returns, IInv, TypeOK, Outcome, Verdict
<1>5. TypeOK'
  <2>1. entry' \in [CommandIds -> EntryState] BY DEF Turn, IInv, TypeOK, EntryState
  <2>2. exec' \in [Ops -> ExecState] BY DEF Turn, IInv, TypeOK, ExecState
  <2>3. outcome' \in [Ops -> Outcome] BY <1>4 DEF Turn, IInv, TypeOK
  <2> QED BY <1>2, <2>1, <2>2, <2>3 DEF IInv, TypeOK, control
<1>6. \A p \in Ops : Hands(p)' = Hands(p) BY <1>2 DEF Hands
<1>7. \A id \in CommandIds : Unused(id)' = Unused(id) BY <1>2, CommandIdsAre DEF Unused
<1>8. ClaimedOnce' BY <1>6 DEF IInv, ClaimedOnce
<1>9. ClaimsServed' BY <1>2, <1>3, <1>6 DEF IInv, ClaimsServed
<1>10. HandsClaimed' BY <1>3, <1>6, <1>7 DEF IInv, HandsClaimed, TypeOK, Hands
<1>11. EntriesOwned' BY <1>2, <1>3, CommandIdsAre DEF IInv, EntriesOwned, Active, Current
<1>12. OwnResult' BY <1>1, <1>2, <1>4 DEF IInv, OwnResult, ResultsTrue, Current
<1>13. PumpsAtWork' /\ RoundsLeft' BY <1>2 DEF IInv, PumpsAtWork, RoundsLeft
<1>14. ResultsTrue'
  <2>1. \A p \in Ops : pump'[p] = "complete" => job[p] \in CommandIds
    BY <1>2 DEF IInv, PumpsAtWork, TypeOK
  <2> QED BY <2>1, <1>2, <1>3, <1>4 DEF IInv, ResultsTrue
<1> QED BY <1>5, <1>8, <1>9, <1>10, <1>11, <1>12, <1>13, <1>14 DEF IInv

LEMMA DropPendingIInv == ASSUME IInv, NEW o \in Ops, DropPending(o) PROVE IInv'
<1>1. Current(o) \in CommandIds /\ Current(o)[1] = o BY CurrentIs DEF DropPending, IInv
<1>2. /\ exec[o] = "dropping" /\ exec'[o] = "idle" /\ outcome'[o] = "none"
      /\ \A q \in Ops : q # o => exec'[q] = exec[q] /\ outcome'[q] = outcome[q]
      /\ UNCHANGED <<shut, round, batch, job, verdict, published>>
      /\ \A q \in Ops : pump'[q] # pump[q] => pump[q] = "asleep" /\ pump'[q] = "waiting"
  BY DEF DropPending, NotifyAll, IInv, TypeOK
<1>3. /\ \A id \in CommandIds : entry'[id] # entry[id] => entry'[id] = "absent"
      /\ entry'[Current(o)] = "absent"
  BY <1>1 DEF DropPending, IInv, TypeOK
<1>4. TypeOK'
  BY DEF DropPending, NotifyAll, IInv, TypeOK, EntryState, ExecState, PumpState, Outcome, control
<1>5. \A p \in Ops : Hands(p)' = Hands(p) BY <1>2 DEF Hands
<1>6. \A id \in CommandIds : Unused(id)' => Unused(id) BY <1>2, CommandIdsAre DEF Unused
<1>7. ClaimedOnce' BY <1>5 DEF IInv, ClaimedOnce
<1>8. ClaimsServed' BY <1>2, <1>3, <1>5 DEF IInv, ClaimsServed
<1>9. HandsClaimed' BY <1>3, <1>5, <1>6 DEF IInv, HandsClaimed, TypeOK, Hands
<1>10. EntriesOwned' BY <1>2, <1>3, CommandIdsAre DEF IInv, EntriesOwned, Active, Current
<1>11. OwnResult' BY <1>2 DEF IInv, OwnResult, Current
<1>12. PumpsAtWork' /\ RoundsLeft' BY <1>2 DEF IInv, PumpsAtWork, AtWork, RoundsLeft
<1>13. ResultsTrue'
  <2>1. \A p \in Ops : pump'[p] = "complete" => pump[p] = "complete" /\ job[p] \in CommandIds
    BY <1>2 DEF IInv, PumpsAtWork, TypeOK
  <2> QED BY <2>1, <1>2, <1>3 DEF IInv, ResultsTrue
<1> QED BY <1>4, <1>7, <1>8, <1>9, <1>10, <1>11, <1>12, <1>13 DEF IInv

(* Closing the registry removes every entry; commands in hand are finished  *)
(* for nobody.                                                              *)
LEMMA ShutdownIInv == ASSUME IInv, Shutdown PROVE IInv'
<1>1. /\ UNCHANGED <<exec, round, outcome, batch, job, verdict, published>>
      /\ \A q \in Ops : pump'[q] # pump[q] => pump[q] = "asleep" /\ pump'[q] = "waiting"
      /\ \A id \in CommandIds : entry'[id] = "absent"
  BY DEF Shutdown, NotifyAll, execVars, IInv, TypeOK
<1>2. TypeOK'
  BY DEF Shutdown, NotifyAll, IInv, TypeOK, EntryState, PumpState, control, execVars
<1>3. \A p \in Ops : Hands(p)' = Hands(p) BY <1>1 DEF Hands
<1>4. \A id \in CommandIds : Unused(id)' = Unused(id) BY <1>1, CommandIdsAre DEF Unused
<1>5. ClaimedOnce' /\ ClaimsServed' BY <1>1, <1>3 DEF IInv, ClaimedOnce, ClaimsServed
<1>6. HandsClaimed' BY <1>1, <1>3, <1>4 DEF IInv, HandsClaimed, TypeOK, Hands
<1>7. EntriesOwned' /\ OwnResult'
  BY <1>1 DEF IInv, EntriesOwned, Active, OwnResult, Current
<1>8. PumpsAtWork' /\ RoundsLeft' BY <1>1 DEF IInv, PumpsAtWork, AtWork, RoundsLeft
<1>9. ResultsTrue'
  <2>1. \A p \in Ops : pump'[p] = "complete" => pump[p] = "complete" /\ job[p] \in CommandIds
    BY <1>1 DEF IInv, PumpsAtWork, TypeOK
  <2> QED BY <2>1, <1>1 DEF IInv, ResultsTrue
<1> QED BY <1>2, <1>5, <1>6, <1>7, <1>8, <1>9 DEF IInv
-----------------------------------------------------------------------------
(* What no step of a pump touches.                                          *)
PumpFrame == UNCHANGED <<shut, exec, round, outcome, expired, interrupted, alarm, running>>

LEMMA PumpFrameKeeps ==
  ASSUME IInv, PumpFrame
  PROVE  /\ RoundsLeft'
         /\ \A id : Unused(id)' = Unused(id)
         /\ \A o \in Ops : Current(o)' = Current(o)
         /\ published \subseteq published' => OwnResult'
         /\ (\A id \in CommandIds : Active(id)' => Active(id)) => EntriesOwned'
<1>1. RoundsLeft' BY DEF IInv, PumpFrame, RoundsLeft
<1>2. \A id : Unused(id)' = Unused(id) BY DEF PumpFrame, Unused
<1>3. \A o \in Ops : Current(o)' = Current(o) BY DEF PumpFrame, Current
<1>4. published \subseteq published' => OwnResult' BY <1>3 DEF IInv, OwnResult, PumpFrame
<1>5. (\A id \in CommandIds : Active(id)' => Active(id)) => EntriesOwned'
  BY <1>3, CommandIdsAre DEF IInv, EntriesOwned, PumpFrame
<1> QED BY <1>1, <1>2, <1>3, <1>4, <1>5

(* A claim takes what is pending, which no pump has in hand, and leaves     *)
(* nothing pending.                                                         *)
LEMMA PumpClaimIInv == ASSUME IInv, NEW p \in Ops, PumpClaim(p) PROVE IInv'
<1>1. PumpFrame /\ UNCHANGED <<job, verdict, published, token>>
  BY DEF PumpClaim, PumpFrame, execVars, control
<1>2. /\ pump[p] \in {"waiting", "late"} /\ batch'[p] = Pending
      /\ \A q \in Ops : q # p => pump'[q] = pump[q] /\ batch'[q] = batch[q]
      /\ pump'[p] \in {"stopped", "take", "waiting", "asleep"}
      /\ shut # "closed" /\ Pending # {} => pump'[p] = "take"
  BY DEF PumpClaim, IInv, TypeOK, Back
<1>3. \A id \in CommandIds :
        /\ entry[id] = "pending" => entry'[id] = "claimed"
        /\ entry[id] # "pending" => entry'[id] = entry[id]
        /\ id \in Pending <=> entry[id] = "pending"
  BY DEF PumpClaim, Pending
<1>4. Pending \subseteq CommandIds BY DEF Pending
<1>5. Hands(p) = {} /\ Hands(p)' = Pending /\ job[p] = NoJob
  BY <1>1, <1>2 DEF Hands, IInv, PumpsAtWork, AtWork
<1>6. \A q \in Ops : q # p => Hands(q)' = Hands(q) /\ Hands(q) \cap Pending = {}
  BY <1>1, <1>2 DEF Hands, IInv, HandsClaimed, Pending
<1>7. Pending # {} => shut # "closed"
  BY DEF Pending, IInv, EntriesOwned, Active
<1>8. TypeOK'
  <2>1. entry' \in [CommandIds -> EntryState] BY DEF PumpClaim, IInv, TypeOK, EntryState
  <2>2. pump' \in [Ops -> PumpState]
    <3>1. pump' = [pump EXCEPT ![p] = pump'[p]] BY DEF PumpClaim, IInv, TypeOK
    <3> QED BY <1>2, <3>1 DEF IInv, TypeOK, PumpState
  <2>3. batch' \in [Ops -> SUBSET CommandIds] BY <1>4 DEF PumpClaim, IInv, TypeOK
  <2> QED BY <1>1, <2>1, <2>2, <2>3 DEF IInv, TypeOK, PumpFrame
<1>9. ClaimedOnce' BY <1>5, <1>6 DEF IInv, ClaimedOnce
<1>10. ClaimsServed'
  <2> SUFFICES ASSUME NEW id \in CommandIds, entry'[id] = "claimed"
               PROVE  \E q \in Ops : id \in Hands(q)' /\ pump'[q] \in AtWork
    BY DEF ClaimsServed, AtWork
  <2>1. CASE id \in Pending BY <1>2, <1>5, <1>7, <2>1 DEF AtWork
  <2>2. CASE id \notin Pending
    <3>1. entry[id] = "claimed" BY <1>3, <2>2
    <3>2. PICK q \in Ops : id \in Hands(q) /\ pump[q] \in AtWork
      BY <3>1 DEF IInv, ClaimsServed, AtWork
    <3> QED BY <3>2, <1>5, <1>6, <1>2
  <2> QED BY <2>1, <2>2
<1>11. HandsClaimed'
  <2> SUFFICES ASSUME NEW q \in Ops, NEW id, id \in Hands(q)' PROVE ~Unused(id)' /\ entry'[id] # "pending"
    BY DEF HandsClaimed
  <2>1. Unused(id)' = Unused(id) BY <1>1, PumpFrameKeeps
  <2>2. CASE q = p
    <3>1. id \in CommandIds /\ entry[id] = "pending" BY <1>3, <1>4, <1>5, <2>2
    <3>2. ~Unused(id)
      <4>1. id = Current(id[1]) /\ exec[id[1]] # "checked" /\ id[1] \in Ops
        BY <3>1, CommandIdsAre DEF IInv, EntriesOwned, Active
      <4> QED BY <4>1 DEF Unused, Current, IInv, TypeOK
    <3> QED BY <3>1, <3>2, <2>1, <1>3
  <2>3. CASE q # p
    <3>1. id \in Hands(q) /\ id \in CommandIds BY <2>3, <1>6 DEF Hands, IInv, TypeOK
    <3> QED BY <3>1, <2>1, <1>3 DEF IInv, HandsClaimed
  <2> QED BY <2>2, <2>3
<1>12. EntriesOwned'
  <2>1. \A id \in CommandIds : Active(id)' => Active(id) BY <1>3 DEF Active
  <2> QED BY <2>1, <1>1, PumpFrameKeeps
<1>13. OwnResult' /\ RoundsLeft' BY <1>1, PumpFrameKeeps
<1>14. PumpsAtWork'
  <2>1. Pending # {} => pump'[p] = "take" BY <1>2, <1>7
  <2> QED BY <1>1, <1>2, <1>5, <2>1 DEF IInv, PumpsAtWork, AtWork
<1>15. ResultsTrue'
  <2>1. \A q \in Ops : pump'[q] = "complete" => q # p /\ pump[q] = "complete" /\ job[q] \in CommandIds
    BY <1>2 DEF IInv, PumpsAtWork, TypeOK
  <2>2. \A o \in Ops : outcome'[o] # "none" => exec'[o] = "dropping"
    BY <1>1 DEF IInv, ResultsTrue, PumpFrame
  <2> QED BY <2>1, <2>2, <1>1, <1>3 DEF IInv, ResultsTrue
<1> QED BY <1>8, <1>9, <1>10, <1>11, <1>12, <1>13, <1>14, <1>15 DEF IInv

(* Steps of a pump p that leave the entries alone, and every other pump.    *)
LEMMA OwnPumpIInv ==
  ASSUME IInv, NEW p \in Ops, PumpFrame, UNCHANGED <<entry, token>>, TypeOK',
         \A q \in Ops : q # p => /\ pump'[q] = pump[q] /\ batch'[q] = batch[q]
                                 /\ job'[q] = job[q] /\ verdict'[q] = verdict[q],
         Hands(p)' = Hands(p), Hands(p) # {} => pump'[p] \in AtWork,
         job'[p] # NoJob <=> pump'[p] \in {"ffmpeg", "rename", "complete"},
         published \subseteq published',
         pump'[p] = "complete" => /\ verdict'[p] = "ok" => job'[p] \in published'
                                  /\ verdict'[p] = "cancelled" => entry[job'[p]] = "absent"
  PROVE  IInv'
<1>1. \A q \in Ops : Hands(q)' = Hands(q) BY DEF Hands
<1>2. ClaimedOnce' BY <1>1 DEF IInv, ClaimedOnce
<1>3. ClaimsServed' BY <1>1 DEF IInv, ClaimsServed, AtWork
<1>4. HandsClaimed' BY <1>1, PumpFrameKeeps DEF IInv, HandsClaimed
<1>5. EntriesOwned' /\ OwnResult' /\ RoundsLeft' BY PumpFrameKeeps DEF Active
<1>6. PumpsAtWork' BY <1>1 DEF IInv, PumpsAtWork, Hands
<1>7. ResultsTrue'
  <2>1. \A o \in Ops : outcome'[o] # "none" => exec'[o] = "dropping"
    BY DEF IInv, ResultsTrue, PumpFrame
  <2> QED BY <2>1 DEF IInv, ResultsTrue
<1> QED BY <1>2, <1>3, <1>4, <1>5, <1>6, <1>7 DEF IInv

LEMMA PumpAwakeIInv ==
  ASSUME IInv, NEW p \in Ops, NEW where \in {"late", "waiting"}, PumpAwake(p, where)
  PROVE  IInv'
<1>1. PumpFrame /\ UNCHANGED <<entry, token, batch, job, verdict, published>>
  BY DEF PumpAwake, PumpFrame, registry, execVars, control
<1>2. pump[p] = "asleep" /\ pump' = [pump EXCEPT ![p] = where] BY DEF PumpAwake
<1>3. TypeOK' BY <1>1, <1>2 DEF IInv, TypeOK, PumpFrame, PumpState
<1>4. Hands(p)' = Hands(p) BY <1>1 DEF Hands
<1>5. Hands(p) = {} /\ job[p] = NoJob
  BY <1>2 DEF Hands, IInv, PumpsAtWork, AtWork
<1>6. pump'[p] = where /\ \A q \in Ops : q # p => pump'[q] = pump[q]
  BY <1>2 DEF IInv, TypeOK
<1> QED BY <1>1, <1>3, <1>4, <1>5, <1>6, OwnPumpIInv

(* A command that is taken up stays in hand; one that is not wanted any     *)
(* more is completed as cancelled.                                          *)
LEMMA PumpTakeIInv == ASSUME IInv, NEW p \in Ops, PumpTake(p) PROVE IInv'
<1>1. PumpFrame /\ UNCHANGED <<entry, token, published>> /\ pump[p] = "take"
  BY DEF PumpTake, PumpFrame, registry, execVars, control
<1>2. job[p] = NoJob BY <1>1 DEF IInv, PumpsAtWork
<1>3. CASE batch[p] = {}
  <2>1. pump' = [pump EXCEPT ![p] = Back(p)] /\ UNCHANGED <<batch, job, verdict>>
    BY <1>3 DEF PumpTake
  <2>2. Back(p) \in {"waiting", "stopped"} BY DEF Back
  <2>3. TypeOK' BY <1>1, <2>1, <2>2 DEF IInv, TypeOK, PumpFrame, PumpState
  <2>4. Hands(p)' = Hands(p) /\ Hands(p) = {} BY <1>2, <1>3, <2>1 DEF Hands
  <2>5. pump'[p] = Back(p) /\ \A q \in Ops : q # p => pump'[q] = pump[q]
    BY <2>1 DEF IInv, TypeOK
  <2> QED BY <1>1, <1>2, <2>1, <2>2, <2>3, <2>4, <2>5, OwnPumpIInv
<1>4. CASE batch[p] # {}
  <2>1. PICK id \in batch[p] :
          /\ batch' = [batch EXCEPT ![p] = @ \ {id}]
          /\ job' = [job EXCEPT ![p] = id]
          /\ pump' = [pump EXCEPT ![p] = IF Active(id) THEN "ffmpeg" ELSE "complete"]
          /\ verdict' = [verdict EXCEPT ![p] = IF Active(id) THEN @ ELSE "cancelled"]
    BY <1>4 DEF PumpTake
  <2>2. id \in CommandIds /\ id # NoJob BY CommandIdsAre DEF IInv, TypeOK
  <2>3. /\ batch'[p] = batch[p] \ {id} /\ job'[p] = id
        /\ pump'[p] = IF Active(id) THEN "ffmpeg" ELSE "complete"
        /\ ~Active(id) => verdict'[p] = "cancelled"
        /\ \A q \in Ops : q # p => /\ pump'[q] = pump[q] /\ batch'[q] = batch[q]
                                   /\ job'[q] = job[q] /\ verdict'[q] = verdict[q]
    BY <2>1 DEF IInv, TypeOK
  <2>4. TypeOK'
    BY <1>1, <2>1, <2>2 DEF IInv, TypeOK, PumpFrame, PumpState, Verdict
  <2>5. Hands(p)' = Hands(p) BY <1>2, <2>2, <2>3 DEF Hands
  <2> QED BY <1>1, <2>2, <2>3, <2>4, <2>5, OwnPumpIInv DEF Active, AtWork
<1> QED BY <1>3, <1>4

(* FFmpeg ends or is stopped, and its output is renamed: the verdict "ok"   *)
(* reaches complete() only through the rename.                              *)
LEMMA PumpRunIInv ==
  ASSUME IInv, NEW p \in Ops, FfmpegEnds(p) \/ FfmpegStops(p) \/ PumpRename(p)
  PROVE  IInv'
<1>1. /\ PumpFrame /\ UNCHANGED <<entry, token, batch, job>>
      /\ pump[p] \in {"ffmpeg", "rename"}
      /\ published' \in {published, published \cup {job[p]}}
  BY DEF FfmpegEnds, FfmpegStops, PumpRename, Go, PumpFrame, registry, execVars, control
<1>2. job[p] \in CommandIds BY <1>1 DEF IInv, TypeOK, PumpsAtWork
<1>3. PICK where \in {"rename", "complete"}, v \in Verdict :
        /\ pump' = [pump EXCEPT ![p] = where] /\ verdict' = [verdict EXCEPT ![p] = v]
        /\ where = "complete" => /\ v = "ok" => job[p] \in published'
                                 /\ v = "cancelled" => entry[job[p]] = "absent"
  <2>1. CASE FfmpegEnds(p)
    BY <2>1 DEF FfmpegEnds, Go, Verdict, Active
  <2>2. CASE FfmpegStops(p)
    BY <2>2 DEF FfmpegStops, Go, Verdict
  <2>3. CASE PumpRename(p)
    BY <2>3 DEF PumpRename, Go, Verdict
  <2> QED BY <2>1, <2>2, <2>3
<1>4. TypeOK' BY <1>1, <1>2, <1>3 DEF IInv, TypeOK, PumpFrame, PumpState, Verdict
<1>5. /\ pump'[p] = where /\ verdict'[p] = v
      /\ \A q \in Ops : q # p => pump'[q] = pump[q] /\ verdict'[q] = verdict[q]
  BY <1>3 DEF IInv, TypeOK
<1>6. Hands(p)' = Hands(p) /\ job[p] # NoJob BY <1>1, <1>2, CommandIdsAre DEF Hands
<1> QED BY <1>1, <1>3, <1>4, <1>5, <1>6, OwnPumpIInv DEF AtWork

(* The result goes to the entry of the command, if it is still there.  The  *)
(* command leaves the hands of the pump and has its result then.            *)
LEMMA CompleteIInv == ASSUME IInv, NEW p \in Ops, Complete(p) PROVE IInv'
<1> DEFINE id == job[p]
<1>1. /\ PumpFrame /\ UNCHANGED <<batch, published>> /\ pump[p] = "complete"
      /\ job' = [job EXCEPT ![p] = NoJob] /\ verdict' = [verdict EXCEPT ![p] = "failed"]
      /\ SetResult(p, id)
  BY DEF Complete, SetResult, PumpFrame, execVars, control
<1>2. id \in CommandIds /\ id \in Hands(p) BY <1>1, CommandIdsAre DEF Hands, IInv, TypeOK, PumpsAtWork
<1>3. /\ verdict[p] \in Verdict
      /\ verdict[p] = "ok" => id \in published
      /\ verdict[p] = "cancelled" => entry[id] = "absent"
      /\ entry[id] # "pending"
  BY <1>1, <1>2 DEF IInv, TypeOK, ResultsTrue, HandsClaimed
<1>4. /\ entry[id] = "claimed" => entry' = [entry EXCEPT ![id] = verdict[p]]
      /\ entry[id] # "claimed" => entry' = entry
  BY <1>1, <1>3 DEF SetResult
<1>5. /\ pump'[p] = "take"
      /\ \A q \in Ops : q # p /\ pump'[q] # pump[q] => pump[q] = "asleep" /\ pump'[q] = "waiting"
  BY <1>1 DEF SetResult, IInv, TypeOK
<1>6. TypeOK'
  <2>1. entry' \in [CommandIds -> EntryState]
    BY <1>3, <1>4 DEF IInv, TypeOK, EntryState
  <2>2. token' \in [Ops -> BOOLEAN] BY <1>1 DEF SetResult, IInv, TypeOK
  <2>3. pump' \in [Ops -> PumpState] BY <1>1 DEF SetResult, IInv, TypeOK, PumpState
  <2>4. job' \in [Ops -> CommandIds \cup {NoJob}] /\ verdict' \in [Ops -> Verdict]
    BY <1>1 DEF IInv, TypeOK, Verdict
  <2> QED BY <1>1, <2>1, <2>2, <2>3, <2>4 DEF IInv, TypeOK, PumpFrame
<1>7. /\ Hands(p)' \subseteq Hands(p)
      /\ \A i \in Hands(p) : i \notin Hands(p)' => i = id
      /\ \A q \in Ops : q # p => Hands(q)' = Hands(q)
  BY <1>1 DEF Hands, IInv, TypeOK
<1> HIDE DEF id
<1>8. ClaimedOnce' BY <1>7 DEF IInv, ClaimedOnce
<1>9. \A i \in CommandIds : entry'[i] # entry[i] => i = id /\ entry[id] = "claimed" /\ entry'[id] = verdict[p]
  BY <1>4 DEF IInv, TypeOK
<1>10. entry'[id] # "claimed"
  BY <1>2, <1>3, <1>4 DEF IInv, TypeOK, Verdict
<1>11. ClaimsServed'
  <2> SUFFICES ASSUME NEW i \in CommandIds, entry'[i] = "claimed"
               PROVE  \E q \in Ops : i \in Hands(q)' /\ pump'[q] \in AtWork
    BY DEF ClaimsServed, AtWork
  <2>1. i # id /\ entry[i] = "claimed" BY <1>9, <1>10
  <2>2. PICK q \in Ops : i \in Hands(q) /\ pump[q] \in AtWork
    BY <2>1 DEF IInv, ClaimsServed, AtWork
  <2> QED BY <2>1, <2>2, <1>5, <1>7 DEF AtWork
<1>12. HandsClaimed'
  <2>1. \A q \in Ops : \A i \in Hands(q)' : i \in Hands(q) /\ i \in CommandIds
    BY <1>7, <1>6 DEF Hands, TypeOK
  <2>2. \A i : Unused(i)' = Unused(i) BY <1>1, PumpFrameKeeps
  <2> QED BY <2>1, <2>2, <1>9, <1>3 DEF IInv, HandsClaimed, Verdict
<1>13. EntriesOwned'
  <2>1. \A i \in CommandIds : Active(i)' => Active(i) BY <1>9 DEF Active
  <2> QED BY <2>1, <1>1, PumpFrameKeeps
<1>14. OwnResult' /\ RoundsLeft' BY <1>1, PumpFrameKeeps
<1>15. PumpsAtWork'
  BY <1>1, <1>5 DEF IInv, TypeOK, PumpsAtWork, AtWork
<1>16. ResultsTrue'
  <2>1. \A q \in Ops : pump'[q] = "complete" =>
          /\ q # p /\ pump[q] = "complete" /\ job[q] \in CommandIds /\ job'[q] = job[q] /\ verdict'[q] = verdict[q]
    BY <1>1, <1>5 DEF IInv, PumpsAtWork, TypeOK
  <2>2. \A o \in Ops : outcome'[o] # "none" => exec'[o] = "dropping"
    BY <1>1 DEF IInv, ResultsTrue, PumpFrame
  <2>3. \A i \in CommandIds : (entry'[i] = "ok" => i \in published) /\ entry'[i] # "cancelled"
    BY <1>3, <1>9 DEF IInv, ResultsTrue
  <2>4. \A i \in CommandIds : entry[i] = "absent" => entry'[i] = "absent" BY <1>9
  <2> QED BY <2>1, <2>2, <2>3, <2>4, <1>1 DEF IInv, ResultsTrue
<1> QED BY <1>6, <1>8, <1>11, <1>12, <1>13, <1>14, <1>15, <1>16 DEF IInv
-----------------------------------------------------------------------------
LEMMA NextIInv == IInv /\ [Next]_vars => IInv'
<1> SUFFICES ASSUME IInv, [Next]_vars PROVE IInv' OBVIOUS
<1>1. CASE UNCHANGED vars
  <2>1. UNCHANGED <<entry, shut, exec, round, outcome, expired, interrupted, alarm, token, running,
                    pump, batch, job, verdict, published>>
    BY <1>1 DEF vars, registry, execVars, control, pumpVars
  <2>2. TypeOK' BY <2>1 DEF IInv, TypeOK
  <2> QED BY <2>1, <2>2, QuietIInv DEF pumpVars
<1>2. ASSUME NEW o \in Ops, Watch(o) \/ Check(o) PROVE IInv' BY <1>2, EnterIInv
<1>3. ASSUME NEW o \in Ops, Insert(o) PROVE IInv' BY <1>3, InsertIInv
<1>4. ASSUME NEW o \in Ops, Turn(o) PROVE IInv' BY <1>4, TurnIInv
<1>5. ASSUME NEW o \in Ops, DropPending(o) PROVE IInv' BY <1>5, DropPendingIInv
<1>6. ASSUME NEW o \in Ops, Unparked(o) \/ ParkTimeout(o) \/ EndBlock(o) \/ Interrupt(o) \/ Alarm(o)
      PROVE  IInv'
  BY <1>6, QuietStepsIInv
<1>7. ASSUME NEW o \in Ops, PumpClaim(o) PROVE IInv' BY <1>7, PumpClaimIInv
<1>8. ASSUME NEW o \in Ops, PumpTake(o) PROVE IInv' BY <1>8, PumpTakeIInv
<1>9. ASSUME NEW o \in Ops, FfmpegEnds(o) \/ FfmpegStops(o) \/ PumpRename(o) PROVE IInv'
  BY <1>9, PumpRunIInv
<1>10. ASSUME NEW o \in Ops, Complete(o) PROVE IInv' BY <1>10, CompleteIInv
<1>11. ASSUME NEW o \in Ops, PumpTimeout(o) \/ PumpSpurious(o) PROVE IInv'
  BY <1>11, PumpAwakeIInv DEF PumpTimeout, PumpSpurious
<1>12. ASSUME CloseEnvironment PROVE IInv' BY <1>12, QuietStepsIInv
<1>13. ASSUME Shutdown PROVE IInv' BY <1>13, ShutdownIInv
<1> QED
  BY <1>1, <1>2, <1>3, <1>4, <1>5, <1>6, <1>7, <1>8, <1>9, <1>10, <1>11, <1>12, <1>13
     DEF Next, Executor, Pump

(* Registry, threads and pumps keep their types.                            *)
THEOREM FfmpegTypeCorrect == Spec => []TypeOK
<1>1. IInv => TypeOK BY DEF IInv
<1> QED BY InitIInv, NextIInv, <1>1, PTL DEF Spec

(* Whatever threads, pumps, interruptions and a shutdown do: each command   *)
(* is claimed by one pump at most, a claimed one is served, the registry    *)
(* holds a command only while its execute() waits, and execute() returns    *)
(* the result of its own command.                                           *)
THEOREM CommandsAreSound == Spec => []CommandsSound
<1>1. IInv => CommandsSound BY DEF IInv, CommandsSound
<1> QED BY InitIInv, NextIInv, <1>1, PTL DEF Spec

-----------------------------------------------------------------------------
(***************************************************************************)
(* Signed sessions and OAuth records: SessionInv holds what the table of   *)
(* challenges, the slots of flights, the threads that wait and the stored  *)
(* session must agree on.                                                  *)
(***************************************************************************)
(* The table of challenges: an owner waits for its nonce, and a nonce that   *)
(* somebody waits for has an owner.                                          *)
Waiting == [Ids -> 0 .. MaxNonce]
Owners == [Nonces -> Ids \cup {0}]
IsTable(a) == a = [pending |-> a.pending, owner |-> a.owner] /\ a.pending \in Waiting /\ a.owner \in Owners
TableSound(a) ==
  \A n \in Nonces :
    /\ a.owner[n] # 0 => a.pending[a.owner[n]] = n
    /\ \A i \in Ids : a.pending[i] = n /\ n \notin stale => a.owner[n] # 0

TableInv == IsTable(auth) /\ TableSound(auth) /\ issued \in 0 .. MaxNonce

(* Records whose fields are known.                                           *)
CallFields == {"pc", "id", "cont", "rec", "from", "gen", "grant", "got", "new", "on", "loop",
               "session", "provider", "reauth", "cancelled"}
IsCall(u) == u = [f \in CallFields |-> u[f]] /\ (u.pc = "idle" \/ u.id \in Ids)
ScopeFields == {"gen", "completed", "blocked", "challenge", "by", "ids",
                "bootstrap", "refresh", "exchange"}
IsScope(sc) == sc = [f \in ScopeFields |-> sc[f]]
ScopeInv == IsScope(scope) /\ scope.challenge \in 0 .. MaxNonce

Flying == {"booting", "booted", "refreshing", "answered", "owned", "exchanging", "exchanged"}
Slots == {"bootstrap", "refresh", "exchange"}
SlotOf == [boot |-> "bootstrap", refresh |-> "refresh", slot |-> "exchange"]
Loops == {"boot", "refresh", "slot"}

(* A slot is taken exactly while its leader is at work on the flight.        *)
SlotsHeld ==
  /\ \A s \in Slots : scope[s] # 0 =>
       scope[s] \in Threads /\ th[scope[s]].pc \in Flying /\ FlightAt[th[scope[s]].pc] = s
  /\ \A t \in Threads : th[t].pc \in Flying => scope[FlightAt[th[t].pc]] = t
WaitsSound ==
  \A t \in Threads :
    /\ th[t].on # 0 => th[t].pc = "wait"
    /\ th[t].pc = "wait" => th[t].on # 0 /\ th[t].loop \in Loops /\ scope[SlotOf[th[t].loop]] = th[t].on
FlightsInv == SlotsHeld /\ WaitsSound

(* A new session is one the server has issued, for the generation it was     *)
(* asked for in.                                                             *)
Late == {"booted", "answered", "exchanged"}
Answered(u) ==
  u.pc \in Late =>
    /\ u.got = "session" => u.new \in 1 .. server /\ born[u.new] = u.gen
    /\ u.pc = "exchanged" => u.got \in {"error", "session"}
RecordInv ==
  /\ server \in 0 .. MaxSession /\ stored \in 0 .. server
  /\ born = [n \in Sessions |-> born[n]]
  /\ ClearWins

OAuthRecords == [generation : Nat, verifier : Nat, code : BOOLEAN, token : Nat]
ExchangesInv ==
  /\ oauth \in [Ids -> OAuthRecords]
  /\ exchanging = [x \in Exchangers |-> exchanging[x]]
  /\ \A x \in Exchangers :
       LET e == exchanging[x] IN
       e.id # 0 =>
         /\ e.id \in Ids /\ e.generation \in Nat
         /\ ~authClosed =>
              /\ e.generation <= oauth[e.id].generation
              /\ e.generation = oauth[e.id].generation => e.verifier = oauth[e.id].verifier
-----------------------------------------------------------------------------
LEMMA HeirIs ==
  ASSUME NEW a, NEW n, NEW S
  PROVE  LET h == Heir(a, n, S) IN
         /\ h # 0 => h \in S /\ a.pending[h] = n
         /\ \A i \in S : a.pending[i] = n /\ n \notin stale /\ 0 \notin S => h # 0
<1> DEFINE heirs == {i \in S : a.pending[i] = n /\ n \notin stale}
           c == CHOOSE i \in heirs : TRUE
<1>1. heirs # {} => c \in heirs
  BY Zenon
<1>2. Heir(a, n, S) = IF heirs = {} THEN 0 ELSE c
  BY Zenon DEF Heir
<1> QED BY <1>1, <1>2

LEMMA WithoutSound ==
  ASSUME NEW a, IsTable(a), TableSound(a), NEW S
  PROVE  IsTable(Without(a, S)) /\ TableSound(Without(a, S))
<1> USE AuthAssumption
<1> DEFINE b == Without(a, S)
<1>1. /\ \A i \in Ids : b.pending[i] = IF i \in S THEN 0 ELSE a.pending[i]
      /\ \A n \in Nonces : b.owner[n] = IF a.owner[n] \in S /\ a.pending[a.owner[n]] = n
                                         THEN Heir(a, n, Ids \ S) ELSE a.owner[n]
  BY DEF Without
<1>2. \A n \in Nonces : Heir(a, n, Ids \ S) \in Ids \cup {0}
  BY HeirIs
<1>3. IsTable(b)
  <2>1. b = [pending |-> b.pending, owner |-> b.owner]
    BY DEF Without
  <2>2. b.pending \in Waiting
    BY DEF Without, IsTable, Waiting
  <2>3. b.owner \in Owners
    BY <1>2 DEF Without, IsTable, Owners
  <2> QED BY <2>1, <2>2, <2>3 DEF IsTable
<1>4. TableSound(b)
  <2> HIDE DEF b
  <2> SUFFICES ASSUME NEW n \in Nonces
               PROVE  /\ b.owner[n] # 0 => b.pending[b.owner[n]] = n
                      /\ \A i \in Ids : b.pending[i] = n /\ n \notin stale => b.owner[n] # 0
    BY DEF TableSound
  <2>1. /\ a.owner[n] # 0 => a.pending[a.owner[n]] = n /\ a.owner[n] \in Ids
        /\ \A i \in Ids : a.pending[i] = n /\ n \notin stale => a.owner[n] # 0
        /\ n # 0 /\ a.owner[n] \in Ids \cup {0}
    BY DEF TableSound, IsTable, Owners, Nonces
  <2>2. CASE a.owner[n] \in S /\ a.pending[a.owner[n]] = n
    <3>1. b.owner[n] = Heir(a, n, Ids \ S)
      BY <1>1, <2>2
    <3> QED BY <3>1, <2>1, <1>1, HeirIs
  <2>3. CASE ~(a.owner[n] \in S /\ a.pending[a.owner[n]] = n)
    <3>1. b.owner[n] = a.owner[n]
      BY <1>1, <2>3
    <3> QED BY <3>1, <2>1, <2>3, <1>1
  <2> QED BY <2>2, <2>3
<1> QED BY <1>3, <1>4

LEMMA RegisterSound ==
  ASSUME NEW a, IsTable(a), TableSound(a), NEW i \in Ids, NEW n \in Nonces
  PROVE  IsTable(Register(a, i, n)) /\ TableSound(Register(a, i, n))
<1> USE AuthAssumption
<1> DEFINE b == IF a.pending[i] \in {0, n} THEN a ELSE Without(a, {i})
           c == Register(a, i, n)
<1>1. IsTable(b) /\ TableSound(b)
  BY WithoutSound
<1>2. b.pending[i] \in {0, n}
  BY DEF Without
<1>3. c = [pending |-> [b.pending EXCEPT ![i] = n],
           owner |-> [b.owner EXCEPT ![n] = IF @ = 0 THEN i ELSE @]]
  BY Zenon DEF Register
<1> HIDE DEF b, c
<1>4. IsTable(c)
  <2>1. [b.pending EXCEPT ![i] = n] \in Waiting
    BY <1>1 DEF IsTable, Waiting, Nonces
  <2>2. [b.owner EXCEPT ![n] = IF @ = 0 THEN i ELSE @] \in Owners
    BY <1>1 DEF IsTable, Owners
  <2> QED BY <1>3, <2>1, <2>2 DEF IsTable
<1>5. /\ \A j \in Ids : c.pending[j] = IF j = i THEN n ELSE b.pending[j]
      /\ \A m \in Nonces : c.owner[m] = IF m = n /\ b.owner[n] = 0 THEN i ELSE b.owner[m]
  BY <1>3, <1>1 DEF IsTable, Waiting, Owners
<1>6. TableSound(c)
  <2> SUFFICES ASSUME NEW m \in Nonces
               PROVE  /\ c.owner[m] # 0 => c.pending[c.owner[m]] = m
                      /\ \A j \in Ids : c.pending[j] = m /\ m \notin stale => c.owner[m] # 0
    BY DEF TableSound
  <2>1. /\ b.owner[m] # 0 => b.pending[b.owner[m]] = m /\ b.owner[m] \in Ids
        /\ \A j \in Ids : b.pending[j] = m /\ m \notin stale => b.owner[m] # 0
        /\ m # 0 /\ b.owner[m] \in Ids \cup {0}
    BY <1>1 DEF TableSound, IsTable, Owners, Nonces
  <2>2. 0 \notin Ids /\ i # 0
    BY AuthAssumption
  <2>3. c.owner[m] # 0 => c.pending[c.owner[m]] = m
    <3>1. CASE m = n /\ b.owner[n] = 0
      BY <3>1, <1>5
    <3>2. CASE ~(m = n /\ b.owner[n] = 0)
      BY <3>2, <1>5, <2>1, <1>2
    <3> QED BY <3>1, <3>2
  <2>4. \A j \in Ids : c.pending[j] = m /\ m \notin stale => c.owner[m] # 0
    <3>1. CASE m = n
      BY <3>1, <1>5, <2>2
    <3>2. CASE m # n
      BY <3>2, <1>5, <2>1
    <3> QED BY <3>1, <3>2
  <2> QED BY <2>3, <2>4
<1> QED BY <1>4, <1>6 DEF c

LEMMA PurgedSound ==
  ASSUME NEW a, IsTable(a), TableSound(a), NEW i
  PROVE  IsTable(Purged(a, i)) /\ TableSound(Purged(a, i))
BY WithoutSound DEF Purged

(* A nonce that is resolved is gone for everybody.                           *)
LEMMA ResolveSound ==
  ASSUME TableInv, NEW n \in Nonces, Resolve(n)
  PROVE  TableInv'
<1> USE AuthAssumption
<1>1. /\ auth'.pending = [i \in Ids |-> IF auth.pending[i] = n THEN 0 ELSE auth.pending[i]]
      /\ auth'.owner = [auth.owner EXCEPT ![n] = 0]
      /\ auth' = [pending |-> auth'.pending, owner |-> auth'.owner]
      /\ issued' = issued /\ stale' = stale
  BY DEF Resolve
<1>2. IsTable(auth)'
  BY <1>1 DEF TableInv, IsTable, Waiting, Owners
<1>3. TableSound(auth)'
  <2> SUFFICES ASSUME NEW m \in Nonces
               PROVE  /\ auth'.owner[m] # 0 => auth'.pending[auth'.owner[m]] = m
                      /\ \A j \in Ids : auth'.pending[j] = m /\ m \notin stale' => auth'.owner[m] # 0
    BY DEF TableSound
  <2>1. /\ auth.owner[m] # 0 => auth.pending[auth.owner[m]] = m /\ auth.owner[m] \in Ids
        /\ \A j \in Ids : auth.pending[j] = m /\ m \notin stale => auth.owner[m] # 0
        /\ m # 0 /\ auth.owner \in Owners
    BY DEF TableInv, TableSound, IsTable, Owners, Nonces
  <2>2. auth'.owner[m] = IF m = n THEN 0 ELSE auth.owner[m]
    BY <1>1, <2>1 DEF Owners
  <2> QED BY <2>1, <2>2, <1>1
<1> QED BY <1>1, <1>2, <1>3 DEF TableInv, TableSound
-----------------------------------------------------------------------------
(* The steps of the OAuthRecords records.                                           *)
LEMMA OAuthKeepsTable ==
  ASSUME TableInv, OAuthNext
  PROVE  TableInv'
<1> USE AuthAssumption
<1>1. CASE UNCHANGED tableVars
  BY <1>1 DEF tableVars, TableInv, TableSound, IsTable
<1>2. ASSUME NEW i \in Ids, OpenAuthUrl(i) PROVE TableInv'
  <2>1. /\ issued + 1 \in Nonces /\ issued' = issued + 1 /\ stale' = stale
        /\ auth' = Register(auth, i, issued + 1)
    BY <1>2 DEF OpenAuthUrl, TableInv, Nonces
  <2>2. IsTable(auth') /\ TableSound(auth')
    BY <2>1, RegisterSound DEF TableInv
  <2>3. IsTable(auth)' /\ TableSound(auth)'
    BY <2>1, <2>2 DEF TableSound, IsTable
  <2> QED BY <2>1, <2>3 DEF TableInv, Nonces
<1>3. ASSUME NEW i \in Ids, ClearAuth(i) PROVE TableInv'
  <2>1. issued' = issued /\ stale' = stale /\ auth' = Without(auth, {i})
    BY <1>3 DEF ClearAuth
  <2>2. IsTable(auth') /\ TableSound(auth')
    BY <2>1, WithoutSound DEF TableInv
  <2> QED BY <2>1, <2>2 DEF TableInv, TableSound, IsTable
<1>4. ASSUME ExpireNonce PROVE TableInv'
  <2>1. auth' = auth /\ issued' = issued /\ stale \subseteq stale'
    BY <1>4 DEF ExpireNonce
  <2> QED BY <2>1 DEF TableInv, TableSound, IsTable
<1>5. ASSUME ShutdownAuth PROVE TableInv'
  <2>1. /\ auth' = [pending |-> [i \in Ids |-> 0], owner |-> [n \in Nonces |-> 0]]
        /\ issued' = issued
    BY <1>5 DEF ShutdownAuth
  <2>2. \A n \in Nonces : n # 0
    BY DEF Nonces
  <2> QED BY <2>1, <2>2 DEF TableInv, TableSound, IsTable, Waiting, Owners
<1>6. ASSUME NEW i \in Ids, \/ StorePkce(i) \/ SetCode(i) \/ SetTokens(i)
                            \/ \E x \in Exchangers : BeginExchange(x, i)
      PROVE UNCHANGED tableVars
  BY <1>6 DEF StorePkce, SetCode, SetTokens, BeginExchange
<1>7. ASSUME NEW x \in Exchangers, ExchangeFails(x) \/ EndExchange(x)
      PROVE UNCHANGED tableVars
  BY <1>7 DEF ExchangeFails, EndExchange
<1> QED BY <1>1, <1>2, <1>3, <1>4, <1>5, <1>6, <1>7, ResolveSound DEF OAuthNext

LEMMA RecordFields ==
  ASSUME ExchangesInv, NEW i \in Ids
  PROVE  /\ oauth[i] \in OAuthRecords
         /\ oauth[i].generation \in Nat /\ oauth[i].verifier \in Nat /\ oauth[i].code \in BOOLEAN
         /\ oauth[i].generation + 1 \in Nat
BY DEF ExchangesInv, OAuthRecords

LEMMA PkceRecord ==
  ASSUME NEW o \in OAuthRecords, NEW v \in Nat, NEW c \in BOOLEAN
  PROVE  /\ [o EXCEPT !.verifier = v, !.code = c] \in OAuthRecords
         /\ [o EXCEPT !.verifier = v, !.code = c].generation = o.generation
         /\ [o EXCEPT !.code = c] \in OAuthRecords
         /\ [o EXCEPT !.code = c].generation = o.generation
         /\ [o EXCEPT !.token = v] \in OAuthRecords
         /\ [o EXCEPT !.token = v].generation = o.generation
BY DEF OAuthRecords

Spent(o, v, g) == [o EXCEPT !.token = v, !.verifier = 0, !.generation = g]

LEMMA TokenRecord ==
  ASSUME NEW o \in OAuthRecords, NEW v \in Nat, NEW g \in Nat
  PROVE  Spent(o, v, g) \in OAuthRecords /\ Spent(o, v, g).generation = g
BY DEF OAuthRecords, Spent

LEMMA RecordGrows ==
  ASSUME ExchangesInv, NEW i \in Ids, NEW new, oauth' = [oauth EXCEPT ![i] = new],
         new \in OAuthRecords,
         new.generation = oauth[i].generation + 1,
         UNCHANGED <<exchanging, authClosed>>
  PROVE  ExchangesInv'
<1>1. oauth \in [Ids -> OAuthRecords]
  BY DEF ExchangesInv
<1>3. /\ oauth' \in [Ids -> OAuthRecords]
      /\ oauth'[i].generation = oauth[i].generation + 1
      /\ \A j \in Ids : j # i => oauth'[j] = oauth[j]
  BY <1>1
<1>4. \A j \in Ids : oauth[j].generation \in Nat
  BY RecordFields
<1>5. SUFFICES ASSUME NEW x \in Exchangers, exchanging[x].id # 0, exchanging[x].id \in Ids,
                      exchanging[x].generation \in Nat, ~authClosed,
                      exchanging[x].generation <= oauth[exchanging[x].id].generation,
                      exchanging[x].generation = oauth[exchanging[x].id].generation
                        => exchanging[x].verifier = oauth[exchanging[x].id].verifier
               PROVE  /\ exchanging[x].generation <= oauth'[exchanging[x].id].generation
                      /\ exchanging[x].generation = oauth'[exchanging[x].id].generation
                           => exchanging[x].verifier = oauth'[exchanging[x].id].verifier
  BY <1>3 DEF ExchangesInv, OAuthRecords
<1> QED BY <1>3, <1>4, <1>5

LEMMA EditedRecord ==
  ASSUME ExchangesInv, NEW i \in Ids, NEW r, Edit(i, r),
         r \in OAuthRecords,
         r.generation = oauth[i].generation,
         UNCHANGED <<exchanging, authClosed>>
  PROVE  ExchangesInv'
<1> DEFINE new == [r EXCEPT !.generation = @ + 1]
<1>1. oauth' = [oauth EXCEPT ![i] = new]
  BY DEF Edit
<1>2. /\ new \in OAuthRecords
      /\ new.generation = oauth[i].generation + 1
  BY DEF OAuthRecords
<1> HIDE DEF new
<1> QED BY <1>1, <1>2, RecordGrows

(* What became of one exchanger, and of one record whose generation grew.    *)
LEMMA ExchangerKept ==
  ASSUME ExchangesInv, NEW x \in Exchangers, NEW e, exchanging' = [exchanging EXCEPT ![x] = e],
         UNCHANGED <<oauth, authClosed>>,
         \/ e = NotExchanging
         \/ \E i \in Ids : /\ e.id = i /\ e.generation = oauth[i].generation
                           /\ e.verifier = oauth[i].verifier
  PROVE  ExchangesInv'
<1>1. /\ \A y \in Exchangers : exchanging'[y] = IF y = x THEN e ELSE exchanging[y]
      /\ exchanging' = [y \in Exchangers |-> exchanging'[y]]
  BY DEF ExchangesInv
<1>2. /\ oauth' \in [Ids -> OAuthRecords] /\ \A j \in Ids : oauth[j].generation \in Nat
      /\ oauth' = oauth /\ authClosed' = authClosed
  BY RecordFields DEF ExchangesInv
<1>3. e.id # 0 => /\ e.id \in Ids /\ e.generation = oauth[e.id].generation
                  /\ e.verifier = oauth[e.id].verifier
  BY DEF NotExchanging
<1>4. \A j \in Ids : oauth[j].generation <= oauth[j].generation
  BY <1>2
<1>5. SUFFICES ASSUME NEW y \in Exchangers, exchanging'[y].id # 0
               PROVE  /\ exchanging'[y].id \in Ids /\ exchanging'[y].generation \in Nat
                      /\ ~authClosed =>
                           /\ exchanging'[y].generation <= oauth[exchanging'[y].id].generation
                           /\ exchanging'[y].generation = oauth[exchanging'[y].id].generation
                                => exchanging'[y].verifier = oauth[exchanging'[y].id].verifier
  BY <1>1, <1>2 DEF ExchangesInv, OAuthRecords
<1>6. CASE y = x
  BY <1>6, <1>1, <1>2, <1>3, <1>4, <1>5
<1>7. CASE y # x
  BY <1>7, <1>1, <1>5 DEF ExchangesInv
<1> QED BY <1>6, <1>7

LEMMA OAuthKeepsExchanges ==
  ASSUME ExchangesInv, OAuthNext
  PROVE  ExchangesInv'
<1> USE AuthAssumption
<1>0. oauth \in [Ids -> OAuthRecords]
  BY DEF ExchangesInv
<1>1. ASSUME NEW i \in Ids, StorePkce(i) PROVE ExchangesInv'
  <2>1. PICK code \in {oauth[i].code, FALSE} :
          Edit(i, [oauth[i] EXCEPT !.verifier = oauth[i].generation + 1, !.code = code])
    BY <1>1, Zenon DEF StorePkce
  <2>2. UNCHANGED <<exchanging, authClosed>>
    BY <1>1 DEF StorePkce, tableVars
  <2> DEFINE r == [oauth[i] EXCEPT !.verifier = oauth[i].generation + 1, !.code = code]
  <2>3. oauth[i] \in OAuthRecords /\ code \in BOOLEAN /\ oauth[i].generation + 1 \in Nat
    BY RecordFields
  <2>5. r \in OAuthRecords /\ r.generation = oauth[i].generation
    BY <2>3, PkceRecord, Zenon
  <2> HIDE DEF r
  <2> QED BY <2>1, <2>2, <2>5, EditedRecord DEF r
<1>2. ASSUME NEW i \in Ids, SetCode(i) PROVE ExchangesInv'
  <2>1. PICK code \in BOOLEAN : Edit(i, [oauth[i] EXCEPT !.code = code])
    BY <1>2, Zenon DEF SetCode
  <2>2. UNCHANGED <<exchanging, authClosed>>
    BY <1>2 DEF SetCode, tableVars
  <2> DEFINE r == [oauth[i] EXCEPT !.code = code]
  <2>3. r \in OAuthRecords /\ r.generation = oauth[i].generation
    <3>1. oauth[i] \in OAuthRecords /\ oauth[i].generation \in Nat /\ code \in BOOLEAN
      BY RecordFields
    <3> QED BY <3>1, PkceRecord, Zenon
  <2> HIDE DEF r
  <2> QED BY <2>1, <2>2, <2>3, EditedRecord DEF r
<1>3. ASSUME NEW i \in Ids, SetTokens(i) PROVE ExchangesInv'
  <2>1. Edit(i, [oauth[i] EXCEPT !.token = oauth[i].generation + 1])
    BY <1>3, Zenon DEF SetTokens
  <2>2. UNCHANGED <<exchanging, authClosed>>
    BY <1>3 DEF SetTokens, tableVars
  <2> DEFINE r == [oauth[i] EXCEPT !.token = oauth[i].generation + 1]
  <2>3. r \in OAuthRecords /\ r.generation = oauth[i].generation
    <3>1. oauth[i] \in OAuthRecords /\ oauth[i].generation + 1 \in Nat /\ FALSE \in BOOLEAN
      BY RecordFields
    <3> QED BY <3>1, PkceRecord, Zenon
  <2> HIDE DEF r
  <2> QED BY <2>1, <2>2, <2>3, EditedRecord DEF r
<1>4. ASSUME NEW i \in Ids, ClearAuth(i) PROVE ExchangesInv'
  <2> DEFINE new == [generation |-> oauth[i].generation + 1, verifier |-> 0, code |-> FALSE, token |-> 0]
  <2>1. oauth' = [oauth EXCEPT ![i] = new] /\ UNCHANGED <<exchanging, authClosed>>
    BY <1>4 DEF ClearAuth
  <2>2. new \in OAuthRecords /\ new.generation = oauth[i].generation + 1
    BY RecordFields DEF OAuthRecords
  <2> HIDE DEF new
  <2> QED BY <2>1, <2>2, RecordGrows
<1>5. ASSUME NEW i \in Ids, NEW x \in Exchangers, BeginExchange(x, i) PROVE ExchangesInv'
  <2> DEFINE e == [id |-> i, verifier |-> oauth[i].verifier, generation |-> oauth[i].generation]
  <2>1. /\ exchanging' = [exchanging EXCEPT ![x] = e]
        /\ UNCHANGED <<oauth, authClosed>>
    BY <1>5 DEF BeginExchange, tableVars
  <2>2. e.id = i /\ e.generation = oauth[i].generation /\ e.verifier = oauth[i].verifier
    OBVIOUS
  <2> HIDE DEF e
  <2> QED BY <2>1, <2>2, ExchangerKept
<1>6. ASSUME NEW x \in Exchangers, ExchangeFails(x) PROVE ExchangesInv'
  BY <1>6, ExchangerKept DEF ExchangeFails, tableVars
<1>7. ASSUME NEW x \in Exchangers, EndExchange(x) PROVE ExchangesInv'
  <2> DEFINE e == exchanging[x]
             new == [oauth[e.id] EXCEPT !.token = e.verifier, !.verifier = 0, !.generation = e.generation + 1]
  <2>1. /\ e.id # 0 /\ authClosed' = authClosed
        /\ exchanging' = [exchanging EXCEPT ![x] = NotExchanging]
    BY <1>7, Zenon DEF EndExchange, tableVars
  <2>2. CASE authClosed \/ oauth[e.id].generation # e.generation
    <3>1. oauth' = oauth
      BY <1>7, <2>2, Zenon DEF EndExchange
    <3> QED BY <3>1, <2>1, ExchangerKept
  <2>3. CASE ~(authClosed \/ oauth[e.id].generation # e.generation)
    <3>1. oauth' = [oauth EXCEPT ![e.id] = new]
      BY <1>7, <2>3, Zenon DEF EndExchange
    <3>2. /\ e.id \in Ids /\ e.generation \in Nat /\ e.generation + 1 \in Nat
          /\ e.verifier = oauth[e.id].verifier
      BY <2>1, <2>3 DEF ExchangesInv
    <3>3. new \in OAuthRecords /\ new.generation = oauth[e.id].generation + 1
      <4> HIDE DEF e
      <4>1. oauth[e.id] \in OAuthRecords /\ e.verifier \in Nat
        BY <3>2, RecordFields
      <4>2. new \in OAuthRecords /\ new.generation = e.generation + 1
        <5>1. new = Spent(oauth[e.id], e.verifier, e.generation + 1)
          BY Zenon DEF Spent
        <5> HIDE DEF new
        <5> QED BY <5>1, <3>2, <4>1, TokenRecord, Zenon
      <4> QED BY <4>2, <2>3
    <3> HIDE DEF new
    <3>4. /\ oauth' \in [Ids -> OAuthRecords]
          /\ oauth'[e.id].generation = oauth[e.id].generation + 1
          /\ \A j \in Ids : j # e.id => oauth'[j] = oauth[j]
      BY <3>1, <3>2, <3>3, <1>0
    <3>5. \A j \in Ids : oauth[j].generation \in Nat
      BY RecordFields
    <3>6. /\ \A y \in Exchangers : y # x => exchanging'[y] = exchanging[y]
          /\ exchanging'[x].id = 0
          /\ exchanging' = [y \in Exchangers |-> exchanging'[y]]
      BY <2>1 DEF ExchangesInv, NotExchanging
    <3> HIDE DEF e
    <3>7. SUFFICES ASSUME NEW y \in Exchangers, exchanging'[y].id # 0
                   PROVE  /\ exchanging'[y].id \in Ids /\ exchanging'[y].generation \in Nat
                          /\ /\ exchanging'[y].generation <= oauth'[exchanging'[y].id].generation
                             /\ exchanging'[y].generation = oauth'[exchanging'[y].id].generation
                                  => exchanging'[y].verifier = oauth'[exchanging'[y].id].verifier
      BY <3>4, <3>6 DEF ExchangesInv, OAuthRecords
    <3>8. y # x /\ exchanging'[y] = exchanging[y] /\ ~authClosed
      BY <3>6, <3>7, <2>3
    <3>9. /\ exchanging[y].id \in Ids /\ exchanging[y].generation \in Nat
          /\ exchanging[y].generation <= oauth[exchanging[y].id].generation
          /\ exchanging[y].generation = oauth[exchanging[y].id].generation
               => exchanging[y].verifier = oauth[exchanging[y].id].verifier
      BY <3>7, <3>8 DEF ExchangesInv
    <3> QED BY <3>4, <3>5, <3>8, <3>9
  <2> QED BY <2>2, <2>3
<1>8. ASSUME ShutdownAuth PROVE ExchangesInv'
  <2>1. /\ oauth' = [i \in Ids |-> [generation |-> 0, verifier |-> 0, code |-> FALSE, token |-> 0]]
        /\ authClosed' = TRUE /\ exchanging' = exchanging
    BY <1>8 DEF ShutdownAuth
  <2>2. oauth' \in [Ids -> OAuthRecords]
    BY <2>1 DEF OAuthRecords
  <2> QED BY <2>1, <2>2 DEF ExchangesInv
<1>9. ASSUME oauth' = oauth, exchanging' = exchanging, authClosed' = authClosed PROVE ExchangesInv'
  BY <1>9 DEF ExchangesInv
<1>10. ASSUME NEW i \in Ids, OpenAuthUrl(i) PROVE ExchangesInv'
  BY <1>9, <1>10 DEF OpenAuthUrl, oauthVars
<1>11. ASSUME NEW n \in Nonces, Resolve(n) PROVE ExchangesInv'
  BY <1>9, <1>11 DEF Resolve, oauthVars
<1>12. ASSUME ExpireNonce PROVE ExchangesInv'
  BY <1>9, <1>12 DEF ExpireNonce, oauthVars
<1> QED BY <1>1, <1>2, <1>3, <1>4, <1>5, <1>6, <1>7, <1>8, <1>10, <1>11, <1>12 DEF OAuthNext
-----------------------------------------------------------------------------
(* Records of calls and of the scope.                                        *)
LEMMA FlightFacts ==
  /\ DOMAIN FlightAt = Flying
  /\ FlightAt["booting"] = "bootstrap" /\ FlightAt["booted"] = "bootstrap"
  /\ FlightAt["refreshing"] = "refresh" /\ FlightAt["answered"] = "refresh"
  /\ FlightAt["owned"] = "exchange" /\ FlightAt["exchanging"] = "exchange"
  /\ FlightAt["exchanged"] = "exchange"
  /\ \A pc \in Flying : FlightAt[pc] \in Slots
BY DEF FlightAt, Flying, Slots

LEMMA SlotFacts ==
  /\ SlotOf["boot"] = "bootstrap" /\ SlotOf["refresh"] = "refresh" /\ SlotOf["slot"] = "exchange"
  /\ \A l \in Loops : SlotOf[l] \in Slots
BY DEF SlotOf, Slots, Loops

LEMMA EditScope ==
  ASSUME NEW u, IsScope(u), NEW f \in ScopeFields, NEW v
  PROVE  /\ IsScope([u EXCEPT ![f] = v])
         /\ [u EXCEPT ![f] = v][f] = v
         /\ \A h \in ScopeFields : h # f => [u EXCEPT ![f] = v][h] = u[h]
<1>1. u = [h \in ScopeFields |-> u[h]]
  BY DEF IsScope
<1> HIDE DEF ScopeFields
<1> QED BY <1>1 DEF IsScope

LEMMA IdleIs == IsCall(Idle) /\ Idle.pc = "idle" /\ Idle.on = 0
BY DEF IsCall, CallFields, Idle

LEMMA SettledIs ==
  ASSUME NEW u, IsCall(u)
  PROVE  /\ IsCall(Settled(u)) /\ Settled(u).pc = u.pc /\ Settled(u).on = u.on
BY DEF IsCall, CallFields, Settled

LEMMA UnchallengedIs ==
  ASSUME NEW sc, IsScope(sc)
  PROVE  /\ IsScope(Unchallenged(sc)) /\ Unchallenged(sc).challenge = 0
         /\ Unchallenged(sc).gen = sc.gen
         /\ \A s \in Slots : Unchallenged(sc)[s] = sc[s]
BY DEF IsScope, ScopeFields, Unchallenged, Slots

LEMMA RememberIs ==
  ASSUME NEW sc, IsScope(sc), NEW i, NEW n
  PROVE  /\ IsScope(Remember(sc, i, n)) /\ Remember(sc, i, n).challenge = n
         /\ Remember(sc, i, n).gen = sc.gen
         /\ \A s \in Slots : Remember(sc, i, n)[s] = sc[s]
BY DEF IsScope, ScopeFields, Remember, Slots

LEMMA ReleaseIs ==
  ASSUME NEW sc, IsScope(sc), NEW pc \in Flying
  PROVE  LET r == Release(pc, sc) IN
         /\ IsScope(r) /\ r.challenge = sc.challenge /\ r.gen = sc.gen
         /\ r[FlightAt[pc]] = 0
         /\ \A s \in Slots : s # FlightAt[pc] => r[s] = sc[s]
<1>1. Release(pc, sc) = [sc EXCEPT ![FlightAt[pc]] = 0]
  BY FlightFacts DEF Release
<1>2. FlightAt[pc] \in Slots /\ Slots \subseteq ScopeFields
      /\ FlightAt[pc] # "challenge" /\ FlightAt[pc] # "gen"
  BY FlightFacts DEF Slots, ScopeFields
<1>3. "challenge" \in ScopeFields /\ "gen" \in ScopeFields
  BY DEF ScopeFields
<1> DEFINE f == FlightAt[pc]
<1>4. f \in ScopeFields
  BY <1>2
<1>5. /\ IsScope([sc EXCEPT ![f] = 0]) /\ [sc EXCEPT ![f] = 0][f] = 0
      /\ \A h \in ScopeFields : h # f => [sc EXCEPT ![f] = 0][h] = sc[h]
  <2> HIDE DEF f
  <2> QED BY <1>4, EditScope
<1> DEFINE r == Release(pc, sc)
<1>6. IsScope(r) /\ r[f] = 0 /\ \A h \in ScopeFields : h # f => r[h] = sc[h]
  BY <1>1, <1>5
<1> HIDE DEF r
<1>7. r["challenge"] = sc["challenge"] /\ r["gen"] = sc["gen"]
  BY <1>2, <1>3, <1>6
<1>8. \A s \in Slots : s # f => r[s] = sc[s]
  BY <1>2, <1>6
<1> QED BY <1>6, <1>7, <1>8 DEF r
-----------------------------------------------------------------------------
(* What a step does to the threads and the slots.                            *)
Calm(u) == IsCall(u) /\ u.on = 0 /\ u.pc \notin Flying \cup {"wait"}
SlotsKept == \A s \in Slots : scope'[s] = scope[s]
CallsAre == th = [t \in Threads |-> th[t]] /\ \A t \in Threads : IsCall(th[t])
AnswersSound == \A t \in Threads : Answered(th[t])
ThreadsInv == CallsAre /\ FlightsInv /\ AnswersSound

SessionInv == TableInv /\ ScopeInv /\ ThreadsInv /\ RecordInv

LEMMA MovedThread ==
  ASSUME CallsAre, NEW t \in Threads, NEW u, Become(t, u), IsCall(u)
  PROVE  CallsAre' /\ th'[t] = u /\ \A x \in Threads : x # t => th'[x] = th[x]
<1> USE DEF CallsAre, Become
<1>1. th'[t] = u /\ \A x \in Threads : x # t => th'[x] = th[x]
  OBVIOUS
<1>2. th' = [x \in Threads |-> th'[x]]
  OBVIOUS
<1>3. \A x \in Threads : IsCall(th[x])'
  BY <1>1 DEF IsCall
<1> QED BY <1>1, <1>2, <1>3

(* A thread outside of flights goes to such a place.                         *)
LEMMA CalmMove ==
  ASSUME ThreadsInv, NEW t \in Threads, NEW u, Become(t, u), Calm(u), th[t].pc \notin Flying,
         SlotsKept, UNCHANGED <<server, born>>
  PROVE  ThreadsInv'
<1>1. CallsAre' /\ th'[t] = u /\ \A x \in Threads : x # t => th'[x] = th[x]
  BY MovedThread DEF ThreadsInv, Calm
<1>2. SlotsHeld'
  BY <1>1, FlightFacts DEF ThreadsInv, FlightsInv, SlotsHeld, SlotsKept, Calm
<1>3. WaitsSound'
  <2> SUFFICES ASSUME NEW x \in Threads
               PROVE  /\ th'[x].on # 0 => th'[x].pc = "wait"
                      /\ th'[x].pc = "wait" => th'[x].on # 0 /\ th'[x].loop \in Loops
                                               /\ scope'[SlotOf[th'[x].loop]] = th'[x].on
    BY DEF WaitsSound
  <2>1. CASE x = t
    BY <2>1, <1>1 DEF Calm
  <2>2. CASE x # t
    BY <2>2, <1>1, SlotFacts DEF ThreadsInv, FlightsInv, WaitsSound, SlotsKept
  <2> QED BY <2>1, <2>2
<1>4. AnswersSound'
  <2> SUFFICES ASSUME NEW x \in Threads PROVE Answered(th[x])'
    BY DEF AnswersSound
  <2>1. CASE x = t
    BY <2>1, <1>1 DEF Calm, Answered, Flying, Late
  <2>2. CASE x # t
    BY <2>2, <1>1 DEF ThreadsInv, AnswersSound, Answered
  <2> QED BY <2>1, <2>2
<1> QED BY <1>1, <1>2, <1>3, <1>4 DEF ThreadsInv, FlightsInv

(* A thread goes on with its flight.                                         *)
LEMMA FlightMove ==
  ASSUME ThreadsInv, NEW t \in Threads, NEW u, Become(t, u), IsCall(u),
         th[t].pc \in Flying, u.pc \in Flying, FlightAt[u.pc] = FlightAt[th[t].pc], u.on = 0,
         SlotsKept,
         server <= server', server \in Nat, server' \in Nat,
         \A n \in 1 .. server : born'[n] = born[n],
         u.pc \in Late /\ u.got = "session" => u.new \in 1 .. server' /\ born'[u.new] = u.gen,
         u.pc = "exchanged" => u.got \in {"error", "session"}
  PROVE  ThreadsInv'
<1>1. CallsAre' /\ th'[t] = u /\ \A x \in Threads : x # t => th'[x] = th[x]
  BY MovedThread DEF ThreadsInv
<1>2. SlotsHeld'
  <2>1. \A x \in Threads : th'[x].pc \in Flying =>
           th[x].pc \in Flying /\ FlightAt[th'[x].pc] = FlightAt[th[x].pc]
    BY <1>1
  <2>2. \A x \in Threads : th[x].pc \in Flying =>
           th'[x].pc \in Flying /\ FlightAt[th'[x].pc] = FlightAt[th[x].pc]
    BY <1>1
  <2> QED BY <2>1, <2>2, FlightFacts DEF ThreadsInv, FlightsInv, SlotsHeld, SlotsKept
<1>3. WaitsSound'
  <2> SUFFICES ASSUME NEW x \in Threads
               PROVE  /\ th'[x].on # 0 => th'[x].pc = "wait"
                      /\ th'[x].pc = "wait" => th'[x].on # 0 /\ th'[x].loop \in Loops
                                               /\ scope'[SlotOf[th'[x].loop]] = th'[x].on
    BY DEF WaitsSound
  <2>1. CASE x = t
    BY <2>1, <1>1 DEF Flying
  <2>2. CASE x # t
    BY <2>2, <1>1, SlotFacts DEF ThreadsInv, FlightsInv, WaitsSound, SlotsKept
  <2> QED BY <2>1, <2>2
<1>4. AnswersSound'
  <2> SUFFICES ASSUME NEW x \in Threads PROVE Answered(th[x])'
    BY DEF AnswersSound
  <2>1. CASE x = t
    BY <2>1, <1>1 DEF Answered
  <2>2. CASE x # t
    BY <2>2, <1>1 DEF ThreadsInv, AnswersSound, Answered
  <2> QED BY <2>1, <2>2
<1> QED BY <1>1, <1>2, <1>3, <1>4 DEF ThreadsInv, FlightsInv

(* A thread stays where it is.                                               *)
LEMMA StillMove ==
  ASSUME ThreadsInv, NEW t \in Threads, NEW u, Become(t, u), IsCall(u), SlotsKept,
         u.pc = th[t].pc, u.on = th[t].on, u.loop = th[t].loop,
         u.got = th[t].got, u.new = th[t].new, u.gen = th[t].gen,
         UNCHANGED <<server, born>>
  PROVE  ThreadsInv'
<1>1. CallsAre' /\ th'[t] = u /\ \A x \in Threads : x # t => th'[x] = th[x]
  BY MovedThread DEF ThreadsInv
<1>2. \A x \in Threads : /\ th'[x].pc = th[x].pc /\ th'[x].on = th[x].on /\ th'[x].loop = th[x].loop
                         /\ th'[x].got = th[x].got /\ th'[x].new = th[x].new /\ th'[x].gen = th[x].gen
  BY <1>1
<1>3. SlotsHeld'
  BY <1>2, FlightFacts DEF ThreadsInv, FlightsInv, SlotsHeld, SlotsKept
<1>4. WaitsSound'
  BY <1>2, SlotFacts DEF ThreadsInv, FlightsInv, WaitsSound, SlotsKept
<1>5. AnswersSound'
  BY <1>2 DEF ThreadsInv, AnswersSound, Answered
<1> QED BY <1>1, <1>3, <1>4, <1>5 DEF ThreadsInv, FlightsInv

LEMMA ThreadsKept ==
  ASSUME ThreadsInv, UNCHANGED <<th, server, born>>, SlotsKept
  PROVE  ThreadsInv'
<1>1. CallsAre'
  BY DEF ThreadsInv, CallsAre, IsCall
<1>2. SlotsHeld'
  BY FlightFacts DEF ThreadsInv, FlightsInv, SlotsHeld, SlotsKept
<1>3. WaitsSound'
  BY SlotFacts DEF ThreadsInv, FlightsInv, WaitsSound, SlotsKept
<1>4. AnswersSound'
  BY DEF ThreadsInv, AnswersSound, Answered
<1> QED BY <1>1, <1>2, <1>3, <1>4 DEF ThreadsInv, FlightsInv

(* A thread takes an empty slot.                                             *)
LEMMA TakeFlight ==
  ASSUME ThreadsInv, NEW t \in Threads, NEW u, Become(t, u), IsCall(u),
         th[t].pc \notin Flying, u.pc \in Flying \ Late, u.on = 0,
         NEW f, f = FlightAt[u.pc], scope[f] = 0, scope'[f] = t,
         \A s \in Slots : s # f => scope'[s] = scope[s],
         UNCHANGED <<server, born>>
  PROVE  ThreadsInv'
<1>1. CallsAre' /\ th'[t] = u /\ \A x \in Threads : x # t => th'[x] = th[x]
  BY MovedThread DEF ThreadsInv
<1>2. SlotsHeld'
  <2>1. ASSUME NEW s \in Slots, scope'[s] # 0
        PROVE  scope'[s] \in Threads /\ th'[scope'[s]].pc \in Flying /\ FlightAt[th'[scope'[s]].pc] = s
    <3>1. CASE s = f
      BY <3>1, <1>1
    <3>2. CASE s # f
      BY <3>2, <2>1, <1>1 DEF ThreadsInv, FlightsInv, SlotsHeld
    <3> QED BY <3>1, <3>2
  <2>2. ASSUME NEW x \in Threads, th'[x].pc \in Flying
        PROVE  scope'[FlightAt[th'[x].pc]] = x
    <3>1. CASE x = t
      BY <3>1, <1>1
    <3>2. CASE x # t
      <4>1. th[x].pc \in Flying /\ scope[FlightAt[th[x].pc]] = x /\ FlightAt[th[x].pc] \in Slots
        BY <3>2, <2>2, <1>1, FlightFacts DEF ThreadsInv, FlightsInv, SlotsHeld
      <4>2. FlightAt[th[x].pc] # f
        BY <4>1, SessionAssumption
      <4> QED BY <4>1, <4>2, <3>2, <1>1
    <3> QED BY <3>1, <3>2
  <2> QED BY <2>1, <2>2 DEF SlotsHeld
<1>3. WaitsSound'
  <2> SUFFICES ASSUME NEW x \in Threads
               PROVE  /\ th'[x].on # 0 => th'[x].pc = "wait"
                      /\ th'[x].pc = "wait" => th'[x].on # 0 /\ th'[x].loop \in Loops
                                               /\ scope'[SlotOf[th'[x].loop]] = th'[x].on
    BY DEF WaitsSound
  <2>1. CASE x = t
    BY <2>1, <1>1 DEF Flying
  <2>2. CASE x # t
    BY <2>2, <1>1, SlotFacts DEF ThreadsInv, FlightsInv, WaitsSound
  <2> QED BY <2>1, <2>2
<1>4. AnswersSound'
  <2> SUFFICES ASSUME NEW x \in Threads PROVE Answered(th[x])'
    BY DEF AnswersSound
  <2>1. CASE x = t
    BY <2>1, <1>1 DEF Answered, Late
  <2>2. CASE x # t
    BY <2>2, <1>1 DEF ThreadsInv, AnswersSound, Answered
  <2> QED BY <2>1, <2>2
<1> QED BY <1>1, <1>2, <1>3, <1>4 DEF ThreadsInv, FlightsInv

(* A thread waits for the flight in a slot.                                  *)
LEMMA BeginWait ==
  ASSUME ThreadsInv, NEW t \in Threads, NEW u, Become(t, u), IsCall(u), th[t].pc \notin Flying,
         u.pc = "wait", u.loop \in Loops, u.on = scope[SlotOf[u.loop]], u.on # 0,
         SlotsKept, UNCHANGED <<server, born>>
  PROVE  ThreadsInv'
<1>1. CallsAre' /\ th'[t] = u /\ \A x \in Threads : x # t => th'[x] = th[x]
  BY MovedThread DEF ThreadsInv
<1>2. SlotsHeld'
  BY <1>1, FlightFacts DEF ThreadsInv, FlightsInv, SlotsHeld, SlotsKept, Flying
<1>3. WaitsSound'
  <2> SUFFICES ASSUME NEW x \in Threads
               PROVE  /\ th'[x].on # 0 => th'[x].pc = "wait"
                      /\ th'[x].pc = "wait" => th'[x].on # 0 /\ th'[x].loop \in Loops
                                               /\ scope'[SlotOf[th'[x].loop]] = th'[x].on
    BY DEF WaitsSound
  <2>1. CASE x = t
    BY <2>1, <1>1, SlotFacts DEF SlotsKept
  <2>2. CASE x # t
    BY <2>2, <1>1, SlotFacts DEF ThreadsInv, FlightsInv, WaitsSound, SlotsKept
  <2> QED BY <2>1, <2>2
<1>4. AnswersSound'
  <2> SUFFICES ASSUME NEW x \in Threads PROVE Answered(th[x])'
    BY DEF AnswersSound
  <2>1. CASE x = t
    BY <2>1, <1>1 DEF Answered, Late
  <2>2. CASE x # t
    BY <2>2, <1>1 DEF ThreadsInv, AnswersSound, Answered
  <2> QED BY <2>1, <2>2
<1> QED BY <1>1, <1>2, <1>3, <1>4 DEF ThreadsInv, FlightsInv

LEMMA WokenIs ==
  ASSUME NEW u, IsCall(u), u.pc = "wait", u.loop \in Loops, NEW ok \in BOOLEAN
  PROVE  Calm(Woken(u, ok))
<1>1. /\ IsCall(Woken(u, ok)) /\ Woken(u, ok).on = 0
      /\ Woken(u, ok).pc \in {u.loop, "refreshed", "idle"}
  BY DEF IsCall, CallFields, Woken
<1> QED BY <1>1 DEF Calm, Flying, Loops

(* A flight ends: its slot is free, and whoever waited for it goes on.       *)
LEMMA LandFlight ==
  ASSUME ThreadsInv, NEW t \in Threads, NEW ok \in BOOLEAN, NEW me, th' = Landed(t, ok, me),
         Calm(me), th[t].pc \in Flying,
         NEW f, f = FlightAt[th[t].pc], scope'[f] = 0,
         \A s \in Slots : s # f => scope'[s] = scope[s],
         UNCHANGED <<server, born>>
  PROVE  ThreadsInv'
<1>0. t # 0 /\ f \in Slots /\ scope[f] = t
  BY SessionAssumption, FlightFacts DEF ThreadsInv, FlightsInv, SlotsHeld
<1>1. /\ th' = [x \in Threads |-> th'[x]]
      /\ \A x \in Threads : th'[x] = IF x = t THEN me ELSE IF th[x].on = t THEN Woken(th[x], ok) ELSE th[x]
  BY DEF Landed
<1>2. \A x \in Threads : x = t \/ th[x].on = t => Calm(th'[x])
  <2> SUFFICES ASSUME NEW x \in Threads, x # t, th[x].on = t PROVE Calm(Woken(th[x], ok))
    BY <1>1
  <2>1. IsCall(th[x]) /\ th[x].loop \in Loops /\ th[x].pc = "wait"
    BY <1>0 DEF ThreadsInv, FlightsInv, WaitsSound, CallsAre
  <2> QED BY <2>1, WokenIs
<1>3. \A x \in Threads : x # t /\ th[x].on # t => th'[x] = th[x]
  BY <1>1
<1>4. CallsAre'
  <2>1. \A x \in Threads : IsCall(th'[x])
    BY <1>2, <1>3 DEF Calm, ThreadsInv, CallsAre
  <2> QED BY <1>1, <2>1 DEF CallsAre, IsCall
<1>5. SlotsHeld'
  <2>1. ASSUME NEW s \in Slots, scope'[s] # 0
        PROVE  scope'[s] \in Threads /\ th'[scope'[s]].pc \in Flying /\ FlightAt[th'[scope'[s]].pc] = s
    <3>1. s # f /\ scope'[s] = scope[s]
      BY <2>1
    <3>2. scope[s] \in Threads /\ th[scope[s]].pc \in Flying /\ FlightAt[th[scope[s]].pc] = s
      BY <3>1, <2>1 DEF ThreadsInv, FlightsInv, SlotsHeld
    <3>3. scope[s] # t /\ th[scope[s]].on # t
      BY <3>1, <3>2, <1>0 DEF ThreadsInv, FlightsInv, WaitsSound, Flying
    <3> QED BY <3>1, <3>2, <3>3, <1>3
  <2>2. ASSUME NEW x \in Threads, th'[x].pc \in Flying
        PROVE  scope'[FlightAt[th'[x].pc]] = x
    <3>1. x # t /\ th[x].on # t /\ th'[x] = th[x]
      BY <2>2, <1>2, <1>3 DEF Calm
    <3>2. scope[FlightAt[th[x].pc]] = x /\ FlightAt[th[x].pc] \in Slots
      BY <3>1, <2>2, FlightFacts DEF ThreadsInv, FlightsInv, SlotsHeld
    <3> QED BY <3>1, <3>2, <1>0
  <2> QED BY <2>1, <2>2 DEF SlotsHeld
<1>6. WaitsSound'
  <2> SUFFICES ASSUME NEW x \in Threads
               PROVE  /\ th'[x].on # 0 => th'[x].pc = "wait"
                      /\ th'[x].pc = "wait" => th'[x].on # 0 /\ th'[x].loop \in Loops
                                               /\ scope'[SlotOf[th'[x].loop]] = th'[x].on
    BY DEF WaitsSound
  <2>1. CASE x = t \/ th[x].on = t
    BY <2>1, <1>2 DEF Calm
  <2>2. CASE ~(x = t \/ th[x].on = t)
    <3>1. /\ th'[x] = th[x]
          /\ th[x].on # 0 => th[x].pc = "wait"
          /\ th[x].pc = "wait" => th[x].on # 0 /\ th[x].loop \in Loops
                                   /\ scope[SlotOf[th[x].loop]] = th[x].on
      BY <2>2, <1>3 DEF ThreadsInv, FlightsInv, WaitsSound
    <3> QED BY <3>1, <2>2, <1>0, SlotFacts
  <2> QED BY <2>1, <2>2
<1>7. AnswersSound'
  <2> SUFFICES ASSUME NEW x \in Threads PROVE Answered(th[x])'
    BY DEF AnswersSound
  <2>1. CASE x = t \/ th[x].on = t
    BY <2>1, <1>2 DEF Calm, Answered, Late, Flying
  <2>2. CASE ~(x = t \/ th[x].on = t)
    BY <2>2, <1>3 DEF ThreadsInv, AnswersSound, Answered
  <2> QED BY <2>1, <2>2
<1> QED BY <1>4, <1>5, <1>6, <1>7 DEF ThreadsInv, FlightsInv
-----------------------------------------------------------------------------
(* Where the threads go.                                                     *)
LEMMA CalmIdle == Calm(Idle)
BY IdleIs DEF Calm, Flying

LEMMA CalmPlaces ==
  ASSUME NEW t \in Threads, IsCall(th[t]), th[t].on = 0, th[t].pc # "idle"
  PROVE  /\ \A pc : pc \notin Flying \cup {"wait"} => Calm(At(t, pc))
         /\ \A cont : Calm(Boot(t, cont))
         /\ Calm(Again(t)) /\ Calm(Proceed(t))
<1>1. ASSUME NEW pc, pc \notin Flying \cup {"wait"} PROVE Calm(At(t, pc))
  <2>1. IsCall(Settled(th[t])) /\ Settled(th[t]).on = 0 /\ Settled(th[t]).pc # "idle"
    BY SettledIs
  <2>2. IsCall(At(t, pc)) /\ At(t, pc).on = 0 /\ At(t, pc).pc = pc
    BY <2>1 DEF IsCall, CallFields, At
  <2> QED BY <1>1, <2>2 DEF Calm
<1>2. ASSUME NEW cont PROVE Calm(Boot(t, cont))
  <2>1. IsCall(Boot(t, cont)) /\ Boot(t, cont).on = 0 /\ Boot(t, cont).pc = "boot"
    BY DEF IsCall, CallFields, Boot
  <2> QED BY <2>1 DEF Calm, Flying
<1>3. Calm(Again(t))
  <2> DEFINE v == [th[t] EXCEPT !.pc = "request", !.session = @ + 1, !.rec = stored]
  <2>1. IsCall(v) /\ v.on = 0 /\ v.pc = "request"
    BY DEF IsCall, CallFields
  <2> HIDE DEF v
  <2>2. Calm(v)
    BY <2>1 DEF Calm, Flying
  <2> QED BY <2>2, CalmIdle DEF Again, v
<1>4. Calm(Proceed(t))
  <2> DEFINE pc == IF RefreshDue(stored) THEN "refresh" ELSE "request"
             v == [th[t] EXCEPT !.rec = stored, !.pc = pc]
  <2>1. pc \in {"refresh", "request"} /\ Proceed(t) = v
    BY DEF Proceed
  <2> HIDE DEF pc
  <2>2. IsCall(v) /\ v.on = 0 /\ v.pc = pc
    BY DEF IsCall, CallFields
  <2> QED BY <2>1, <2>2 DEF Calm, Flying
<1> QED BY <1>1, <1>2, <1>3, <1>4

LEMMA CalmWhere ==
  ASSUME NEW v, IsCall(v), v.on = 0, v.pc # "idle", NEW pc, pc \notin Flying \cup {"wait"}, NEW cont
  PROVE  Calm([v EXCEPT !.pc = pc]) /\ Calm([v EXCEPT !.pc = pc, !.cont = cont])
<1>1. IsCall([v EXCEPT !.pc = pc]) /\ [v EXCEPT !.pc = pc].pc = pc /\ [v EXCEPT !.pc = pc].on = 0
  BY DEF IsCall, CallFields
<1>2. /\ IsCall([v EXCEPT !.pc = pc, !.cont = cont])
      /\ [v EXCEPT !.pc = pc, !.cont = cont].pc = pc /\ [v EXCEPT !.pc = pc, !.cont = cont].on = 0
  BY DEF IsCall, CallFields
<1> QED BY <1>1, <1>2 DEF Calm

LEMMA CalmEnds ==
  ASSUME NEW u, IsCall(u), u.on = 0, u.pc # "idle"
  PROVE  Calm(Booted(u)) /\ Calm(Failed(u))
<1> DEFINE v == Settled(u)
           resume == [preflight |-> "confirm", blocked |-> "unblocked", recover |-> "recovered"]
           pc == resume[u.cont]
<1>1. IsCall(v) /\ v.on = 0 /\ v.pc # "idle"
  BY SettledIs
<1>2. /\ Failed(u) = IF FlightAt[u.pc] = "refresh" THEN [v EXCEPT !.pc = "refreshed"] ELSE Idle
      /\ Booted(u) = IF u.cont \in DOMAIN resume THEN [v EXCEPT !.pc = pc, !.cont = ""] ELSE Idle
  BY Zenon DEF Failed, Booted
<1>3. "refreshed" \notin Flying \cup {"wait"}
  BY DEF Flying
<1>4. u.cont \in DOMAIN resume => pc \notin Flying \cup {"wait"}
  BY DEF Flying
<1> HIDE DEF v, resume, pc
<1>5. Calm(Failed(u))
  <2>1. Calm([v EXCEPT !.pc = "refreshed"])
    BY <1>1, <1>3, CalmWhere, Zenon
  <2> QED BY <2>1, <1>2, CalmIdle
<1>6. Calm(Booted(u))
  <2>1. u.cont \in DOMAIN resume => Calm([v EXCEPT !.pc = pc, !.cont = ""])
    BY <1>1, <1>4, CalmWhere, Zenon
  <2> QED BY <2>1, <1>2, CalmIdle
<1> QED BY <1>5, <1>6

(* What a step leaves alone.                                                 *)
LEMMA TableKept ==
  ASSUME TableInv, UNCHANGED <<auth, issued, stale>>
  PROVE  TableInv'
BY DEF TableInv, TableSound, IsTable

LEMMA TableIs ==
  ASSUME NEW a, IsTable(a), TableSound(a), auth' = a, stale' = stale, issued' \in 0 .. MaxNonce
  PROVE  TableInv'
BY DEF TableInv, TableSound, IsTable

LEMMA RecordKept ==
  ASSUME RecordInv, UNCHANGED <<server, born>>, stored' \in {stored, 0},
         stored' = 0 \/ scope'.gen = scope.gen
  PROVE  RecordInv'
BY DEF RecordInv, ClearWins

LEMMA ThreadIs ==
  ASSUME ThreadsInv, NEW t \in Threads
  PROVE  /\ IsCall(th[t]) /\ (th[t].pc # "wait" => th[t].on = 0)
         /\ th[t].pc \in Flying => scope[FlightAt[th[t].pc]] = t
BY DEF ThreadsInv, CallsAre, FlightsInv, WaitsSound, SlotsHeld

LEMMA QuietCalm ==
  ASSUME SessionInv, NEW t \in Threads, NEW u, Become(t, u), Calm(u), th[t].pc \notin Flying,
         UNCHANGED <<auth, issued, stale, stored, server, born, scope>>
  PROVE  SessionInv'
<1>1. SlotsKept
  BY DEF SlotsKept
<1>2. ThreadsInv'
  BY <1>1, CalmMove DEF SessionInv
<1>3. ScopeInv'
  BY DEF SessionInv, ScopeInv, IsScope
<1> QED BY <1>2, <1>3, TableKept, RecordKept DEF SessionInv
-----------------------------------------------------------------------------
(* The steps of a thread that only it can see.                               *)
LEMMA PrivateSteps ==
  ASSUME SessionInv, NEW t \in Threads,
         \/ Preflight(t) \/ Confirm(t) \/ Unblocked(t) \/ Refreshed(t) \/ Request(t)
         \/ Rejected(t) \/ Recovered(t) \/ Grant(t) \/ ReadGeneration(t)
  PROVE  SessionInv'
<1>1. IsCall(th[t]) /\ (th[t].pc # "wait" => th[t].on = 0)
  BY ThreadIs DEF SessionInv
<1>2. UNCHANGED <<auth, issued, stale, stored, server, born, scope>>
  BY Zenon DEF Preflight, Confirm, Unblocked, Refreshed, Request, Rejected, Recovered, Grant,
               ReadGeneration, Quiet, authVars, tableVars
<1>3. th[t].pc \notin Flying \cup {"wait", "idle"}
  <2>1. th[t].pc \in {"preflight", "confirm", "unblocked", "refreshed", "request", "rejected",
                      "recovered", "grant", "generation"}
    BY Zenon DEF Preflight, Confirm, Unblocked, Refreshed, Request, Rejected, Recovered, Grant,
                 ReadGeneration
  <2> QED BY <2>1 DEF Flying
<1>4. th[t].on = 0 /\ th[t].pc # "idle"
  BY <1>1, <1>3
<1>5. SUFFICES \E u : Become(t, u) /\ Calm(u)
  BY <1>2, <1>3, QuietCalm
<1>6. CASE Preflight(t)
  BY <1>6, <1>1, <1>4, CalmIdle, CalmPlaces DEF Preflight
<1>7. CASE Confirm(t)
  BY <1>7, CalmIdle DEF Confirm
<1>8. CASE Unblocked(t)
  BY <1>8, <1>1, <1>4, CalmIdle, CalmPlaces DEF Unblocked
<1>9. CASE Refreshed(t)
  <2> DEFINE v == [th[t] EXCEPT !.pc = "request", !.rec = stored]
  <2>1. IsCall(v) /\ v.on = 0 /\ v.pc = "request"
    BY <1>1, <1>4 DEF IsCall, CallFields
  <2>2. Become(t, IF Good(stored) THEN v ELSE Boot(t, "unauthenticated"))
    BY <1>9, Zenon DEF Refreshed
  <2> HIDE DEF v
  <2>3. Calm(v)
    BY <2>1 DEF Calm, Flying
  <2> QED BY <2>2, <2>3, <1>1, <1>4, CalmPlaces
<1>10. CASE Request(t)
  <2> DEFINE v == [th[t] EXCEPT !.provider = @ + 1]
             w(c) == [th[t] EXCEPT !.pc = "gateway", !.got = c]
  <2>1. IsCall(v) /\ v.on = 0 /\ v.pc = "request"
    BY <1>1, <1>4, <1>10 DEF IsCall, CallFields, Request
  <2>2. \A c : IsCall(w(c)) /\ w(c).on = 0 /\ w(c).pc = "gateway"
    BY <1>1, <1>4 DEF IsCall, CallFields
  <2>3. \E c \in Contracts :
          Become(t, CASE c = "provider_retry" /\ th[t].provider < 2 -> v
                      [] c = "request_auth_invalid" -> At(t, "rejected")
                      [] c \in {"bootstrap_session", "verify"} -> w(c)
                      [] OTHER -> Idle)
    BY <1>10, Zenon DEF Request
  <2> HIDE DEF v, w
  <2>4. Calm(v) /\ \A c : Calm(w(c))
    BY <2>1, <2>2 DEF Calm, Flying
  <2>5. Calm(At(t, "rejected"))
    <3>1. "rejected" \notin Flying \cup {"wait"}
      BY DEF Flying
    <3> QED BY <3>1, <1>1, <1>4, CalmPlaces
  <2> QED BY <2>3, <2>4, <2>5, CalmIdle
<1>11. CASE Rejected(t)
  <2> DEFINE v == [th[t] EXCEPT !.pc = "request", !.reauth = TRUE, !.rec = stored]
  <2>1. IsCall(v) /\ v.on = 0 /\ v.pc = "request"
    BY <1>1, <1>4 DEF IsCall, CallFields
  <2>2. Become(t, IF ~th[t].reauth /\ Usable(stored) /\ stored # th[t].rec THEN v ELSE Idle)
    BY <1>11, Zenon DEF Rejected
  <2> HIDE DEF v
  <2>3. Calm(v)
    BY <2>1 DEF Calm, Flying
  <2> QED BY <2>2, <2>3, CalmIdle
<1>12. CASE Recovered(t)
  BY <1>12, <1>1, <1>4, CalmIdle, CalmPlaces DEF Recovered
<1>13. CASE Grant(t)
  <2> DEFINE v == [th[t] EXCEPT !.pc = "generation", !.grant = grants[th[t].id]]
  <2>1. IsCall(v) /\ v.on = 0 /\ v.pc = "generation"
    BY <1>1, <1>4 DEF IsCall, CallFields
  <2>2. Become(t, IF grants[th[t].id] = 0 THEN Idle ELSE v)
    BY <1>13, Zenon DEF Grant
  <2> HIDE DEF v
  <2>3. Calm(v)
    BY <2>1 DEF Calm, Flying
  <2> QED BY <2>2, <2>3, CalmIdle
<1>14. CASE ReadGeneration(t)
  <2> DEFINE v == [th[t] EXCEPT !.pc = "slot", !.gen = scope.gen]
  <2>1. IsCall(v) /\ v.on = 0 /\ v.pc = "slot"
    BY <1>1, <1>4 DEF IsCall, CallFields
  <2>2. Become(t, v)
    BY <1>14, Zenon DEF ReadGeneration
  <2> HIDE DEF v
  <2> QED BY <2>1, <2>2 DEF Calm, Flying
<1> QED BY <1>6, <1>7, <1>8, <1>9, <1>10, <1>11, <1>12, <1>13, <1>14

LEMMA CallSteps ==
  ASSUME SessionInv, NEW t \in Threads,
         \/ Cancel(t) \/ CheckFails(t) \/ \E i \in Ids : Call(t, i)
  PROVE  SessionInv'
<1>1. IsCall(th[t]) /\ (th[t].pc # "wait" => th[t].on = 0)
  BY ThreadIs DEF SessionInv
<1>2. UNCHANGED <<auth, issued, stale, stored, server, born, scope>>
  BY Zenon DEF Cancel, CheckFails, Call, Quiet, authVars, tableVars
<1>3. CASE Cancel(t)
  <2> DEFINE v == [th[t] EXCEPT !.cancelled = TRUE]
  <2>1. /\ IsCall(v) /\ v.pc = th[t].pc /\ v.on = th[t].on /\ v.loop = th[t].loop
        /\ v.got = th[t].got /\ v.new = th[t].new /\ v.gen = th[t].gen
    BY <1>1 DEF IsCall, CallFields
  <2>2. Become(t, v)
    BY <1>3, Zenon DEF Cancel
  <2> HIDE DEF v
  <2>3. ThreadsInv'
    BY <1>2, <2>1, <2>2, StillMove DEF SessionInv, SlotsKept
  <2>4. ScopeInv'
    BY <1>2 DEF SessionInv, ScopeInv, IsScope
  <2> QED BY <1>2, <2>3, <2>4, TableKept, RecordKept DEF SessionInv
<1>4. CASE CheckFails(t)
  <2>1. th[t].pc \notin Flying /\ th[t].pc # "idle"
    BY <1>4 DEF CheckFails, Flying
  <2> DEFINE a == At(t, "refreshed")
             v == [a EXCEPT !.on = 0, !.loop = ""]
  <2>2. \E u \in {v, Idle} : Become(t, u)
    BY <1>4, Zenon DEF CheckFails
  <2>3. IsCall(Settled(th[t])) /\ Settled(th[t]).pc # "idle"
    BY <1>1, <2>1, SettledIs
  <2>4. IsCall(a) /\ a.pc = "refreshed"
    BY <2>3 DEF IsCall, CallFields, At
  <2> HIDE DEF a
  <2>5. IsCall(v) /\ v.on = 0 /\ v.pc = "refreshed"
    BY <2>4 DEF IsCall, CallFields
  <2> HIDE DEF v
  <2>6. Calm(v)
    BY <2>5 DEF Calm, Flying
  <2> QED BY <2>1, <2>2, <2>6, <1>2, CalmIdle, QuietCalm
<1>5. ASSUME NEW i \in Ids, Call(t, i) PROVE SessionInv'
  <2> DEFINE v(pc) == [Idle EXCEPT !.pc = pc, !.id = i]
  <2>1. \E pc \in {"preflight", "fetch", "grant"} : Become(t, v(pc))
    BY <1>5, Zenon DEF Call
  <2>2. \A pc \in {"preflight", "fetch", "grant"} : Calm(v(pc))
    <3> SUFFICES ASSUME NEW pc \in {"preflight", "fetch", "grant"} PROVE Calm(v(pc))
      OBVIOUS
    <3>1. IsCall(v(pc)) /\ v(pc).on = 0 /\ v(pc).pc = pc
      BY DEF IsCall, CallFields, Idle
    <3> QED BY <3>1 DEF Calm, Flying
  <2>3. th[t].pc \notin Flying
    BY <1>5 DEF Call, Flying
  <2> HIDE DEF v
  <2> QED BY <2>1, <2>2, <2>3, <1>2, QuietCalm
<1> QED BY <1>3, <1>4, <1>5

(* A flight that fails gives its slot back.                                  *)
LEMMA LandedInv ==
  ASSUME SessionInv, NEW t \in Threads, th[t].pc \in Flying, NEW ok \in BOOLEAN, NEW me, Calm(me),
         th' = Landed(t, ok, me),
         NEW sc, IsScope(sc), \A s \in Slots : sc[s] = scope[s], sc.challenge \in 0 .. MaxNonce,
         scope' = Release(th[t].pc, sc), UNCHANGED <<server, born>>
  PROVE  ThreadsInv' /\ ScopeInv' /\ scope'.gen = sc.gen
<1> DEFINE r == Release(th[t].pc, sc)   f == FlightAt[th[t].pc]
<1>1. /\ IsScope(r) /\ r.challenge = sc.challenge /\ r.gen = sc.gen
      /\ r[f] = 0 /\ \A s \in Slots : s # f => r[s] = sc[s]
  BY ReleaseIs
<1> HIDE DEF r
<1>2. scope' = r
  BY DEF r
<1>3. ThreadsInv'
  BY <1>1, <1>2, LandFlight DEF SessionInv
<1>4. ScopeInv'
  BY <1>1, <1>2 DEF ScopeInv, IsScope
<1> QED BY <1>1, <1>2, <1>3, <1>4

LEMMA FailedSteps ==
  ASSUME SessionInv, NEW t \in Threads, StorageFails(t) \/ FlightFails(t)
  PROVE  SessionInv'
<1>1. IsCall(th[t]) /\ (th[t].pc # "wait" => th[t].on = 0)
  BY ThreadIs DEF SessionInv
<1>2. /\ UNCHANGED <<auth, issued, stale, stored, server, born>>
      /\ scope' = Release(th[t].pc, scope)
  BY Zenon DEF StorageFails, FlightFails, authVars, tableVars
<1>3. CASE th' = Landed(t, FALSE, Failed(th[t])) /\ th[t].pc \in Flying
  <2>1. Calm(Failed(th[t]))
    BY <1>1, <1>3, CalmEnds DEF Flying
  <2>2. /\ IsScope(scope) /\ scope.challenge \in 0 .. MaxNonce
    BY DEF SessionInv, ScopeInv
  <2>3. ThreadsInv' /\ ScopeInv' /\ scope'.gen = scope.gen
    BY <1>2, <1>3, <2>1, <2>2, LandedInv
  <2> QED BY <1>2, <2>3, TableKept, RecordKept DEF SessionInv
<1>4. CASE th[t].pc \notin Flying /\ Become(t, IF th[t].pc = "refresh" THEN At(t, "refreshed") ELSE Idle)
           /\ th[t].pc \notin {"wait", "idle"}
  <2>1. scope' = scope
    BY <1>2, <1>4, FlightFacts DEF Release
  <2>2. Calm(At(t, "refreshed"))
    <3>1. "refreshed" \notin Flying \cup {"wait"}
      BY DEF Flying
    <3> QED BY <3>1, <1>1, <1>4, CalmPlaces
  <2> QED BY <2>1, <2>2, <1>2, <1>4, CalmIdle, QuietCalm
<1>5. StorageFails(t) =>
        \/ th' = Landed(t, FALSE, Failed(th[t])) /\ th[t].pc \in Flying
        \/ th[t].pc \notin Flying /\ Become(t, IF th[t].pc = "refresh" THEN At(t, "refreshed") ELSE Idle)
           /\ th[t].pc \notin {"wait", "idle"}
  <2>1. StorageFails(t) =>
          \/ /\ th[t].pc \in {"preflight", "confirm", "fetch", "unblocked", "refresh", "refreshed",
                         "rejected", "gateway", "recovered"}
             /\ Become(t, IF th[t].pc = "refresh" THEN At(t, "refreshed") ELSE Idle)
          \/ /\ th[t].pc \in {"booted", "answered", "owned", "exchanged"}
             /\ th' = Landed(t, FALSE, Failed(th[t]))
    BY Zenon DEF StorageFails
  <2> QED BY <2>1 DEF Flying
<1>6. FlightFails(t) => th' = Landed(t, FALSE, Failed(th[t])) /\ th[t].pc \in Flying
  <2>1. FlightFails(t) => th' = Landed(t, FALSE, Failed(th[t])) /\ th[t].pc \in {"booted", "answered", "exchanged"}
    BY Zenon DEF FlightFails
  <2> QED BY <2>1 DEF Flying
<1> QED BY <1>3, <1>4, <1>5, <1>6

(* The server's answer.                                                      *)
LEMMA AnswerStep ==
  ASSUME SessionInv, NEW t \in Threads, NEW out, Answer(t, out)
  PROVE  SessionInv'
<1> DEFINE next == [booting |-> "booted", refreshing |-> "answered", exchanging |-> "exchanged"]
           n == IF out = "session" THEN server + 1 ELSE 0
           pc == next[th[t].pc]
           u == [th[t] EXCEPT !.pc = pc, !.got = out, !.new = n]
<1>1. IsCall(th[t]) /\ (th[t].pc # "wait" => th[t].on = 0)
  BY ThreadIs DEF SessionInv
<1>2. /\ th[t].pc \in {"booting", "refreshing", "exchanging"}
      /\ th[t].pc = "exchanging" => out \in {"error", "session"}
  BY DEF Answer
<1>3. /\ pc \in Flying /\ th[t].pc \in Flying /\ FlightAt[pc] = FlightAt[th[t].pc]
      /\ pc = "exchanged" => th[t].pc = "exchanging"
  BY <1>2, FlightFacts DEF Flying
<1>4. Become(t, u)
  BY Zenon DEF Answer
<1>5. /\ UNCHANGED <<auth, issued, stale, stored, scope>>
      /\ IF out = "session"
           THEN server < MaxSession /\ server' = server + 1 /\ born' = [born EXCEPT ![server + 1] = th[t].gen]
           ELSE UNCHANGED <<server, born>>
  BY Zenon DEF Answer, authVars, tableVars
<1>6. /\ server \in Nat /\ server' \in 0 .. MaxSession /\ server <= server' /\ stored \in 0 .. server
      /\ \A m \in 1 .. server : born'[m] = born[m]
      /\ born' = [m \in Sessions |-> born'[m]]
      /\ out = "session" => n \in 1 .. server' /\ born'[n] = th[t].gen
  <2>1. server \in 0 .. MaxSession /\ born = [m \in Sessions |-> born[m]] /\ stored \in 0 .. server
        /\ MaxSession \in Nat
    BY SessionAssumption DEF SessionInv, RecordInv
  <2>2. CASE out = "session"
    <3>1. /\ server' = server + 1 /\ server < MaxSession /\ n = server + 1
          /\ born' = [born EXCEPT ![server + 1] = th[t].gen]
      BY <1>5, <2>2
    <3>2. server + 1 \in Sessions
      BY <2>1, <3>1 DEF Sessions
    <3>3. \A m \in Sessions : born'[m] = IF m = server + 1 THEN th[t].gen ELSE born[m]
      BY <2>1, <3>1
    <3>4. born' = [m \in Sessions |-> born'[m]]
      BY <2>1, <3>1
    <3>5. 1 .. server \subseteq Sessions
      BY <2>1 DEF Sessions
    <3> QED BY <2>1, <3>1, <3>2, <3>3, <3>4, <3>5
  <2>3. CASE out # "session"
    BY <2>1, <2>3, <1>5
  <2> QED BY <2>2, <2>3
<1> HIDE DEF pc, n
<1>7. IsCall(u) /\ u.pc = pc /\ u.on = 0 /\ u.got = out /\ u.new = n /\ u.gen = th[t].gen
  BY <1>1, <1>2 DEF IsCall, CallFields
<1> HIDE DEF u
<1>8. ThreadsInv'
  <2>1. SlotsKept /\ server' \in Nat
    BY <1>5, <1>6, SessionAssumption DEF SlotsKept
  <2>2. u.got = "session" => u.new \in 1 .. server' /\ born'[u.new] = u.gen
    BY <1>6, <1>7
  <2>3. u.pc = "exchanged" => u.got \in {"error", "session"}
    BY <1>2, <1>3, <1>7
  <2> QED BY <2>1, <2>2, <2>3, <1>3, <1>4, <1>6, <1>7, FlightMove DEF SessionInv
<1>9. RecordInv'
  <2>1. stored # 0 => stored \in 1 .. server /\ born[stored] = scope.gen
    BY <1>6 DEF SessionInv, RecordInv, ClearWins
  <2> QED BY <2>1, <1>5, <1>6 DEF RecordInv, ClearWins
<1>10. ScopeInv'
  BY <1>5 DEF SessionInv, ScopeInv, IsScope
<1> QED BY <1>5, <1>8, <1>9, <1>10, TableKept DEF SessionInv

LEMMA FetchSteps ==
  ASSUME SessionInv, NEW t \in Threads, Fetch(t) \/ Gateway(t)
  PROVE  SessionInv'
<1>1. IsCall(th[t]) /\ (th[t].pc # "wait" => th[t].on = 0)
  BY ThreadIs DEF SessionInv
<1>2. UNCHANGED <<auth, issued, stale, server, born>>
  BY Zenon DEF Fetch, Gateway, authVars, tableVars
<1>3. th[t].pc \in {"fetch", "gateway"}
  BY Zenon DEF Fetch, Gateway
<1>4. th[t].pc \notin Flying /\ th[t].on = 0 /\ th[t].pc # "idle"
  BY <1>1, <1>3 DEF Flying
<1>5. stored' \in {stored, 0}
  BY DEF Fetch, Gateway
<1>6. IsScope(scope') /\ scope'.challenge = scope.challenge /\ scope'.gen = scope.gen /\ SlotsKept
  <2>1. \E b : scope' \in {scope, [scope EXCEPT !.blocked = b]}
    BY DEF Fetch, Gateway
  <2>2. PICK b : scope' \in {scope, [scope EXCEPT !.blocked = b]}
    BY <2>1
  <2> DEFINE sc == [scope EXCEPT !.blocked = b]
  <2>3. IsScope(scope)
    BY DEF SessionInv, ScopeInv
  <2>4. /\ IsScope(sc) /\ sc.challenge = scope.challenge /\ sc.gen = scope.gen
        /\ \A s \in Slots : sc[s] = scope[s]
    BY <2>3 DEF IsScope, ScopeFields, Slots
  <2>5. scope' \in {scope, sc}
    BY <2>2
  <2> HIDE DEF sc
  <2> QED BY <2>3, <2>4, <2>5 DEF SlotsKept
<1>7. \E u : Become(t, u) /\ Calm(u)
  <2>1. /\ Calm(Idle) /\ Calm(Again(t)) /\ Calm(Proceed(t))
        /\ Calm(Boot(t, "unauthenticated")) /\ Calm(Boot(t, "blocked")) /\ Calm(Boot(t, "recover"))
    BY <1>1, <1>4, CalmIdle, CalmPlaces
  <2> QED BY <2>1 DEF Fetch, Gateway
<1>8. ThreadsInv'
  BY <1>2, <1>4, <1>6, <1>7, CalmMove DEF SessionInv
<1>9. ScopeInv'
  BY <1>6 DEF SessionInv, ScopeInv, IsScope
<1> QED BY <1>2, <1>5, <1>6, <1>8, <1>9, TableKept, RecordKept DEF SessionInv

LEMMA FlightSteps ==
  ASSUME SessionInv, NEW t \in Threads, Refresh(t) \/ TakeSlot(t)
  PROVE  SessionInv'
<1>1. IsCall(th[t]) /\ (th[t].pc # "wait" => th[t].on = 0)
  BY ThreadIs DEF SessionInv
<1>2. UNCHANGED <<auth, issued, stale, stored, server, born>>
  BY Zenon DEF Refresh, TakeSlot, authVars, tableVars
<1>3. th[t].pc \in {"refresh", "slot"}
  BY Zenon DEF Refresh, TakeSlot
<1>4. th[t].pc \notin Flying /\ th[t].on = 0 /\ th[t].pc # "idle"
  BY <1>1, <1>3 DEF Flying
<1>5. IsScope(scope)
  BY DEF SessionInv, ScopeInv
<1> DEFINE wait(l, n) == [th[t] EXCEPT !.pc = "wait", !.loop = l, !.on = n]
           refreshing == [th[t] EXCEPT !.pc = "refreshing", !.from = stored, !.gen = scope.gen]
           owned == [th[t] EXCEPT !.pc = "owned"]
<1>6. \/ Become(t, At(t, "refreshed")) /\ UNCHANGED scope
      \/ scope.refresh # 0 /\ Become(t, wait("refresh", scope.refresh)) /\ UNCHANGED scope
      \/ scope.exchange # 0 /\ Become(t, wait("slot", scope.exchange)) /\ UNCHANGED scope
      \/ scope.refresh = 0 /\ Become(t, refreshing) /\ scope' = [scope EXCEPT !.refresh = t]
      \/ scope.exchange = 0 /\ Become(t, owned) /\ scope' = [scope EXCEPT !.exchange = t]
  <2>1. CASE Refresh(t)
    BY <2>1, Zenon DEF Refresh
  <2>2. CASE TakeSlot(t)
    <3>1. IF scope.exchange # 0
            THEN Become(t, wait("slot", scope.exchange)) /\ UNCHANGED scope
            ELSE Become(t, owned) /\ scope' = [scope EXCEPT !.exchange = t]
      BY <2>2, Zenon DEF TakeSlot
    <3> HIDE DEF wait, owned
    <3> QED BY <3>1
  <2> QED BY <2>1, <2>2
<1>7. ASSUME NEW l, NEW n
      PROVE  IsCall(wait(l, n)) /\ wait(l, n).pc = "wait" /\ wait(l, n).loop = l /\ wait(l, n).on = n
  <2> DEFINE v == wait(l, n)
  <2>1. v = [f \in CallFields |-> v[f]]
    BY <1>1 DEF IsCall, CallFields
  <2>2. v.pc = "wait" /\ v.loop = l /\ v.on = n /\ v.id = th[t].id
    BY <1>1 DEF IsCall, CallFields
  <2>3. th[t].id \in Ids
    BY <1>1, <1>4 DEF IsCall
  <2> QED BY <2>1, <2>2, <2>3 DEF IsCall
<1>8. /\ IsCall(refreshing) /\ refreshing.pc = "refreshing" /\ refreshing.on = 0
      /\ IsCall(owned) /\ owned.pc = "owned" /\ owned.on = 0
  BY <1>1, <1>4 DEF IsCall, CallFields
<1> HIDE DEF wait, refreshing, owned
<1>9. CASE Become(t, At(t, "refreshed")) /\ UNCHANGED scope
  <2>1. Calm(At(t, "refreshed"))
    <3>1. "refreshed" \notin Flying \cup {"wait"}
      BY DEF Flying
    <3> QED BY <3>1, <1>1, <1>4, CalmPlaces
  <2> QED BY <2>1, <1>2, <1>4, <1>9, QuietCalm
<1>10. ASSUME NEW l \in {"refresh", "slot"}, scope[SlotOf[l]] # 0,
              Become(t, wait(l, scope[SlotOf[l]])), UNCHANGED scope
       PROVE  SessionInv'
  <2>1. l \in Loops
    BY DEF Loops
  <2>2. SlotsKept
    BY <1>10 DEF SlotsKept
  <2>3. ThreadsInv'
    BY <2>1, <2>2, <1>2, <1>4, <1>7, <1>10, BeginWait DEF SessionInv
  <2>4. ScopeInv'
    BY <1>10 DEF SessionInv, ScopeInv, IsScope
  <2> QED BY <2>3, <2>4, <1>2, <1>10, TableKept, RecordKept DEF SessionInv
<1>11. ASSUME NEW f \in {"refresh", "exchange"}, scope[f] = 0, scope' = [scope EXCEPT ![f] = t],
              NEW u, Become(t, u), IsCall(u), u.on = 0,
              f = "refresh" => u.pc = "refreshing", f = "exchange" => u.pc = "owned"
       PROVE  SessionInv'
  <2>1. f \in ScopeFields /\ f # "gen" /\ f # "challenge" /\ Slots \subseteq ScopeFields
        /\ "gen" \in ScopeFields /\ "challenge" \in ScopeFields
    BY DEF ScopeFields, Slots
  <2>2. /\ IsScope(scope') /\ scope'[f] = t
        /\ \A h \in ScopeFields : h # f => scope'[h] = scope[h]
    <3>1. /\ IsScope([scope EXCEPT ![f] = t]) /\ [scope EXCEPT ![f] = t][f] = t
          /\ \A h \in ScopeFields : h # f => [scope EXCEPT ![f] = t][h] = scope[h]
      <4>1. IsScope(scope) /\ f \in ScopeFields
        BY <2>1, <1>5
      <4> QED BY <4>1, EditScope
    <3> QED BY <3>1, <1>11
  <2>3. u.pc \in Flying \ Late /\ f = FlightAt[u.pc]
    BY <1>11, FlightFacts DEF Flying, Late
  <2>4. \A s \in Slots : s # f => scope'[s] = scope[s]
    BY <2>1, <2>2
  <2>5. ThreadsInv'
    BY <2>2, <2>3, <2>4, <1>2, <1>4, <1>11, TakeFlight DEF SessionInv
  <2>6. scope'["gen"] = scope["gen"] /\ scope'["challenge"] = scope["challenge"]
    BY <2>1, <2>2
  <2>7. ScopeInv'
    BY <2>2, <2>6 DEF SessionInv, ScopeInv, IsScope
  <2> QED BY <2>5, <2>6, <2>7, <1>2, TableKept, RecordKept DEF SessionInv
<1>12. CASE scope.refresh # 0 /\ Become(t, wait("refresh", scope.refresh)) /\ UNCHANGED scope
  BY <1>10, <1>12, SlotFacts
<1>13. CASE scope.exchange # 0 /\ Become(t, wait("slot", scope.exchange)) /\ UNCHANGED scope
  BY <1>10, <1>13, SlotFacts
<1>14. CASE scope.refresh = 0 /\ Become(t, refreshing) /\ scope' = [scope EXCEPT !.refresh = t]
  BY <1>8, <1>11, <1>14
<1>15. CASE scope.exchange = 0 /\ Become(t, owned) /\ scope' = [scope EXCEPT !.exchange = t]
  BY <1>8, <1>11, <1>15
<1> QED BY <1>6, <1>9, <1>12, <1>13, <1>14, <1>15

(* The ends of flights.                                                      *)
LEMMA NotSupersededIs ==
  ASSUME SessionInv, NEW t \in Threads, th[t].pc \in Late, ~Superseded(t)
  PROVE  /\ th[t].gen = scope.gen
         /\ th[t].got = "session" => th[t].new \in 1 .. server /\ born[th[t].new] = scope.gen
         /\ th[t].pc = "exchanged" => th[t].got = "session"
BY DEF Superseded, SessionInv, ThreadsInv, AnswersSound, Answered

LEMMA RecordNew ==
  ASSUME RecordInv, UNCHANGED <<server, born>>, scope'.gen = scope.gen,
         \/ stored' \in {stored, 0}
         \/ stored' \in 1 .. server /\ born[stored'] = scope.gen
  PROVE  RecordInv'
BY DEF RecordInv, ClearWins

LEMMA RefreshEndsStep ==
  ASSUME SessionInv, NEW t \in Threads, RefreshEnds(t)
  PROVE  SessionInv'
<1>1. IsCall(th[t]) /\ (th[t].pc # "wait" => th[t].on = 0)
  BY ThreadIs DEF SessionInv
<1>2. /\ UNCHANGED <<auth, issued, stale, server, born>> /\ th[t].pc = "answered" /\ ~Superseded(t)
      /\ scope' = Release(th[t].pc, scope) /\ th' = Landed(t, TRUE, At(t, "refreshed"))
      /\ stored' = IF stored # 0 /\ stored = th[t].from /\ th[t].got = "session" THEN th[t].new ELSE stored
  BY Zenon DEF RefreshEnds, authVars, tableVars
<1>3. th[t].pc \in Flying \cap Late /\ "refreshed" \notin Flying \cup {"wait"}
  BY <1>2 DEF Flying, Late
<1>4. Calm(At(t, "refreshed"))
  BY <1>1, <1>2, <1>3, CalmPlaces
<1>5. IsScope(scope) /\ scope.challenge \in 0 .. MaxNonce
  BY DEF SessionInv, ScopeInv
<1>6. ThreadsInv' /\ ScopeInv' /\ scope'.gen = scope.gen
  BY <1>2, <1>3, <1>4, <1>5, LandedInv
<1>7. th[t].got = "session" => th[t].new \in 1 .. server /\ born[th[t].new] = scope.gen
  BY <1>2, <1>3, NotSupersededIs
<1> QED BY <1>2, <1>6, <1>7, TableKept, RecordNew DEF SessionInv

LEMMA ExchangeSteps ==
  ASSUME SessionInv, NEW t \in Threads, Exchange(t) \/ ExchangeEnds(t)
  PROVE  SessionInv'
<1>1. IsCall(th[t]) /\ (th[t].pc # "wait" => th[t].on = 0)
  BY ThreadIs DEF SessionInv
<1>2. UNCHANGED <<issued, stale, server, born>> /\ th[t].pc \in {"owned", "exchanged"}
  BY Zenon DEF Exchange, ExchangeEnds, authVars, tableVars
<1>3. th[t].pc \in Flying /\ th[t].on = 0 /\ th[t].pc # "idle"
  BY <1>1, <1>2 DEF Flying
<1>4. IsScope(scope) /\ scope.challenge \in 0 .. MaxNonce
  BY DEF SessionInv, ScopeInv
<1>5. Calm(At(t, "granted"))
  <2>1. "granted" \notin Flying \cup {"wait"}
    BY DEF Flying
  <2> QED BY <2>1, <1>1, <1>3, CalmPlaces
<1>6. ASSUME auth' = Without(auth, scope.ids), th' = Landed(t, TRUE, At(t, "granted")),
             NEW b, NEW c, NEW r, r = Release(th[t].pc, scope),
             scope' = Unchallenged([r EXCEPT !.blocked = b, !.completed = c]),
             \/ stored' \in {stored, 0}
             \/ stored' \in 1 .. server /\ born[stored'] = scope.gen
      PROVE  SessionInv'
  <2> DEFINE f == FlightAt[th[t].pc]
             e == [r EXCEPT !.blocked = b, !.completed = c]
  <2>1. /\ IsScope(r) /\ r.challenge = scope.challenge /\ r.gen = scope.gen
        /\ r[f] = 0 /\ \A s \in Slots : s # f => r[s] = scope[s]
    BY <1>3, <1>4, <1>6, ReleaseIs
  <2>2. /\ IsScope(e) /\ e.gen = r.gen /\ \A s \in Slots : e[s] = r[s]
    BY <2>1 DEF IsScope, ScopeFields, Slots
  <2> HIDE DEF e
  <2>3. /\ IsScope(scope') /\ scope'.challenge = 0 /\ scope'.gen = e.gen
        /\ \A s \in Slots : scope'[s] = e[s]
    BY <2>2, <1>6, UnchallengedIs DEF e
  <2>4. f \in Slots
    BY <1>3, FlightFacts
  <2>5. ThreadsInv'
    <3>1. scope'[f] = 0 /\ \A s \in Slots : s # f => scope'[s] = scope[s]
      BY <2>1, <2>2, <2>3, <2>4
    <3> QED BY <3>1, <1>2, <1>3, <1>5, <1>6, LandFlight DEF SessionInv
  <2>6. ScopeInv'
    BY <2>3, AuthAssumption DEF ScopeInv, IsScope
  <2>7. IsTable(Without(auth, scope.ids)) /\ TableSound(Without(auth, scope.ids))
    BY WithoutSound DEF SessionInv, TableInv
  <2>8. TableInv'
    BY <2>7, <1>2, <1>6, TableIs DEF SessionInv, TableInv
  <2>9. scope'.gen = scope.gen
    BY <2>1, <2>2, <2>3
  <2>10. RecordInv'
    BY <2>9, <1>2, <1>6, RecordNew DEF SessionInv
  <2> QED BY <2>5, <2>6, <2>8, <2>10 DEF SessionInv
<1>7. CASE Exchange(t)
  <2> DEFINE free == Release("owned", scope)
             over == th[t].gen # scope.gen
             done == scope.completed = th[t].grant /\ Usable(stored)
             u == [th[t] EXCEPT !.pc = "exchanging", !.from = stored]
  <2>1. /\ stored' = stored /\ th[t].pc = "owned"
        /\ \/ scope' = free /\ th' = Landed(t, FALSE, Idle) /\ UNCHANGED auth
           \/ /\ scope' = Unchallenged([free EXCEPT !.blocked = 0])
              /\ auth' = Without(auth, scope.ids)
              /\ th' = Landed(t, TRUE, At(t, "granted"))
           \/ Become(t, u) /\ UNCHANGED <<auth, scope>>
    BY <1>7, Zenon DEF Exchange
  <2>2. CASE scope' = free /\ th' = Landed(t, FALSE, Idle) /\ UNCHANGED auth
    <3>1. ThreadsInv' /\ ScopeInv' /\ scope'.gen = scope.gen
      BY <2>1, <2>2, <1>2, <1>3, <1>4, CalmIdle, LandedInv
    <3> QED BY <3>1, <2>1, <2>2, <1>2, TableKept, RecordKept DEF SessionInv
  <2>3. CASE /\ scope' = Unchallenged([free EXCEPT !.blocked = 0])
             /\ auth' = Without(auth, scope.ids)
             /\ th' = Landed(t, TRUE, At(t, "granted"))
    <3> DEFINE c == free.completed
    <3>1. IsScope(free)
      BY <2>1, <1>3, <1>4, ReleaseIs
    <3> HIDE DEF free
    <3>2. [free EXCEPT !.blocked = 0] = [free EXCEPT !.blocked = 0, !.completed = c]
      BY <3>1 DEF IsScope, ScopeFields
    <3>3. scope' = Unchallenged([free EXCEPT !.blocked = 0, !.completed = c])
      BY <2>3, <3>2, Zenon
    <3>4. free = Release(th[t].pc, scope)
      BY <2>1 DEF free
    <3> HIDE DEF c
    <3> QED BY <3>3, <3>4, <2>1, <2>3, <1>6
  <2>4. CASE Become(t, u) /\ UNCHANGED <<auth, scope>>
    <3>1. IsCall(u) /\ u.pc = "exchanging" /\ u.on = 0 /\ u.got = th[t].got /\ u.new = th[t].new /\ u.gen = th[t].gen
      BY <1>1, <1>3 DEF IsCall, CallFields
    <3> HIDE DEF u
    <3>2. ThreadsInv'
      <4>1. u.pc \in Flying /\ FlightAt[u.pc] = FlightAt[th[t].pc] /\ SlotsKept
        BY <3>1, <2>1, <2>4, FlightFacts DEF Flying, SlotsKept
      <4>2. u.pc \notin Late /\ u.pc # "exchanged"
        BY <3>1 DEF Late
      <4>3. /\ server' \in Nat /\ server \in Nat /\ server <= server'
            /\ \A n \in 1 .. server : born'[n] = born[n]
        BY <1>2, SessionAssumption DEF SessionInv, RecordInv
      <4> QED BY <4>1, <4>2, <4>3, <3>1, <2>4, <1>3, FlightMove DEF SessionInv
    <3>3. ScopeInv'
      BY <2>4 DEF SessionInv, ScopeInv, IsScope
    <3> QED BY <3>2, <3>3, <2>1, <2>4, <1>2, TableKept, RecordKept DEF SessionInv
  <2> QED BY <2>1, <2>2, <2>3, <2>4
<1>8. CASE ExchangeEnds(t)
  <2> DEFINE keep == Usable(stored) /\ (scope.completed = th[t].grant \/ stored # th[t].from)
             r == Release("exchanged", scope)
             c == IF keep THEN r.completed ELSE th[t].grant
  <2>1. /\ th[t].pc = "exchanged" /\ ~Superseded(t)
        /\ stored' = IF keep THEN stored ELSE th[t].new
        /\ auth' = Without(auth, scope.ids)
        /\ th' = Landed(t, TRUE, At(t, "granted"))
    BY <1>8, Zenon DEF ExchangeEnds
  <2>2. IsScope(r)
    BY <2>1, <1>3, <1>4, ReleaseIs
  <2>3. scope' = Unchallenged([r EXCEPT !.blocked = 0, !.completed = c])
    BY <1>8, Zenon DEF ExchangeEnds
  <2>4. stored' = stored \/ (stored' \in 1 .. server /\ born[stored'] = scope.gen)
    <3>1. th[t].pc \in Late
      BY <2>1 DEF Late
    <3> QED BY <3>1, <2>1, NotSupersededIs
  <2>5. r = Release(th[t].pc, scope)
    BY <2>1
  <2> HIDE DEF r, c, keep
  <2> QED BY <2>1, <2>3, <2>4, <2>5, <1>6
<1> QED BY <1>7, <1>8

(* The steps that also move challenges.                                      *)
LEMMA GrantedStep ==
  ASSUME SessionInv, NEW t \in Threads, Granted(t)
  PROVE  SessionInv'
<1>1. /\ UNCHANGED <<issued, stale, stored, server, born, scope>> /\ th[t].pc = "granted"
      /\ auth' = Without(auth, {th[t].id}) /\ Become(t, Idle)
  BY Zenon DEF Granted
<1>2. IsTable(Without(auth, {th[t].id})) /\ TableSound(Without(auth, {th[t].id}))
  BY WithoutSound DEF SessionInv, TableInv
<1>3. TableInv'
  BY <1>1, <1>2, TableIs DEF SessionInv, TableInv
<1>4. ThreadsInv'
  BY <1>1, CalmIdle, CalmMove DEF SessionInv, SlotsKept, Flying
<1>5. ScopeInv'
  BY <1>1 DEF SessionInv, ScopeInv, IsScope
<1> QED BY <1>1, <1>3, <1>4, <1>5, RecordKept DEF SessionInv

LEMMA BootShareStep ==
  ASSUME SessionInv, NEW t \in Threads, BootShare(t)
  PROVE  SessionInv'
<1> DEFINE i == th[t].id   n == scope.challenge
           sc == [scope EXCEPT !.ids = @ \cup {i}]
<1>1. /\ UNCHANGED <<issued, stale, stored, server, born>> /\ th[t].pc = "boot" /\ n # 0
      /\ \/ auth' = Register(auth, i, n) /\ scope' = sc
         \/ UNCHANGED <<auth, scope>>
      /\ Become(t, Idle)
  BY Zenon DEF BootShare
<1>2. IsScope(scope) /\ n \in Nonces /\ i \in Ids
  <2>1. IsScope(scope) /\ n \in Nonces
    BY <1>1 DEF SessionInv, ScopeInv, Nonces
  <2>2. IsCall(th[t])
    BY ThreadIs DEF SessionInv
  <2>3. i \in Ids
    BY <2>2, <1>1 DEF IsCall
  <2> QED BY <2>1, <2>3
<1>3. /\ IsScope(sc) /\ sc.challenge = scope.challenge /\ sc.gen = scope.gen
      /\ \A s \in Slots : sc[s] = scope[s]
  BY <1>2 DEF IsScope, ScopeFields, Slots
<1> HIDE DEF sc
<1>4. /\ IsScope(scope)' /\ scope'.challenge = scope.challenge /\ scope'.gen = scope.gen
      /\ SlotsKept
  BY <1>1, <1>2, <1>3 DEF SlotsKept, IsScope
<1>5. TableInv'
  <2>1. IsTable(Register(auth, i, n)) /\ TableSound(Register(auth, i, n))
    BY <1>2, RegisterSound DEF SessionInv, TableInv
  <2>2. IsTable(auth) /\ TableSound(auth) /\ issued' \in 0 .. MaxNonce
    BY <1>1 DEF SessionInv, TableInv
  <2>3. stale' = stale /\ (auth' = Register(auth, i, n) \/ auth' = auth)
    BY <1>1
  <2> QED BY <2>1, <2>2, <2>3, TableIs
<1>6. ThreadsInv'
  BY <1>1, <1>4, CalmIdle, CalmMove DEF SessionInv, Flying
<1>7. ScopeInv'
  BY <1>4 DEF SessionInv, ScopeInv
<1> QED BY <1>1, <1>4, <1>5, <1>6, <1>7, RecordKept DEF SessionInv

LEMMA BootLooksStep ==
  ASSUME SessionInv, NEW t \in Threads, BootLooks(t)
  PROVE  SessionInv'
<1> DEFINE i == th[t].id
           b == IF scope.challenge = 0 THEN auth ELSE Without(auth, scope.ids)
           a == Purged(b, i)
           sc == IF scope.challenge = 0 THEN scope ELSE Unchallenged(scope)
           wait == [th[t] EXCEPT !.pc = "wait", !.loop = "boot", !.on = sc.bootstrap]
           booting == [th[t] EXCEPT !.pc = "booting", !.from = stored, !.gen = sc.gen]
           taken == [sc EXCEPT !.bootstrap = t]
<1>1. /\ UNCHANGED <<issued, stale, stored, server, born>> /\ th[t].pc = "boot" /\ auth' = a
      /\ \/ a.pending[i] # 0 /\ scope' = Remember(sc, i, a.pending[i]) /\ Become(t, Idle)
         \/ scope' = sc /\ Become(t, Idle)
         \/ scope' = sc /\ Become(t, Booted(th[t]))
         \/ sc.bootstrap # 0 /\ scope' = sc /\ Become(t, wait)
         \/ sc.bootstrap = 0 /\ scope' = taken /\ Become(t, booting)
  BY Zenon DEF BootLooks
<1>2. IsCall(th[t]) /\ th[t].on = 0 /\ th[t].pc \notin Flying /\ th[t].pc # "idle"
  BY <1>1, ThreadIs DEF SessionInv, Flying
<1>3. /\ IsScope(sc) /\ sc.challenge \in 0 .. MaxNonce /\ sc.gen = scope.gen
      /\ \A s \in Slots : sc[s] = scope[s]
  BY UnchallengedIs, AuthAssumption DEF SessionInv, ScopeInv
<1>4. IsTable(a) /\ TableSound(a)
  <2>1. IsTable(b) /\ TableSound(b)
    BY WithoutSound DEF SessionInv, TableInv
  <2> HIDE DEF b
  <2> QED BY <2>1, PurgedSound
<1> HIDE DEF a, b
<1>5. TableInv'
  BY <1>1, <1>4, TableIs DEF SessionInv, TableInv
<1>6. a.pending[i] \in 0 .. MaxNonce
  <2>1. i \in Ids
    BY <1>2 DEF IsCall
  <2> QED BY <2>1, <1>4 DEF IsTable, Waiting
<1>7. /\ IsCall(wait) /\ wait.pc = "wait" /\ wait.loop = "boot" /\ wait.on = sc.bootstrap
      /\ IsCall(booting) /\ booting.pc = "booting" /\ booting.on = 0
  BY <1>2 DEF IsCall, CallFields
<1> HIDE DEF sc
<1>8. /\ IsScope(taken) /\ taken.challenge = sc.challenge /\ taken.gen = sc.gen
      /\ taken["bootstrap"] = t
      /\ \A s \in Slots : s # "bootstrap" => taken[s] = sc[s]
  BY <1>3 DEF IsScope, ScopeFields, Slots
<1> HIDE DEF wait, booting, taken
<1>9. /\ IsScope(Remember(sc, i, a.pending[i])) /\ Remember(sc, i, a.pending[i]).challenge = a.pending[i]
      /\ Remember(sc, i, a.pending[i]).gen = sc.gen
      /\ \A s \in Slots : Remember(sc, i, a.pending[i])[s] = sc[s]
  BY <1>3, RememberIs
<1>10. IsScope(scope)' /\ scope'.challenge \in 0 .. MaxNonce /\ scope'.gen = scope.gen
  BY <1>1, <1>3, <1>6, <1>8, <1>9 DEF IsScope
<1>11. ThreadsInv'
  <2>1. CASE a.pending[i] # 0 /\ scope' = Remember(sc, i, a.pending[i]) /\ Become(t, Idle)
    <3>1. SlotsKept
      BY <2>1, <1>3, <1>9 DEF SlotsKept
    <3> QED BY <3>1, <2>1, <1>1, <1>2, CalmIdle, CalmMove DEF SessionInv
  <2>2. CASE scope' = sc /\ (Become(t, Idle) \/ Become(t, Booted(th[t])))
    <3>1. SlotsKept
      BY <2>2, <1>3 DEF SlotsKept
    <3>2. Calm(Booted(th[t])) /\ Calm(Idle)
      BY <1>2, CalmEnds, CalmIdle
    <3> QED BY <3>1, <3>2, <2>2, <1>1, <1>2, CalmMove DEF SessionInv
  <2>3. CASE sc.bootstrap # 0 /\ scope' = sc /\ Become(t, wait)
    <3>1. SlotsKept
      BY <2>3, <1>3 DEF SlotsKept
    <3>2. wait.loop \in Loops /\ wait.on = scope[SlotOf[wait.loop]] /\ wait.on # 0
      BY <2>3, <1>3, <1>7, SlotFacts DEF Loops, Slots
    <3> QED BY <3>1, <3>2, <2>3, <1>1, <1>2, <1>7, BeginWait DEF SessionInv
  <2>4. CASE sc.bootstrap = 0 /\ scope' = taken /\ Become(t, booting)
    <3> DEFINE f == "bootstrap"
    <3>1. /\ f = FlightAt[booting.pc] /\ scope[f] = 0 /\ scope'[f] = t
          /\ \A s \in Slots : s # f => scope'[s] = scope[s]
      BY <2>4, <1>3, <1>7, <1>8, FlightFacts DEF Slots
    <3>2. booting.pc \in Flying \ Late
      BY <1>7 DEF Flying, Late
    <3> QED BY <3>1, <3>2, <2>4, <1>1, <1>2, <1>7, TakeFlight DEF SessionInv
  <2> QED BY <1>1, <2>1, <2>2, <2>3, <2>4
<1>12. ScopeInv'
  BY <1>10 DEF ScopeInv
<1> QED BY <1>1, <1>5, <1>10, <1>11, <1>12, RecordKept DEF SessionInv

LEMMA BootEndsStep ==
  ASSUME SessionInv, NEW t \in Threads, BootEnds(t)
  PROVE  SessionInv'
<1> DEFINE i == th[t].id
           free == Release("booted", scope)
           good == Good(stored) /\ stored # th[t].from
           n == issued + 1
           b == IF good THEN free.blocked ELSE 0
           e == [free EXCEPT !.blocked = b]
<1>1. IsCall(th[t]) /\ (th[t].pc # "wait" => th[t].on = 0)
  BY ThreadIs DEF SessionInv
<1>2. /\ UNCHANGED <<stale, server, born>> /\ th[t].pc = "booted" /\ ~Superseded(t)
      /\ \/ /\ good \/ th[t].got = "session"
            /\ stored' = IF good THEN stored ELSE th[t].new
            /\ scope' = Unchallenged(e) /\ auth' = Without(auth, scope.ids)
            /\ th' = Landed(t, TRUE, Booted(th[t])) /\ UNCHANGED issued
         \/ /\ n \in Nonces /\ issued' = n /\ stored' = stored
            /\ auth' = Register(auth, i, n) /\ scope' = Remember(free, i, n)
            /\ th' = Landed(t, TRUE, Idle)
         \/ /\ n \in Nonces /\ issued' = n /\ stored' = stored
            /\ scope' = free /\ th' = Landed(t, FALSE, Idle) /\ UNCHANGED auth
  BY Zenon DEF BootEnds
<1>3. /\ th[t].pc \in Flying \cap Late /\ th[t].on = 0 /\ th[t].pc # "idle" /\ i \in Ids
      /\ FlightAt[th[t].pc] = "bootstrap" /\ "bootstrap" \in Slots
  BY <1>1, <1>2, FlightFacts DEF Flying, Late, IsCall, Slots
<1>4. IsScope(scope) /\ scope.challenge \in 0 .. MaxNonce
  BY DEF SessionInv, ScopeInv
<1>5. free = Release(th[t].pc, scope)
  BY <1>2
<1>6. /\ IsScope(free) /\ free.challenge = scope.challenge /\ free.gen = scope.gen
      /\ free["bootstrap"] = 0 /\ \A s \in Slots : s # "bootstrap" => free[s] = scope[s]
  BY <1>3, <1>4, <1>5, ReleaseIs
<1> HIDE DEF free, good, b
<1>7. CASE /\ good \/ th[t].got = "session"
           /\ stored' = IF good THEN stored ELSE th[t].new
           /\ scope' = Unchallenged(e) /\ auth' = Without(auth, scope.ids)
           /\ th' = Landed(t, TRUE, Booted(th[t])) /\ UNCHANGED issued
  <2>1. /\ IsScope(e) /\ e.gen = free.gen /\ \A s \in Slots : e[s] = free[s]
    BY <1>6 DEF IsScope, ScopeFields, Slots
  <2> HIDE DEF e
  <2>2. /\ IsScope(scope') /\ scope'.challenge = 0 /\ scope'.gen = scope.gen
        /\ \A s \in Slots : scope'[s] = free[s]
    BY <1>6, <1>7, <2>1, UnchallengedIs
  <2>3. Calm(Booted(th[t]))
    BY <1>1, <1>3, CalmEnds
  <2>4. ThreadsInv'
    <3> DEFINE f == "bootstrap"
    <3>1. f = FlightAt[th[t].pc] /\ scope'[f] = 0 /\ \A s \in Slots : s # f => scope'[s] = scope[s]
      BY <1>3, <1>6, <2>2
    <3> QED BY <3>1, <2>3, <1>2, <1>3, <1>7, LandFlight DEF SessionInv
  <2>5. ScopeInv'
    BY <2>2, AuthAssumption DEF ScopeInv, IsScope
  <2>6. IsTable(Without(auth, scope.ids)) /\ TableSound(Without(auth, scope.ids))
    BY WithoutSound DEF SessionInv, TableInv
  <2>7. TableInv'
    BY <2>6, <1>2, <1>7, TableIs DEF SessionInv, TableInv
  <2>8. th[t].got = "session" => th[t].new \in 1 .. server /\ born[th[t].new] = scope.gen
    BY <1>2, <1>3, NotSupersededIs
  <2>9. RecordInv'
    BY <1>2, <1>7, <2>2, <2>8, RecordNew DEF SessionInv
  <2> QED BY <2>4, <2>5, <2>7, <2>9 DEF SessionInv
<1>8. ASSUME n \in Nonces, issued' = n, stored' = stored, IsScope(scope'),
             scope'.challenge \in 0 .. MaxNonce, scope'.gen = scope.gen,
             \A s \in Slots : scope'[s] = free[s],
             NEW ok \in BOOLEAN, th' = Landed(t, ok, Idle),
             auth' \in {auth, Register(auth, i, n)}
      PROVE  SessionInv'
  <2>1. ThreadsInv'
    <3> DEFINE f == "bootstrap"
    <3>1. f = FlightAt[th[t].pc] /\ scope'[f] = 0 /\ \A s \in Slots : s # f => scope'[s] = scope[s]
      BY <1>3, <1>6, <1>8
    <3> QED BY <3>1, <1>2, <1>3, <1>8, CalmIdle, LandFlight DEF SessionInv
  <2>2. ScopeInv'
    BY <1>8 DEF ScopeInv, IsScope
  <2>3. IsTable(Register(auth, i, n)) /\ TableSound(Register(auth, i, n))
    BY <1>3, <1>8, RegisterSound DEF SessionInv, TableInv
  <2>4. IsTable(auth) /\ TableSound(auth) /\ issued' \in 0 .. MaxNonce
    BY <1>8 DEF SessionInv, TableInv, Nonces
  <2>5. TableInv'
    BY <2>3, <2>4, <1>2, <1>8, TableIs
  <2> QED BY <2>1, <2>2, <2>5, <1>2, <1>8, RecordKept DEF SessionInv
<1>9. CASE /\ n \in Nonces /\ issued' = n /\ stored' = stored
           /\ auth' = Register(auth, i, n) /\ scope' = Remember(free, i, n)
           /\ th' = Landed(t, TRUE, Idle)
  <2>1. /\ IsScope(scope') /\ scope'.challenge = n /\ scope'.gen = scope.gen
        /\ \A s \in Slots : scope'[s] = free[s]
    BY <1>6, <1>9, RememberIs
  <2>2. scope'.challenge \in 0 .. MaxNonce
    BY <2>1, <1>9 DEF Nonces
  <2> QED BY <2>1, <2>2, <1>8, <1>9
<1>10. CASE /\ n \in Nonces /\ issued' = n /\ stored' = stored
            /\ scope' = free /\ th' = Landed(t, FALSE, Idle) /\ UNCHANGED auth
  BY <1>4, <1>6, <1>8, <1>10
<1> QED BY <1>2, <1>7, <1>9, <1>10
-----------------------------------------------------------------------------
(* The host and time.                                                        *)
LEMMA EnvironmentSteps ==
  ASSUME SessionInv, Environment
  PROVE  SessionInv'
<1>1. IsScope(scope) /\ scope.challenge \in 0 .. MaxNonce
  BY DEF SessionInv, ScopeInv
<1>2. ASSUME UNCHANGED sessionVars, TableInv' PROVE SessionInv'
  <2>1. ThreadsInv'
    BY <1>2, ThreadsKept DEF SessionInv, SlotsKept, sessionVars
  <2>2. ScopeInv' /\ RecordInv'
    BY <1>2 DEF SessionInv, ScopeInv, IsScope, RecordInv, ClearWins, sessionVars
  <2> QED BY <1>2, <2>1, <2>2 DEF SessionInv
<1>3. ASSUME IsScope(scope'), scope'.challenge \in 0 .. MaxNonce, SlotsKept, TableInv',
             UNCHANGED <<th, server, born>>, stored' \in {stored, 0}, stored' = 0 \/ scope'.gen = scope.gen
      PROVE  SessionInv'
  <2>1. ScopeInv'
    BY <1>3 DEF ScopeInv, IsScope
  <2> QED BY <2>1, <1>3, ThreadsKept, RecordKept DEF SessionInv
<1>4. ASSUME NEW S, auth' = Without(auth, S), stale' = stale, issued' = issued PROVE TableInv'
  <2>1. IsTable(Without(auth, S)) /\ TableSound(Without(auth, S))
    BY WithoutSound DEF SessionInv, TableInv
  <2> QED BY <2>1, <1>4, TableIs DEF SessionInv, TableInv
<1>5. ASSUME NEW i \in Ids, Clear(i) PROVE SessionInv'
  <2> DEFINE sc == [scope EXCEPT !.gen = @ + 1, !.completed = 0, !.blocked = 0]
  <2>1. /\ auth' = Without(auth, scope.ids \cup {i}) /\ UNCHANGED <<issued, stale, server, born, th>>
        /\ stored' = 0 /\ scope' = Unchallenged(sc)
    BY <1>5, Zenon DEF Clear
  <2>2. IsScope(sc) /\ \A s \in Slots : sc[s] = scope[s]
    BY <1>1 DEF IsScope, ScopeFields, Slots
  <2> HIDE DEF sc
  <2>3. IsScope(scope') /\ scope'.challenge = 0 /\ SlotsKept
    BY <2>1, <2>2, UnchallengedIs DEF SlotsKept
  <2>4. TableInv'
    BY <2>1, <1>4
  <2> QED BY <2>1, <2>3, <2>4, <1>3, AuthAssumption
<1>6. ASSUME NEW i \in Ids, SetGrant(i) PROVE SessionInv'
  <2>1. UNCHANGED <<authVars, stored, server, age, born, scope, closed, th>>
    BY <1>6 DEF SetGrant
  <2>2. TableInv' /\ SlotsKept /\ IsScope(scope')
    BY <2>1, <1>1, TableKept DEF SessionInv, authVars, tableVars, SlotsKept
  <2> QED BY <2>1, <2>2, <1>1, <1>3
<1>7. ASSUME NEW i \in Ids, ForgetExtension(i) PROVE SessionInv'
  <2> DEFINE sc == [scope EXCEPT !.ids = @ \ {i}]
             sd == [sc EXCEPT !.challenge = 0, !.by = 0]
  <2>1. /\ UNCHANGED <<auth, issued, stale, stored, server, born, th>>
        /\ scope' \in {sc, sd}
    BY <1>7, Zenon DEF ForgetExtension, authVars, tableVars
  <2>2. /\ IsScope(sc) /\ sc.challenge = scope.challenge /\ sc.gen = scope.gen
        /\ \A s \in Slots : sc[s] = scope[s]
    BY <1>1 DEF IsScope, ScopeFields, Slots
  <2> HIDE DEF sc
  <2>3. /\ IsScope(sd) /\ sd.challenge = 0 /\ sd.gen = sc.gen
        /\ \A s \in Slots : sd[s] = sc[s]
    BY <2>2 DEF IsScope, ScopeFields, Slots
  <2> HIDE DEF sd
  <2>4. IsScope(scope') /\ scope'.challenge \in 0 .. MaxNonce /\ scope'.gen = scope.gen /\ SlotsKept
    BY <2>1, <2>2, <2>3, <1>1, AuthAssumption DEF SlotsKept
  <2>5. TableInv'
    BY <2>1, TableKept DEF SessionInv
  <2> QED BY <2>1, <2>4, <2>5, <1>3
<1>8. ASSUME ShutdownSessions PROVE SessionInv'
  <2>1. /\ auth' = Without(auth, scope.ids) /\ UNCHANGED <<issued, stale, stored, server, born, th>>
        /\ scope' = Unchallenged(scope)
    BY <1>8, Zenon DEF ShutdownSessions
  <2>2. IsScope(scope') /\ scope'.challenge = 0 /\ scope'.gen = scope.gen /\ SlotsKept
    BY <2>1, <1>1, UnchallengedIs DEF SlotsKept
  <2>3. TableInv'
    BY <2>1, <1>4
  <2> QED BY <2>1, <2>2, <2>3, <1>3, AuthAssumption
<1>9. ASSUME Age PROVE SessionInv'
  <2>1. UNCHANGED <<authVars, stored, server, born, scope, grants, closed, th>>
    BY <1>9 DEF Age
  <2>2. TableInv' /\ SlotsKept /\ IsScope(scope')
    BY <2>1, <1>1, TableKept DEF SessionInv, authVars, tableVars, SlotsKept
  <2> QED BY <2>1, <2>2, <1>1, <1>3
<1>10. ASSUME OAuthNext, UNCHANGED sessionVars PROVE SessionInv'
  <2>1. TableInv'
    BY <1>10, OAuthKeepsTable DEF SessionInv
  <2> QED BY <1>2, <1>10, <2>1
<1>11. ASSUME ShutdownAuth \/ ExpireNonce \/ \E n \in Nonces : Resolve(n) PROVE OAuthNext
  BY <1>11, Zenon DEF OAuthNext
<1> QED BY <1>5, <1>6, <1>7, <1>8, <1>9, <1>10, <1>11 DEF Environment

LEMMA OAuthStep ==
  ASSUME SessionInv, OAuthNext, UNCHANGED sessionVars
  PROVE  SessionInv'
<1>1. TableInv'
  BY OAuthKeepsTable DEF SessionInv
<1>2. ThreadsInv'
  BY ThreadsKept DEF SessionInv, SlotsKept, sessionVars
<1>3. ScopeInv' /\ RecordInv'
  BY DEF SessionInv, ScopeInv, IsScope, RecordInv, ClearWins, sessionVars
<1> QED BY <1>1, <1>2, <1>3 DEF SessionInv

LEMMA SessionStarts == SessionInit => SessionInv
<1> SUFFICES ASSUME SessionInit PROVE SessionInv
  OBVIOUS
<1>1. TableInv
  <2>1. /\ auth = [pending |-> [i \in Ids |-> 0], owner |-> [n \in Nonces |-> 0]] /\ issued = 0
        /\ MaxNonce \in Nat
    BY AuthAssumption DEF SessionInit, AuthInit
  <2>2. \A n \in Nonces : n # 0
    BY DEF Nonces
  <2> QED BY <2>1, <2>2 DEF TableInv, TableSound, IsTable, Waiting, Owners
<1>2. ScopeInv
  BY AuthAssumption DEF SessionInit, ScopeInv, IsScope, ScopeFields
<1>3. RecordInv
  <2>1. /\ stored \in {0, 1} /\ server = stored /\ MaxSession \in Nat \ {0}
        /\ born = [n \in Sessions |-> 0] /\ scope.gen = 0
    BY SessionAssumption DEF SessionInit
  <2>2. 1 \in Sessions
    BY <2>1 DEF Sessions
  <2> QED BY <2>1, <2>2 DEF RecordInv, ClearWins
<1>4. th = [t \in Threads |-> Idle] /\ \A s \in Slots : scope[s] = 0
  BY DEF SessionInit, Slots
<1>5. ThreadsInv
  <2>1. \A t \in Threads : th[t] = Idle
    BY <1>4
  <2>2. Idle.pc = "idle" /\ Idle.on = 0 /\ IsCall(Idle)
    BY IdleIs
  <2>3. CallsAre
    BY <1>4, <2>1, <2>2 DEF CallsAre
  <2>4. FlightsInv
    BY <1>4, <2>1, <2>2 DEF FlightsInv, SlotsHeld, WaitsSound, Flying
  <2>5. AnswersSound
    BY <2>1, <2>2 DEF AnswersSound, Answered, Late
  <2> QED BY <2>3, <2>4, <2>5 DEF ThreadsInv
<1> QED BY <1>1, <1>2, <1>3, <1>5 DEF SessionInv

LEMMA SessionStep == SessionInv /\ [LoginsNext]_<<authVars, sessionVars>> => SessionInv'
<1> SUFFICES ASSUME SessionInv, [LoginsNext]_<<authVars, sessionVars>> PROVE SessionInv'
  OBVIOUS
<1>1. CASE UNCHANGED <<authVars, sessionVars>>
  <2>1. TableInv' /\ ThreadsInv'
    BY <1>1, TableKept, ThreadsKept DEF SessionInv, SlotsKept, sessionVars, authVars, tableVars
  <2>2. ScopeInv' /\ RecordInv'
    BY <1>1 DEF SessionInv, ScopeInv, IsScope, RecordInv, ClearWins, sessionVars
  <2> QED BY <2>1, <2>2 DEF SessionInv
<1>2. ASSUME NEW t \in Threads, Step(t) PROVE SessionInv'
  BY <1>2, PrivateSteps, CallSteps, FailedSteps, AnswerStep, FetchSteps, FlightSteps, RefreshEndsStep,
     ExchangeSteps, GrantedStep, BootShareStep, BootLooksStep, BootEndsStep DEF Step
<1>3. ASSUME NEW t \in Threads, Cancel(t) \/ \E i \in Ids : Call(t, i) PROVE SessionInv'
  BY <1>3, CallSteps
<1> QED BY <1>1, <1>2, <1>3, EnvironmentSteps, OAuthStep DEF LoginsNext, SessionNext

(* An answer that comes late never restores a session that was cleared,      *)
(* nobody waits for a flight that has ended, and a callback finds its owner  *)
(* exactly while there is one (Flight::wait, State::clear, resolve_callback). *)
THEOREM LoginsAreSound == LoginsSpec => []LoginsSound
<1>1. SessionInv => LoginsSound
  <2> SUFFICES ASSUME SessionInv PROVE LoginsSound
    OBVIOUS
  <2>1. ClearWins
    BY DEF SessionInv, RecordInv
  <2>2. CallbackFindsOwner
    <3> SUFFICES ASSUME NEW n \in Nonces
                 PROVE  LET waiting == {i \in Ids : auth.pending[i] = n}
                        IN /\ auth.owner[n] # 0 => auth.owner[n] \in waiting
                           /\ waiting # {} /\ n \notin stale => auth.owner[n] # 0
      BY DEF CallbackFindsOwner
    <3>1. /\ auth.owner[n] # 0 => auth.pending[auth.owner[n]] = n /\ auth.owner[n] \in Ids
          /\ \A i \in Ids : auth.pending[i] = n /\ n \notin stale => auth.owner[n] # 0
      BY DEF SessionInv, TableInv, TableSound, IsTable, Owners
    <3> QED BY <3>1
  <2>3. WaitersHaveLeader
    <3> SUFFICES ASSUME NEW t \in Threads, th[t].pc = "wait"
                 PROVE  /\ scope[SlotOf[th[t].loop]] = th[t].on
                        /\ th[th[t].on].pc \in {pc \in DOMAIN FlightAt : FlightAt[pc] = SlotOf[th[t].loop]}
      BY DEF WaitersHaveLeader, SlotOf
    <3>1. th[t].on # 0 /\ th[t].loop \in Loops /\ scope[SlotOf[th[t].loop]] = th[t].on
      BY DEF SessionInv, ThreadsInv, FlightsInv, WaitsSound
    <3>2. SlotOf[th[t].loop] \in Slots
      BY <3>1, SlotFacts
    <3> QED BY <3>1, <3>2, FlightFacts DEF SessionInv, ThreadsInv, FlightsInv, SlotsHeld
  <2> QED BY <2>1, <2>2, <2>3 DEF LoginsSound, FlightsSound
<1> QED BY <1>1, SessionStarts, SessionStep, PTL DEF LoginsSpec
-----------------------------------------------------------------------------
(* What the steps of signed sessions do to the records of OAuth.             *)
LEMMA SessionsKeepRecords ==
  ASSUME SessionNext
  PROVE  UNCHANGED <<oauth, exchanging, authClosed>> \/ OAuthNext
<1>1. ASSUME NEW t \in Threads, Step(t) PROVE UNCHANGED <<oauth, exchanging, authClosed>>
  <2>1. CASE \/ Preflight(t) \/ Confirm(t) \/ Unblocked(t) \/ Refreshed(t) \/ Request(t)
             \/ Rejected(t) \/ Recovered(t) \/ Grant(t) \/ ReadGeneration(t) \/ CheckFails(t)
    BY <2>1, Zenon DEF Preflight, Confirm, Unblocked, Refreshed, Request, Rejected, Recovered, Grant,
                       ReadGeneration, CheckFails, Quiet, authVars, tableVars, oauthVars
  <2>2. CASE \/ StorageFails(t) \/ FlightFails(t) \/ Fetch(t) \/ Gateway(t) \/ Refresh(t) \/ RefreshEnds(t)
             \/ TakeSlot(t) \/ \E out \in {"error", "session", "challenge", "extended"} : Answer(t, out)
    BY <2>2, Zenon DEF StorageFails, FlightFails, Fetch, Gateway, Refresh, RefreshEnds, TakeSlot, Answer,
                       authVars, tableVars, oauthVars
  <2>3. CASE \/ BootShare(t) \/ BootLooks(t) \/ BootEnds(t) \/ Exchange(t) \/ ExchangeEnds(t) \/ Granted(t)
    BY <2>3, Zenon DEF BootShare, BootLooks, BootEnds, Exchange, ExchangeEnds, Granted, oauthVars
  <2> QED BY <1>1, <2>1, <2>2, <2>3 DEF Step
<1>2. ASSUME NEW t \in Threads, Cancel(t) \/ \E i \in Ids : Call(t, i)
      PROVE  UNCHANGED <<oauth, exchanging, authClosed>>
  BY <1>2, Zenon DEF Cancel, Call, Quiet, authVars, tableVars, oauthVars
<1>3. ASSUME NEW i \in Ids, Clear(i) \/ SetGrant(i) \/ ForgetExtension(i)
      PROVE  UNCHANGED <<oauth, exchanging, authClosed>>
  BY <1>3, Zenon DEF Clear, SetGrant, ForgetExtension, authVars, tableVars, oauthVars
<1>4. ASSUME ShutdownSessions \/ Age
      PROVE  UNCHANGED <<oauth, exchanging, authClosed>>
  BY <1>4, Zenon DEF ShutdownSessions, Age, authVars, tableVars, oauthVars
<1>5. ASSUME ShutdownAuth \/ ExpireNonce \/ \E n \in Nonces : Resolve(n) PROVE OAuthNext
  BY <1>5, Zenon DEF OAuthNext
<1> QED BY <1>1, <1>2, <1>3, <1>4, <1>5 DEF SessionNext, Environment

LEMMA ExchangesStart == SessionInit => ExchangesInv
<1> SUFFICES ASSUME SessionInit PROVE ExchangesInv
  OBVIOUS
<1>1. /\ oauth = [i \in Ids |-> [generation |-> 0, verifier |-> 0, code |-> FALSE, token |-> 0]]
      /\ exchanging = [x \in Exchangers |-> NotExchanging]
  BY DEF SessionInit, AuthInit
<1>2. oauth \in [Ids -> OAuthRecords]
  BY <1>1 DEF OAuthRecords
<1> QED BY <1>1, <1>2 DEF ExchangesInv, NotExchanging

LEMMA ExchangesStep == ExchangesInv /\ [LoginsNext]_<<authVars, sessionVars>> => ExchangesInv'
<1> SUFFICES ASSUME ExchangesInv, [LoginsNext]_<<authVars, sessionVars>> PROVE ExchangesInv'
  OBVIOUS
<1>1. CASE UNCHANGED <<oauth, exchanging, authClosed>>
  BY <1>1 DEF ExchangesInv
<1>2. UNCHANGED <<authVars, sessionVars>> => UNCHANGED <<oauth, exchanging, authClosed>>
  BY DEF authVars, tableVars, oauthVars
<1> QED BY <1>1, <1>2, OAuthKeepsExchanges, SessionsKeepRecords DEF LoginsNext

TokenStep ==
  \A x \in Exchangers :
    LET e == exchanging[x] IN
    e.id # 0 /\ exchanging'[x].id = 0 /\ oauth'[e.id].token # oauth[e.id].token
      => oauth[e.id].verifier = e.verifier

LEMMA TokenSteps ==
  ASSUME ExchangesInv, [LoginsNext]_<<authVars, sessionVars>>
  PROVE  [TokenStep]_authVars
<1> SUFFICES ASSUME NEW x \in Exchangers, exchanging[x].id # 0, exchanging'[x].id = 0,
                    oauth'[exchanging[x].id].token # oauth[exchanging[x].id].token
             PROVE  oauth[exchanging[x].id].verifier = exchanging[x].verifier
  BY DEF TokenStep
<1>1. exchanging' # exchanging /\ oauth' # oauth
  OBVIOUS
<1>2. OAuthNext
  BY <1>1, SessionsKeepRecords DEF LoginsNext, authVars, oauthVars
<1>3. PICK y \in Exchangers : EndExchange(y)
  BY <1>1, <1>2 DEF OAuthNext, StorePkce, SetCode, SetTokens, OpenAuthUrl, ClearAuth, BeginExchange,
     ExchangeFails, Resolve, ExpireNonce, ShutdownAuth, oauthVars
<1>4. /\ exchanging' = [exchanging EXCEPT ![y] = NotExchanging]
      /\ ~authClosed /\ oauth[exchanging[y].id].generation = exchanging[y].generation
  BY <1>1, <1>3, Zenon DEF EndExchange
<1>5. x = y
  BY <1>4 DEF ExchangesInv
<1> QED BY <1>4, <1>5 DEF ExchangesInv

(* The token of an exchange belongs to the login that is in progress when it *)
(* is stored (exchangeCodeWithPKCE, edit_if).                                *)
THEOREM TokensBelongToLogin == LoginsSpec => TokenOfOwnLogin
<1>1. LoginsSpec => []ExchangesInv
  BY ExchangesStart, ExchangesStep, PTL DEF LoginsSpec
<1>2. ExchangesInv /\ [LoginsNext]_<<authVars, sessionVars>> => [TokenStep]_authVars
  BY TokenSteps
<1>3. TokenOfOwnLogin <=> [][TokenStep]_authVars
  BY Zenon DEF TokenOfOwnLogin, TokenStep
<1> QED BY <1>1, <1>2, <1>3, PTL DEF LoginsSpec

GrantStep ==
  \A i \in Ids : grants[i] # 0 /\ grants'[i] = 0 /\ th' # th
    => \E t \in Threads : th[t].pc = "granted" /\ th[t].id = i /\ th[t].grant = grants[i]

LEMMA GrantSteps ==
  ASSUME [LoginsNext]_<<authVars, sessionVars>>, grants = [i \in Ids |-> grants[i]]
  PROVE  [GrantStep]_sessionVars
<1> SUFFICES ASSUME NEW i \in Ids, grants[i] # 0, grants'[i] = 0, th' # th
             PROVE  \E t \in Threads : th[t].pc = "granted" /\ th[t].id = i /\ th[t].grant = grants[i]
  BY DEF GrantStep
<1>1. grants' # grants
  OBVIOUS
<1>2. LoginsNext /\ ~UNCHANGED sessionVars
  BY <1>1 DEF sessionVars
<1>3. ASSUME NEW t \in Threads, Step(t) PROVE Granted(t)
  <2>1. ~(\/ Preflight(t) \/ Confirm(t) \/ Unblocked(t) \/ Refreshed(t) \/ Request(t)
          \/ Rejected(t) \/ Recovered(t) \/ Grant(t) \/ ReadGeneration(t) \/ CheckFails(t))
    BY <1>1, Zenon DEF Preflight, Confirm, Unblocked, Refreshed, Request, Rejected, Recovered, Grant,
                       ReadGeneration, CheckFails, Quiet
  <2>2. ~(\/ StorageFails(t) \/ FlightFails(t) \/ Fetch(t) \/ Gateway(t) \/ Refresh(t) \/ RefreshEnds(t)
          \/ TakeSlot(t) \/ \E out \in {"error", "session", "challenge", "extended"} : Answer(t, out))
    BY <1>1, Zenon DEF StorageFails, FlightFails, Fetch, Gateway, Refresh, RefreshEnds, TakeSlot, Answer
  <2>3. ~(\/ BootShare(t) \/ BootLooks(t) \/ BootEnds(t) \/ Exchange(t) \/ ExchangeEnds(t))
    BY <1>1, Zenon DEF BootShare, BootLooks, BootEnds, Exchange, ExchangeEnds
  <2> QED BY <1>3, <2>1, <2>2, <2>3 DEF Step
<1>4. ASSUME NEW t \in Threads, Cancel(t) PROVE FALSE
  BY <1>1, <1>4, Zenon DEF Cancel, Quiet
<1>5. ASSUME Environment PROVE FALSE
  <2>1. ASSUME NEW j \in Ids, Clear(j) \/ SetGrant(j) \/ ForgetExtension(j) PROVE th' = th
    BY <2>1, Zenon DEF Clear, SetGrant, ForgetExtension
  <2>2. ASSUME ShutdownSessions \/ Age PROVE th' = th
    BY <2>2, Zenon DEF ShutdownSessions, Age
  <2>3. UNCHANGED sessionVars => th' = th
    BY DEF sessionVars
  <2> QED BY <1>5, <2>1, <2>2, <2>3 DEF Environment
<1>6. ASSUME NEW t \in Threads, NEW j \in Ids, Call(t, j) PROVE FALSE
  <2>1. PICK g \in {t, grants[j]} : grants' = [grants EXCEPT ![j] = g]
    BY <1>1, <1>6, Zenon DEF Call
  <2>2. grants'[i] \in {grants[i], t}
    BY <2>1
  <2> QED BY <2>2, SessionAssumption
<1>7. ASSUME NEW t \in Threads, Granted(t)
      PROVE  th[t].pc = "granted" /\ th[t].id = i /\ th[t].grant = grants[i]
  <2> DEFINE j == th[t].id
             g == IF grants[j] = th[t].grant THEN 0 ELSE grants[j]
  <2>1. th[t].pc = "granted" /\ grants' = [grants EXCEPT ![j] = g]
    BY <1>7, Zenon DEF Granted
  <2>2. j = i /\ g # grants[i]
    BY <2>1
  <2> QED BY <2>1, <2>2
<1> QED BY <1>2, <1>3, <1>4, <1>5, <1>6, <1>7 DEF LoginsNext, SessionNext

LEMMA GrantsAre ==
  ASSUME [LoginsNext]_<<authVars, sessionVars>>, grants = [i \in Ids |-> grants[i]]
  PROVE  grants' = [i \in Ids |-> grants'[i]]
<1>1. \/ grants' = grants
      \/ \E i \in Ids : \E g : grants' = [grants EXCEPT ![i] = g]
      \/ grants' = [i \in Ids |-> 0]
      \/ \E t \in Threads : \E g : grants' = [grants EXCEPT ![th[t].id] = g]
  <2>1. ASSUME NEW t \in Threads, Step(t) PROVE grants' = grants \/ Granted(t)
    <3>1. CASE (\/ Preflight(t) \/ Confirm(t) \/ Unblocked(t) \/ Refreshed(t) \/ Request(t)
            \/ Rejected(t) \/ Recovered(t) \/ Grant(t) \/ ReadGeneration(t) \/ CheckFails(t))
      BY <3>1, Zenon DEF Preflight, Confirm, Unblocked, Refreshed, Request, Rejected, Recovered, Grant,
                         ReadGeneration, CheckFails, Quiet
    <3>2. CASE (\/ StorageFails(t) \/ FlightFails(t) \/ Fetch(t) \/ Gateway(t) \/ Refresh(t) \/ RefreshEnds(t)
            \/ TakeSlot(t) \/ \E out \in {"error", "session", "challenge", "extended"} : Answer(t, out))
      BY <3>2, Zenon DEF StorageFails, FlightFails, Fetch, Gateway, Refresh, RefreshEnds, TakeSlot, Answer
    <3>3. CASE (\/ BootShare(t) \/ BootLooks(t) \/ BootEnds(t) \/ Exchange(t) \/ ExchangeEnds(t))
      BY <3>3, Zenon DEF BootShare, BootLooks, BootEnds, Exchange, ExchangeEnds
    <3> QED BY <2>1, <3>1, <3>2, <3>3 DEF Step
  <2>2. ASSUME NEW t \in Threads, Granted(t)
        PROVE  \E g : grants' = [grants EXCEPT ![th[t].id] = g]
    BY <2>2 DEF Granted
  <2>3. ASSUME NEW t \in Threads, Cancel(t) PROVE grants' = grants
    BY <2>3, Zenon DEF Cancel, Quiet
  <2>4. ASSUME NEW t \in Threads, NEW i \in Ids, Call(t, i)
        PROVE  grants' = grants \/ \E g : grants' = [grants EXCEPT ![i] = g]
    BY <2>4, Zenon DEF Call
  <2>5. ASSUME NEW i \in Ids, Clear(i) \/ SetGrant(i) \/ ForgetExtension(i)
        PROVE  grants' = grants \/ \E g : grants' = [grants EXCEPT ![i] = g]
    BY <2>5, Zenon DEF Clear, SetGrant, ForgetExtension
  <2>6. ASSUME ShutdownSessions \/ Age PROVE grants' = grants \/ grants' = [i \in Ids |-> 0]
    BY <2>6, Zenon DEF ShutdownSessions, Age
  <2>7. UNCHANGED sessionVars => grants' = grants
    BY DEF sessionVars
  <2> QED BY <2>1, <2>2, <2>3, <2>4, <2>5, <2>6, <2>7 DEF LoginsNext, SessionNext, Environment
<1> QED BY <1>1

(* complete_grant() discards only the very grant that it has exchanged.      *)
THEOREM GrantsAreNotLost == LoginsSpec => GrantNotLost
<1> DEFINE G == grants = [i \in Ids |-> grants[i]]
<1>1. SessionInit => G
  BY DEF SessionInit
<1>2. G /\ [LoginsNext]_<<authVars, sessionVars>> => G'
  BY GrantsAre
<1>3. G /\ [LoginsNext]_<<authVars, sessionVars>> => [GrantStep]_sessionVars
  BY GrantSteps
<1>4. GrantNotLost <=> [][GrantStep]_sessionVars
  BY Zenon DEF GrantNotLost, GrantStep
<1> HIDE DEF G
<1> QED BY <1>1, <1>2, <1>3, <1>4, PTL DEF LoginsSpec

-----------------------------------------------------------------------------
(***************************************************************************)
(* Files. A lock belongs to one path, and whoever has it is known as its   *)
(* owner; a staged file that was not linked is nobody else's, and what is  *)
(* opened or about to be published is no longer staged.                    *)
(***************************************************************************)

FileOps == {"", "delete", "move", "writeBytes", "copy", "write", "transform", "publish_new"}
FileCalls ==
  [pc : {"idle", "enter", "wait", "locked", "writing", "opened", "staged", "callback", "publish"}, op : FileOps,
   path : {"", "out", "temp"}, source : {"", "out", "temp"}, lock : {0} \cup LockIds, fd : {0} \cup Inodes,
   stage : {0} \cup Inodes]
FilesTyped ==
  /\ allowed \in BOOLEAN /\ operations \in Nat
  /\ outputs \in [Paths -> {0} \cup LockIds] /\ owner \in [LockIds -> FileThreads \cup {NoThread}]
  /\ files \in [Paths -> {0} \cup Inodes] /\ inodes \in [Inodes -> {"whole", "staged", "inplace"}]
  /\ call \in [Calls -> FileCalls]

(* What an operation has at each of its places.                              *)
CallShape(r) ==
  /\ r.pc \in {"idle", "enter"} <=> r.lock = 0
  /\ r.pc # "idle" => r.path \in Paths /\ r.source \in Paths
  /\ r.pc \in {"staged", "callback", "publish"} <=> r.stage # 0
  /\ r.pc = "opened" => r.op = "publish_new"
  /\ r.pc \in {"writing", "opened"} => r.fd # 0
(* A lock belongs to one path, and who has it is known as its owner.         *)
LocksOwned ==
  /\ \A c, d \in Calls : call[c].lock # 0 /\ call[c].lock = call[d].lock => call[c].path = call[d].path
  /\ \A c \in Calls, p \in Paths : call[c].lock # 0 /\ outputs[p] = call[c].lock => call[c].path = p
  /\ \A c \in Calls : Holds(c) => owner[call[c].lock] = c[1]
(* A staged file is the file of its call only, unless it was linked.         *)
Linked(r) == r.op = "publish_new" /\ r.stage = r.fd
StagesOwned ==
  /\ \A c, d \in Calls : call[c].stage # 0 /\ ~Linked(call[c]) /\ c # d
                         => call[d].stage # call[c].stage /\ call[d].fd # call[c].stage
  /\ \A c \in Calls : call[c].fd # 0 => inodes[call[c].fd] # "staged"
  /\ \A c \in Calls : call[c].pc = "publish" => inodes[call[c].stage] # "staged"
FilesInv ==
  /\ FilesTyped /\ (\A c \in Calls : CallShape(call[c])) /\ LocksOwned /\ OneLock /\ StagesOwned /\ WholeOrInPlace

LEMMA FilesInitInv == FilesInit => FilesInv
<1> SUFFICES ASSUME FilesInit PROVE FilesInv
  OBVIOUS
<1>1. NoCall \in FileCalls /\ CallShape(NoCall)
  BY DEF NoCall, FileCalls, FileOps, CallShape
<1>2. 1 \in Inodes
  BY FilesAssumption DEF Inodes
<1>3. FilesTyped
  BY <1>1, <1>2 DEF FilesInit, FilesTyped, Paths
<1>4. \A c \in Calls : call[c] = NoCall
  BY DEF FilesInit
<1>5. \A i \in Inodes : inodes[i] # "staged"
  BY DEF FilesInit
<1>6. NoCall.lock = 0 /\ NoCall.stage = 0 /\ NoCall.fd = 0 /\ NoCall.pc = "idle"
  BY DEF NoCall
<1>7. LocksOwned /\ OneLock
  BY <1>4, <1>6 DEF LocksOwned, OneLock, Holds
<1>8. StagesOwned /\ WholeOrInPlace
  BY <1>3, <1>4, <1>5, <1>6 DEF StagesOwned, WholeOrInPlace, FilesTyped
<1> QED BY <1>1, <1>3, <1>4, <1>7, <1>8 DEF FilesInv

(* Of as many locks as there are operations, one is free for whoever has none. *)
LEMMA FreeLock ==
  ASSUME FilesInv, NEW c \in Calls, call[c].lock = 0
  PROVE  \E l \in LockIds : ~Strong(l)
<1> SUFFICES ASSUME \A l \in LockIds : Strong(l) PROVE FALSE
  OBVIOUS
<1>1. IsFiniteSet({1, 2})
  <2>1. {1, 2} = {1} \cup {2} /\ IsFiniteSet({1})
    BY FS_Singleton
  <2> QED BY <2>1, FS_AddElement
<1>2. IsFiniteSet(Calls)
  BY <1>1, FilesAssumption, FS_Product DEF Calls
<1>3. IsFiniteSet(Calls \ {c}) /\ Cardinality(Calls \ {c}) = Cardinality(Calls) - 1
  BY <1>2, FS_RemoveElement
<1>4. Cardinality(Calls) \in Nat
  BY <1>2, FS_CardinalityType
<1>5. IsFiniteSet(LockIds) /\ Cardinality(LockIds) = Cardinality(Calls)
  <2>1. Cardinality(Calls) # 0
    BY <1>2, FS_EmptySet
  <2> QED BY <1>4, <2>1, FS_Interval DEF LockIds
<1> DEFINE f == [l \in LockIds |-> CHOOSE d \in Calls \ {c} : call[d].lock = l]
<1>6. \A l \in LockIds : \E d \in Calls \ {c} : call[d].lock = l
  <2>1. \A l \in LockIds : l # 0
    BY <1>4 DEF LockIds
  <2> QED BY <2>1 DEF Strong
<1>7. f \in [LockIds -> Calls \ {c}] /\ \A l \in LockIds : call[f[l]].lock = l
  BY <1>6
<1> HIDE DEF f
<1>8. PICK x, y \in LockIds : x # y /\ f[x] = f[y]
  BY <1>3, <1>4, <1>5, <1>7, FS_PigeonHole
<1> QED BY <1>7, <1>8

LEMMA LockIdsArePositive == 0 \notin LockIds /\ 0 \notin Inodes
BY FilesAssumption DEF LockIds, Inodes

----------------------------------------------------------------------------
(* Steps that leave the locks alone, and those that give one back.           *)
Sets(c, r) == r \in FileCalls /\ CallShape(r) /\ call' = [call EXCEPT ![c] = r]
LEMMA SetsCall ==
  ASSUME FilesTyped, NEW c \in Calls, NEW r, Sets(c, r)
  PROVE  /\ call' \in [Calls -> FileCalls]
         /\ call'[c] = r
         /\ \A d \in Calls : d # c => call'[d] = call[d]
BY DEF FilesTyped, Sets

LEMMA LocksStay ==
  ASSUME FilesInv, NEW c \in Calls, NEW r, Sets(c, r), UNCHANGED <<outputs, owner>>,
         r.lock = call[c].lock, r.path = call[c].path \/ r.lock = 0,
         r.pc \notin {"enter", "wait"} => call[c].pc \notin {"enter", "wait"}
  PROVE  LocksOwned' /\ OneLock' /\ \A d \in Calls : CallShape(call'[d])
<1>1. /\ call' \in [Calls -> FileCalls] /\ call'[c] = r
      /\ \A d \in Calls : d # c => call'[d] = call[d]
  BY SetsCall DEF FilesInv
<1>2. \A d \in Calls : call'[d].lock = call[d].lock /\ (call'[d].lock # 0 => call'[d].path = call[d].path)
  BY <1>1
<1>3. \A d \in Calls : Holds(d)' => Holds(d)
  BY <1>1, <1>2 DEF Holds
<1>4. \A d \in Calls : CallShape(call'[d])
  BY <1>1 DEF FilesInv, Sets
<1>5. LocksOwned'
  BY <1>2, <1>3 DEF FilesInv, LocksOwned
<1>6. OneLock'
  BY <1>2, <1>3 DEF FilesInv, OneLock
<1> QED BY <1>4, <1>5, <1>6

LEMMA LeaveSets ==
  ASSUME FilesInv, NEW c \in Calls, Leave(c)
  PROVE  Sets(c, NoCall) /\ owner' \in [LockIds -> FileThreads \cup {NoThread}]
<1>1. NoCall \in FileCalls /\ CallShape(NoCall)
  BY DEF NoCall, FileCalls, FileOps, CallShape
<1>2. Unlocked(c) \in [LockIds -> FileThreads \cup {NoThread}]
  BY DEF Unlocked, FilesInv, FilesTyped
<1> QED BY <1>1, <1>2 DEF Leave, Becomes, Sets

LEMMA LocksGiven ==
  ASSUME FilesInv, NEW c \in Calls, Leave(c), UNCHANGED outputs
  PROVE  LocksOwned' /\ OneLock' /\ \A d \in Calls : CallShape(call'[d])
<1>1. Sets(c, NoCall)
  BY LeaveSets
<1>2. /\ call' \in [Calls -> FileCalls] /\ call'[c] = NoCall
      /\ \A d \in Calls : d # c => call'[d] = call[d]
  BY <1>1, SetsCall DEF FilesInv
<1>3. NoCall.lock = 0
  BY DEF NoCall
<1>4. \A d \in Calls : call'[d].lock # 0 => d # c /\ call'[d] = call[d]
  BY <1>2, <1>3
<1>5. \A d \in Calls : Holds(d)' => d # c /\ Holds(d)
  BY <1>2, <1>3, <1>4 DEF Holds
<1>6. \A d \in Calls : CallShape(call'[d])
  BY <1>1, <1>2 DEF FilesInv, Sets
<1>7. ASSUME NEW d \in Calls, Holds(d)' PROVE owner'[call'[d].lock] = d[1]
  <2>1. Holds(d) /\ d # c /\ call'[d] = call[d]
    BY <1>2, <1>5, <1>7
  <2>2. owner[call[d].lock] = d[1]
    BY <2>1 DEF FilesInv, LocksOwned
  <2>3. Holds(c) => call[c].lock # call[d].lock
    BY <2>1 DEF FilesInv, OneLock, LocksOwned, Holds
  <2>4. owner \in [LockIds -> FileThreads \cup {NoThread}] /\ (Holds(c) => call[c].lock \in LockIds)
        /\ call[d].lock \in LockIds
    BY <2>1 DEF FilesInv, FilesTyped, FileCalls, Holds
  <2>5. Unlocked(c)[call[d].lock] = owner[call[d].lock]
    BY <2>3, <2>4 DEF Unlocked
  <2> QED BY <2>1, <2>2, <2>5 DEF Leave
<1>8. LocksOwned'
  BY <1>4, <1>7 DEF FilesInv, LocksOwned
<1>9. OneLock'
  BY <1>4, <1>5 DEF FilesInv, OneLock
<1> QED BY <1>6, <1>8, <1>9

----------------------------------------------------------------------------
(* Steps that leave the files alone, or take something out of use.           *)
LEMMA FilesStay ==
  ASSUME FilesInv, NEW c \in Calls, NEW r, Sets(c, r), UNCHANGED <<files, inodes>>,
         r.fd \in {0, call[c].fd}, r.stage = 0 \/ (r.stage = call[c].stage /\ r.fd = call[c].fd /\ r.op = call[c].op),
         r.pc # "publish" \/ call[c].pc = "publish"
  PROVE  StagesOwned' /\ WholeOrInPlace'
<1>1. /\ call' \in [Calls -> FileCalls] /\ call'[c] = r
      /\ \A d \in Calls : d # c => call'[d] = call[d]
  BY SetsCall DEF FilesInv
<1>2. r.pc = "publish" => r.stage # 0
  BY DEF Sets, CallShape
<1>3. \A d \in Calls : call'[d].fd \in {0, call[d].fd} /\ call'[d].stage \in {0, call[d].stage}
  BY <1>1
<1>4. \A d \in Calls : call'[d].stage # 0 => call'[d].stage = call[d].stage /\ (Linked(call'[d]) <=> Linked(call[d]))
                                             /\ call'[d].fd = call[d].fd /\ call'[d].op = call[d].op
  BY <1>1 DEF Linked
<1>5. StagesOwned'
  BY <1>1, <1>2, <1>3, <1>4 DEF FilesInv, StagesOwned
<1>6. WholeOrInPlace'
  BY <1>1, <1>4 DEF FilesInv, WholeOrInPlace
<1> QED BY <1>5, <1>6

LEMMA LeaveFiles ==
  ASSUME FilesInv, NEW c \in Calls, Leave(c), UNCHANGED <<files, inodes>>
  PROVE  StagesOwned' /\ WholeOrInPlace'
<1>1. Sets(c, NoCall)
  BY LeaveSets
<1>2. NoCall.fd = 0 /\ NoCall.stage = 0 /\ NoCall.pc = "idle"
  BY DEF NoCall
<1> QED BY <1>1, <1>2, FilesStay

LEMMA SetsTyped ==
  ASSUME FilesInv, NEW c \in Calls, NEW r, Sets(c, r),
         allowed' \in BOOLEAN, operations' \in Nat, outputs' \in [Paths -> {0} \cup LockIds],
         owner' \in [LockIds -> FileThreads \cup {NoThread}], files' \in [Paths -> {0} \cup Inodes],
         inodes' \in [Inodes -> {"whole", "staged", "inplace"}]
  PROVE  FilesTyped'
BY SetsCall DEF FilesInv, FilesTyped

LEMMA StartCallInv ==
  ASSUME FilesInv, NEW c \in Calls, StartCall(c) \/ StartPublication(c)
  PROVE  FilesInv'
<1>1. /\ call[c].pc = "idle" /\ operations' = operations + 1
      /\ UNCHANGED <<allowed, outputs, owner, files, inodes>>
  BY DEF StartCall, StartPublication, On
<1>2. PICK op \in FileOps, path \in Paths, source \in Paths : Becomes(c, Operation(op, path, source))
  <2>1. CASE StartCall(c)
    BY <2>1 DEF StartCall, FileOps, InPlace, Staging
  <2>2. CASE StartPublication(c)
    BY <2>2 DEF StartPublication, FileOps, Paths
  <2> QED BY <2>1, <2>2
<1> DEFINE r == Operation(op, path, source)
<1>3. /\ r \in FileCalls /\ r.pc = "enter" /\ r.lock = 0 /\ r.fd = 0 /\ r.stage = 0 /\ r.path = path /\ r.source = source
  BY DEF Operation, NoCall, FileCalls, Paths, FileOps
<1>4. CallShape(r)
  BY <1>3 DEF CallShape
<1>5. Sets(c, r)
  BY <1>2, <1>3, <1>4 DEF Sets, Becomes
<1> HIDE DEF r
<1>6. call[c].lock = 0
  BY <1>1 DEF FilesInv, CallShape
<1>7. FilesTyped'
  BY <1>1, <1>5, SetsTyped DEF FilesInv, FilesTyped
<1>8. LocksOwned' /\ OneLock' /\ \A d \in Calls : CallShape(call'[d])
  BY <1>1, <1>3, <1>5, <1>6, LocksStay
<1>9. StagesOwned' /\ WholeOrInPlace'
  BY <1>1, <1>3, <1>5, FilesStay
<1> QED BY <1>7, <1>8, <1>9 DEF FilesInv

LEMMA GiveUpInv ==
  ASSUME FilesInv, NEW c \in Calls, GiveUp(c)
  PROVE  FilesInv'
<1>1. Leave(c) /\ UNCHANGED <<allowed, outputs, files, inodes, operations>>
  BY DEF GiveUp
<1>2. FilesTyped'
  BY <1>1, LeaveSets, SetsTyped DEF FilesInv, FilesTyped
<1> QED BY <1>1, <1>2, LocksGiven, LeaveFiles DEF FilesInv

LEMMA SetAllowedInv ==
  ASSUME FilesInv, SetAllowedDirectories \/ UNCHANGED filesVars
  PROVE  FilesInv'
<1>1. allowed' \in BOOLEAN /\ UNCHANGED <<outputs, owner, files, inodes, call, operations>>
  BY DEF SetAllowedDirectories, filesVars, FilesInv, FilesTyped
<1> QED BY <1>1 DEF FilesInv, FilesTyped, LocksOwned, OneLock, Holds, StagesOwned, WholeOrInPlace

LEMMA EnterLockInv ==
  ASSUME FilesInv, NEW c \in Calls, EnterLock(c)
  PROVE  FilesInv'
<1>1. call[c].pc = "enter" /\ call[c].lock = 0 /\ call[c].path \in Paths /\ call[c].stage = 0
      /\ UNCHANGED <<allowed, owner, files, inodes, operations>>
  BY DEF EnterLock, On, FilesInv, CallShape
<1> DEFINE old == outputs[call[c].path]
           lock == IF Upgrade(old) THEN old ELSE CHOOSE l \in LockIds : ~Strong(l)
           r == [call[c] EXCEPT !.pc = "wait", !.lock = lock]
<1>2. /\ outputs' = [p \in Paths |-> IF p = call[c].path THEN lock ELSE IF Upgrade(outputs[p]) THEN outputs[p] ELSE 0]
      /\ call' = [call EXCEPT ![c] = r]
  BY DEF EnterLock, Becomes
<1>3. lock \in LockIds /\ (~Upgrade(old) => ~Strong(lock)) /\ (Upgrade(old) => lock = old)
  <2>1. CASE Upgrade(old)
    BY <1>1, <2>1 DEF Upgrade, FilesInv, FilesTyped
  <2>2. CASE ~Upgrade(old)
    BY <1>1, <2>2, FreeLock
  <2> QED BY <2>1, <2>2
<1>4. call[c] \in FileCalls /\ CallShape(call[c])
  BY DEF FilesInv, FilesTyped
<1> HIDE DEF lock
<1>5. r \in FileCalls /\ r.pc = "wait" /\ r.lock = lock /\ r.path = call[c].path /\ r.fd = call[c].fd
      /\ r.stage = call[c].stage /\ r.op = call[c].op /\ r.source = call[c].source
  BY <1>3, <1>4 DEF FileCalls
<1> HIDE DEF r
<1>6. Sets(c, r)
  BY <1>1, <1>2, <1>3, <1>4, <1>5, LockIdsArePositive DEF Sets, CallShape
<1>7. /\ call' \in [Calls -> FileCalls] /\ call'[c] = r
      /\ \A d \in Calls : d # c => call'[d] = call[d]
  BY <1>6, SetsCall DEF FilesInv
<1>8. FilesTyped'
  <2>1. outputs' \in [Paths -> {0} \cup LockIds]
    BY <1>2, <1>3 DEF FilesInv, FilesTyped
  <2> QED BY <1>1, <1>6, <2>1, SetsTyped DEF FilesInv, FilesTyped
<1>9. StagesOwned' /\ WholeOrInPlace'
  BY <1>1, <1>5, <1>6, FilesStay
<1>10. \A d \in Calls : CallShape(call'[d])
  BY <1>6, <1>7 DEF FilesInv, Sets
<1>11. \A d \in Calls : d # c /\ call[d].lock = lock => call[d].path = call[c].path
  BY <1>1, <1>3, LockIdsArePositive DEF Strong, FilesInv, LocksOwned
<1>12. \A p \in Paths : outputs'[p] = IF p = call[c].path THEN lock ELSE IF Upgrade(outputs[p]) THEN outputs[p] ELSE 0
  BY <1>2
<1>13. \A d \in Calls : Holds(d)' => d # c /\ Holds(d)
  BY <1>5, <1>7 DEF Holds
<1>14. LocksOwned'
  <2>1. \A d, e \in Calls : call'[d].lock # 0 /\ call'[d].lock = call'[e].lock => call'[d].path = call'[e].path
    BY <1>5, <1>7, <1>11 DEF FilesInv, LocksOwned
  <2>2. ASSUME NEW d \in Calls, NEW p \in Paths, call'[d].lock # 0, outputs'[p] = call'[d].lock
        PROVE  call'[d].path = p
    <3>1. CASE p = call[c].path
      BY <1>5, <1>7, <1>11, <1>12, <2>2, <3>1
    <3>2. CASE p # call[c].path /\ d # c
      BY <1>7, <1>12, <2>2, <3>2 DEF FilesInv, LocksOwned
    <3>3. CASE p # call[c].path /\ d = c
      <4>1. outputs[p] = lock /\ Upgrade(outputs[p])
        BY <1>5, <1>7, <1>12, <2>2, <3>3
      <4>2. PICK e \in Calls : call[e].lock = lock
        BY <4>1 DEF Upgrade, Strong
      <4>3. call[e].path = p /\ e # c /\ call[e].lock # 0
        BY <1>1, <1>3, <4>1, <4>2, LockIdsArePositive DEF FilesInv, LocksOwned
      <4> QED BY <1>11, <3>3, <4>2, <4>3
    <3> QED BY <3>1, <3>2, <3>3
  <2>3. \A d \in Calls : Holds(d)' => owner'[call'[d].lock] = d[1]
    BY <1>1, <1>7, <1>13 DEF FilesInv, LocksOwned
  <2> QED BY <2>1, <2>2, <2>3 DEF LocksOwned
<1>15. OneLock'
  <2>1. ASSUME NEW d \in Calls, d # c, call[d].lock # 0, call[d].path = call[c].path PROVE call[d].lock = lock
    <3>1. outputs[call[d].path] = call[d].lock
      BY <2>1 DEF FilesInv, OneLock
    <3>2. Upgrade(old)
      BY <2>1, <3>1 DEF Upgrade, Strong
    <3> QED BY <1>3, <2>1, <3>1, <3>2
  <2>2. ASSUME NEW d \in Calls, d # c, call[d].lock # 0 PROVE outputs'[call[d].path] = call[d].lock
    <3>1. CASE call[d].path = call[c].path
      BY <1>1, <1>12, <2>1, <2>2, <3>1
    <3>2. CASE call[d].path # call[c].path
      <4>1. outputs[call[d].path] = call[d].lock /\ call[d].path \in Paths
        BY <2>2 DEF FilesInv, OneLock, CallShape
      <4>2. Upgrade(outputs[call[d].path])
        BY <2>2, <4>1 DEF Upgrade, Strong
      <4> QED BY <1>12, <3>2, <4>1, <4>2
    <3> QED BY <3>1, <3>2
  <2>3. outputs'[call[c].path] = lock
    BY <1>1, <1>12
  <2>4. \A d, e \in Calls : call'[d].lock # 0 /\ call'[e].lock # 0 /\ call'[d].path = call'[e].path
                            => call'[d].lock = call'[e].lock /\ outputs'[call'[d].path] = call'[d].lock
    BY <1>5, <1>7, <2>1, <2>2, <2>3 DEF FilesInv, OneLock
  <2>5. \A d, e \in Calls : call'[d].lock # 0 /\ call'[e].lock # 0 /\ call'[d].path = call'[e].path
                            => (Holds(d)' /\ Holds(e)' => d = e)
    BY <1>7, <1>13 DEF FilesInv, OneLock
  <2> QED BY <2>4, <2>5 DEF OneLock
<1> QED BY <1>8, <1>9, <1>10, <1>14, <1>15 DEF FilesInv

LEMMA TakeLockInv ==
  ASSUME FilesInv, NEW c \in Calls, TakeLock(c)
  PROVE  FilesInv'
<1>1. /\ call[c].pc = "wait" /\ owner[call[c].lock] = NoThread /\ owner' = [owner EXCEPT ![call[c].lock] = c[1]]
      /\ call' = [call EXCEPT ![c] = [call[c] EXCEPT !.pc = "locked"]]
      /\ UNCHANGED <<allowed, outputs, files, inodes, operations>>
  BY DEF TakeLock, On, Becomes
<1> DEFINE r == [call[c] EXCEPT !.pc = "locked"]
<1>2. call[c] \in FileCalls /\ CallShape(call[c]) /\ call[c].lock \in LockIds /\ c[1] \in FileThreads
  BY <1>1 DEF FilesInv, FilesTyped, FileCalls, CallShape, Calls
<1>3. r \in FileCalls /\ r.pc = "locked" /\ r.lock = call[c].lock /\ r.path = call[c].path /\ r.fd = call[c].fd
      /\ r.stage = call[c].stage /\ r.op = call[c].op /\ r.source = call[c].source
  BY <1>2 DEF FileCalls
<1>4. call' = [call EXCEPT ![c] = r]
  BY <1>1
<1> HIDE DEF r
<1>5. Sets(c, r)
  BY <1>1, <1>2, <1>3, <1>4 DEF Sets, CallShape
<1>6. /\ call' \in [Calls -> FileCalls] /\ call'[c] = r
      /\ \A d \in Calls : d # c => call'[d] = call[d]
  BY <1>5, SetsCall DEF FilesInv
<1>7. FilesTyped'
  <2>1. owner' \in [LockIds -> FileThreads \cup {NoThread}]
    BY <1>1, <1>2 DEF FilesInv, FilesTyped
  <2> QED BY <1>1, <1>5, <2>1, SetsTyped DEF FilesInv, FilesTyped
<1>8. StagesOwned' /\ WholeOrInPlace'
  BY <1>1, <1>3, <1>5, FilesStay
<1>9. \A d \in Calls : CallShape(call'[d])
  BY <1>5, <1>6 DEF FilesInv, Sets
<1>10. \A d \in Calls : d[1] # NoThread
  BY FilesAssumption DEF Calls
<1>11. \A d \in Calls : d # c /\ Holds(d) => call[d].lock # call[c].lock
  BY <1>1, <1>10 DEF FilesInv, LocksOwned
<1>12. \A d \in Calls : Holds(d)' => d = c \/ Holds(d)
  BY <1>6 DEF Holds
<1>13. \A d \in Calls : call'[d].lock = call[d].lock /\ call'[d].path = call[d].path
  BY <1>3, <1>6
<1>14. LocksOwned'
  <2>1. ASSUME NEW d \in Calls, Holds(d)' PROVE owner'[call'[d].lock] = d[1]
    <3>1. CASE d = c
      BY <1>1, <1>2, <1>13, <3>1 DEF FilesInv, FilesTyped
    <3>2. CASE d # c
      <4>1. Holds(d) /\ owner[call[d].lock] = d[1] /\ call[d].lock # call[c].lock /\ call[d].lock \in LockIds
        BY <1>11, <1>12, <2>1, <3>2 DEF FilesInv, LocksOwned, FilesTyped, FileCalls, Holds
      <4> QED BY <1>1, <1>2, <1>13, <4>1 DEF FilesInv, FilesTyped
    <3> QED BY <3>1, <3>2
  <2> QED BY <1>1, <1>13, <2>1 DEF FilesInv, LocksOwned
<1>15. OneLock'
  BY <1>1, <1>11, <1>12, <1>13 DEF FilesInv, OneLock
<1> QED BY <1>7, <1>8, <1>9, <1>14, <1>15 DEF FilesInv

----------------------------------------------------------------------------
(* What is in a directory after a deletion, a move, or a publication.         *)
LEMMA NamesMove ==
  ASSUME FilesInv, NEW c \in Calls, Leave(c), UNCHANGED <<allowed, outputs, inodes, operations>>,
         NEW i \in {0} \cup Inodes, files' \in [Paths -> {0} \cup Inodes],
         \A p \in Paths : files'[p] \in {0, i} \cup {files[q] : q \in Paths},
         i # 0 => inodes[i] # "staged" /\ \A d \in Calls : d # c /\ call[d].stage = i => Linked(call[d])
  PROVE  FilesInv'
<1>1. Sets(c, NoCall) /\ owner' \in [LockIds -> FileThreads \cup {NoThread}]
  BY LeaveSets
<1>2. FilesTyped'
  BY <1>1, SetsTyped DEF FilesInv, FilesTyped
<1>3. LocksOwned' /\ OneLock' /\ \A d \in Calls : CallShape(call'[d])
  BY LocksGiven
<1>4. NoCall.fd = 0 /\ NoCall.stage = 0 /\ NoCall.pc = "idle"
  BY DEF NoCall
<1>5. /\ call' \in [Calls -> FileCalls] /\ call'[c] = NoCall
      /\ \A d \in Calls : d # c => call'[d] = call[d]
  BY <1>1, SetsCall DEF FilesInv
<1>6. StagesOwned'
  BY <1>4, <1>5 DEF FilesInv, StagesOwned
<1>7. WholeOrInPlace'
  <2>1. ASSUME NEW p \in Paths, files'[p] # 0 PROVE inodes'[files'[p]] # "staged"
    BY <2>1 DEF FilesInv, WholeOrInPlace
  <2>2. ASSUME NEW d \in Calls, NEW p \in Paths, call'[d].stage # 0, files'[p] = call'[d].stage
        PROVE  call'[d].op = "publish_new" /\ call'[d].stage = call'[d].fd
    <3>1. d # c /\ call'[d] = call[d]
      BY <1>4, <1>5, <2>2
    <3>2. CASE files'[p] = i
      BY <2>2, <3>1, <3>2 DEF Linked
    <3>3. CASE files'[p] # i
      <4>1. PICK q \in Paths : files'[p] = files[q]
        BY <2>2, <3>1, <3>3
      <4> QED BY <2>2, <3>1, <4>1 DEF FilesInv, WholeOrInPlace
    <3> QED BY <3>2, <3>3
  <2> QED BY <2>1, <2>2 DEF WholeOrInPlace
<1> QED BY <1>2, <1>3, <1>6, <1>7 DEF FilesInv

LEMMA DeleteInv ==
  ASSUME FilesInv, NEW c \in Calls, Delete(c)
  PROVE  FilesInv'
<1>1. /\ call[c].path \in Paths /\ files' = [files EXCEPT ![call[c].path] = 0] /\ Leave(c)
      /\ UNCHANGED <<allowed, outputs, inodes, operations>>
  BY DEF Delete, On, FilesInv, CallShape
<1>2. files' \in [Paths -> {0} \cup Inodes] /\ \A p \in Paths : files'[p] \in {0} \cup {files[q] : q \in Paths}
  BY <1>1 DEF FilesInv, FilesTyped
<1>3. 0 \in {0} \cup Inodes
  OBVIOUS
<1> QED BY <1>1, <1>2, <1>3, NamesMove

LEMMA MoveInv ==
  ASSUME FilesInv, NEW c \in Calls, Move(c)
  PROVE  FilesInv'
<1>1. /\ call[c].path \in Paths /\ call[c].source \in Paths /\ Leave(c)
      /\ UNCHANGED <<allowed, outputs, inodes, operations>>
      /\ files' = IF call[c].source = call[c].path THEN files
                  ELSE [files EXCEPT ![call[c].path] = files[call[c].source], ![call[c].source] = 0]
  BY DEF Move, On, FilesInv, CallShape
<1>2. files' \in [Paths -> {0} \cup Inodes] /\ \A p \in Paths : files'[p] \in {0} \cup {files[q] : q \in Paths}
  BY <1>1 DEF FilesInv, FilesTyped
<1>3. 0 \in {0} \cup Inodes
  OBVIOUS
<1> QED BY <1>1, <1>2, <1>3, NamesMove

LEMMA PublishInv ==
  ASSUME FilesInv, NEW c \in Calls, Publish(c) \/ PublishNew(c)
  PROVE  FilesInv'
<1> DEFINE i == call[c].stage
<1>1. /\ call[c].pc = "publish" /\ call[c].path \in Paths /\ Leave(c) /\ i \in Inodes
      /\ UNCHANGED <<allowed, outputs, inodes, operations>>
      /\ files' = [files EXCEPT ![call[c].path] = i] \/ files' = files
  BY DEF Publish, PublishNew, On, FilesInv, CallShape, FilesTyped, FileCalls
<1>2. files' \in [Paths -> {0} \cup Inodes] /\ \A p \in Paths : files'[p] \in {0, i} \cup {files[q] : q \in Paths}
  BY <1>1 DEF FilesInv, FilesTyped
<1>3. inodes[i] # "staged" /\ i # 0
  BY <1>1, LockIdsArePositive DEF FilesInv, StagesOwned
<1>4. ASSUME NEW d \in Calls, d # c, call[d].stage = i PROVE Linked(call[d])
  BY <1>3, <1>4 DEF FilesInv, StagesOwned
<1> QED BY <1>1, <1>2, <1>3, <1>4, NamesMove

LEMMA FreeIsUnused ==
  ASSUME NEW i \in Free
  PROVE  /\ i \in Inodes /\ \A p \in Paths : files[p] # i
         /\ \A d \in Calls : call[d].fd # i /\ call[d].stage # i
BY DEF Free, Used

LEMMA OpenInPlaceInv ==
  ASSUME FilesInv, NEW c \in Calls, OpenInPlace(c)
  PROVE  FilesInv'
<1>1. PICK i \in (IF files[call[c].path] # 0 THEN {files[call[c].path]} ELSE Free) :
       /\ files' = [files EXCEPT ![call[c].path] = i]
       /\ inodes' = [inodes EXCEPT ![i] = "inplace"]
       /\ call' = [call EXCEPT ![c] = [call[c] EXCEPT !.pc = "writing", !.fd = i]]
  BY DEF OpenInPlace, Becomes
<1>2. call[c].pc = "locked" /\ call[c] \in FileCalls /\ CallShape(call[c]) /\ call[c].path \in Paths
      /\ call[c].stage = 0 /\ UNCHANGED <<allowed, outputs, owner, operations>>
  BY DEF OpenInPlace, On, FilesInv, FilesTyped, CallShape
<1>3. i \in Inodes /\ (i \notin Free => files[call[c].path] = i)
  BY <1>1, <1>2, FreeIsUnused DEF FilesInv, FilesTyped
<1>4. \A d \in Calls : call[d].stage = i => Linked(call[d])
  BY <1>2, <1>3, FreeIsUnused, LockIdsArePositive DEF FilesInv, WholeOrInPlace, Linked
<1> DEFINE r == [call[c] EXCEPT !.pc = "writing", !.fd = i]
<1>5. r \in FileCalls /\ r.pc = "writing" /\ r.lock = call[c].lock /\ r.path = call[c].path /\ r.fd = i
      /\ r.stage = call[c].stage /\ r.op = call[c].op /\ r.source = call[c].source
  BY <1>2, <1>3 DEF FileCalls
<1>6. call' = [call EXCEPT ![c] = r]
  BY <1>1
<1> HIDE DEF r
<1>7. Sets(c, r)
  BY <1>2, <1>3, <1>5, <1>6, LockIdsArePositive DEF Sets, CallShape
<1>8. /\ call' \in [Calls -> FileCalls] /\ call'[c] = r
      /\ \A d \in Calls : d # c => call'[d] = call[d]
  BY <1>7, SetsCall DEF FilesInv
<1>9. /\ files' \in [Paths -> {0} \cup Inodes] /\ inodes' \in [Inodes -> {"whole", "staged", "inplace"}]
      /\ \A p \in Paths : files'[p] = i \/ files'[p] = files[p]
      /\ inodes'[i] = "inplace" /\ \A j \in Inodes : j # i => inodes'[j] = inodes[j]
  BY <1>1, <1>3 DEF FilesInv, FilesTyped
<1>10. FilesTyped'
  BY <1>2, <1>7, <1>9, SetsTyped DEF FilesInv, FilesTyped
<1>11. LocksOwned' /\ OneLock' /\ \A d \in Calls : CallShape(call'[d])
  BY <1>2, <1>5, <1>7, LocksStay
<1>12. \A d \in Calls : call[d].fd \in {0} \cup Inodes /\ (call[d].pc = "publish" => call[d].stage \in Inodes)
  BY DEF FilesInv, FilesTyped, FileCalls, CallShape
<1>13. StagesOwned'
  <2>1. ASSUME NEW d \in Calls, NEW e \in Calls, call'[d].stage # 0, ~Linked(call'[d]), d # e
        PROVE  call'[e].stage # call'[d].stage /\ call'[e].fd # call'[d].stage
    BY <1>2, <1>4, <1>5, <1>8, <2>1 DEF FilesInv, StagesOwned
  <2>2. \A d \in Calls : call'[d].fd # 0 => inodes'[call'[d].fd] # "staged"
    BY <1>5, <1>8, <1>9, <1>12 DEF FilesInv, StagesOwned
  <2>3. \A d \in Calls : call'[d].pc = "publish" => inodes'[call'[d].stage] # "staged"
    BY <1>5, <1>8, <1>9, <1>12 DEF FilesInv, StagesOwned
  <2> QED BY <2>1, <2>2, <2>3 DEF StagesOwned
<1>14. WholeOrInPlace'
  <2>1. \A p \in Paths : files'[p] # 0 => inodes'[files'[p]] # "staged"
    BY <1>9 DEF FilesInv, WholeOrInPlace, FilesTyped
  <2>2. ASSUME NEW d \in Calls, NEW p \in Paths, call'[d].stage # 0, files'[p] = call'[d].stage
        PROVE  call'[d].op = "publish_new" /\ call'[d].stage = call'[d].fd
    <3>1. d # c /\ call'[d] = call[d]
      BY <1>2, <1>5, <1>8, <2>2
    <3> QED BY <1>4, <1>9, <2>2, <3>1 DEF FilesInv, WholeOrInPlace, Linked
  <2> QED BY <2>1, <2>2 DEF WholeOrInPlace
<1> QED BY <1>10, <1>11, <1>13, <1>14 DEF FilesInv

LEMMA FinishInPlaceInv ==
  ASSUME FilesInv, NEW c \in Calls, FinishInPlace(c)
  PROVE  FilesInv'
<1>1. call[c].fd \in Inodes /\ inodes' = [inodes EXCEPT ![call[c].fd] = "whole"] /\ Leave(c)
      /\ UNCHANGED <<allowed, outputs, files, operations>>
  BY DEF FinishInPlace, On, FilesInv, FilesTyped, CallShape, FileCalls
<1>2. inodes' \in [Inodes -> {"whole", "staged", "inplace"}] /\ \A j \in Inodes : inodes'[j] \in {"whole", inodes[j]}
  BY <1>1 DEF FilesInv, FilesTyped
<1>3. Sets(c, NoCall) /\ owner' \in [LockIds -> FileThreads \cup {NoThread}]
  BY <1>1, LeaveSets
<1>4. FilesTyped'
  BY <1>1, <1>2, <1>3, SetsTyped DEF FilesInv, FilesTyped
<1>5. LocksOwned' /\ OneLock' /\ \A d \in Calls : CallShape(call'[d])
  BY <1>1, LocksGiven
<1>6. NoCall.fd = 0 /\ NoCall.stage = 0 /\ NoCall.pc = "idle"
  BY DEF NoCall
<1>7. /\ call' \in [Calls -> FileCalls] /\ call'[c] = NoCall
      /\ \A d \in Calls : d # c => call'[d] = call[d]
  BY <1>3, SetsCall DEF FilesInv
<1>8. \A d \in Calls : call[d].fd \in {0} \cup Inodes /\ (call[d].pc = "publish" => call[d].stage \in Inodes)
  BY DEF FilesInv, FilesTyped, FileCalls, CallShape
<1>9. StagesOwned'
  BY <1>2, <1>6, <1>7, <1>8 DEF FilesInv, StagesOwned
<1>10. WholeOrInPlace'
  BY <1>1, <1>2, <1>6, <1>7 DEF FilesInv, WholeOrInPlace, FilesTyped
<1> QED BY <1>4, <1>5, <1>9, <1>10 DEF FilesInv

(* A new file for what is written beside its target.                         *)
LEMMA StagesNew ==
  ASSUME FilesInv, NEW c \in Calls, NEW i \in Free, NEW r, Sets(c, r),
         inodes' = [inodes EXCEPT ![i] = "staged"], UNCHANGED <<allowed, outputs, owner, files, operations>>,
         call[c].pc \in {"locked", "opened"}, r.pc \in {"callback", "staged"}, r.stage = i, r.fd = call[c].fd,
         r.lock = call[c].lock, r.path = call[c].path
  PROVE  FilesInv'
<1>1. /\ call' \in [Calls -> FileCalls] /\ call'[c] = r
      /\ \A d \in Calls : d # c => call'[d] = call[d]
  BY SetsCall DEF FilesInv
<1>2. i \in Inodes /\ (\A p \in Paths : files[p] # i) /\ \A d \in Calls : call[d].fd # i /\ call[d].stage # i
  BY FreeIsUnused
<1>3. inodes' \in [Inodes -> {"whole", "staged", "inplace"}] /\ \A j \in Inodes : j # i => inodes'[j] = inodes[j]
  BY <1>2 DEF FilesInv, FilesTyped
<1>4. FilesTyped'
  BY <1>3, SetsTyped DEF FilesInv, FilesTyped
<1>5. LocksOwned' /\ OneLock' /\ \A d \in Calls : CallShape(call'[d])
  BY LocksStay
<1>6. \A d \in Calls : call[d].fd \in {0} \cup Inodes /\ (call[d].pc = "publish" => call[d].stage \in Inodes)
  BY DEF FilesInv, FilesTyped, FileCalls, CallShape
<1>7. StagesOwned'
  <2>1. ASSUME NEW d \in Calls, NEW e \in Calls, call'[d].stage # 0, ~Linked(call'[d]), d # e
        PROVE  call'[e].stage # call'[d].stage /\ call'[e].fd # call'[d].stage
    <3>1. CASE d = c
      BY <1>1, <1>2, <2>1, <3>1
    <3>2. CASE e = c
      BY <1>1, <1>2, <2>1, <3>2 DEF FilesInv, StagesOwned
    <3>3. CASE d # c /\ e # c
      BY <1>1, <2>1, <3>3 DEF FilesInv, StagesOwned
    <3> QED BY <3>1, <3>2, <3>3
  <2>2. \A d \in Calls : call'[d].fd = call[d].fd
    BY <1>1
  <2>3. \A d \in Calls : call'[d].fd # 0 => inodes'[call'[d].fd] # "staged"
    BY <1>2, <1>3, <1>6, <2>2 DEF FilesInv, StagesOwned
  <2>4. \A d \in Calls : call'[d].pc = "publish" => inodes'[call'[d].stage] # "staged"
    BY <1>1, <1>2, <1>3, <1>6 DEF FilesInv, StagesOwned
  <2> QED BY <2>1, <2>3, <2>4 DEF StagesOwned
<1>8. WholeOrInPlace'
  <2>1. \A p \in Paths : files'[p] # 0 => inodes'[files'[p]] # "staged"
    BY <1>2, <1>3 DEF FilesInv, WholeOrInPlace, FilesTyped
  <2>2. ASSUME NEW d \in Calls, NEW p \in Paths, call'[d].stage # 0, files'[p] = call'[d].stage
        PROVE  call'[d].op = "publish_new" /\ call'[d].stage = call'[d].fd
    <3>1. d # c
      BY <1>1, <1>2, <2>2
    <3> QED BY <1>1, <2>2, <3>1 DEF FilesInv, WholeOrInPlace
  <2> QED BY <2>1, <2>2 DEF WholeOrInPlace
<1> QED BY <1>4, <1>5, <1>7, <1>8 DEF FilesInv

LEMMA StageInv ==
  ASSUME FilesInv, NEW c \in Calls, Stage(c)
  PROVE  FilesInv'
<1>1. PICK i \in Free :
       /\ inodes' = [inodes EXCEPT ![i] = "staged"]
       /\ call' = [call EXCEPT ![c] = [call[c] EXCEPT !.pc = IF call[c].op = "transform" THEN "callback" ELSE "staged",
                                                      !.stage = i]]
  BY DEF Stage, Becomes
<1>2. call[c].pc = "locked" /\ call[c] \in FileCalls /\ CallShape(call[c])
      /\ UNCHANGED <<allowed, outputs, owner, files, operations>>
  BY DEF Stage, On, FilesInv, FilesTyped
<1> DEFINE pc == IF call[c].op = "transform" THEN "callback" ELSE "staged"
           r == [call[c] EXCEPT !.pc = pc, !.stage = i]
<1>3. pc \in {"callback", "staged"} /\ i \in Inodes
  BY FreeIsUnused
<1>4. call' = [call EXCEPT ![c] = r]
  BY <1>1
<1> HIDE DEF pc
<1>5. r \in FileCalls /\ r.pc = pc /\ r.lock = call[c].lock /\ r.path = call[c].path /\ r.fd = call[c].fd
      /\ r.stage = i /\ r.op = call[c].op /\ r.source = call[c].source
  BY <1>2, <1>3 DEF FileCalls
<1> HIDE DEF r
<1>6. Sets(c, r)
  BY <1>2, <1>3, <1>4, <1>5, LockIdsArePositive DEF Sets, CallShape
<1> QED BY <1>1, <1>2, <1>3, <1>5, <1>6, StagesNew

LEMMA CallbackInv ==
  ASSUME FilesInv, NEW c \in Calls, Callback(c)
  PROVE  FilesInv'
<1>1. call[c].pc = "callback" /\ call[c] \in FileCalls /\ CallShape(call[c])
      /\ UNCHANGED <<allowed, outputs, owner, files, inodes, operations>>
  BY DEF Callback, On, FilesInv, FilesTyped
<1> DEFINE r == [call[c] EXCEPT !.pc = "staged"]
<1>2. call' = [call EXCEPT ![c] = r]
  BY DEF Callback, Becomes
<1>3. r \in FileCalls /\ r.pc = "staged" /\ r.lock = call[c].lock /\ r.path = call[c].path /\ r.fd = call[c].fd
      /\ r.stage = call[c].stage /\ r.op = call[c].op /\ r.source = call[c].source
  BY <1>1 DEF FileCalls
<1> HIDE DEF r
<1>4. Sets(c, r)
  BY <1>1, <1>2, <1>3 DEF Sets, CallShape
<1>5. FilesTyped'
  BY <1>1, <1>4, SetsTyped DEF FilesInv, FilesTyped
<1>6. LocksOwned' /\ OneLock' /\ \A d \in Calls : CallShape(call'[d])
  BY <1>1, <1>3, <1>4, LocksStay
<1>7. StagesOwned' /\ WholeOrInPlace'
  BY <1>1, <1>3, <1>4, FilesStay
<1> QED BY <1>5, <1>6, <1>7 DEF FilesInv

LEMMA FillInv ==
  ASSUME FilesInv, NEW c \in Calls, Fill(c)
  PROVE  FilesInv'
<1>1. call[c].pc = "staged" /\ call[c] \in FileCalls /\ CallShape(call[c]) /\ call[c].stage \in Inodes
      /\ inodes' = [inodes EXCEPT ![call[c].stage] = "whole"]
      /\ UNCHANGED <<allowed, outputs, owner, files, operations>>
  BY DEF Fill, On, FilesInv, FilesTyped, CallShape, FileCalls
<1> DEFINE r == [call[c] EXCEPT !.pc = "publish"]
<1>2. call' = [call EXCEPT ![c] = r]
  BY DEF Fill, Becomes
<1>3. r \in FileCalls /\ r.pc = "publish" /\ r.lock = call[c].lock /\ r.path = call[c].path /\ r.fd = call[c].fd
      /\ r.stage = call[c].stage /\ r.op = call[c].op /\ r.source = call[c].source
  BY <1>1 DEF FileCalls
<1> HIDE DEF r
<1>4. Sets(c, r)
  BY <1>1, <1>2, <1>3 DEF Sets, CallShape
<1>5. /\ call' \in [Calls -> FileCalls] /\ call'[c] = r
      /\ \A d \in Calls : d # c => call'[d] = call[d]
  BY <1>4, SetsCall DEF FilesInv
<1>6. inodes' \in [Inodes -> {"whole", "staged", "inplace"}] /\ inodes'[call[c].stage] = "whole"
      /\ \A j \in Inodes : inodes'[j] \in {"whole", inodes[j]}
  BY <1>1 DEF FilesInv, FilesTyped
<1>7. FilesTyped'
  BY <1>1, <1>4, <1>6, SetsTyped DEF FilesInv, FilesTyped
<1>8. LocksOwned' /\ OneLock' /\ \A d \in Calls : CallShape(call'[d])
  BY <1>1, <1>3, <1>4, LocksStay
<1>9. \A d \in Calls : call[d].fd \in {0} \cup Inodes /\ (call[d].pc = "publish" => call[d].stage \in Inodes)
  BY DEF FilesInv, FilesTyped, FileCalls, CallShape
<1>10. \A d \in Calls : /\ call'[d].fd = call[d].fd /\ call'[d].stage = call[d].stage /\ call'[d].op = call[d].op
                        /\ Linked(call'[d]) <=> Linked(call[d])
  BY <1>3, <1>5 DEF Linked
<1>11. StagesOwned'
  <2>1. \A d \in Calls : call'[d].fd # 0 => inodes'[call'[d].fd] # "staged"
    BY <1>6, <1>9, <1>10 DEF FilesInv, StagesOwned
  <2>2. \A d \in Calls : call'[d].pc = "publish" => inodes'[call'[d].stage] # "staged"
    BY <1>3, <1>5, <1>6, <1>9 DEF FilesInv, StagesOwned
  <2> QED BY <1>10, <2>1, <2>2 DEF FilesInv, StagesOwned
<1>12. WholeOrInPlace'
  BY <1>1, <1>6, <1>10 DEF FilesInv, WholeOrInPlace, FilesTyped
<1> QED BY <1>7, <1>8, <1>11, <1>12 DEF FilesInv

(* What is opened, or linked, has a name already.                            *)
LEMMA SourceSets ==
  ASSUME FilesInv, NEW c \in Calls, NEW r, Sets(c, r), UNCHANGED <<allowed, outputs, owner, files, inodes, operations>>,
         r.lock = call[c].lock, r.path = call[c].path, r.pc \notin {"enter", "wait"}, call[c].pc \notin {"enter", "wait"},
         call[c].stage = 0, r.op = "publish_new", r.fd \in {files[p] : p \in Paths}, r.stage \in {0, r.fd}
  PROVE  FilesInv'
<1>1. /\ call' \in [Calls -> FileCalls] /\ call'[c] = r
      /\ \A d \in Calls : d # c => call'[d] = call[d]
  BY SetsCall DEF FilesInv
<1>2. FilesTyped'
  BY SetsTyped DEF FilesInv, FilesTyped
<1>3. LocksOwned' /\ OneLock' /\ \A d \in Calls : CallShape(call'[d])
  BY LocksStay
<1>4. r.stage # 0 => Linked(r)
  BY DEF Linked
<1>5. r.fd # 0 => inodes[r.fd] # "staged"
  BY DEF FilesInv, WholeOrInPlace
<1>6. \A d \in Calls : call[d].stage = r.fd /\ call[d].stage # 0 => Linked(call[d])
  BY DEF FilesInv, WholeOrInPlace, Linked
<1>7. r.pc = "publish" => r.stage = r.fd /\ r.fd # 0
  BY DEF Sets, CallShape
<1>8. StagesOwned'
  <2>1. ASSUME NEW d \in Calls, NEW e \in Calls, call'[d].stage # 0, ~Linked(call'[d]), d # e
        PROVE  call'[e].stage # call'[d].stage /\ call'[e].fd # call'[d].stage
    <3>1. d # c /\ call'[d] = call[d]
      BY <1>1, <1>4, <2>1
    <3>2. CASE e = c
      BY <1>1, <1>6, <2>1, <3>1, <3>2
    <3>3. CASE e # c
      BY <1>1, <2>1, <3>1, <3>3 DEF FilesInv, StagesOwned
    <3> QED BY <3>2, <3>3
  <2>2. \A d \in Calls : call'[d].fd # 0 => inodes'[call'[d].fd] # "staged"
    BY <1>1, <1>5 DEF FilesInv, StagesOwned
  <2>3. \A d \in Calls : call'[d].pc = "publish" => inodes'[call'[d].stage] # "staged"
    BY <1>1, <1>5, <1>7 DEF FilesInv, StagesOwned
  <2> QED BY <2>1, <2>2, <2>3 DEF StagesOwned
<1>9. WholeOrInPlace'
  BY <1>1, <1>4 DEF FilesInv, WholeOrInPlace, Linked
<1> QED BY <1>2, <1>3, <1>8, <1>9 DEF FilesInv

LEMMA OpenSourceInv ==
  ASSUME FilesInv, NEW c \in Calls, OpenSource(c)
  PROVE  FilesInv'
<1>1. call[c].pc = "locked" /\ call[c].op = "publish_new" /\ call[c] \in FileCalls /\ CallShape(call[c])
      /\ call[c].source \in Paths /\ call[c].stage = 0 /\ files[call[c].source] # 0
      /\ UNCHANGED <<allowed, outputs, owner, files, inodes, operations>>
  BY DEF OpenSource, On, FilesInv, FilesTyped, CallShape
<1> DEFINE fd == files[call[c].source]
           r == [call[c] EXCEPT !.pc = "opened", !.fd = fd]
<1>2. call' = [call EXCEPT ![c] = r]
  BY DEF OpenSource, Becomes
<1>3. fd \in Inodes /\ fd \in {files[p] : p \in Paths} /\ fd # 0
  BY <1>1 DEF FilesInv, FilesTyped
<1> HIDE DEF fd
<1>4. r \in FileCalls /\ r.pc = "opened" /\ r.lock = call[c].lock /\ r.path = call[c].path /\ r.fd = fd
      /\ r.stage = call[c].stage /\ r.op = call[c].op /\ r.source = call[c].source
  BY <1>1, <1>3 DEF FileCalls
<1> HIDE DEF r
<1>5. Sets(c, r)
  BY <1>1, <1>2, <1>3, <1>4 DEF Sets, CallShape
<1> QED BY <1>1, <1>3, <1>4, <1>5, SourceSets

LEMMA StageFromInv ==
  ASSUME FilesInv, NEW c \in Calls, StageFrom(c)
  PROVE  FilesInv'
<1>1. call[c].pc = "opened" /\ call[c].op = "publish_new" /\ call[c] \in FileCalls /\ CallShape(call[c])
      /\ call[c].source \in Paths /\ call[c].stage = 0 /\ call[c].fd # 0 /\ call[c].fd \in Inodes
      /\ UNCHANGED <<allowed, outputs, owner, files, operations>>
  BY DEF StageFrom, On, FilesInv, FilesTyped, CallShape, FileCalls
<1>2. CASE Promotes(c)
  <2> DEFINE i == files[call[c].source]
             r == [call[c] EXCEPT !.pc = "publish", !.stage = i]
  <2>1. call' = [call EXCEPT ![c] = r] /\ UNCHANGED inodes
    BY <1>2 DEF StageFrom, Becomes
  <2>2. i = call[c].fd /\ i \in Inodes /\ i \in {files[p] : p \in Paths}
    BY <1>1, <1>2 DEF Promotes
  <2> HIDE DEF i
  <2>3. r \in FileCalls /\ r.pc = "publish" /\ r.lock = call[c].lock /\ r.path = call[c].path /\ r.fd = call[c].fd
        /\ r.stage = i /\ r.op = call[c].op /\ r.source = call[c].source
    BY <1>1, <2>2 DEF FileCalls
  <2> HIDE DEF r
  <2>4. Sets(c, r)
    BY <1>1, <2>1, <2>2, <2>3 DEF Sets, CallShape
  <2> QED BY <1>1, <2>1, <2>2, <2>3, <2>4, SourceSets
<1>3. CASE ~Promotes(c)
  <2>1. PICK i \in Free :
         /\ inodes' = [inodes EXCEPT ![i] = "staged"]
         /\ call' = [call EXCEPT ![c] = [call[c] EXCEPT !.pc = "staged", !.stage = i]]
    BY <1>3 DEF StageFrom, Becomes
  <2> DEFINE r == [call[c] EXCEPT !.pc = "staged", !.stage = i]
  <2>2. i \in Inodes /\ call' = [call EXCEPT ![c] = r]
    BY <2>1, FreeIsUnused
  <2>3. r \in FileCalls /\ r.pc = "staged" /\ r.lock = call[c].lock /\ r.path = call[c].path /\ r.fd = call[c].fd
        /\ r.stage = i /\ r.op = call[c].op /\ r.source = call[c].source
    BY <1>1, <2>2 DEF FileCalls
  <2> HIDE DEF r
  <2>4. Sets(c, r)
    BY <1>1, <2>2, <2>3, LockIdsArePositive DEF Sets, CallShape
  <2> QED BY <1>1, <2>1, <2>3, <2>4, StagesNew
<1> QED BY <1>2, <1>3

LEMMA FilesNextInv ==
  ASSUME FilesInv, [FilesNext]_filesVars
  PROVE  FilesInv'
BY SetAllowedInv, StartCallInv, EnterLockInv, TakeLockInv, GiveUpInv, DeleteInv, MoveInv, OpenInPlaceInv,
   FinishInPlaceInv, StageInv, CallbackInv, FillInv, PublishInv, OpenSourceInv, StageFromInv DEF FilesNext

(* Operations on one path share one lock and exclude each other though locks    *)
(* are forgotten and made anew, and a staged file is published whole and is     *)
(* nobody else's (FileRegistry::lock, StagedFile::publish).                   *)
THEOREM OutputsAreSound == FilesSpec => []OutputsSound
<1>1. FilesInit => FilesInv
  BY FilesInitInv
<1>2. FilesInv /\ [FilesNext]_filesVars => FilesInv'
  BY FilesNextInv
<1>3. FilesInv => OutputsSound
  BY DEF FilesInv, OutputsSound
<1> QED BY <1>1, <1>2, <1>3, PTL DEF FilesSpec
=============================================================================
