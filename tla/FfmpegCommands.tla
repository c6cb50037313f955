--------------------------- MODULE FfmpegCommands ---------------------------
(***************************************************************************)
(* FFmpeg commands of extensions: the registry of rust_backend/crates/      *)
(* extensions/src/ffmpeg.rs composed with the pumps that serve it,          *)
(* withCoreFFmpegExecution() in CoreBackend.kt.                             *)
(*                                                                          *)
(* Each native operation (a download, a post-processing) starts a pump      *)
(* thread and runs extension code, whose thread calls execute() once or     *)
(* several times.  execute() puts a command into the registry and parks     *)
(* until the command has its result, the operation is interrupted, the      *)
(* registry is closed or the time is over.  A pump claims whatever commands *)
(* are pending, those of other operations too, runs FFmpeg for each and     *)
(* hands in its result.                                                     *)
(*                                                                          *)
(* A command is known by its operation and a number: NEXT_COMMAND never     *)
(* gives an id twice.  Arguments, paths and FFmpeg's output are left out.   *)
(***************************************************************************)
EXTENDS Naturals, FiniteSets

CONSTANTS
  Ops,         \* operations, each with an extension thread and a pump
  Converters,  \* those whose extension calls execute()
  MaxRounds,   \* how often it does at most
  NoJob        \* a pump runs nothing

ASSUME FfmpegAssumption == Converters \subseteq Ops /\ MaxRounds \in Nat /\ NoJob \notin Ops \X Nat

Rounds == [o \in Ops |-> IF o \in Converters THEN MaxRounds ELSE 0]

VARIABLES
  entry,       \* [CommandIds -> EntryState]      State::commands
  shut,        \* "open", "closing" (environment), "closed" (State::closed)
  exec,        \* [Ops -> ExecState]       the extension thread
  round,       \* [Ops -> Nat]             its current or last command
  outcome,     \* [Ops -> Outcome]         what execute() is about to return
  expired,     \* [Ops -> BOOLEAN]         no time remains
  interrupted, \* [Ops -> BOOLEAN]         Control::check() fails
  alarm,       \* [Ops -> BOOLEAN]         who interrupted has still to unpark
  token,       \* [Ops -> BOOLEAN]         the park token of the thread
  running,     \* [Ops -> BOOLEAN]         `running` of withCoreFFmpegExecution
  pump,        \* [Ops -> PumpState]       the pump thread
  batch,       \* [Ops -> SUBSET CommandIds]      claimed and not yet taken up
  job,         \* [Ops -> CommandIds \cup {NoJob}] the command it works on
  verdict,     \* [Ops -> Verdict]         the result it will hand in
  published    \* commands whose output file was renamed into place

registry == <<entry, shut>>
execVars == <<exec, round, outcome, expired>>
control == <<interrupted, alarm>>
pumpVars == <<pump, batch, job, verdict>>
vars == <<registry, execVars, control, token, running, pumpVars, published>>

CommandIds == UNION {{o} \X (1 .. Rounds[o]) : o \in Ops}

(* An entry that has its result is that result; only commands that are      *)
(* neither claimed nor done are "pending".                                  *)
Verdict == {"ok", "failed", "cancelled"}
EntryState == {"absent", "pending", "claimed"} \cup Verdict
Outcome == Verdict \cup {"none", "interrupted", "closed", "timeout"}
ExecState == {"idle", "watched", "checked", "loop", "parked", "dropping"}
PumpState ==
  {"waiting", "late", "asleep", "take", "ffmpeg", "rename", "complete", "stopped"}

Current(o) == <<o, round[o]>>

Init ==
  /\ entry = [id \in CommandIds |-> "absent"] /\ shut = "open"
  /\ exec = [o \in Ops |-> "idle"] /\ round = [o \in Ops |-> 0]
  /\ outcome = [o \in Ops |-> "none"] /\ expired = [o \in Ops |-> FALSE]
  /\ interrupted = [o \in Ops |-> FALSE] /\ alarm = [o \in Ops |-> FALSE]
  /\ token = [o \in Ops |-> FALSE]
  /\ running = [o \in Ops |-> TRUE]
  /\ pump = [o \in Ops |-> "waiting"] /\ batch = [o \in Ops |-> {}]
  /\ job = [o \in Ops |-> NoJob] /\ verdict = [o \in Ops |-> "failed"]
  /\ published = {}

(* pump' after changed.notify_all().                                        *)
NotifyAll == pump' = [o \in Ops |-> IF pump[o] = "asleep" THEN "waiting" ELSE pump[o]]
-----------------------------------------------------------------------------
(* execute() on the extension thread of o.                                  *)

(* control.watch_thread(): from here on an interruption unparks the thread. *)
Watch(o) ==
  /\ running[o] /\ exec[o] = "idle" /\ round[o] < Rounds[o]
  /\ exec' = [exec EXCEPT ![o] = "watched"]
  /\ UNCHANGED <<registry, round, outcome, expired, control, token, running, pumpVars, published>>

(* The first check(); a new id is drawn if it succeeds.                     *)
Check(o) ==
  /\ exec[o] = "watched"
  /\ IF interrupted[o]
       THEN exec' = [exec EXCEPT ![o] = "idle"] /\ UNCHANGED round
       ELSE /\ exec' = [exec EXCEPT ![o] = "checked"]
            /\ round' = [round EXCEPT ![o] = @ + 1]
  /\ UNCHANGED <<registry, outcome, expired, control, token, running, pumpVars, published>>

(* The command is inserted, unless the registry was closed.                 *)
Insert(o) ==
  /\ exec[o] = "checked"
  /\ IF shut = "closed"
       THEN exec' = [exec EXCEPT ![o] = "idle"] /\ UNCHANGED <<entry, pump>>
       ELSE /\ exec' = [exec EXCEPT ![o] = "loop"]
            /\ entry' = [entry EXCEPT ![Current(o)] = "pending"]
            /\ NotifyAll
  /\ UNCHANGED <<shut, round, outcome, expired, control, token, running, batch, job, verdict,
                 published>>

(* What the loop of execute() returns now, or "none" to go on waiting.      *)
Returns(o) ==
  IF interrupted[o] THEN "interrupted"
  ELSE IF shut = "closed" THEN "closed"
  ELSE IF entry[Current(o)] \in Verdict THEN entry[Current(o)]
  ELSE IF expired[o] THEN "timeout" ELSE "none"

(* One turn of the loop, under the lock.  A result is taken out.  Before it *)
(* parks the thread gives up the lock; an unpark() that comes in between is *)
(* kept by the token.                                                       *)
Turn(o) ==
  /\ exec[o] = "loop"
  /\ IF Returns(o) = "none"
       THEN exec' = [exec EXCEPT ![o] = "parked"] /\ UNCHANGED <<entry, outcome>>
       ELSE /\ exec' = [exec EXCEPT ![o] = "dropping"]
            /\ outcome' = [outcome EXCEPT ![o] = Returns(o)]
            /\ entry' = IF Returns(o) \in Verdict
                          THEN [entry EXCEPT ![Current(o)] = "absent"] ELSE entry
  /\ UNCHANGED <<shut, round, expired, control, token, running, pumpVars, published>>

(* park_timeout() returns: unparked, or because the time is over, or for no *)
(* reason.                                                                  *)
Unparked(o) ==
  /\ exec[o] = "parked" /\ token[o]
  /\ exec' = [exec EXCEPT ![o] = "loop"]
  /\ token' = [token EXCEPT ![o] = FALSE]
  /\ UNCHANGED <<registry, round, outcome, expired, control, running, pumpVars, published>>

ParkTimeout(o) ==
  /\ exec[o] = "parked"
  /\ exec' = [exec EXCEPT ![o] = "loop"]
  /\ \E late \in {expired[o], TRUE} : expired' = [expired EXCEPT ![o] = late]
  /\ UNCHANGED <<registry, round, outcome, control, token, running, pumpVars, published>>

(* Drop for Pending, then for ControlWait.                                  *)
DropPending(o) ==
  /\ exec[o] = "dropping"
  /\ exec' = [exec EXCEPT ![o] = "idle"]
  /\ entry' = [entry EXCEPT ![Current(o)] = "absent"]
  /\ outcome' = [outcome EXCEPT ![o] = "none"]
  /\ expired' = [expired EXCEPT ![o] = FALSE]
  /\ NotifyAll
  /\ UNCHANGED <<shut, round, control, token, running, batch, job,
                 verdict, published>>

(* The operation returns and tells its pump to stop.                        *)
EndBlock(o) ==
  /\ running[o] /\ exec[o] = "idle"
  /\ running' = [running EXCEPT ![o] = FALSE]
  /\ UNCHANGED <<registry, execVars, control, token, pumpVars, published>>
-----------------------------------------------------------------------------
(* Interruption and shutdown.                                               *)

(* The lease of o is cancelled or its runtime closed; whoever does it       *)
(* unparks the watched thread afterwards.                                   *)
Interrupt(o) ==
  /\ ~interrupted[o]
  /\ interrupted' = [interrupted EXCEPT ![o] = TRUE]
  /\ alarm' = [alarm EXCEPT ![o] = TRUE]
  /\ UNCHANGED <<registry, execVars, token, running, pumpVars, published>>

(* Mutation: the flag is set and nobody is told.                            *)
AlarmLost(o) ==
  /\ alarm[o]
  /\ alarm' = [alarm EXCEPT ![o] = FALSE]
  /\ UNCHANGED <<registry, execVars, interrupted, token, running, pumpVars, published>>

Alarm(o) ==
  /\ alarm[o]
  /\ alarm' = [alarm EXCEPT ![o] = FALSE]
  /\ token' = [token EXCEPT ![o] = @ \/ exec[o] # "idle"]
  /\ UNCHANGED <<registry, execVars, interrupted, running, pumpVars, published>>

(* ExtensionEnvironment::shutdown() first sets the flag that every Control  *)
(* sees (parent_closed), which unparks nobody.                              *)
CloseEnvironment ==
  /\ shut = "open" /\ shut' = "closing"
  /\ interrupted' = [o \in Ops |-> TRUE]
  /\ UNCHANGED <<entry, execVars, alarm, token, running, pumpVars, published>>

(* CommandRegistry::shutdown()                                              *)
Shutdown ==
  /\ shut = "closing" /\ shut' = "closed"
  /\ token' = [o \in Ops |-> token[o] \/ \E n \in 1 .. Rounds[o] : entry[<<o, n>>] # "absent"]
  /\ entry' = [id \in CommandIds |-> "absent"]
  /\ NotifyAll
  /\ UNCHANGED <<execVars, control, running, batch, job, verdict, published>>
-----------------------------------------------------------------------------
(* The pump thread of p.                                                    *)

(* while (running.get()): where the pump goes after a batch or an empty     *)
(* wait.                                                                    *)
Back(p) == IF running[p] THEN "waiting" ELSE "stopped"

Pending == {id \in CommandIds : entry[id] = "pending"}

(* Mutation: pending commands are returned without being claimed.           *)
PumpClaimNot(p) ==
  /\ pump[p] \in {"waiting", "late"}
  /\ pump' = [pump EXCEPT ![p] =
                IF shut = "closed" THEN "stopped"
                ELSE IF Pending # {} THEN "take"
                ELSE IF pump[p] = "late" THEN Back(p) ELSE "asleep"]
  /\ batch' = [batch EXCEPT ![p] = Pending]
  /\ UNCHANGED <<registry, execVars, control, token, running, job, verdict, published>>

(* One turn of wait_pending_json(): everything pending is claimed at once.  *)
(* A closed registry ends the pump, "late" is a wait whose time is over.    *)
PumpClaim(p) ==
  /\ pump[p] \in {"waiting", "late"}
  /\ pump' = [pump EXCEPT ![p] =
                IF shut = "closed" THEN "stopped"
                ELSE IF Pending # {} THEN "take"
                ELSE IF pump[p] = "late" THEN Back(p) ELSE "asleep"]
  /\ batch' = [batch EXCEPT ![p] = Pending]
  /\ entry' = [id \in CommandIds |-> IF id \in Pending THEN "claimed" ELSE entry[id]]
  /\ UNCHANGED <<shut, execVars, control, token, running, job, verdict, published>>

(* wait_timeout() returns: its time is over, or for no reason.              *)
PumpAwake(p, where) ==
  /\ pump[p] = "asleep"
  /\ pump' = [pump EXCEPT ![p] = where]
  /\ UNCHANGED <<registry, execVars, control, token, running, batch, job, verdict, published>>

PumpTimeout(p) == PumpAwake(p, "late")
PumpSpurious(p) == PumpAwake(p, "waiting")

(* commandIsActive(), which is also false once the registry is closed.      *)
Active(id) == entry[id] # "absent"

(* A pump goes on with v as the verdict of its job.                         *)
Go(p, where, v) ==
  /\ pump' = [pump EXCEPT ![p] = where]
  /\ verdict' = [verdict EXCEPT ![p] = v]
  /\ UNCHANGED <<registry, execVars, control, token, running, batch>>

(* The next command of the batch; one that is not wanted any more is not    *)
(* run.                                                                     *)
PumpTake(p) ==
  /\ pump[p] = "take"
  /\ IF batch[p] = {}
       THEN pump' = [pump EXCEPT ![p] = Back(p)] /\ UNCHANGED <<batch, job, verdict>>
       ELSE \E id \in batch[p] :
              /\ batch' = [batch EXCEPT ![p] = @ \ {id}]
              /\ job' = [job EXCEPT ![p] = id]
              /\ pump' = [pump EXCEPT ![p] = IF Active(id) THEN "ffmpeg" ELSE "complete"]
              /\ verdict' = [verdict EXCEPT ![p] = IF Active(id) THEN @ ELSE "cancelled"]
  /\ UNCHANGED <<registry, execVars, control, token, running, published>>

(* FFmpeg ends by itself, or cannot be run at all.  Success counts if the   *)
(* command is still wanted.                                                 *)
FfmpegEnds(p) ==
  /\ pump[p] = "ffmpeg"
  /\ \/ IF Active(job[p]) THEN Go(p, "rename", "ok") ELSE Go(p, "complete", "cancelled")
     \/ Go(p, "complete", "failed")
  /\ UNCHANGED <<job, published>>

(* FFmpeg is stopped because its command is not wanted any more.            *)
FfmpegStops(p) ==
  /\ pump[p] = "ffmpeg" /\ ~Active(job[p])
  /\ Go(p, "complete", "failed")
  /\ UNCHANGED <<job, published>>

(* The staged output is renamed, which may fail.                            *)
PumpRename(p) ==
  /\ pump[p] = "rename"
  /\ \/ Go(p, "complete", "ok") /\ published' = published \cup {job[p]}
     \/ Go(p, "complete", "failed") /\ UNCHANGED published
  /\ UNCHANGED job

(* complete(id): the first result of a command that is still there.         *)
SetResult(p, id) ==
  /\ IF entry[id] \in {"pending", "claimed"}
       THEN /\ entry' = [entry EXCEPT ![id] = verdict[p]]
            /\ token' = [token EXCEPT ![id[1]] = TRUE]
            /\ pump' = [o \in Ops |-> IF o = p THEN "take"
                                      ELSE IF pump[o] = "asleep" THEN "waiting" ELSE pump[o]]
       ELSE pump' = [pump EXCEPT ![p] = "take"] /\ UNCHANGED <<entry, token>>
  /\ job' = [job EXCEPT ![p] = NoJob] /\ verdict' = [verdict EXCEPT ![p] = "failed"]
  /\ UNCHANGED <<shut, execVars, control, running, batch, published>>

Complete(p) == pump[p] = "complete" /\ SetResult(p, job[p])
-----------------------------------------------------------------------------
Executor(o) ==
  Check(o) \/ Insert(o) \/ Turn(o) \/ Unparked(o) \/ DropPending(o)

Pump(p) ==
  PumpClaim(p) \/ PumpTake(p) \/ FfmpegStops(p) \/ PumpRename(p) \/ Complete(p)

Next ==
  \/ \E o \in Ops :
       \/ Watch(o) \/ Executor(o) \/ ParkTimeout(o) \/ EndBlock(o)
       \/ Interrupt(o) \/ Alarm(o)
       \/ Pump(o) \/ PumpTimeout(o) \/ PumpSpurious(o) \/ FfmpegEnds(o)
  \/ CloseEnvironment \/ Shutdown

Spec == Init /\ [][Next]_vars

(* Threads that can run do, and whoever interrupts or closes goes on to     *)
(* wake the others.  FFmpeg ends, except perhaps for an operation that was  *)
(* interrupted; there it has to be stopped.  No timeout is relied on.       *)
FairSpec ==
  /\ Spec
  /\ \A o \in Ops : WF_vars(Executor(o)) /\ WF_vars(Pump(o)) /\ WF_vars(Alarm(o))
  /\ \A p \in Ops : WF_vars(FfmpegEnds(p) /\ ~interrupted[job[p][1]])
  /\ WF_vars(Shutdown)
-----------------------------------------------------------------------------
(* Properties.                                                              *)

(* Registry, threads and pumps have their types.                            *)
TypeOK ==
  /\ entry \in [CommandIds -> EntryState] /\ shut \in {"open", "closing", "closed"}
  /\ exec \in [Ops -> ExecState] /\ round \in [Ops -> Nat] /\ (\A o \in Ops : round[o] <= Rounds[o])
  /\ outcome \in [Ops -> Outcome] /\ expired \in [Ops -> BOOLEAN]
  /\ interrupted \in [Ops -> BOOLEAN] /\ alarm \in [Ops -> BOOLEAN]
  /\ token \in [Ops -> BOOLEAN] /\ running \in [Ops -> BOOLEAN]
  /\ pump \in [Ops -> PumpState] /\ batch \in [Ops -> SUBSET CommandIds]
  /\ job \in [Ops -> CommandIds \cup {NoJob}] /\ verdict \in [Ops -> Verdict]
  /\ published \subseteq CommandIds

(* The commands in the hands of a pump.                                     *)
Hands(p) == batch[p] \cup ({job[p]} \ {NoJob})

(* wait_pending_json() "claims each command at most once, even with         *)
(* multiple native pumps": no two FFmpeg processes work on one command.     *)
ClaimedOnce == \A p, q \in Ops : p # q => Hands(p) \cap Hands(q) = {}

(* A claimed command without a result is in the hands of a pump at work,    *)
(* also when the operation of that pump is over; otherwise execute() could  *)
(* only wait for its timeout of 300 s.                                      *)
ClaimsServed ==
  \A id \in CommandIds : entry[id] = "claimed" =>
    \E p \in Ops : id \in Hands(p) /\ pump[p] \in {"take", "ffmpeg", "rename", "complete"}

(* A command is in the registry only while its execute() waits for it, and  *)
(* not at all once the registry is closed: however execute() is left, no    *)
(* pump takes up its work afterwards.                                       *)
EntriesOwned ==
  \A id \in CommandIds : Active(id) =>
    /\ shut # "closed"
    /\ id = Current(id[1]) /\ exec[id[1]] \in {"loop", "parked", "dropping"}

(* execute() returns the result of its own command: success means that its  *)
(* output was published, and a command somebody waits for is never          *)
(* reported as cancelled by a pump, whatever results come late or twice.    *)
OwnResult ==
  \A o \in Ops :
    /\ outcome[o] = "ok" => Current(o) \in published
    /\ outcome[o] # "cancelled"

(* Every execute() returns without its timeout.  Its command is claimed and *)
(* waits behind others at most for their FFmpeg; its result wakes it; and   *)
(* if it is interrupted it does not wait for FFmpeg at all: no wakeup is    *)
(* lost between its checks and park.                                        *)
ExecuteReturns == \A o \in Ops : exec[o] # "idle" ~> exec[o] = "idle"

(* A command that is claimed has one pump that runs it, for a caller that     *)
(* still waits and gets its own result (execute, pending_json, complete).    *)
CommandsSound == ClaimedOnce /\ ClaimsServed /\ EntriesOwned /\ OwnResult
=============================================================================
