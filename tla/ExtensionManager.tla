-------------------------- MODULE ExtensionManager --------------------------
(***************************************************************************)
(* One installed extension (extensions/src/manager.rs, manager/downloads.rs, *)
(* environment.rs): its package on disk, its stored data, the registry entry *)
(* that is published for it, the VM and the download workers of every entry. *)
(* Threads install, upgrade, configure, call and remove it; the process may  *)
(* crash and start again.  An Installed object is a number; a worker that is *)
(* borrowed is known by its borrower.  A step is one section under the       *)
(* engine lock or one change of the disk; sections that run extension code   *)
(* and keep the engine lock are two.                                         *)
(***************************************************************************)
EXTENDS Naturals, FiniteSets

CONSTANTS
  Callers,      \* threads
  MaxVersion,   \* versions of the package
  MaxSettings,  \* settings the user saves
  MaxObjects,   \* bound on the Installed objects of a process, one less after a crash
  MaxCrashes    \* bound on the crashes

ASSUME ManagerAssumption ==
  /\ {MaxVersion, MaxSettings, MaxObjects, MaxCrashes} \subseteq Nat
  /\ IsFiniteSet(Callers) /\ 0 \notin Callers

Versions == 1 .. MaxVersion
Objects == 1 .. MaxObjects

VARIABLES
  disk,     \* target: the version in the extension's directory, 0 for none;
            \* stage and backup: those beside it; left: what a crash left there
  data,     \* the data directory: exists, the settings in it and "_enabled"
  entries,  \* the published Installed object, 0 for none
  obj,      \* the Installed objects
  made,     \* how many there are, and crashes were before
  caller,   \* thread -> its place, its object, and the worker it holds
  mode,     \* of the manager: "open", "closing" (closed is set) or "closed"
  crashes,
  past      \* known: the version published last, 0 once its removal began;
            \* gone: it was removed and not installed again

mgrVars == <<disk, data, entries, obj, made, caller, mode, crashes, past>>

NoWorker == [code |-> 0, settings |-> 0, open |-> FALSE]
NoVM == [code |-> 0, open |-> FALSE]
Fresh(v, on) ==
  [version |-> v, enabled |-> on, vm |-> NoVM,
   gen |-> 1, match |-> 0, idle |-> NoWorker, active |-> {}]
Resting == [pc |-> "idle", o |-> 0, v |-> 0, s |-> 0, gen |-> 0, worker |-> NoWorker]

ManagerInit ==
  /\ disk = [target |-> 0, stage |-> 0, backup |-> 0, left |-> {}]
  /\ data = [exists |-> FALSE, settings |-> 1, enabled |-> FALSE]
  /\ entries = 0 /\ obj = [o \in Objects |-> Fresh(0, FALSE)] /\ made = 0
  /\ caller = [t \in Callers |-> Resting]
  /\ mode = "open" /\ crashes = 0
  /\ past = [known |-> 0, gone |-> FALSE]
-----------------------------------------------------------------------------
Mutating == {t \in Callers : caller[t].pc \in
  {"install", "publish", "upgrade", "swap", "activate", "retire", "replace",
   "enable", "disable", "unload", "remove", "eraseSource", "eraseData", "update"}}
MutationFree == Mutating = {}
EngineFree(o) == \A t \in Callers : caller[t].o = o => caller[t].pc \notin {"calling", "borrowing"}
Current(o) == mode = "open" /\ entries = o

Move(t, c) == caller' = [caller EXCEPT ![t] = c]
Go(t, pc) == Move(t, [caller[t] EXCEPT !.pc = pc])
Return(t) == Move(t, Resting)

(* Mutation: a candidate is loaded from the extension's directory. *)
SourceInPlace(o) == disk.target

(* The code that the object's VM would load: a candidate's is in staging.   *)
SourceOf(o) == IF \E t \in Callers : caller[t].pc \in {"upgrade", "swap", "activate"} /\ caller[t].o = o
               THEN obj[o].version ELSE disk.target

(* Any use of the environment's store creates the data directory.           *)
Touched == [data EXCEPT !.exists = TRUE]

(* Generations are only compared: the next one is the least nobody holds.   *)
Bumped ==
  LET free == {h \in 1 .. Cardinality(Callers) + 1 : \A t \in Callers : caller[t].gen # h}
  IN CHOOSE h \in free : \A k \in free : h <= k

(* invalidate_download_pool: 0 stands for no settings to match.             *)
Invalidate(x) == [x EXCEPT !.gen = Bumped, !.match = 0, !.idle = NoWorker]

(* Mutation: borrowed workers are left alone. *)
TornDownVM(x) == [Invalidate(x) EXCEPT !.vm = NoVM]

(* teardown(): the idle worker, the active ones and the VM are shut down    *)
(* and joined.                                                              *)
TornDown(x) == [Invalidate(x) EXCEPT !.vm = NoVM, !.active = {}]

(* Workers that t's teardown of x joins: their downloads fail.              *)
Joined(x, y) ==
  [t \in Callers |-> IF t \in x.active \ y.active
                     THEN [caller[t] EXCEPT !.worker = NoWorker] ELSE caller[t]]

(* The object after ready_with_lease(): a VM that has died is replaced, and *)
(* initialised unless it was.                                               *)
Ready(o) ==
  LET x == IF obj[o].vm.code # 0 /\ ~obj[o].vm.open
           THEN [Invalidate(obj[o]) EXCEPT !.vm = NoVM] ELSE obj[o]
  IN [x EXCEPT !.vm = IF x.vm.code # 0 THEN x.vm
                      ELSE [code |-> SourceOf(o), open |-> TRUE]]

CanReady(o) == mode = "open" /\ (obj[o].vm.open \/ SourceOf(o) # 0)

(* What a failure of ready_with_lease() may leave: the gates fail before    *)
(* anything, the load after a dead VM was dropped, initialize at the end.   *)
NotReady(o) ==
  {obj[o]} \cup
  (IF obj[o].vm.open THEN {} ELSE {[Invalidate(obj[o]) EXCEPT !.vm = NoVM], TornDown(obj[o])})

(* failed(): the entry is disabled.                                         *)
Disabled(x) == [x EXCEPT !.enabled = FALSE]
-----------------------------------------------------------------------------
(* install() and upgrade(): a package is opened, compared and extracted.    *)
Stage(t, v) ==
  /\ caller[t].pc = "idle" /\ mode = "open" /\ MutationFree
  /\ made < MaxObjects
  /\ IF entries = 0 THEN disk.target = 0 ELSE v > obj[entries].version
  /\ disk' = [disk EXCEPT !.stage = v]
  /\ Move(t, [Resting EXCEPT !.pc = IF entries = 0 THEN "install" ELSE "upgrade", !.v = v,
                             !.o = made + 1])
  /\ made' = made + 1
  /\ obj' = [obj EXCEPT ![made + 1] = Fresh(v, entries # 0 /\ obj[entries].enabled)]
  /\ past' = [past EXCEPT !.gone = FALSE]
  /\ UNCHANGED <<data, entries, mode, crashes>>

(* An operation gives up; its temporary directory is deleted.               *)
GiveUp(t) ==
  /\ caller[t].pc \in {"install", "upgrade", "swap"}
  /\ disk' = [disk EXCEPT !.stage = 0]
  /\ obj' = [obj EXCEPT ![caller[t].o] = TornDown(@)]
  /\ data' \in {data, Touched}
  /\ Return(t)
  /\ UNCHANGED <<entries, made, mode, crashes, past>>

(* install_package(): validated, which may fail, and moved into place.      *)
Activate(t) ==
  /\ caller[t].pc = "install" /\ mode = "open"
  /\ data' = Touched
  /\ disk' = [disk EXCEPT !.target = caller[t].v, !.stage = 0]
  /\ Go(t, "publish")
  /\ UNCHANGED <<entries, obj, made, mode, crashes, past>>

Publish(t) ==
  /\ caller[t].pc = "publish"
  /\ entries' = caller[t].o
  /\ past' = [past EXCEPT !.known = caller[t].v]
  /\ Return(t)
  /\ UNCHANGED <<disk, data, obj, made, mode, crashes>>

(* upgrade_package(): the candidate runs from staging if it will be enabled, *)
(* or is only validated.                                                    *)
Candidate(t) ==
  LET o == caller[t].o IN
  /\ caller[t].pc = "upgrade" /\ mode = "open"
  /\ data' = Touched
  /\ obj' = IF obj[o].enabled THEN [obj EXCEPT ![o] = Ready(o)] ELSE obj
  /\ Go(t, "swap")
  /\ UNCHANGED <<disk, entries, made, mode, crashes, past>>

(* The current directory becomes the backup.                                *)
Backup(t) ==
  /\ caller[t].pc = "swap" /\ mode = "open" /\ disk.target # 0
  /\ disk' = [disk EXCEPT !.target = 0, !.backup = disk.target]
  /\ Go(t, "activate")
  /\ UNCHANGED <<data, entries, obj, made, mode, crashes, past>>

(* The candidate's directory takes its place.  If it cannot, the backup is  *)
(* restored, and kept if that fails too.                                    *)
Swap(t) ==
  /\ caller[t].pc = "activate"
  /\ \/ /\ disk' = [disk EXCEPT !.target = disk.stage, !.stage = 0]
        /\ Go(t, "retire")
        /\ UNCHANGED obj
     \/ /\ \/ disk' = [disk EXCEPT !.target = disk.backup, !.stage = 0, !.backup = 0]
           \/ disk' = [disk EXCEPT !.stage = 0, !.backup = 0, !.left = @ \cup {disk.backup}]
        /\ obj' = [obj EXCEPT ![caller[t].o] = TornDown(@)]
        /\ Return(t)
  /\ UNCHANGED <<data, entries, made, mode, crashes, past>>

(* The old entry is disabled, ...                                           *)
Retire(t) ==
  /\ caller[t].pc = "retire"
  /\ obj' = [obj EXCEPT ![entries] = Disabled(@)]
  /\ Go(t, "replace")
  /\ UNCHANGED <<disk, data, entries, made, mode, crashes, past>>

(* ... torn down when its engine is free, and replaced; the backup goes.    *)
Replace(t) ==
  LET y == TornDown(obj[entries]) IN
  /\ caller[t].pc = "replace" /\ EngineFree(entries)
  /\ obj' = [obj EXCEPT ![entries] = y]
  /\ disk' = [disk EXCEPT !.backup = 0]
  /\ entries' = caller[t].o
  /\ past' = [past EXCEPT !.known = caller[t].v]
  /\ caller' = [Joined(obj[entries], y) EXCEPT ![t] = Resting]
  /\ UNCHANGED <<data, made, mode, crashes>>
-----------------------------------------------------------------------------
(* set_enabled(): the status changes before the engine does.                *)
SetEnabled(t, on) ==
  /\ caller[t].pc = "idle" /\ mode = "open" /\ MutationFree /\ entries # 0
  /\ obj' = [obj EXCEPT ![entries].enabled = on]
  /\ Move(t, [Resting EXCEPT !.pc = IF on THEN "enable" ELSE "disable", !.o = entries])
  /\ UNCHANGED <<disk, data, entries, made, mode, crashes, past>>

(* "_enabled" is saved; a failure is only logged.                           *)
Saved(on) == {data, [Touched EXCEPT !.enabled = on]}

Enable(t) ==
  LET o == caller[t].o IN
  /\ caller[t].pc = "enable" /\ EngineFree(o)
  /\ \/ CanReady(o) /\ obj' = [obj EXCEPT ![o] = Ready(o)] /\ data' \in Saved(TRUE)
     \/ \E y \in NotReady(o) : obj' = [obj EXCEPT ![o] = Disabled(y)] /\ data' \in Saved(FALSE)
  /\ caller' = [Joined(obj[o], obj'[o]) EXCEPT ![t] = Resting]
  /\ UNCHANGED <<disk, entries, made, mode, crashes, past>>

Disable(t) ==
  LET o == caller[t].o IN
  /\ caller[t].pc = "disable" /\ EngineFree(o)
  /\ obj' = [obj EXCEPT ![o] = TornDown(@)]
  /\ data' \in Saved(FALSE)
  /\ caller' = [Joined(obj[o], obj'[o]) EXCEPT ![t] = Resting]
  /\ UNCHANGED <<disk, entries, made, mode, crashes, past>>

(* update_settings(): the whole file is replaced, "_enabled" too.           *)
UpdateSettings(t) ==
  /\ caller[t].pc = "idle" /\ mode = "open" /\ MutationFree /\ entries # 0
  /\ data.settings < MaxSettings
  /\ \E on \in BOOLEAN :
       data' = [exists |-> TRUE, settings |-> data.settings + 1, enabled |-> on]
  /\ Move(t, [Resting EXCEPT !.pc = "update", !.o = entries])
  /\ UNCHANGED <<disk, entries, obj, made, mode, crashes, past>>

(* initialize(), from update_settings() or by itself.                       *)
BeginInitialize(t) ==
  /\ caller[t].pc = "idle" /\ mode = "open" /\ entries # 0
  /\ Move(t, [Resting EXCEPT !.pc = "initialize", !.o = entries])
  /\ UNCHANGED <<disk, data, entries, obj, made, mode, crashes, past>>

Initialize(t) ==
  LET o == caller[t].o IN
  /\ caller[t].pc \in {"update", "initialize"} /\ EngineFree(o)
  /\ IF ~Current(o) THEN UNCHANGED <<obj, data>>
     ELSE /\ data' = Touched
          /\ \/ /\ CanReady(o)
                /\ obj' = [obj EXCEPT ![o] = Invalidate(Ready(o))]
             \/ obj' = [obj EXCEPT ![o] = Disabled(Invalidate(@))]
  /\ Return(t)
  /\ UNCHANGED <<disk, entries, made, mode, crashes, past>>
-----------------------------------------------------------------------------
(* call() and invoke_action(): the entry is looked up, then its engine is   *)
(* locked for the whole call.                                               *)
BeginUse(t) ==
  /\ caller[t].pc = "idle" /\ mode = "open" /\ entries # 0 /\ obj[entries].enabled
  /\ \E pc \in {"call", "download"} : Move(t, [Resting EXCEPT !.pc = pc, !.o = entries])
  /\ UNCHANGED <<disk, data, entries, obj, made, mode, crashes, past>>

Call(t) ==
  LET o == caller[t].o IN
  /\ caller[t].pc = "call" /\ EngineFree(o)
  /\ IF ~Current(o) \/ ~obj[o].enabled THEN Return(t) /\ UNCHANGED <<obj, data>>
     ELSE \/ /\ CanReady(o)
             /\ obj' = [obj EXCEPT ![o] = Ready(o)]
             /\ data' = Touched
             /\ Go(t, "calling")
          \/ /\ \E y \in NotReady(o) : obj' = [obj EXCEPT ![o] = Disabled(y)]
             /\ caller' = [Joined(obj[o], obj'[o]) EXCEPT ![t] = Resting]
             /\ data' \in {data, Touched}
  /\ UNCHANGED <<disk, entries, made, mode, crashes, past>>

(* The VM may be retired by the call: a timeout, or out of memory.          *)
CallEnds(t) ==
  /\ caller[t].pc = "calling"
  /\ \E open \in {obj[caller[t].o].vm.open, FALSE} :
       obj' = [obj EXCEPT ![caller[t].o].vm.open = open]
  /\ Return(t)
  /\ UNCHANGED <<disk, data, entries, made, mode, crashes, past>>

(* borrow_download(): the pool is matched with the settings, and an idle    *)
(* worker taken or a new one made, under the engine lock only.              *)
Borrow(t) ==
  LET o == caller[t].o
      x == Ready(o)
      y == IF x.match = data.settings THEN x
           ELSE [Invalidate(x) EXCEPT !.match = data.settings]
  IN
  /\ caller[t].pc = "download" /\ EngineFree(o)
  /\ IF ~Current(o) \/ ~obj[o].enabled THEN Return(t) /\ UNCHANGED <<obj, data>>
     ELSE \/ /\ CanReady(o)
             /\ obj' = [obj EXCEPT ![o] = [y EXCEPT !.idle = NoWorker]]
             /\ data' = Touched
             /\ Move(t, [caller[t] EXCEPT !.pc = "borrowing", !.gen = y.gen,
                  !.worker = IF y.idle.open THEN y.idle
                             ELSE [code |-> y.vm.code, settings |-> data.settings, open |-> TRUE]])
          \/ /\ \E z \in NotReady(o) : obj' = [obj EXCEPT ![o] = z]
             /\ caller' = [Joined(obj[o], obj'[o]) EXCEPT ![t] = Resting]
             /\ data' \in {data, Touched}
  /\ UNCHANGED <<disk, entries, made, mode, crashes, past>>

Borrowed(t) ==
  /\ caller[t].pc = "borrowing"
  /\ \/ /\ obj' = [obj EXCEPT ![caller[t].o].active = @ \cup {t}]
        /\ Go(t, "downloading")
     \/ Return(t) /\ UNCHANGED obj
  /\ UNCHANGED <<disk, data, entries, made, mode, crashes, past>>

(* Borrowed::drop: a healthy worker becomes the idle one if nothing has     *)
(* changed since; the settings are read only for an entry that is current.  *)
GiveBack(t) ==
  LET o == caller[t].o
      x == [obj[o] EXCEPT !.active = @ \ {t}]
  IN
  /\ caller[t].pc = "downloading"
  /\ \E healthy \in BOOLEAN :
       LET reusable == healthy /\ caller[t].worker.open /\ Current(o) /\ x.enabled
           kept == /\ reusable /\ x.gen = caller[t].gen /\ ~x.idle.open
                   /\ x.match = data.settings
       IN /\ data' = IF reusable THEN Touched ELSE data
          /\ obj' = [obj EXCEPT ![o] = [x EXCEPT !.idle = IF kept THEN caller[t].worker ELSE @]]
  /\ Return(t)
  /\ UNCHANGED <<disk, entries, made, mode, crashes, past>>

(* release_idle_download_runtimes(), under memory pressure.                 *)
ReleaseIdle ==
  /\ mode = "open" /\ entries # 0
  /\ obj' = [obj EXCEPT ![entries] = Invalidate(@)]
  /\ UNCHANGED <<disk, data, entries, made, caller, mode, crashes, past>>
-----------------------------------------------------------------------------
(* unload() and remove(): the entry is taken out and torn down ...          *)
Unpublish(t) ==
  /\ caller[t].pc = "idle" /\ mode = "open" /\ MutationFree /\ entries # 0
  /\ obj' = [obj EXCEPT ![entries] = Disabled(@)]
  /\ \E pc \in {"unload", "remove"} :
       /\ Move(t, [Resting EXCEPT !.pc = pc, !.o = entries])
       /\ past' = IF pc = "remove" THEN [past EXCEPT !.known = 0] ELSE past
  /\ entries' = 0
  /\ UNCHANGED <<disk, data, made, mode, crashes>>

TearDown(t) ==
  LET o == caller[t].o IN
  /\ caller[t].pc \in {"unload", "remove"} /\ EngineFree(o)
  /\ obj' = [obj EXCEPT ![o] = TornDown(@)]
  /\ caller' = [Joined(obj[o], obj'[o]) EXCEPT
       ![t] = IF caller[t].pc = "unload" THEN Resting ELSE [caller[t] EXCEPT !.pc = "eraseSource"]]
  /\ UNCHANGED <<disk, data, entries, made, mode, crashes, past>>

(* ... then the source and the data are deleted, each of which may fail.    *)
EraseSource(t) ==
  /\ caller[t].pc = "eraseSource"
  /\ \E ok \in BOOLEAN :
       /\ disk' = IF ok THEN [disk EXCEPT !.target = 0] ELSE disk
       /\ Move(t, [caller[t] EXCEPT !.pc = "eraseData", !.s = IF ok THEN 1 ELSE 0])
  /\ UNCHANGED <<data, entries, obj, made, mode, crashes, past>>

(* After a failure the entry is published again, disabled, for a retry.     *)
EraseData(t) ==
  /\ caller[t].pc = "eraseData"
  /\ \E ok \in {FALSE, mode = "open"} :
       /\ data' = IF ok THEN [exists |-> FALSE, settings |-> data.settings, enabled |-> FALSE]
                  ELSE data
       /\ entries' = IF ok /\ caller[t].s = 1 THEN 0 ELSE caller[t].o
       /\ past' = [past EXCEPT !.gone = ok /\ caller[t].s = 1]
  /\ Return(t)
  /\ UNCHANGED <<disk, obj, made, mode, crashes>>

(* load_all(): directories whose name is not the extension's are skipped.   *)
LoadAll(t) ==
  /\ caller[t].pc = "idle" /\ mode = "open" /\ MutationFree
  /\ entries = 0 /\ disk.target # 0 /\ made < MaxObjects
  /\ \E valid \in BOOLEAN :
       obj' = [obj EXCEPT ![made + 1] = Fresh(disk.target, valid /\ data.enabled)]
  /\ made' = made + 1 /\ entries' = made + 1
  /\ data' = Touched
  /\ past' = [known |-> disk.target, gone |-> FALSE]
  /\ UNCHANGED <<disk, caller, mode, crashes>>
-----------------------------------------------------------------------------
(* shutdown(): the flags, and every VM and worker through the environment;  *)
(* then, once no mutation is in progress, the entries.                      *)
Close ==
  /\ mode = "open"
  /\ mode' = "closing"
  /\ obj' = [o \in Objects |-> [obj[o] EXCEPT !.vm.open = FALSE, !.idle = NoWorker]]
  /\ caller' = [t \in Callers |-> [caller[t] EXCEPT !.worker = NoWorker]]
  /\ UNCHANGED <<disk, data, entries, made, crashes, past>>

Closed ==
  /\ mode = "closing" /\ MutationFree
  /\ mode' = "closed" /\ entries' = 0
  /\ UNCHANGED <<disk, data, obj, made, caller, crashes, past>>

(* The process ends, at any point, and is started again.                    *)
Crash ==
  /\ crashes < MaxCrashes
  /\ crashes' = crashes + 1
  /\ entries' = 0 /\ obj' = [o \in Objects |-> Fresh(0, FALSE)] /\ made' = crashes'
  /\ caller' = [t \in Callers |-> Resting]
  /\ mode' = "open"
  /\ disk' = [target |-> disk.target, stage |-> 0, backup |-> 0,
              left |-> disk.left \cup ({disk.stage, disk.backup} \ {0})]
  /\ UNCHANGED <<data, past>>

ManagerStep(t) ==
  \/ \E v \in Versions : Stage(t, v)
  \/ GiveUp(t) \/ Activate(t) \/ Publish(t)
  \/ Candidate(t) \/ Backup(t) \/ Swap(t) \/ Retire(t) \/ Replace(t)
  \/ \E on \in BOOLEAN : SetEnabled(t, on)
  \/ Enable(t) \/ Disable(t) \/ UpdateSettings(t) \/ BeginInitialize(t) \/ Initialize(t)
  \/ BeginUse(t) \/ Call(t) \/ CallEnds(t) \/ Borrow(t) \/ Borrowed(t) \/ GiveBack(t)
  \/ Unpublish(t) \/ TearDown(t) \/ EraseSource(t) \/ EraseData(t) \/ LoadAll(t)

ManagerNext ==
  (\E t \in Callers : ManagerStep(t)) \/ ReleaseIdle \/ Close \/ Closed \/ Crash
ManagerSpec == ManagerInit /\ [][ManagerNext]_mgrVars
-----------------------------------------------------------------------------
(* Outside a mutation, whatever runs for the published entry runs the code  *)
(* of its version: a VM or a worker that an old entry loads while an        *)
(* upgrade is exchanging the directories never survives the upgrade.        *)
RunsOwnVersion ==
  entries # 0 /\ MutationFree =>
    LET x == obj[entries] IN
    /\ {x.vm.code, x.idle.code} \subseteq {0, x.version}
    /\ \A t \in x.active : caller[t].worker.code \in {0, x.version}

(* A worker in the pool was initialised with the settings for which it will *)
(* be handed out again, however borrowers, new settings and memory pressure *)
(* follow each other.                                                       *)
PoolMatchesSettings ==
  \A o \in Objects : obj[o].idle.code # 0 => obj[o].idle.settings = obj[o].match

(* While remove() deletes the source and the data of an extension, nothing  *)
(* of it runs any more.                                                     *)
NothingRunsDuringErase ==
  (\E t \in Callers : caller[t].pc \in {"eraseSource", "eraseData"}) =>
    /\ \A o \in Objects : ~obj[o].vm.open /\ ~obj[o].idle.open
    /\ \A t \in Callers : ~caller[t].worker.open

(* An extension that was removed leaves no data behind, and a borrower that *)
(* returns its worker later does not bring the data directory back.         *)
RemovedLeavesNoData == past.gone => ~data.exists

(* Whenever an install, an upgrade or the process ends, the version that    *)
(* was published last or a newer one is still on disk, until it is removed. *)
CodeSurvives ==
  past.known # 0 => \E v \in disk.left \cup {disk.target, disk.stage, disk.backup} : v >= past.known

(* A removal is whole: nothing of the extension runs on meanwhile or brings  *)
(* its data back afterwards (remove, borrow_download).                      *)
RemovalWhole == NothingRunsDuringErase /\ RemovedLeavesNoData

(* What is installed is there whole, and what is removed is gone whole.      *)
PackagesWhole == CodeSurvives /\ RemovalWhole

(* What runs is the version that is installed with the settings that are     *)
(* stored, for the engine and for the worker that downloads leave behind     *)
(* (ready, upgrade_package, update_settings).                                 *)
EnginesCurrent == RunsOwnVersion /\ PoolMatchesSettings
=============================================================================
