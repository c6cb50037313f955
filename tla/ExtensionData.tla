---------------------------- MODULE ExtensionData ----------------------------
(***************************************************************************)
(* The stored data of one extension (extensions/src/storage.rs) and the     *)
(* lifecycle of the environment that hands it out (environment.rs): threads *)
(* open stores, read and change a file through them, load runtimes, remove  *)
(* the extension's data and shut the environment down; the process may end  *)
(* at any point.  The file is settings.enc with its legacy settings.json;   *)
(* its content is a number, and a number stands for its identity too.       *)
(***************************************************************************)
EXTENDS Naturals, FiniteSets

CONSTANTS
  DataThreads,
  MaxHandles,    \* bound on the ExtensionStore objects of one process, and on the removals
  MaxWrites,     \* bound on the writes of the file
  MaxDataCrashes

ASSUME DataAssumption == {MaxHandles, MaxWrites, MaxDataCrashes} \subseteq Nat

Handles == 1 .. MaxHandles

VARIABLES
  folder,     \* exists, legacy and enc (0: no file), epoch: how often it was removed,
              \* owner: the epoch of the handle that wrote enc
  snapshot,   \* FileCache: loaded, identity and value
  store,      \* State::stores: the current handle, 0 for none
  handle,     \* the handles: the epoch they were opened in, and closed
  opened,     \* how many there are
  user,       \* thread -> its place, its handle, and what it has read
  env,        \* "open", "closing", "joined" (runtimes stopped) or "closed"
  running,    \* threads whose runtime is registered and open
  writes, dataCrashes

dataVars == <<folder, snapshot, store, handle, opened, user, env, running,
              writes, dataCrashes>>

Away == [pc |-> "idle", h |-> 0, then |-> ""]
Empty == [loaded |-> FALSE, identity |-> 0, value |-> 0]

DataInit ==
  /\ folder = [exists |-> TRUE, legacy |-> 1, enc |-> 0, epoch |-> 0, owner |-> 0]
  /\ snapshot = Empty
  /\ store = 0 /\ opened = 0
  /\ handle = [h \in Handles |-> [epoch |-> 0, closed |-> FALSE]]
  /\ user = [t \in DataThreads |-> Away]
  /\ env = "open" /\ running = {} /\ writes = 0 /\ dataCrashes = 0

Accessing == {"read", "migrate", "tidy", "write"}   \* places inside access() and the file's lock
Pending == {t \in DataThreads : user[t].pc # "idle" /\ user[t].then # "vm"}
StateFree == \A t \in DataThreads : user[t].pc # "removing"   \* the environment's state lock
FileFree == \A t \in DataThreads : user[t].pc \notin Accessing
Step(t, u) == user' = [user EXCEPT ![t] = u]
At(t, pc) == Step(t, [user[t] EXCEPT !.pc = pc])
-----------------------------------------------------------------------------
(* enter(): every operation is counted until it returns.                    *)
Enter(t) ==
  /\ user[t].pc = "idle" /\ StateFree /\ env = "open"
  /\ \E then \in {"all", "set", "load", "removeData"} :
       Step(t, [Away EXCEPT !.pc = "entered", !.then = then])
  /\ UNCHANGED <<folder, snapshot, store, handle, opened, env, running, writes, dataCrashes>>

(* store(): the extension's store, opened on its first use.                 *)
Store(t) ==
  /\ user[t].pc = "entered" /\ user[t].then # "removeData" /\ StateFree
  /\ IF store # 0
     THEN /\ Step(t, [user[t] EXCEPT !.pc = "ready", !.h = store])
          /\ UNCHANGED <<folder, store, handle, opened>>
     ELSE /\ opened < MaxHandles
          /\ folder' = [folder EXCEPT !.exists = TRUE]
          /\ opened' = opened + 1 /\ store' = opened + 1
          /\ handle' = [handle EXCEPT ![opened + 1] = [epoch |-> folder.epoch, closed |-> FALSE]]
          /\ Step(t, [user[t] EXCEPT !.pc = "ready", !.h = opened + 1])
  /\ UNCHANGED <<snapshot, env, running, writes, dataCrashes>>

(* Mutation: a closed handle is let through. *)
AccessAlways(t) ==
  /\ user[t].pc = "ready" /\ FileFree
  /\ At(t, "read")
  /\ UNCHANGED <<folder, snapshot, store, handle, opened, env, running, writes, dataCrashes>>

(* access() and the file's lock; a closed handle fails.                     *)
Access(t) ==
  /\ user[t].pc = "ready" /\ FileFree
  /\ IF handle[user[t].h].closed THEN Step(t, Away) ELSE At(t, "read")
  /\ UNCHANGED <<folder, snapshot, store, handle, opened, env, running, writes, dataCrashes>>

(* What follows a refresh: set() writes, a read ends, load() goes on.       *)
AfterRefresh(t) ==
  CASE user[t].then \in {"set", "vm"} -> [user[t] EXCEPT !.pc = "write"]
    [] user[t].then = "load" -> [user[t] EXCEPT !.pc = "loading"]
    [] OTHER -> Away

(* refresh(): the snapshot is used while the file keeps its identity.  With *)
(* no file, a legacy one is migrated.  A read may fail.                     *)
Refresh(t) ==
  /\ user[t].pc = "read"
  /\ \/ /\ snapshot.loaded /\ folder.enc # 0 /\ snapshot.identity = folder.enc
        /\ Step(t, AfterRefresh(t)) /\ UNCHANGED snapshot
     \/ /\ ~snapshot.loaded \/ folder.enc = 0 \/ snapshot.identity # folder.enc
        /\ \/ /\ folder.enc # 0 \/ folder.legacy = 0
              /\ snapshot' = [loaded |-> TRUE, identity |-> folder.enc, value |-> folder.enc]
              /\ Step(t, AfterRefresh(t))
           \/ /\ folder.enc = 0 /\ folder.legacy # 0
              /\ At(t, "migrate") /\ UNCHANGED snapshot
           \/ Step(t, Away) /\ UNCHANGED snapshot
  /\ UNCHANGED <<folder, store, handle, opened, env, running, writes, dataCrashes>>

(* migrate_settings(): the new file is written, which may fail, and then    *)
(* the legacy one removed, which may fail too.                              *)
Migrate(t) ==
  /\ user[t].pc = "migrate"
  /\ \/ /\ folder.exists
        /\ folder' = [folder EXCEPT !.enc = folder.legacy, !.owner = handle[user[t].h].epoch]
        /\ At(t, "tidy")
     \/ Step(t, Away) /\ UNCHANGED folder
  /\ UNCHANGED <<snapshot, store, handle, opened, env, running, writes, dataCrashes>>

Tidy(t) ==
  /\ user[t].pc = "tidy"
  /\ \/ /\ folder' = [folder EXCEPT !.legacy = 0]
        /\ snapshot' = [loaded |-> TRUE, identity |-> folder.enc, value |-> folder.enc]
        /\ Step(t, AfterRefresh(t))
     \/ Step(t, Away) /\ UNCHANGED <<folder, snapshot>>
  /\ UNCHANGED <<store, handle, opened, env, running, writes, dataCrashes>>

(* mutate(): the file is replaced atomically, then the snapshot; without    *)
(* its directory, or on a full disk, the write fails.                       *)
Write(t) ==
  /\ user[t].pc = "write"
  /\ \/ /\ folder.exists /\ writes < MaxWrites
        /\ writes' = writes + 1
        /\ folder' = [folder EXCEPT !.enc = writes + 2, !.owner = handle[user[t].h].epoch]
        /\ snapshot' = [loaded |-> TRUE, identity |-> writes + 2, value |-> writes + 2]
     \/ UNCHANGED <<folder, snapshot, writes>>
  /\ \E next \in {Away, [Away EXCEPT !.pc = "holding", !.h = user[t].h, !.then = "vm"]} : Step(t, next)
  /\ UNCHANGED <<store, handle, opened, env, running, dataCrashes>>

(* A runtime that was given the store uses it again, outside enter().       *)
UseAgain(t) ==
  /\ user[t].pc = "holding"
  /\ Step(t, [user[t] EXCEPT !.pc = "ready", !.then = "vm"])
  /\ UNCHANGED <<folder, snapshot, store, handle, opened, env, running, writes, dataCrashes>>
-----------------------------------------------------------------------------

(* load_internal(): the VM is built, and registered unless the environment  *)
(* has closed meanwhile.                                                    *)
Loaded(t) ==
  /\ user[t].pc = "loading" /\ StateFree
  /\ running' \in {running, IF env = "open" THEN running \cup {t} ELSE running}
  /\ Step(t, Away)
  /\ UNCHANGED <<folder, snapshot, store, handle, opened, env, writes, dataCrashes>>

(* remove_data(): with the state lock, the store is taken out and closed,   *)
(* which waits for its users, and the directory is deleted.                 *)
RemoveData(t) ==
  /\ user[t].pc = "entered" /\ user[t].then = "removeData" /\ StateFree
  /\ Step(t, [user[t] EXCEPT !.pc = "removing", !.h = store])
  /\ store' = 0
  /\ UNCHANGED <<folder, snapshot, handle, opened, env, running, writes, dataCrashes>>

DeleteData(t) ==
  LET h == user[t].h IN
  /\ user[t].pc = "removing"
  /\ h # 0 => \A u \in DataThreads : user[u].h = h => user[u].pc \notin Accessing
  /\ handle' = IF h = 0 THEN handle ELSE [handle EXCEPT ![h].closed = TRUE]
  /\ \/ \E left \in BOOLEAN : folder.epoch < MaxHandles /\
          folder' = [exists |-> left, legacy |-> 0, enc |-> 0, epoch |-> folder.epoch + 1, owner |-> 0]
     \/ UNCHANGED folder
  /\ Step(t, Away)
  /\ UNCHANGED <<snapshot, store, opened, env, running, writes, dataCrashes>>

(* shutdown(): the flag, the registered runtimes, which are joined with     *)
(* what they do in their store, then the operations.                        *)
CloseEnvironment ==
  /\ env = "open"
  /\ env' = "closing"
  /\ UNCHANGED <<folder, snapshot, store, handle, opened, user, running, writes, dataCrashes>>

StopRuntimes ==
  /\ env = "closing" /\ StateFree
  /\ \A t \in DataThreads : user[t].then = "vm" => user[t].pc = "holding"
  /\ env' = "joined" /\ running' = {}
  /\ user' = [t \in DataThreads |-> IF user[t].then = "vm" THEN Away ELSE user[t]]
  /\ UNCHANGED <<folder, snapshot, store, handle, opened, writes, dataCrashes>>

EnvironmentClosed ==
  /\ env = "joined" /\ Pending = {} /\ StateFree
  /\ env' = "closed"
  /\ UNCHANGED <<folder, snapshot, store, handle, opened, user, running, writes, dataCrashes>>

DataCrash ==
  /\ dataCrashes < MaxDataCrashes
  /\ dataCrashes' = dataCrashes + 1
  /\ snapshot' = Empty /\ store' = 0 /\ opened' = 0
  /\ handle' = [h \in Handles |-> [epoch |-> 0, closed |-> FALSE]]
  /\ user' = [t \in DataThreads |-> Away]
  /\ env' = "open" /\ running' = {}
  /\ UNCHANGED <<folder, writes>>

DataNext ==
  \/ \E t \in DataThreads :
       \/ Enter(t) \/ Store(t) \/ Access(t) \/ Refresh(t) \/ Migrate(t) \/ Tidy(t)
       \/ Write(t) \/ UseAgain(t) \/ Loaded(t) \/ RemoveData(t) \/ DeleteData(t)
  \/ CloseEnvironment \/ StopRuntimes \/ EnvironmentClosed \/ DataCrash
DataSpec == DataInit /\ [][DataNext]_dataVars
-----------------------------------------------------------------------------
(* "Prevent stale handles from accessing a replacement installation at the  *)
(* same data path": what is in the directory was written through a handle   *)
(* that was opened after the directory was last removed.                    *)
NoStaleHandleWrites == folder.enc # 0 => folder.owner = folder.epoch

(* The settings that were there before the migration are in one of the two  *)
(* files until the data is removed, wherever a migration fails or stops,    *)
(* and a snapshot that would be used equals its file.                       *)
SettingsSurvive ==
  /\ folder.epoch = 0 => folder.legacy # 0 \/ folder.enc # 0
  /\ snapshot.loaded /\ snapshot.identity = folder.enc => snapshot.value = folder.enc

(* Once shutdown() has returned, no runtime that was loaded before, during  *)
(* or after it is still open.                                               *)
NothingOutlivesShutdown == env \in {"joined", "closed"} => running = {}

(* The stored data of an extension is neither lost to a failed migration     *)
(* nor brought back by a handle older than its removal (mutate,              *)
(* migrate_settings, remove_data).                                           *)
DataSafe == NoStaleHandleWrites /\ SettingsSurvive /\ NothingOutlivesShutdown
=============================================================================
