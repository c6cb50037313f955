--------------------------- MODULE ExtensionFiles ---------------------------
(***************************************************************************)
(* Files extensions and native code write (extensions/src/files.rs,          *)
(* file_host.rs, file_transform.rs): grants, one lock per output path, files  *)
(* written in place and files staged beside their target and renamed over it. *)
(*                                                                         *)
(* A call <<t, 1>> is an operation of thread t, <<t, 2>> the operation that   *)
(* its progress callback makes while the first one holds its lock.  Locks    *)
(* live as long as somebody has a reference; `outputs' has weak ones.  A path *)
(* is in the user's directory ("out"), where the registry and what it grants  *)
(* decide, or in a download's own directory ("temp").  The sandbox of an      *)
(* extension is a directory like the first that is never taken away.          *)
(***************************************************************************)
EXTENDS Integers, FiniteSets

CONSTANTS FileThreads, NoThread,
          NestedOps,       \* operations that a progress callback makes
          MaxInodes,       \* bound on files that exist at a time
          MaxFileCalls     \* bound on operations

ASSUME FilesAssumption ==
  /\ IsFiniteSet(FileThreads) /\ NoThread \notin FileThreads
  /\ MaxInodes \in Nat \ {0} /\ MaxFileCalls \in Nat

Calls == FileThreads \X {1, 2}
Paths == {"out", "temp"}
Inodes == 1 .. MaxInodes
LockIds == 1 .. Cardinality(Calls)
InPlace == {"writeBytes", "copy"}
Staging == {"write", "transform"}

VARIABLES allowed,   \* the user's directory is granted
          outputs,   \* path -> lock, weakly: 0 or an identity
          owner,     \* lock -> thread
          files,     \* path -> inode or 0
          inodes,    \* inode -> "whole", or how it is written: "staged" or "inplace"
          call,      \* call -> its operation
          operations \* operations so far
filesVars == <<allowed, outputs, owner, files, inodes, call, operations>>

NoCall == [pc |-> "idle", op |-> "", path |-> "", source |-> "", lock |-> 0, fd |-> 0, stage |-> 0]
FilesInit ==
  /\ allowed = TRUE
  /\ outputs = [p \in Paths |-> 0]
  /\ owner = [l \in LockIds |-> NoThread]
  /\ files = [p \in Paths |-> IF p = "temp" THEN 1 ELSE 0]   \* what a provider has downloaded
  /\ inodes = [i \in Inodes |-> "whole"]
  /\ call = [c \in Calls |-> NoCall]
  /\ operations = 0

On(c, pc) == call[c].pc = pc
Becomes(c, record) == call' = [call EXCEPT ![c] = record]
(* An inode is free when no name and no descriptor leads to it; which free    *)
(* one a new file gets makes no difference.                                  *)
Used == {files[p] : p \in Paths} \cup {call[c].fd : c \in Calls} \cup {call[c].stage : c \in Calls}
Free == {i \in Inodes \ Used : \A j \in Inodes \ Used : i <= j}

(* The guard is dropped: the owner goes, then the reference.  A stage that is *)
(* not published is removed.                                                *)
Holds(c) == call[c].lock # 0 /\ call[c].pc \notin {"enter", "wait"}
Unlocked(c) == IF Holds(c) THEN [owner EXCEPT ![call[c].lock] = NoThread] ELSE owner
Leave(c) == Becomes(c, NoCall) /\ owner' = Unlocked(c)

(* resolve: a path of the granted directory, or of one that a running          *)
(* download has granted.                                                    *)
Granting == {c \in Calls : call[c].op = "publish_new"}
ResolvePath(path) == IF path = "out" THEN allowed ELSE Granting # {}
SetAllowedDirectories ==
  /\ allowed' = ~allowed
  /\ UNCHANGED <<outputs, owner, files, inodes, call, operations>>

Operation(op, path, source) == [NoCall EXCEPT !.pc = "enter", !.op = op, !.path = path, !.source = source]
(* An extension's operation, or one its callback makes.                     *)
StartCall(c) ==
  /\ On(c, "idle") /\ operations < MaxFileCalls
  /\ c[2] = 2 => On(<<c[1], 1>>, "callback")
  /\ \E op \in {"delete", "move"} \cup InPlace \cup Staging, path \in Paths, source \in Paths :
       /\ ResolvePath(path) /\ ResolvePath(source)
       /\ op \in {"delete", "write", "writeBytes"} => source = path
       /\ c[2] = 2 => op \in NestedOps
       /\ Becomes(c, Operation(op, path, source))
  /\ operations' = operations + 1
  /\ UNCHANGED <<allowed, outputs, owner, files, inodes>>
(* The end of a download, which must not replace what is in its place.       *)
StartPublication(c) ==
  /\ On(c, "idle") /\ c[2] = 1 /\ allowed /\ operations < MaxFileCalls
  /\ Granting = {} /\ files["temp"] # 0
  /\ Becomes(c, Operation("publish_new", "out", "temp"))
  /\ operations' = operations + 1
  /\ UNCHANGED <<allowed, outputs, owner, files, inodes>>

(* An entry without references is replaced, and all such entries go.         *)
Strong(l) == \E c \in Calls : call[c].lock = l
(* Mutation: an entry nobody owns yet is taken for a dead one.               *)
UpgradeOwned(l) == l # 0 /\ owner[l] # NoThread
Upgrade(l) == l # 0 /\ Strong(l)
EnterLock(c) ==
  /\ On(c, "enter")
  /\ LET old == outputs[call[c].path]
         lock == IF Upgrade(old) THEN old ELSE CHOOSE l \in LockIds : ~Strong(l)
     IN /\ outputs' = [p \in Paths |-> IF p = call[c].path THEN lock ELSE IF Upgrade(outputs[p]) THEN outputs[p] ELSE 0]
        /\ Becomes(c, [call[c] EXCEPT !.pc = "wait", !.lock = lock])
  /\ UNCHANGED <<allowed, owner, files, inodes, operations>>
TakeLock(c) ==
  /\ On(c, "wait") /\ owner[call[c].lock] = NoThread
  /\ owner' = [owner EXCEPT ![call[c].lock] = c[1]]
  /\ Becomes(c, [call[c] EXCEPT !.pc = "locked"])
  /\ UNCHANGED <<allowed, outputs, files, inodes, operations>>
(* The thread's own lock; every wait and every chunk also ends when the call  *)
(* is cancelled or out of time.                                             *)
GiveUp(c) ==
  /\ call[c].pc \in {"wait", "locked", "writing", "opened", "staged", "callback", "publish"}
  /\ c[2] = 1 => On(<<c[1], 2>>, "idle")
  /\ Leave(c)
  /\ UNCHANGED <<allowed, outputs, files, inodes, operations>>

Delete(c) ==
  /\ On(c, "locked") /\ call[c].op = "delete"
  /\ files' = [files EXCEPT ![call[c].path] = 0]
  /\ Leave(c)
  /\ UNCHANGED <<allowed, outputs, inodes, operations>>
Move(c) ==
  /\ On(c, "locked") /\ call[c].op = "move"
  /\ files[call[c].source] # 0
  /\ files' = IF call[c].source = call[c].path THEN files
              ELSE [files EXCEPT ![call[c].path] = files[call[c].source], ![call[c].source] = 0]
  /\ Leave(c)
  /\ UNCHANGED <<allowed, outputs, inodes, operations>>

(* A file is created or opened where it is, and written a chunk at a time.    *)
OpenInPlace(c) ==
  /\ On(c, "locked") /\ call[c].op \in InPlace /\ (call[c].op = "copy" => files[call[c].source] # 0)
  /\ \E i \in (IF files[call[c].path] # 0 THEN {files[call[c].path]} ELSE Free) :
       /\ files' = [files EXCEPT ![call[c].path] = i]
       /\ inodes' = [inodes EXCEPT ![i] = "inplace"]
       /\ Becomes(c, [call[c] EXCEPT !.pc = "writing", !.fd = i])
  /\ UNCHANGED <<allowed, outputs, owner, operations>>
FinishInPlace(c) ==
  /\ On(c, "writing")
  /\ inodes' = [inodes EXCEPT ![call[c].fd] = "whole"]
  /\ Leave(c)
  /\ UNCHANGED <<allowed, outputs, files, operations>>

(* stage: a new file with a random name.  A transform calls back after every  *)
(* piece it has written.                                                    *)
Stage(c) ==
  /\ On(c, "locked") /\ call[c].op \in Staging /\ (call[c].op = "transform" => files[call[c].source] # 0)
  /\ \E i \in Free :
       /\ inodes' = [inodes EXCEPT ![i] = "staged"]
       /\ Becomes(c, [call[c] EXCEPT !.pc = IF call[c].op = "transform" THEN "callback" ELSE "staged", !.stage = i])
  /\ UNCHANGED <<allowed, outputs, owner, files, operations>>
Callback(c) ==
  /\ On(c, "callback") /\ On(<<c[1], 2>>, "idle")
  /\ Becomes(c, [call[c] EXCEPT !.pc = "staged"])
  /\ UNCHANGED <<allowed, outputs, owner, files, inodes, operations>>
Fill(c) ==
  /\ On(c, "staged")
  /\ inodes' = [inodes EXCEPT ![call[c].stage] = "whole"]
  /\ Becomes(c, [call[c] EXCEPT !.pc = "publish"])
  /\ UNCHANGED <<allowed, outputs, owner, files, operations>>
Publish(c) ==
  /\ On(c, "publish") /\ call[c].op \in Staging
  /\ files' = [files EXCEPT ![call[c].path] = call[c].stage]
  /\ Leave(c)
  /\ UNCHANGED <<allowed, outputs, inodes, operations>>

(* A publication opens its source, links it, and looks whether the link is    *)
(* the file it has opened; if not, or if there is none, it copies.            *)
OpenSource(c) ==
  /\ On(c, "locked") /\ call[c].op = "publish_new"
  /\ files[call[c].path] = 0 /\ files[call[c].source] # 0
  /\ Becomes(c, [call[c] EXCEPT !.pc = "opened", !.fd = files[call[c].source]])
  /\ UNCHANGED <<allowed, outputs, owner, files, inodes, operations>>
Promotes(c) == files[call[c].source] = call[c].fd
StageFrom(c) ==
  /\ On(c, "opened")
  /\ IF Promotes(c)
     THEN Becomes(c, [call[c] EXCEPT !.pc = "publish", !.stage = files[call[c].source]]) /\ UNCHANGED inodes
     ELSE \E i \in Free :
            /\ inodes' = [inodes EXCEPT ![i] = "staged"]
            /\ Becomes(c, [call[c] EXCEPT !.pc = "staged", !.stage = i])
  /\ UNCHANGED <<allowed, outputs, owner, files, operations>>
PublishNew(c) ==
  /\ On(c, "publish") /\ call[c].op = "publish_new"
  /\ files' = IF files[call[c].path] = 0 THEN [files EXCEPT ![call[c].path] = call[c].stage] ELSE files
  /\ Leave(c)
  /\ UNCHANGED <<allowed, outputs, inodes, operations>>

FilesNext ==
  \/ SetAllowedDirectories
  \/ \E c \in Calls : \/ StartCall(c) \/ StartPublication(c) \/ EnterLock(c) \/ TakeLock(c) \/ GiveUp(c)
                      \/ Delete(c) \/ Move(c) \/ OpenInPlace(c) \/ FinishInPlace(c)
                      \/ Stage(c) \/ Callback(c) \/ Fill(c) \/ Publish(c)
                      \/ OpenSource(c) \/ StageFrom(c) \/ PublishNew(c)
FilesSpec == FilesInit /\ [][FilesNext]_filesVars
----------------------------------------------------------------------------
(* Whoever waits for a path or has it shares one lock with all the others,   *)
(* though the registry forgets locks and makes new ones (FileRegistry::lock). *)
OneLock ==
  \A c, d \in Calls : call[c].lock # 0 /\ call[d].lock # 0 /\ call[c].path = call[d].path
                      => /\ call[c].lock = call[d].lock /\ outputs[call[c].path] = call[c].lock
                         /\ Holds(c) /\ Holds(d) => c = d
(* What the registry publishes by renaming is whole: a file cut short was     *)
(* written in place.  A staged file has no other name, unless it is the very   *)
(* file that the publication opened, and a file that nobody writes in place    *)
(* any more is not changed under a reader (StagedFile::publish, stage_from).  *)
WholeOrInPlace ==
  /\ \A p \in Paths : files[p] # 0 => inodes[files[p]] # "staged"
  /\ \A c \in Calls, p \in Paths : call[c].stage # 0 /\ files[p] = call[c].stage
                                   => call[c].op = "publish_new" /\ call[c].stage = call[c].fd
(* The two together are what concurrent operations may rely on.              *)
OutputsSound == OneLock /\ WholeOrInPlace
=============================================================================
