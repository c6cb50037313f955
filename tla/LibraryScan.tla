----------------------------- MODULE LibraryScan -----------------------------
(***************************************************************************)
(* Scans of the music library (backend/library.rs, backend/library/scan.rs) *)
(* while other programs change the files.  A scan that starts cancels the   *)
(* one before it, waits for its turn, collects the files with their times,  *)
(* leaves out what the app already has at that time, and has workers read   *)
(* the rest; audio that a cue sheet names belongs to the sheet.             *)
(*                                                                         *)
(* A file is its version; a version is also its time.  Version 0 is no      *)
(* file: reading a file that is gone gives an entry made from its name.     *)
(***************************************************************************)
EXTENDS Integers, FiniteSets

CONSTANTS Scans,         \* calls of a scan
          AudioFiles,    \* paths of audio
          Sheet,         \* path of a cue sheet, which names Backing
          Backing,       \* an audio path
          ScanWorkers,   \* worker threads of a scan
          MaxChanges     \* bound on the versions of all files

ASSUME ScanAssumption == Sheet \notin AudioFiles /\ Backing \in AudioFiles /\ MaxChanges \in Nat

ScanPaths == AudioFiles \cup {Sheet}
Absent == 0
NotRead == -1
NoEntry == [time |-> -1, content |-> -1]

VARIABLES disk,      \* path -> the version on the disk
          stamp,     \* the last version written
          entries,   \* path -> what the app has of the path
          newest,    \* the set with the scan that started last
          owner,     \* the set with the scan whose turn it is
          scan       \* scan -> its record
scanVars == <<disk, stamp, entries, newest, owner, scan>>

NoScan == [pc |-> "idle", cancelled |-> FALSE, existing |-> [p \in ScanPaths |-> -1],
           collected |-> [p \in ScanPaths |-> Absent], unseen |-> {}, queue |-> {}, owned |-> {}, backed |-> FALSE,
           reads |-> [w \in ScanWorkers |-> Sheet], got |-> [w \in ScanWorkers |-> NotRead], results |-> [p \in ScanPaths |-> NoEntry], errors |-> {}]
ScanInit ==
  /\ disk \in [ScanPaths -> 0 .. 1] /\ stamp = 1
  /\ entries = [p \in ScanPaths |-> NoEntry]
  /\ newest = {} /\ owner = {}
  /\ scan = [s \in Scans |-> NoScan]
Scanning(s, record) == scan' = [scan EXCEPT ![s] = record]

(* The app hands over the times it has.                                     *)
StartScan(s) ==
  /\ scan[s].pc = "idle"
  /\ newest' = {s}
  /\ scan' = [t \in Scans |->
       IF t = s THEN [NoScan EXCEPT !.pc = "turn", !.existing = [p \in ScanPaths |-> entries[p].time]]
       ELSE IF t \in newest THEN [scan[t] EXCEPT !.cancelled = TRUE] ELSE scan[t]]
  /\ UNCHANGED <<disk, stamp, entries, owner>>
CancelScan(s) ==
  /\ s \in newest /\ ~scan[s].cancelled
  /\ Scanning(s, [scan[s] EXCEPT !.cancelled = TRUE])
  /\ UNCHANGED <<disk, stamp, entries, newest, owner>>

(* A check that fails, at any step: the scan gives up its turn and has no    *)
(* result.  Its workers end with it.                                        *)
Busy(s) == scan[s].pc \in {"turn", "collect", "sheets", "read"}
FailScan(s) ==
  /\ Busy(s) /\ scan[s].cancelled
  /\ Scanning(s, [NoScan EXCEPT !.pc = "failed", !.cancelled = TRUE])
  /\ owner' = owner \ {s}
  /\ UNCHANGED <<disk, stamp, entries, newest>>

TakeTurn(s) ==
  /\ scan[s].pc = "turn" /\ ~scan[s].cancelled
  /\ owner = {}
  /\ owner' = {s}
  /\ Scanning(s, [scan[s] EXCEPT !.pc = "collect", !.unseen = ScanPaths])
  /\ UNCHANGED <<disk, stamp, entries, newest>>

(* The walk looks at one path after the other.                              *)
CollectFile(s) ==
  /\ scan[s].pc = "collect"
  /\ \E p \in scan[s].unseen :
       Scanning(s, [scan[s] EXCEPT !.unseen = @ \ {p}, !.collected[p] = disk[p],
                                   !.pc = IF scan[s].unseen = {p} THEN "sheets" ELSE @])
  /\ UNCHANGED <<disk, stamp, entries, newest, owner>>

(* Sheets are inspected whether they changed or not; a sheet whose audio     *)
(* is missing owns nothing.  What has the time the app knows is left out.    *)
Unchanged(s, p) == scan[s].existing[p] = scan[s].collected[p]
Backed(s) == scan[s].collected[Sheet] # Absent /\ disk[Sheet] # Absent /\ disk[Backing] # Absent
Owned(s) == IF Backed(s) THEN {Backing} ELSE {}
ReadSheets(s) ==
  /\ scan[s].pc = "sheets"
  /\ LET tasks == {p \in ScanPaths : scan[s].collected[p] # Absent /\ ~Unchanged(s, p)}
         sheet == tasks \cap {Sheet}
         fails == sheet # {} /\ ~Backed(s)
     IN Scanning(s, [scan[s] EXCEPT !.pc = "read", !.owned = Owned(s), !.backed = Backed(s), !.queue = tasks \ ({Sheet} \cup Owned(s)),
                       !.errors = IF fails THEN {Sheet} ELSE {},
                       !.results[Sheet] = IF sheet # {} /\ ~fails
                                          THEN [time |-> scan[s].collected[Sheet], content |-> disk[Sheet]] ELSE NoEntry])
  /\ UNCHANGED <<disk, stamp, entries, newest, owner>>

(* A worker takes the next path, reads the file, and sends the result.       *)
TakeTask(s, w) ==
  /\ scan[s].pc = "read" /\ scan[s].reads[w] = Sheet
  /\ \E p \in scan[s].queue :
       Scanning(s, [scan[s] EXCEPT !.queue = @ \ {p}, !.reads[w] = p])
  /\ UNCHANGED <<disk, stamp, entries, newest, owner>>
ReadFile(s, w) ==
  /\ scan[s].pc = "read" /\ scan[s].reads[w] # Sheet /\ scan[s].got[w] = NotRead
  /\ LET p == scan[s].reads[w] IN
     \/ Scanning(s, [scan[s] EXCEPT !.got[w] = disk[p]])
     \/ Scanning(s, [scan[s] EXCEPT !.reads[w] = Sheet, !.errors = @ \cup {p}])
  /\ UNCHANGED <<disk, stamp, entries, newest, owner>>
(* Mutation: the entry gets the time the file has when it has been read.     *)
EntryTimedLate(s, p, version) == [time |-> disk[p], content |-> version]
(* The entry of a file has the time it was collected with.                  *)
EntryOf(s, p, version) == [time |-> scan[s].collected[p], content |-> version]
SendResult(s, w) ==
  /\ scan[s].pc = "read" /\ scan[s].got[w] # NotRead
  /\ LET p == scan[s].reads[w] IN
     Scanning(s, [scan[s] EXCEPT !.reads[w] = Sheet, !.got[w] = NotRead, !.results[p] = EntryOf(s, p, scan[s].got[w])])
  /\ UNCHANGED <<disk, stamp, entries, newest, owner>>

(* All results are in.  What the app had and the walk did not find is gone;  *)
(* the app takes the results over.                                          *)
Deleted(s) == {p \in ScanPaths : scan[s].existing[p] # -1 /\ scan[s].collected[p] = Absent}
EndScan(s) ==
  /\ scan[s].pc = "read" /\ scan[s].queue = {} /\ \A w \in ScanWorkers : scan[s].reads[w] = Sheet
  /\ ~scan[s].cancelled
  /\ entries' = [p \in ScanPaths |-> IF p \in Deleted(s) THEN NoEntry
                                     ELSE IF scan[s].results[p] # NoEntry THEN scan[s].results[p] ELSE entries[p]]
  /\ owner' = {}
  /\ Scanning(s, [scan[s] EXCEPT !.pc = "done"])
  /\ UNCHANGED <<disk, stamp, newest>>

(* Other programs write, replace and remove files.                          *)
ChangeFile(p) ==
  /\ stamp < MaxChanges
  /\ stamp' = stamp + 1
  /\ disk' = [disk EXCEPT ![p] = stamp']
  /\ UNCHANGED <<entries, newest, owner, scan>>
RemoveFile(p) ==
  /\ disk[p] # Absent
  /\ disk' = [disk EXCEPT ![p] = Absent]
  /\ UNCHANGED <<stamp, entries, newest, owner, scan>>
ScanNext ==
  \/ \E s \in Scans : StartScan(s) \/ CancelScan(s) \/ FailScan(s) \/ TakeTurn(s) \/ CollectFile(s) \/ ReadSheets(s) \/ EndScan(s)
  \/ \E s \in Scans, w \in ScanWorkers : TakeTask(s, w) \/ ReadFile(s, w) \/ SendResult(s, w)
  \/ \E p \in ScanPaths : ChangeFile(p) \/ RemoveFile(p)
ScanSpec == ScanInit /\ [][ScanNext]_scanVars
----------------------------------------------------------------------------
(* An entry with the time of the file on the disk has its content too: a     *)
(* file that changes while a scan is under way, or between two of them, is   *)
(* not mistaken for one that is known (collect_library_files, scan_library,   *)
(* scan_audio_file).                                                         *)
EntriesCurrent == \A p \in ScanPaths : entries[p].time = disk[p] => entries[p].content = disk[p]

(* A scan that returns has dealt with every file it found, once: each is     *)
(* known already, has an entry or an error, or belongs to a cue sheet, whose  *)
(* audio gets no entry of its own.                                           *)
ScanComplete ==
  \A s \in Scans : scan[s].pc = "done" =>
    \A p \in ScanPaths : scan[s].collected[p] # Absent =>
      /\ \/ scan[s].existing[p] = scan[s].collected[p]
         \/ scan[s].results[p] # NoEntry
         \/ p \in scan[s].errors
         \/ p \in scan[s].owned
      /\ p = Backing /\ scan[s].backed => scan[s].results[p] = NoEntry

(* A scan returns an entry for every file it found, and an entry that looks  *)
(* current is current (scan_library_folder and its variants).              *)
ScanSound == EntriesCurrent /\ ScanComplete
=============================================================================
