---------------------------- MODULE LibraryProofs ----------------------------
EXTENDS LibraryScan, HealthService, CoverCache, ReEnrich, FiniteSetTheorems, SequenceTheorems, TLAPS

(***************************************************************************)
(* Scans.  A version is written once, so that an entry which is wrong about *)
(* its file cannot become right about its time again; and every file that a *)
(* scan collected is known, read, waiting, at work or given up.             *)
(***************************************************************************)

Entries == [time : Int, content : Int]
ScanRecords ==
  [pc : {"idle", "turn", "collect", "sheets", "read", "done", "failed"}, cancelled : BOOLEAN,
   existing : [ScanPaths -> Int], collected : [ScanPaths -> Nat], unseen : SUBSET ScanPaths,
   queue : SUBSET ScanPaths, owned : SUBSET ScanPaths, backed : BOOLEAN,
   reads : [ScanWorkers -> ScanPaths], got : [ScanWorkers -> Int],
   results : [ScanPaths -> Entries], errors : SUBSET ScanPaths]

(* What is said of p is true, or of a version that p no longer has.         *)
Honest(p, e) ==
  /\ e.time \in Int /\ e.time <= stamp /\ e.time # 0
  /\ e.time = disk[p] => e.content = disk[p]

(* Nothing is read before the sheets are known.                             *)
Untouched(r) ==
  /\ r.queue = {} /\ r.results = [p \in ScanPaths |-> NoEntry]
  /\ r.reads = [w \in ScanWorkers |-> Sheet] /\ r.got = [w \in ScanWorkers |-> NotRead]
ReadsSound(r) ==
  /\ \A p \in ScanPaths : r.collected[p] <= stamp /\ Honest(p, r.results[p])
  /\ \A w \in ScanWorkers :
       /\ r.got[w] # NotRead =>
            /\ r.reads[w] # Sheet
            /\ r.collected[r.reads[w]] = disk[r.reads[w]] => r.got[w] = disk[r.reads[w]]
       /\ r.reads[w] # Sheet => r.collected[r.reads[w]] # Absent
  /\ \A p \in r.queue : r.collected[p] # Absent /\ p # Sheet
Accounted(r) ==
  /\ \A p \in ScanPaths : r.collected[p] # Absent =>
       \/ r.existing[p] = r.collected[p] \/ r.results[p] # NoEntry
       \/ p \in r.errors \cup r.owned \cup r.queue
       \/ p # Sheet /\ \E w \in ScanWorkers : r.reads[w] = p
  /\ r.backed => /\ Backing \notin r.queue /\ r.results[Backing] = NoEntry
                 /\ \A w \in ScanWorkers : r.reads[w] # Backing
  /\ r.pc = "done" => r.queue = {} /\ \A w \in ScanWorkers : r.reads[w] = Sheet
RecordSound(r) ==
  /\ ReadsSound(r)
  /\ r.pc \notin {"read", "done"} => Untouched(r)
  /\ r.pc \in {"read", "done"} => Accounted(r)

ScanTyped ==
  /\ disk \in [ScanPaths -> Nat] /\ stamp \in Nat /\ \A p \in ScanPaths : disk[p] <= stamp
  /\ entries \in [ScanPaths -> Entries] /\ scan \in [Scans -> ScanRecords]
ScanIInv ==
  /\ ScanTyped
  /\ \A p \in ScanPaths : Honest(p, entries[p])
  /\ \A s \in Scans : RecordSound(scan[s])

LEMMA NoEntryFacts == NoEntry \in Entries /\ NoEntry.time = -1 /\ NoEntry.content = -1
BY DEF NoEntry, Entries
LEMMA SheetApart == Sheet \in ScanPaths /\ Backing \in ScanPaths /\ Backing # Sheet
BY ScanAssumption DEF ScanPaths

(* A scan that has not begun to read.                                       *)
LEMMA UntouchedSound ==
  ASSUME ScanTyped, NEW r \in ScanRecords, Untouched(r),
         \A p \in ScanPaths : r.collected[p] <= stamp, r.pc \notin {"read", "done"}
  PROVE  RecordSound(r)
<1>1. \A p \in ScanPaths : Honest(p, r.results[p])
  BY NoEntryFacts DEF Untouched, Honest, ScanTyped
<1>2. \A w \in ScanWorkers : r.got[w] = NotRead /\ r.reads[w] = Sheet BY DEF Untouched
<1> QED BY <1>1, <1>2 DEF RecordSound, ReadsSound, Untouched

LEMMA NoScanSound ==
  ASSUME ScanTyped, NEW r, r \in ScanRecords, r.pc \notin {"read", "done"},
         r.queue = NoScan.queue, r.results = NoScan.results, r.reads = NoScan.reads,
         r.got = NoScan.got, r.collected = NoScan.collected
  PROVE  RecordSound(r)
<1>1. Untouched(r) BY DEF Untouched, NoScan
<1>2. \A p \in ScanPaths : r.collected[p] <= stamp BY DEF NoScan, ScanTyped, Absent
<1> QED BY <1>1, <1>2, UntouchedSound

LEMMA NoScanTyped == NoScan \in ScanRecords
<1>1. -1 \in Int /\ Absent \in Nat /\ NotRead \in Int BY DEF Absent, NotRead
<1>2. [p \in ScanPaths |-> -1] \in [ScanPaths -> Int] /\ [p \in ScanPaths |-> Absent] \in [ScanPaths -> Nat]
  BY <1>1
<1>3. [w \in ScanWorkers |-> Sheet] \in [ScanWorkers -> ScanPaths] BY SheetApart
<1>4. [w \in ScanWorkers |-> NotRead] \in [ScanWorkers -> Int] BY <1>1
<1>5. [p \in ScanPaths |-> NoEntry] \in [ScanPaths -> Entries] BY NoEntryFacts
<1> QED BY <1>2, <1>3, <1>4, <1>5 DEF NoScan, ScanRecords

(* One scan goes on; files, entries and the other scans stay.               *)
LEMMA RecordStep ==
  ASSUME ScanIInv, NEW STATE s, s \in Scans, NEW STATE r, r \in ScanRecords, RecordSound(r),
         Scanning(s, r), UNCHANGED <<disk, stamp, entries>>
  PROVE  ScanIInv'
<1>1. scan' = [scan EXCEPT ![s] = r] BY DEF Scanning
<1>2. ScanTyped' BY <1>1 DEF ScanIInv, ScanTyped
<1>3. \A p \in ScanPaths : Honest(p, entries[p])' BY DEF ScanIInv, Honest
<1>4. ASSUME NEW q \in Scans PROVE RecordSound(scan[q])'
  <2>1. scan'[q] \in {r, scan[q]} /\ RecordSound(scan[q]) BY <1>1 DEF ScanIInv, ScanTyped
  <2>2. CASE scan'[q] = r
    BY <2>2 DEF RecordSound, ReadsSound, Honest, Untouched, Accounted
  <2>3. CASE scan'[q] = scan[q]
    BY <2>1, <2>3 DEF RecordSound, ReadsSound, Honest, Untouched, Accounted
  <2> QED BY <2>1, <2>2, <2>3
<1> QED BY <1>2, <1>3, <1>4 DEF ScanIInv

(* Other programs give a file no version that it had.                       *)
LEMMA DiskStep ==
  ASSUME ScanIInv, UNCHANGED <<entries, scan>>, disk' \in [ScanPaths -> Nat], stamp' \in Nat,
         stamp <= stamp', \A p \in ScanPaths : disk'[p] <= stamp',
         \A p \in ScanPaths : disk'[p] = disk[p] \/ disk'[p] = Absent \/ disk'[p] > stamp
  PROVE  ScanIInv'
<1>1. ScanTyped' BY DEF ScanIInv, ScanTyped
<1>2. disk \in [ScanPaths -> Nat] /\ stamp \in Nat BY DEF ScanIInv, ScanTyped
<1>3. \A p \in ScanPaths, e \in Entries : Honest(p, e) =>
        e.time <= stamp' /\ e.time # 0 /\ (e.time = disk'[p] => e.content = disk'[p])
  BY <1>2 DEF Honest, Entries, Absent
<1>4. \A p \in ScanPaths : Honest(p, entries[p])'
  BY <1>3 DEF ScanIInv, ScanTyped, Honest, Entries
<1>5. ASSUME NEW q \in Scans PROVE RecordSound(scan[q])'
  <2>1. scan'[q] = scan[q] /\ RecordSound(scan[q]) /\ scan[q] \in ScanRecords BY DEF ScanIInv, ScanTyped
  <2>2. \A p \in ScanPaths : scan[q].collected[p] \in Nat /\ scan[q].collected[p] <= stamp /\ Honest(p, scan[q].results[p])
    BY <2>1 DEF RecordSound, ReadsSound, ScanRecords
  <2>3. \A p \in ScanPaths : scan[q].collected[p] <= stamp' BY <1>2, <2>2
  <2>4. \A p \in ScanPaths : Honest(p, scan[q].results[p])'
    <3>1. \A p \in ScanPaths : scan[q].results[p] \in Entries BY <2>1 DEF ScanRecords
    <3> QED BY <1>3, <2>1, <2>2, <3>1 DEF Honest, Entries
  <2>5. ASSUME NEW w \in ScanWorkers, scan[q].got[w] # NotRead
        PROVE  /\ scan[q].reads[w] # Sheet
               /\ scan[q].collected[scan[q].reads[w]] = disk'[scan[q].reads[w]] => scan[q].got[w] = disk'[scan[q].reads[w]]
    <3>1. PICK p \in ScanPaths : p = scan[q].reads[w] BY <2>1 DEF ScanRecords
    <3>2. p # Sheet /\ scan[q].collected[p] # Absent /\ (scan[q].collected[p] = disk[p] => scan[q].got[w] = disk[p])
      BY <2>1, <2>5, <3>1 DEF RecordSound, ReadsSound
    <3> QED BY <1>2, <2>2, <3>1, <3>2
  <2>6. ReadsSound(scan[q])'
    BY <2>1, <2>3, <2>4, <2>5 DEF RecordSound, ReadsSound
  <2> QED BY <2>1, <2>6 DEF RecordSound, Untouched, Accounted
<1> QED BY <1>1, <1>4, <1>5 DEF ScanIInv

LEMMA ChangeFileIInv == ASSUME ScanIInv, NEW p \in ScanPaths, ChangeFile(p) PROVE ScanIInv'
<1>1. disk \in [ScanPaths -> Nat] /\ stamp \in Nat /\ \A q \in ScanPaths : disk[q] <= stamp
  BY DEF ScanIInv, ScanTyped
<1>2. stamp' = stamp + 1 /\ disk' = [disk EXCEPT ![p] = stamp + 1] BY DEF ChangeFile
<1> QED BY <1>1, <1>2, DiskStep DEF ChangeFile
LEMMA RemoveFileIInv == ASSUME ScanIInv, NEW p \in ScanPaths, RemoveFile(p) PROVE ScanIInv'
<1>1. disk \in [ScanPaths -> Nat] /\ stamp \in Nat /\ \A q \in ScanPaths : disk[q] <= stamp
  BY DEF ScanIInv, ScanTyped
<1>2. disk' = [disk EXCEPT ![p] = Absent] /\ stamp' = stamp /\ Absent = 0 BY DEF RemoveFile, Absent
<1> QED BY <1>1, <1>2, DiskStep DEF RemoveFile

LEMMA StartScanIInv == ASSUME ScanIInv, NEW s \in Scans, StartScan(s) PROVE ScanIInv'
<1> DEFINE fresh == [NoScan EXCEPT !.pc = "turn", !.existing = [p \in ScanPaths |-> entries[p].time]]
<1>1. [p \in ScanPaths |-> entries[p].time] \in [ScanPaths -> Int]
  BY DEF ScanIInv, ScanTyped, Entries
<1>2. fresh \in ScanRecords BY <1>1, NoScanTyped DEF ScanRecords
<1>3. /\ fresh.pc = "turn" /\ fresh.queue = NoScan.queue /\ fresh.results = NoScan.results
      /\ fresh.reads = NoScan.reads /\ fresh.got = NoScan.got /\ fresh.collected = NoScan.collected
  BY DEF NoScan
<1>4. UNCHANGED <<disk, stamp, entries>> BY DEF StartScan
<1>5. \A t \in Scans : \/ t = s /\ scan'[t] = fresh
                       \/ scan'[t] \in {scan[t], [scan[t] EXCEPT !.cancelled = TRUE]}
  BY DEF StartScan
<1>6. scan' \in [Scans -> ScanRecords]
  <2>1. \A t \in Scans : [scan[t] EXCEPT !.cancelled = TRUE] \in ScanRecords
    <3>1. \A r \in ScanRecords : [r EXCEPT !.cancelled = TRUE] \in ScanRecords BY DEF ScanRecords
    <3> QED BY <3>1 DEF ScanIInv, ScanTyped
  <2>2. \A t \in Scans : scan'[t] \in ScanRecords BY <1>2, <1>5, <2>1 DEF ScanIInv, ScanTyped
  <2>3. scan' = [t \in Scans |-> scan'[t]] BY DEF StartScan
  <2> QED BY <2>2, <2>3
<1>7. ScanTyped' BY <1>4, <1>6 DEF ScanIInv, ScanTyped
<1>8. \A p \in ScanPaths : Honest(p, entries[p])' BY <1>4 DEF ScanIInv, Honest
<1>9. RecordSound(fresh)
  <2>1. ScanTyped BY DEF ScanIInv
  <2>2. fresh.pc \notin {"read", "done"} BY <1>3
  <2> HIDE DEF fresh
  <2> QED BY <1>2, <1>3, <2>1, <2>2, NoScanSound
<1>10. ASSUME NEW t \in Scans PROVE RecordSound(scan[t])'
  <2>1. CASE scan'[t] = fresh
    <3> HIDE DEF fresh
    <3> QED BY <1>4, <1>9, <2>1 DEF RecordSound, ReadsSound, Honest, Untouched, Accounted
  <2>2. CASE scan'[t] \in {scan[t], [scan[t] EXCEPT !.cancelled = TRUE]}
    <3>1. scan[t] \in ScanRecords /\ RecordSound(scan[t]) BY DEF ScanIInv, ScanTyped
    <3>2. /\ scan'[t].pc = scan[t].pc /\ scan'[t].queue = scan[t].queue /\ scan'[t].results = scan[t].results
          /\ scan'[t].reads = scan[t].reads /\ scan'[t].got = scan[t].got
          /\ scan'[t].collected = scan[t].collected /\ scan'[t].existing = scan[t].existing
          /\ scan'[t].errors = scan[t].errors /\ scan'[t].owned = scan[t].owned
      BY <2>2, <3>1 DEF ScanRecords
    <3>3. scan'[t].backed <=> scan[t].backed BY <2>2, <3>1 DEF ScanRecords
    <3> QED BY <1>4, <3>1, <3>2, <3>3 DEF RecordSound, ReadsSound, Honest, Untouched, Accounted
  <2> QED BY <1>5, <2>1, <2>2
<1> HIDE DEF fresh
<1> QED BY <1>7, <1>8, <1>10 DEF ScanIInv

LEMMA CancelScanIInv == ASSUME ScanIInv, NEW s \in Scans, CancelScan(s) PROVE ScanIInv'
<1> DEFINE r == [scan[s] EXCEPT !.cancelled = TRUE]
<1>1. scan[s] \in ScanRecords /\ RecordSound(scan[s]) BY DEF ScanIInv, ScanTyped
<1>2. r \in ScanRecords BY <1>1 DEF ScanRecords
<1>3. /\ r.pc = scan[s].pc /\ r.queue = scan[s].queue /\ r.results = scan[s].results
      /\ r.reads = scan[s].reads /\ r.got = scan[s].got /\ r.collected = scan[s].collected
      /\ r.existing = scan[s].existing /\ r.errors = scan[s].errors /\ r.owned = scan[s].owned
  BY <1>1 DEF ScanRecords
<1>4. r.backed <=> scan[s].backed BY <1>1 DEF ScanRecords
<1>5. Scanning(s, r) /\ UNCHANGED <<disk, stamp, entries>> BY DEF CancelScan
<1> HIDE DEF r
<1>6. RecordSound(r) BY <1>1, <1>3, <1>4 DEF RecordSound, ReadsSound, Untouched, Accounted
<1> QED BY <1>2, <1>5, <1>6, RecordStep

LEMMA FailScanIInv == ASSUME ScanIInv, NEW s \in Scans, FailScan(s) PROVE ScanIInv'
<1> DEFINE r == [NoScan EXCEPT !.pc = "failed", !.cancelled = TRUE]
<1>1. r \in ScanRecords BY NoScanTyped DEF ScanRecords
<1>2. /\ r.pc = "failed" /\ r.queue = NoScan.queue /\ r.results = NoScan.results
      /\ r.reads = NoScan.reads /\ r.got = NoScan.got /\ r.collected = NoScan.collected
  BY DEF NoScan
<1>3. Scanning(s, r) /\ UNCHANGED <<disk, stamp, entries>> BY DEF FailScan
<1>4. ScanTyped BY DEF ScanIInv
<1> HIDE DEF r
<1>5. RecordSound(r) BY <1>1, <1>2, <1>4, NoScanSound
<1> QED BY <1>1, <1>3, <1>5, RecordStep

LEMMA TakeTurnIInv == ASSUME ScanIInv, NEW s \in Scans, TakeTurn(s) PROVE ScanIInv'
<1> DEFINE r == [scan[s] EXCEPT !.pc = "collect", !.unseen = ScanPaths]
<1>1. scan[s] \in ScanRecords /\ RecordSound(scan[s]) /\ scan[s].pc = "turn" BY DEF ScanIInv, ScanTyped, TakeTurn
<1>2. r \in ScanRecords BY <1>1 DEF ScanRecords
<1>3. /\ r.pc = "collect" /\ r.queue = scan[s].queue /\ r.results = scan[s].results
      /\ r.reads = scan[s].reads /\ r.got = scan[s].got /\ r.collected = scan[s].collected
  BY <1>1 DEF ScanRecords
<1>4. Scanning(s, r) /\ UNCHANGED <<disk, stamp, entries>> BY DEF TakeTurn
<1> HIDE DEF r
<1>5. RecordSound(r) BY <1>1, <1>3 DEF RecordSound, ReadsSound, Untouched
<1> QED BY <1>2, <1>4, <1>5, RecordStep

LEMMA CollectFileIInv == ASSUME ScanIInv, NEW s \in Scans, CollectFile(s) PROVE ScanIInv'
<1>1. scan[s] \in ScanRecords /\ RecordSound(scan[s]) /\ scan[s].pc = "collect" BY DEF ScanIInv, ScanTyped, CollectFile
<1>2. PICK p \in scan[s].unseen :
        Scanning(s, [scan[s] EXCEPT !.unseen = @ \ {p}, !.collected[p] = disk[p],
                                    !.pc = IF scan[s].unseen = {p} THEN "sheets" ELSE @])
  BY DEF CollectFile
<1> DEFINE r == [scan[s] EXCEPT !.unseen = @ \ {p}, !.collected[p] = disk[p],
                                !.pc = IF scan[s].unseen = {p} THEN "sheets" ELSE @]
<1>3. p \in ScanPaths /\ disk[p] \in Nat /\ disk[p] <= stamp BY <1>1 DEF ScanIInv, ScanTyped, ScanRecords
<1>4. r \in ScanRecords BY <1>1, <1>3 DEF ScanRecords
<1>5. /\ r.pc \in {"sheets", "collect"} /\ r.queue = scan[s].queue /\ r.results = scan[s].results
      /\ r.reads = scan[s].reads /\ r.got = scan[s].got
      /\ r.collected = [scan[s].collected EXCEPT ![p] = disk[p]]
  BY <1>1 DEF ScanRecords
<1>6. Scanning(s, r) /\ UNCHANGED <<disk, stamp, entries>> BY <1>2 DEF CollectFile
<1> HIDE DEF r
<1>7. \A q \in ScanPaths : r.collected[q] <= stamp
  BY <1>1, <1>3, <1>5 DEF RecordSound, ReadsSound, ScanRecords
<1>8. Untouched(r) BY <1>1, <1>5 DEF RecordSound, Untouched
<1>9. r.pc \notin {"read", "done"} BY <1>5
<1>10. RecordSound(r) BY <1>4, <1>7, <1>8, <1>9, UntouchedSound DEF ScanIInv
<1> QED BY <1>4, <1>6, <1>10, RecordStep

LEMMA ReadSheetsIInv == ASSUME ScanIInv, NEW s \in Scans, ReadSheets(s) PROVE ScanIInv'
<1> DEFINE tasks == {p \in ScanPaths : scan[s].collected[p] # Absent /\ ~Unchanged(s, p)}
           sheet == tasks \cap {Sheet}
           fails == sheet # {} /\ ~Backed(s)
           entry == IF sheet # {} /\ ~fails THEN [time |-> scan[s].collected[Sheet], content |-> disk[Sheet]] ELSE NoEntry
           r == [scan[s] EXCEPT !.pc = "read", !.owned = Owned(s), !.backed = Backed(s), !.queue = tasks \ ({Sheet} \cup Owned(s)),
                                !.errors = IF fails THEN {Sheet} ELSE {}, !.results[Sheet] = entry]
<1>1. scan[s] \in ScanRecords /\ RecordSound(scan[s]) /\ scan[s].pc = "sheets" BY DEF ScanIInv, ScanTyped, ReadSheets
<1>2. Scanning(s, r) /\ UNCHANGED <<disk, stamp, entries>> BY DEF ReadSheets
<1>3. disk \in [ScanPaths -> Nat] /\ scan[s].collected \in [ScanPaths -> Nat] /\ stamp \in Nat
  BY <1>1 DEF ScanIInv, ScanTyped, ScanRecords
<1>4. entry \in Entries
  <2>1. CASE entry = NoEntry BY <2>1, NoEntryFacts
  <2>2. CASE entry = [time |-> scan[s].collected[Sheet], content |-> disk[Sheet]]
    BY <2>2, <1>3, SheetApart DEF Entries
  <2> QED BY <2>1, <2>2
<1>5. tasks \subseteq ScanPaths /\ Owned(s) \in SUBSET ScanPaths /\ Backed(s) \in BOOLEAN
  BY SheetApart DEF Owned, Backed
<1>6. (IF fails THEN {Sheet} ELSE {}) \in SUBSET ScanPaths BY SheetApart
<1>7. r \in ScanRecords
  <2> HIDE DEF tasks, fails, entry
  <2> QED BY <1>1, <1>4, <1>5, <1>6, SheetApart, ZenonT(60) DEF ScanRecords
<1>8. /\ r.pc = "read" /\ r.owned = Owned(s) /\ r.queue = tasks \ ({Sheet} \cup Owned(s))
      /\ r.errors = (IF fails THEN {Sheet} ELSE {}) /\ r.results = [scan[s].results EXCEPT ![Sheet] = entry]
      /\ r.reads = scan[s].reads /\ r.got = scan[s].got
      /\ r.collected = scan[s].collected /\ r.existing = scan[s].existing
  <2> HIDE DEF tasks, fails, entry
  <2> QED BY <1>1 DEF ScanRecords
<1>9. r.backed <=> Backed(s)
  <2> HIDE DEF tasks, fails, entry
  <2> QED BY <1>1 DEF ScanRecords
<1>10. /\ \A p \in ScanPaths : scan[s].results[p] = NoEntry
       /\ \A w \in ScanWorkers : scan[s].reads[w] = Sheet /\ scan[s].got[w] = NotRead
  BY <1>1 DEF RecordSound, Untouched
<1>11. \A p \in ScanPaths : r.results[p] = (IF p = Sheet THEN entry ELSE NoEntry)
  <2> HIDE DEF entry
  <2>1. scan[s].results \in [ScanPaths -> Entries] BY <1>1 DEF ScanRecords
  <2> QED BY <1>8, <1>10, <2>1
<1>12. \A p \in ScanPaths : scan[s].collected[p] <= stamp BY <1>1 DEF RecordSound, ReadsSound
<1>13. \A p \in ScanPaths : Honest(p, r.results[p])
  <2>1. \A p \in ScanPaths : Honest(p, NoEntry) BY <1>3, NoEntryFacts DEF Honest
  <2>2. Honest(Sheet, entry)
    <3>1. CASE sheet # {} /\ ~fails
      <4>1. entry = [time |-> scan[s].collected[Sheet], content |-> disk[Sheet]] BY <3>1
      <4>2. scan[s].collected[Sheet] # 0 BY <3>1 DEF Absent
      <4> HIDE DEF entry
      <4> QED BY <1>3, <1>12, <4>1, <4>2, SheetApart DEF Honest
    <3>2. CASE ~(sheet # {} /\ ~fails) BY <2>1, <3>2, SheetApart
    <3> QED BY <3>1, <3>2
  <2> HIDE DEF entry, r
  <2> QED BY <1>11, <2>1, <2>2
<1>14. \A p \in r.queue : r.collected[p] # Absent /\ p # Sheet BY <1>8
<1>15. ASSUME NEW p \in ScanPaths, r.collected[p] # Absent
       PROVE  r.existing[p] = r.collected[p] \/ r.results[p] # NoEntry \/ p \in r.errors \cup r.owned \cup r.queue
  <2>1. CASE Unchanged(s, p) BY <1>8, <2>1 DEF Unchanged
  <2>2. CASE p \in tasks /\ p # Sheet BY <1>8, <2>2
  <2>3. CASE p \in tasks /\ p = Sheet
    <3>1. sheet # {} BY <2>3
    <3>2. CASE fails BY <1>8, <2>3, <3>2
    <3>3. CASE ~fails
      <4>1. entry.time # -1 BY <1>3, <3>1, <3>3, SheetApart
      <4>2. r.results[p] = entry BY <1>11, <2>3
      <4> HIDE DEF entry, r
      <4> QED BY <4>1, <4>2, NoEntryFacts
    <3> QED BY <3>2, <3>3
  <2> QED BY <1>8, <1>15, <2>1, <2>2, <2>3
<1>16. Backed(s) => Backing \notin r.queue /\ r.results[Backing] = NoEntry /\ \A w \in ScanWorkers : r.reads[w] # Backing
  <2>1. Backed(s) => Backing \notin r.queue BY <1>8 DEF Owned
  <2> HIDE DEF entry, r
  <2> QED BY <1>8, <1>10, <1>11, <2>1, SheetApart
<1> HIDE DEF r, tasks, sheet, fails, entry
<1>17. RecordSound(r)
  <2>1. ReadsSound(r) BY <1>8, <1>10, <1>12, <1>13, <1>14 DEF ReadsSound
  <2>2. Accounted(r) BY <1>8, <1>9, <1>15, <1>16 DEF Accounted
  <2> QED BY <1>8, <2>1, <2>2 DEF RecordSound
<1> QED BY <1>2, <1>7, <1>17, RecordStep

LEMMA TakeTaskIInv == ASSUME ScanIInv, NEW s \in Scans, NEW w \in ScanWorkers, TakeTask(s, w) PROVE ScanIInv'
<1>1. /\ scan[s] \in ScanRecords /\ RecordSound(scan[s]) /\ scan[s].pc = "read" /\ scan[s].reads[w] = Sheet
  BY DEF ScanIInv, ScanTyped, TakeTask
<1>2. PICK p \in scan[s].queue : Scanning(s, [scan[s] EXCEPT !.queue = @ \ {p}, !.reads[w] = p]) BY DEF TakeTask
<1> DEFINE r == [scan[s] EXCEPT !.queue = @ \ {p}, !.reads[w] = p]
<1>3. p \in ScanPaths /\ p # Sheet /\ scan[s].collected[p] # Absent
  BY <1>1 DEF ScanRecords, RecordSound, ReadsSound
<1>4. r \in ScanRecords BY <1>1, <1>3 DEF ScanRecords
<1>5. /\ r.pc = "read" /\ r.owned = scan[s].owned /\ r.queue = scan[s].queue \ {p}
      /\ r.errors = scan[s].errors /\ r.results = scan[s].results
      /\ r.reads = [scan[s].reads EXCEPT ![w] = p] /\ r.got = scan[s].got
      /\ r.collected = scan[s].collected /\ r.existing = scan[s].existing
  BY <1>1 DEF ScanRecords
<1>6. r.backed <=> scan[s].backed BY <1>1 DEF ScanRecords
<1>7. Scanning(s, r) /\ UNCHANGED <<disk, stamp, entries>> BY <1>2 DEF TakeTask
<1>8. scan[s].reads \in [ScanWorkers -> ScanPaths] /\ scan[s].got[w] = NotRead
  BY <1>1 DEF ScanRecords, RecordSound, ReadsSound
<1> HIDE DEF r
<1>9. ReadsSound(r) BY <1>1, <1>3, <1>5, <1>8 DEF RecordSound, ReadsSound
<1>10. Accounted(r)
  <2>1. Accounted(scan[s]) BY <1>1 DEF RecordSound
  <2>2. ASSUME NEW q \in ScanPaths, r.collected[q] # Absent
        PROVE \/ r.existing[q] = r.collected[q] \/ r.results[q] # NoEntry
              \/ q \in r.errors \cup r.owned \cup r.queue
              \/ q # Sheet /\ \E v \in ScanWorkers : r.reads[v] = q
    <3>1. CASE q = p BY <1>3, <1>5, <1>8, <3>1
    <3>2. CASE q # p
      <4>1. \A v \in ScanWorkers : scan[s].reads[v] = q /\ q # Sheet => r.reads[v] = q BY <1>1, <1>5, <1>8
      <4> QED BY <1>5, <2>1, <2>2, <3>2, <4>1 DEF Accounted
    <3> QED BY <3>1, <3>2
  <2>3. r.backed => /\ Backing \notin r.queue /\ r.results[Backing] = NoEntry
                    /\ \A v \in ScanWorkers : r.reads[v] # Backing
    BY <1>5, <1>6, <1>8, <2>1 DEF Accounted
  <2> QED BY <1>5, <2>2, <2>3 DEF Accounted
<1>11. RecordSound(r) BY <1>5, <1>9, <1>10 DEF RecordSound
<1> QED BY <1>4, <1>7, <1>11, RecordStep

LEMMA ReadFileIInv == ASSUME ScanIInv, NEW s \in Scans, NEW w \in ScanWorkers, ReadFile(s, w) PROVE ScanIInv'
<1>1. /\ scan[s] \in ScanRecords /\ RecordSound(scan[s]) /\ scan[s].pc = "read"
      /\ scan[s].reads[w] # Sheet /\ scan[s].got[w] = NotRead
  BY DEF ScanIInv, ScanTyped, ReadFile
<1>2. PICK p \in ScanPaths : p = scan[s].reads[w] BY <1>1 DEF ScanRecords
<1>3. UNCHANGED <<disk, stamp, entries>> BY DEF ReadFile
<1>4. scan[s].reads \in [ScanWorkers -> ScanPaths] /\ scan[s].got \in [ScanWorkers -> Int] /\ Accounted(scan[s])
      /\ disk[p] \in Nat
  BY <1>1 DEF ScanRecords, RecordSound, ScanIInv, ScanTyped
<1>5. CASE Scanning(s, [scan[s] EXCEPT !.got[w] = disk[p]])
  <2> DEFINE r == [scan[s] EXCEPT !.got[w] = disk[p]]
  <2>1. r \in ScanRecords BY <1>1, <1>4, SMTT(30) DEF ScanRecords
  <2>2. /\ r.pc = "read" /\ r.owned = scan[s].owned /\ r.queue = scan[s].queue
        /\ r.errors = scan[s].errors /\ r.results = scan[s].results
        /\ r.reads = scan[s].reads /\ r.got = [scan[s].got EXCEPT ![w] = disk[p]]
        /\ r.collected = scan[s].collected /\ r.existing = scan[s].existing
    BY <1>1 DEF ScanRecords
  <2>3. r.backed <=> scan[s].backed BY <1>1 DEF ScanRecords
  <2> HIDE DEF r
  <2>4. ReadsSound(r) BY <1>1, <1>2, <1>4, <2>2 DEF RecordSound, ReadsSound
  <2>5. Accounted(r) BY <1>4, <2>2, <2>3 DEF Accounted
  <2>6. RecordSound(r) BY <2>2, <2>4, <2>5 DEF RecordSound
  <2>7. Scanning(s, r) BY <1>5 DEF r
  <2> QED BY <1>3, <2>1, <2>6, <2>7, RecordStep
<1>6. CASE Scanning(s, [scan[s] EXCEPT !.reads[w] = Sheet, !.errors = @ \cup {p}])
  <2> DEFINE r == [scan[s] EXCEPT !.reads[w] = Sheet, !.errors = @ \cup {p}]
  <2>1. r \in ScanRecords BY <1>1, <1>4, SheetApart DEF ScanRecords
  <2>2. /\ r.pc = "read" /\ r.owned = scan[s].owned /\ r.queue = scan[s].queue
        /\ r.errors = scan[s].errors \cup {p} /\ r.results = scan[s].results
        /\ r.reads = [scan[s].reads EXCEPT ![w] = Sheet] /\ r.got = scan[s].got
        /\ r.collected = scan[s].collected /\ r.existing = scan[s].existing
    BY <1>1 DEF ScanRecords
  <2>3. r.backed <=> scan[s].backed BY <1>1 DEF ScanRecords
  <2> HIDE DEF r
  <2>4. ReadsSound(r) BY <1>1, <1>2, <1>4, <2>2 DEF RecordSound, ReadsSound
  <2>5. ASSUME NEW q \in ScanPaths, r.collected[q] # Absent
        PROVE \/ r.existing[q] = r.collected[q] \/ r.results[q] # NoEntry
              \/ q \in r.errors \cup r.owned \cup r.queue
              \/ q # Sheet /\ \E v \in ScanWorkers : r.reads[v] = q
    <3>1. CASE q = p BY <2>2, <3>1
    <3>2. CASE q # p
      <4>1. \A v \in ScanWorkers : scan[s].reads[v] = q => r.reads[v] = q BY <1>2, <1>4, <2>2, <3>2
      <4> QED BY <1>4, <2>2, <2>5, <4>1 DEF Accounted
    <3> QED BY <3>1, <3>2
  <2>6. r.backed => /\ Backing \notin r.queue /\ r.results[Backing] = NoEntry
                    /\ \A v \in ScanWorkers : r.reads[v] # Backing
    BY <1>4, <2>2, <2>3, SheetApart DEF Accounted
  <2>7. Accounted(r) BY <2>2, <2>5, <2>6 DEF Accounted
  <2>8. RecordSound(r) BY <2>2, <2>4, <2>7 DEF RecordSound
  <2>9. Scanning(s, r) BY <1>6 DEF r
  <2> QED BY <1>3, <2>1, <2>8, <2>9, RecordStep
<1> QED BY <1>2, <1>5, <1>6 DEF ReadFile

LEMMA SendResultIInv == ASSUME ScanIInv, NEW s \in Scans, NEW w \in ScanWorkers, SendResult(s, w) PROVE ScanIInv'
<1>1. /\ scan[s] \in ScanRecords /\ RecordSound(scan[s]) /\ scan[s].pc = "read" /\ scan[s].got[w] # NotRead
  BY DEF ScanIInv, ScanTyped, SendResult
<1>2. PICK p \in ScanPaths : p = scan[s].reads[w] BY <1>1 DEF ScanRecords
<1> DEFINE entry == [time |-> scan[s].collected[p], content |-> scan[s].got[w]]
           r == [scan[s] EXCEPT !.reads[w] = Sheet, !.got[w] = NotRead, !.results[p] = entry]
<1>3. Scanning(s, r) /\ UNCHANGED <<disk, stamp, entries>> BY <1>2 DEF SendResult, EntryOf
<1>4. /\ scan[s].reads \in [ScanWorkers -> ScanPaths] /\ scan[s].got \in [ScanWorkers -> Int]
      /\ scan[s].results \in [ScanPaths -> Entries] /\ scan[s].collected[p] \in Nat /\ Accounted(scan[s])
  BY <1>1 DEF ScanRecords, RecordSound
<1>5. /\ p # Sheet /\ scan[s].collected[p] # Absent /\ scan[s].collected[p] <= stamp
      /\ scan[s].collected[p] = disk[p] => scan[s].got[w] = disk[p]
  BY <1>1, <1>2 DEF RecordSound, ReadsSound
<1>6. entry \in Entries /\ Honest(p, entry) /\ entry # NoEntry
  <2>1. entry.time = scan[s].collected[p] /\ entry.content = scan[s].got[w] OBVIOUS
  <2>2. entry \in Entries BY <1>4 DEF Entries
  <2>3. Honest(p, entry) BY <1>4, <1>5 DEF Honest, Absent
  <2> QED BY <1>4, <2>1, <2>2, <2>3, NoEntryFacts
<1> HIDE DEF entry
<1>7. r \in ScanRecords
  <2>1. /\ [scan[s].reads EXCEPT ![w] = Sheet] \in [ScanWorkers -> ScanPaths]
        /\ [scan[s].got EXCEPT ![w] = NotRead] \in [ScanWorkers -> Int]
        /\ [scan[s].results EXCEPT ![p] = entry] \in [ScanPaths -> Entries]
    BY <1>4, <1>6, SheetApart DEF NotRead
  <2> QED BY <1>1, <2>1 DEF ScanRecords
<1>8. /\ r.pc = "read" /\ r.owned = scan[s].owned /\ r.queue = scan[s].queue
      /\ r.errors = scan[s].errors /\ r.results = [scan[s].results EXCEPT ![p] = entry]
      /\ r.reads = [scan[s].reads EXCEPT ![w] = Sheet] /\ r.got = [scan[s].got EXCEPT ![w] = NotRead]
      /\ r.collected = scan[s].collected /\ r.existing = scan[s].existing
  BY <1>1 DEF ScanRecords
<1>9. r.backed <=> scan[s].backed BY <1>1 DEF ScanRecords
<1> HIDE DEF r
<1>10. ReadsSound(r)
  <2>1. \A q \in ScanPaths : r.collected[q] <= stamp /\ Honest(q, r.results[q])
    BY <1>1, <1>4, <1>6, <1>8 DEF RecordSound, ReadsSound
  <2> QED BY <1>1, <1>4, <1>8, <2>1 DEF RecordSound, ReadsSound
<1>11. ASSUME NEW q \in ScanPaths, r.collected[q] # Absent
       PROVE \/ r.existing[q] = r.collected[q] \/ r.results[q] # NoEntry
             \/ q \in r.errors \cup r.owned \cup r.queue
             \/ q # Sheet /\ \E v \in ScanWorkers : r.reads[v] = q
  <2>1. CASE q = p BY <1>4, <1>6, <1>8, <2>1
  <2>2. CASE q # p
    <3>1. \A v \in ScanWorkers : scan[s].reads[v] = q => r.reads[v] = q BY <1>2, <1>4, <1>8, <2>2
    <3>2. r.results[q] = scan[s].results[q] BY <1>4, <1>8, <2>2
    <3> QED BY <1>4, <1>8, <1>11, <3>1, <3>2 DEF Accounted
  <2> QED BY <2>1, <2>2
<1>12. r.backed => /\ Backing \notin r.queue /\ r.results[Backing] = NoEntry
                   /\ \A v \in ScanWorkers : r.reads[v] # Backing
  <2>1. scan[s].backed => p # Backing BY <1>2, <1>4 DEF Accounted
  <2> QED BY <1>4, <1>8, <1>9, <2>1, SheetApart DEF Accounted
<1>13. Accounted(r) BY <1>8, <1>11, <1>12 DEF Accounted
<1>14. RecordSound(r) BY <1>8, <1>10, <1>13 DEF RecordSound
<1> QED BY <1>3, <1>7, <1>14, RecordStep

LEMMA EndScanIInv == ASSUME ScanIInv, NEW s \in Scans, EndScan(s) PROVE ScanIInv'
<1> DEFINE r == [scan[s] EXCEPT !.pc = "done"]
<1>1. /\ scan[s] \in ScanRecords /\ RecordSound(scan[s]) /\ scan[s].pc = "read" /\ scan[s].queue = {}
      /\ \A w \in ScanWorkers : scan[s].reads[w] = Sheet
  BY DEF ScanIInv, ScanTyped, EndScan
<1>2. r \in ScanRecords BY <1>1 DEF ScanRecords
<1>3. /\ r.pc = "done" /\ r.queue = scan[s].queue /\ r.results = scan[s].results
      /\ r.reads = scan[s].reads /\ r.got = scan[s].got /\ r.collected = scan[s].collected
      /\ r.existing = scan[s].existing /\ r.errors = scan[s].errors /\ r.owned = scan[s].owned
  BY <1>1 DEF ScanRecords
<1>4. r.backed <=> scan[s].backed BY <1>1 DEF ScanRecords
<1>5. UNCHANGED <<disk, stamp>> /\ scan' = [scan EXCEPT ![s] = r] BY DEF EndScan, Scanning
<1> HIDE DEF r
<1>6. RecordSound(r) BY <1>1, <1>3, <1>4 DEF RecordSound, ReadsSound, Accounted
<1>7. \A p \in ScanPaths : entries'[p] \in Entries /\ Honest(p, entries'[p])
  <2>1. \A p \in ScanPaths : /\ scan[s].results[p] \in Entries /\ Honest(p, scan[s].results[p])
                             /\ entries[p] \in Entries /\ Honest(p, entries[p])
    BY <1>1 DEF ScanIInv, ScanTyped, ScanRecords, RecordSound, ReadsSound
  <2>2. \A p \in ScanPaths : Honest(p, NoEntry) BY NoEntryFacts DEF Honest, ScanIInv, ScanTyped
  <2>3. \A p \in ScanPaths : entries'[p] \in {NoEntry, scan[s].results[p], entries[p]} BY DEF EndScan
  <2> QED BY <2>1, <2>2, <2>3, NoEntryFacts
<1>8. ScanTyped'
  <2>1. entries' \in [ScanPaths -> Entries]
    <3>1. entries' = [p \in ScanPaths |-> entries'[p]] BY DEF EndScan
    <3> QED BY <1>7, <3>1
  <2> QED BY <1>2, <1>5, <2>1 DEF ScanIInv, ScanTyped
<1>9. \A p \in ScanPaths : Honest(p, entries[p])' BY <1>5, <1>7 DEF Honest
<1>10. ASSUME NEW q \in Scans PROVE RecordSound(scan[q])'
  <2>1. scan'[q] \in {r, scan[q]} /\ RecordSound(scan[q]) BY <1>5 DEF ScanIInv, ScanTyped
  <2>2. CASE scan'[q] = r
    BY <1>5, <1>6, <2>2 DEF RecordSound, ReadsSound, Honest, Untouched, Accounted
  <2>3. CASE scan'[q] = scan[q]
    BY <1>5, <2>1, <2>3 DEF RecordSound, ReadsSound, Honest, Untouched, Accounted
  <2> QED BY <2>1, <2>2, <2>3
<1> QED BY <1>8, <1>9, <1>10 DEF ScanIInv

LEMMA ScanInitIInv == ScanInit => ScanIInv
<1> SUFFICES ASSUME ScanInit PROVE ScanIInv OBVIOUS
<1>1. disk \in [ScanPaths -> 0 .. 1] /\ stamp = 1 BY DEF ScanInit
<1>2. entries = [p \in ScanPaths |-> NoEntry] /\ scan = [s \in Scans |-> NoScan] BY DEF ScanInit
<1>3. ScanTyped BY <1>1, <1>2, NoEntryFacts, NoScanTyped DEF ScanTyped
<1>4. \A p \in ScanPaths : Honest(p, entries[p]) BY <1>1, <1>2, NoEntryFacts DEF Honest
<1>5. RecordSound(NoScan)
  <2>1. NoScan.pc = "idle" BY DEF NoScan
  <2>2. NoScan.pc \notin {"read", "done"} BY <2>1
  <2> QED BY <1>3, <2>2, NoScanTyped, NoScanSound
<1> QED BY <1>2, <1>3, <1>4, <1>5 DEF ScanIInv

LEMMA ScanNextIInv == ScanIInv /\ [ScanNext]_scanVars => ScanIInv'
<1> SUFFICES ASSUME ScanIInv, [ScanNext]_scanVars PROVE ScanIInv' OBVIOUS
<1>1. CASE UNCHANGED scanVars
  BY <1>1 DEF scanVars, ScanIInv, ScanTyped, RecordSound, ReadsSound, Honest, Untouched, Accounted
<1>2. ASSUME NEW s \in Scans,
             StartScan(s) \/ CancelScan(s) \/ FailScan(s) \/ TakeTurn(s) \/ CollectFile(s) \/ ReadSheets(s) \/ EndScan(s)
      PROVE  ScanIInv'
  BY <1>2, StartScanIInv, CancelScanIInv, FailScanIInv, TakeTurnIInv, CollectFileIInv, ReadSheetsIInv, EndScanIInv
<1>3. ASSUME NEW s \in Scans, NEW w \in ScanWorkers, TakeTask(s, w) \/ ReadFile(s, w) \/ SendResult(s, w)
      PROVE  ScanIInv'
  BY <1>3, TakeTaskIInv, ReadFileIInv, SendResultIInv
<1>4. ASSUME NEW p \in ScanPaths, ChangeFile(p) \/ RemoveFile(p) PROVE ScanIInv'
  BY <1>4, ChangeFileIInv, RemoveFileIInv
<1> QED BY <1>1, <1>2, <1>3, <1>4 DEF ScanNext

(* A scan that returns has dealt with every file it found, and an entry     *)
(* with the time of its file has its content (scan_library_folder,          *)
(* scan_library, scan_audio_file): Honest says it of the results under way   *)
(* and of the versions that are gone, Accounted of the files still waiting. *)
THEOREM ScansAreSound == ScanSpec => []ScanSound
<1>1. ScanIInv => ScanSound
  <2> SUFFICES ASSUME ScanIInv PROVE ScanSound OBVIOUS
  <2>1. EntriesCurrent BY DEF ScanIInv, Honest, EntriesCurrent
  <2>2. ASSUME NEW s \in Scans, scan[s].pc = "done", NEW p \in ScanPaths, scan[s].collected[p] # Absent
        PROVE  /\ \/ scan[s].existing[p] = scan[s].collected[p]
                  \/ scan[s].results[p] # NoEntry
                  \/ p \in scan[s].errors
                  \/ p \in scan[s].owned
               /\ p = Backing /\ scan[s].backed => scan[s].results[p] = NoEntry
    <3>1. Accounted(scan[s]) BY <2>2 DEF ScanIInv, RecordSound
    <3> QED BY <2>2, <3>1 DEF Accounted
  <2>3. ScanComplete BY <2>2 DEF ScanComplete
  <2> QED BY <2>1, <2>3 DEF ScanSound
<1> QED BY <1>1, ScanInitIInv, ScanNextIInv, PTL DEF ScanSpec

(***************************************************************************)
(* Induction.  A set that has 0 and with a number the next one has them all; *)
(* so a function defined along the numbers up to m exists.                   *)
(***************************************************************************)
LEMMA LeastNat ==
  ASSUME NEW T, T \subseteq Nat, T # {}
  PROVE  \E m \in T : \A k \in T : m <= k
<1>1. PICK m \in T : \A y \in T : ~(<<y, m>> \in OpToRel(<, Nat)) BY NatLessThanWellFounded, WFMin
<1>2. \A y \in T : ~(y < m) BY <1>1 DEF OpToRel
<1> QED BY <1>2

LEMMA SetInduction ==
  ASSUME NEW T, 0 \in T, \A n \in Nat : n \in T => n + 1 \in T
  PROVE  Nat \subseteq T
<1> SUFFICES ASSUME NEW x \in Nat, x \notin T PROVE FALSE OBVIOUS
<1>1. PICK m \in Nat \ T : \A k \in Nat \ T : m <= k BY LeastNat
<1>2. m # 0 /\ m - 1 \in Nat BY <1>1
<1>3. m - 1 \in T BY <1>1, <1>2
<1>4. (m - 1) + 1 \in T BY <1>2, <1>3
<1> QED BY <1>1, <1>4

Along(m, base, step, f) == f[0] = base /\ \A i \in 1 .. m : f[i] = step[<<f[i - 1], i>>]
LEMMA RecursionExists ==
  ASSUME NEW m \in Nat, NEW V, NEW base \in V, NEW step \in [V \X (1 .. m) -> V]
  PROVE  \E f \in [0 .. m -> V] : Along(m, base, step, f)
<1> USE DEF Along
<1> DEFINE Good(n, f) == Along(n, base, step, f)
           T == {n \in Nat : n <= m => \E f \in [0 .. n -> V] : Good(n, f)}
<1>1. 0 \in T
  <2>1. [i \in 0 .. 0 |-> base] \in [0 .. 0 -> V] /\ Good(0, [i \in 0 .. 0 |-> base]) OBVIOUS
  <2> QED BY <2>1
<1>2. ASSUME NEW n \in Nat, n \in T PROVE n + 1 \in T
  <2> SUFFICES ASSUME n + 1 <= m PROVE \E f \in [0 .. n + 1 -> V] : Good(n + 1, f) OBVIOUS
  <2>1. PICK f \in [0 .. n -> V] : Good(n, f) BY <1>2
  <2> DEFINE g == [i \in 0 .. n + 1 |-> IF i = n + 1 THEN step[<<f[n], n + 1>>] ELSE f[i]]
  <2>2. step[<<f[n], n + 1>>] \in V OBVIOUS
  <2>3. g \in [0 .. n + 1 -> V] BY <2>2
  <2>4. g[0] = base BY <2>1
  <2>5. ASSUME NEW i \in 1 .. n + 1 PROVE g[i] = step[<<g[i - 1], i>>]
    <3>1. CASE i = n + 1
      <4>1. i - 1 = n /\ n \in 0 .. n + 1 /\ n # n + 1 BY <3>1
      <4>2. g[n] = f[n] BY <4>1
      <4> QED BY <3>1, <4>1, <4>2
    <3>2. CASE i \in 1 .. n
      <4>1. i # n + 1 /\ i - 1 # n + 1 /\ i - 1 \in 0 .. n + 1 BY <3>2
      <4>2. g[i] = f[i] /\ g[i - 1] = f[i - 1] BY <4>1
      <4> QED BY <2>1, <3>2, <4>2
    <3> QED BY <3>1, <3>2
  <2> QED BY <2>3, <2>4, <2>5
<1>3. m \in T BY <1>1, <1>2, SetInduction
<1> QED BY <1>3

LEMMA CombinedDecides ==
  ASSUME NEW r \in Statuses, NEW c, c.status \in Statuses, c.required \in BOOLEAN
  PROVE  /\ Combined(r, c) \in Statuses
         /\ Combined(r, c) = "offline" <=> r = "offline" \/ (c.required /\ c.status = "offline")
BY DEF Combined, Statuses

(* The status of a list of checks is offline when a required one is.        *)
LEMMA StatusDecides ==
  ASSUME NEW checks \in Seq(HealthChecks)
  PROVE  /\ StatusOf(checks) \in Statuses
         /\ StatusOf(checks) = "offline" <=>
              \E i \in DOMAIN checks : checks[i].required /\ checks[i].status = "offline"
<1> DEFINE m == Len(checks)
           F(g) == [i \in 0 .. m |-> IF i = 0 THEN "online" ELSE Combined(g[i - 1], checks[i])]
           result == CHOOSE g : g = F(g)
           step == [x \in Statuses \X (1 .. m) |-> Combined(x[1], checks[x[2]])]
<1>1. m \in Nat /\ \A i \in 1 .. m : checks[i] \in HealthChecks
  BY ElementOfSeq, LenProperties
<1>2. \A r \in Statuses, c \in HealthChecks :
        /\ Combined(r, c) \in Statuses
        /\ Combined(r, c) = "offline" <=> r = "offline" \/ (c.required /\ c.status = "offline")
  <2>1. \A c \in HealthChecks : c.status \in Statuses /\ c.required \in BOOLEAN BY DEF HealthChecks
  <2> QED BY <2>1, CombinedDecides
<1>3. "online" \in Statuses BY DEF Statuses
<1>4. result = F(result)
  <2>1. step \in [Statuses \X (1 .. m) -> Statuses] BY <1>1, <1>2
  <2>2. PICK f \in [0 .. m -> Statuses] : Along(m, "online", step, f)
    <3>1. m \in Nat BY <1>1
    <3> HIDE DEF m, step, F, result
    <3> QED BY <3>1, <1>3, <2>1, RecursionExists
  <2>3. \A i \in 1 .. m : f[i] = Combined(f[i - 1], checks[i])
    <3>1. \A i \in 1 .. m : f[i - 1] \in Statuses BY <1>1, <2>2
    <3> QED BY <2>2, <3>1 DEF Along
  <2>4. \A i \in 0 .. m : f[i] = (IF i = 0 THEN "online" ELSE Combined(f[i - 1], checks[i]))
    <3>1. \A i \in 0 .. m : i # 0 => i \in 1 .. m BY <1>1
    <3> HIDE DEF m
    <3> QED BY <2>2, <2>3, <3>1 DEF Along
  <2>5. f = F(f)
    <3> HIDE DEF m
    <3> QED BY <2>2, <2>4
  <2> HIDE DEF F
  <2> QED BY <2>5
<1>5. StatusOf(checks) = result[m] BY DEF StatusOf
<1> HIDE DEF result
<1>6. result[0] = "online" /\ \A i \in 1 .. m : result[i] = Combined(result[i - 1], checks[i])
  <2>1. \A i \in 0 .. m : result[i] = (IF i = 0 THEN "online" ELSE Combined(result[i - 1], checks[i]))
    BY <1>4 DEF F
  <2> HIDE DEF m
  <2>2. 0 \in 0 .. m /\ \A i \in 1 .. m : i \in 0 .. m /\ i # 0 BY <1>1
  <2> QED BY <2>1, <2>2
<1> DEFINE T == {n \in Nat : n <= m => /\ result[n] \in Statuses
                                       /\ result[n] = "offline" <=>
                                            \E i \in 1 .. n : checks[i].required /\ checks[i].status = "offline"}
<1> HIDE DEF m, F, step
<1>7. 0 \in T BY <1>1, <1>3, <1>6
<1>8. ASSUME NEW n \in Nat, n \in T PROVE n + 1 \in T
  <2> SUFFICES ASSUME n + 1 <= m
               PROVE  /\ result[n + 1] \in Statuses
                      /\ result[n + 1] = "offline" <=>
                           \E i \in 1 .. n + 1 : checks[i].required /\ checks[i].status = "offline"
    OBVIOUS
  <2>1. /\ result[n] \in Statuses
        /\ result[n] = "offline" <=> \E i \in 1 .. n : checks[i].required /\ checks[i].status = "offline"
    BY <1>1, <1>8
  <2>2. n + 1 \in 1 .. m /\ (n + 1) - 1 = n BY <1>1
  <2>3. result[n + 1] = Combined(result[n], checks[n + 1]) BY <1>6, <2>2
  <2>4. checks[n + 1] \in HealthChecks BY <1>1, <2>2
  <2>5. /\ result[n + 1] \in Statuses
        /\ result[n + 1] = "offline" <=> result[n] = "offline" \/ (checks[n + 1].required /\ checks[n + 1].status = "offline")
    BY <1>2, <2>1, <2>3, <2>4
  <2>6. 1 .. n + 1 = (1 .. n) \cup {n + 1} OBVIOUS
  <2> QED BY <2>1, <2>5, <2>6
<1>9. m \in T BY <1>1, <1>7, <1>8, SetInduction
<1>10. DOMAIN checks = 1 .. m BY LenProperties DEF m
<1> QED BY <1>1, <1>5, <1>9, <1>10

(* Only(s, S) is what s has of S, in the order of s.                        *)
LEMMA OnlyFacts ==
  ASSUME NEW X, NEW s \in Seq(X), NEW S
  PROVE  /\ Only(s, S) \in Seq(X)
         /\ Range(Only(s, S)) = Range(s) \cap S
         /\ IsInjective(s) => IsInjective(Only(s, S))
<1> DEFINE m == Len(s)
           F(g) == [i \in 0 .. m |-> IF i = 0 THEN <<>> ELSE IF s[i] \in S THEN Append(g[i - 1], s[i]) ELSE g[i - 1]]
           kept == CHOOSE g : g = F(g)
           Next1(k, i) == IF s[i] \in S THEN Append(k, s[i]) ELSE k
           step == [x \in Seq(X) \X (1 .. m) |-> Next1(x[1], x[2])]
<1>1. m \in Nat /\ DOMAIN s = 1 .. m /\ \A i \in 1 .. m : s[i] \in X BY ElementOfSeq, LenProperties
<1>2. <<>> \in Seq(X) BY EmptySeq
<1>3. kept = F(kept)
  <2>1. step \in [Seq(X) \X (1 .. m) -> Seq(X)]
    <3>1. \A k \in Seq(X), i \in 1 .. m : Next1(k, i) \in Seq(X) BY <1>1, AppendProperties
    <3> HIDE DEF Next1, m
    <3> QED BY <3>1
  <2>2. PICK f \in [0 .. m -> Seq(X)] : Along(m, <<>>, step, f)
    <3>1. m \in Nat BY <1>1
    <3> HIDE DEF m, step, F, kept
    <3> QED BY <3>1, <1>2, <2>1, RecursionExists
  <2>3. \A i \in 1 .. m : f[i] = Next1(f[i - 1], i)
    <3>1. \A i \in 1 .. m : f[i - 1] \in Seq(X) BY <1>1, <2>2
    <3> HIDE DEF Next1, m
    <3> QED BY <2>2, <3>1 DEF Along
  <2>4. \A i \in 0 .. m : f[i] = (IF i = 0 THEN <<>> ELSE Next1(f[i - 1], i))
    <3>1. \A i \in 0 .. m : i # 0 => i \in 1 .. m BY <1>1
    <3> HIDE DEF m, Next1
    <3> QED BY <2>2, <2>3, <3>1 DEF Along
  <2>5. f = F(f)
    <3> HIDE DEF m
    <3> QED BY <2>2, <2>4
  <2> HIDE DEF F
  <2> QED BY <2>5
<1>4. Only(s, S) = kept[m] BY DEF Only
<1> HIDE DEF kept
<1>5. kept[0] = <<>> /\ \A i \in 1 .. m : kept[i] = Next1(kept[i - 1], i)
  <2>1. \A i \in 0 .. m : kept[i] = (IF i = 0 THEN <<>> ELSE Next1(kept[i - 1], i))
    BY <1>3 DEF F
  <2> HIDE DEF m, Next1
  <2>2. 0 \in 0 .. m /\ \A i \in 1 .. m : i \in 0 .. m /\ i # 0 BY <1>1
  <2> QED BY <2>1, <2>2
<1> DEFINE Part(n) == {s[i] : i \in 1 .. n} \cap S
           T == {n \in Nat : n <= m => /\ kept[n] \in Seq(X) /\ Range(kept[n]) = Part(n)
                                       /\ IsInjective(s) => IsInjective(kept[n])}
<1> HIDE DEF m, F, step
<1>6. 0 \in T
  <2>1. Range(<<>>) = {} /\ IsInjective(<<>>) BY DEF Range, IsInjective
  <2>2. Part(0) = {} /\ 0 <= m BY <1>1
  <2> HIDE DEF Part
  <2> QED BY <1>2, <1>5, <2>1, <2>2
<1>7. ASSUME NEW n \in Nat, n \in T PROVE n + 1 \in T
  <2> SUFFICES ASSUME n + 1 <= m
               PROVE  /\ kept[n + 1] \in Seq(X) /\ Range(kept[n + 1]) = Part(n + 1)
                      /\ IsInjective(s) => IsInjective(kept[n + 1])
    OBVIOUS
  <2>1. kept[n] \in Seq(X) /\ Range(kept[n]) = Part(n) /\ (IsInjective(s) => IsInjective(kept[n])) BY <1>1, <1>7
  <2>2. n + 1 \in 1 .. m /\ (n + 1) - 1 = n BY <1>1
  <2>3. kept[n + 1] = Next1(kept[n], n + 1) BY <1>5, <2>2
  <2>4. Part(n + 1) = Part(n) \cup ({s[n + 1]} \cap S)
    <3>1. 1 .. n + 1 = (1 .. n) \cup {n + 1} OBVIOUS
    <3> QED BY <3>1
  <2>5. CASE s[n + 1] \notin S BY <2>1, <2>3, <2>4, <2>5
  <2>6. CASE s[n + 1] \in S
    <3> DEFINE k == kept[n]
               e == s[n + 1]
    <3>1. kept[n + 1] = Append(k, e) BY <2>3, <2>6
    <3>2. k \in Seq(X) /\ e \in X BY <1>1, <2>1, <2>2
    <3> HIDE DEF k, e
    <3>3. /\ Append(k, e) \in Seq(X) /\ Len(Append(k, e)) = Len(k) + 1 /\ Len(k) \in Nat
          /\ \A i \in 1 .. Len(k) : Append(k, e)[i] = k[i]
          /\ Append(k, e)[Len(k) + 1] = e
          /\ DOMAIN Append(k, e) = 1 .. Len(k) + 1 /\ DOMAIN k = 1 .. Len(k)
      BY <3>2, AppendProperties, LenProperties
    <3>4. Range(Append(k, e)) = Range(k) \cup {e}
      <4>1. 1 .. Len(k) + 1 = (1 .. Len(k)) \cup {Len(k) + 1} BY <3>3
      <4> QED BY <3>3, <4>1 DEF Range
    <3>5. Range(kept[n + 1]) = Part(n + 1) BY <2>1, <2>4, <2>6, <3>1, <3>4 DEF k, e
    <3>6. ASSUME IsInjective(s) PROVE IsInjective(Append(k, e))
      <4>1. \A i \in 1 .. n : s[i] # e
        <5>1. \A i \in 1 .. n : i \in 1 .. m /\ i # n + 1 BY <1>1, <2>2
        <5> QED BY <1>1, <2>2, <3>6, <5>1 DEF IsInjective, e
      <4>2. \A i \in 1 .. Len(k) : k[i] # e
        <5>1. e \notin Range(k) BY <2>1, <4>1 DEF k
        <5> QED BY <3>3, <5>1 DEF Range
      <4>3. IsInjective(k) BY <2>1, <3>6 DEF k
      <4> QED BY <3>3, <4>2, <4>3 DEF IsInjective
    <3> QED BY <3>1, <3>3, <3>5, <3>6
  <2> QED BY <2>5, <2>6
<1>8. m \in T BY <1>1, <1>6, <1>7, SetInduction
<1>9. Range(s) = {s[i] : i \in 1 .. m} BY <1>1 DEF Range
<1> QED BY <1>1, <1>4, <1>8, <1>9

LEMMA ConcatFacts ==
  ASSUME NEW X, NEW a \in Seq(X), NEW b \in Seq(X), IsInjective(a), IsInjective(b), Range(a) \cap Range(b) = {}
  PROVE  a \o b \in Seq(X) /\ IsInjective(a \o b) /\ Range(a \o b) = Range(a) \cup Range(b)
<1>1. /\ a \o b \in Seq(X) /\ Len(a \o b) = Len(a) + Len(b) /\ Len(a) \in Nat /\ Len(b) \in Nat
      /\ DOMAIN (a \o b) = 1 .. Len(a) + Len(b) /\ DOMAIN a = 1 .. Len(a) /\ DOMAIN b = 1 .. Len(b)
      /\ \A i \in 1 .. Len(a) + Len(b) : (a \o b)[i] = IF i <= Len(a) THEN a[i] ELSE b[i - Len(a)]
  BY ConcatProperties, LenProperties
<1>2. \A i \in DOMAIN a, j \in DOMAIN b : a[i] # b[j] BY DEF Range
<1>3. IsInjective(a \o b)
  <2> SUFFICES ASSUME NEW i \in 1 .. Len(a) + Len(b), NEW j \in 1 .. Len(a) + Len(b), (a \o b)[i] = (a \o b)[j]
               PROVE  i = j
    BY <1>1 DEF IsInjective
  <2>1. CASE i <= Len(a) /\ j <= Len(a) BY <1>1, <2>1 DEF IsInjective
  <2>2. CASE i > Len(a) /\ j > Len(a)
    <3>1. i - Len(a) \in DOMAIN b /\ j - Len(a) \in DOMAIN b /\ b[i - Len(a)] = b[j - Len(a)] BY <1>1, <2>2
    <3>2. i - Len(a) = j - Len(a) BY <3>1 DEF IsInjective
    <3> QED BY <1>1, <3>2
  <2>3. CASE i <= Len(a) /\ j > Len(a) BY <1>1, <1>2, <2>3
  <2>4. CASE i > Len(a) /\ j <= Len(a) BY <1>1, <1>2, <2>4
  <2> QED BY <1>1, <2>1, <2>2, <2>3, <2>4
<1> QED BY <1>1, <1>3, RangeConcatenation

(***************************************************************************)
(* Health.  The manifest was read after the revision, so that it is of that  *)
(* revision or later; and a fetch that ends while the revision is the same   *)
(* has seen the one it stands for once no change is under way.              *)
(***************************************************************************)

Fetches ==
  [pc : {"idle", "fetch", "fallback", "ask", "look", "cache", "ended", "finished", "ordered"},
   id : Ids \cup {Head(Providers)}, revision : Nat, manifest : Nat,
   status : Statuses \cup {"none"}, down : BOOLEAN]
Seen == Seq(Statuses)
Callers ==
  [fetch : Fetches, seen : Seen, order : Seq(DOMAIN Providers), exempt : SUBSET Ids]
Cached ==
  [id : Ids \cup {Head(Providers)}, revision : Nat, manifest : Nat, status : Statuses, down : BOOLEAN, fresh : BOOLEAN]
(* A fetch while the manager is at revision rev and has manifests man.       *)
FetchSound(f, rev, man) ==
  /\ f.revision <= rev
  /\ f.pc \in {"ask", "look", "cache"} => f.revision <= f.manifest /\ f.manifest <= man
  /\ f.pc = "cache" => f.status \in Statuses /\ (f.down <=> f.status = "offline")
SnapshotSound(e, man) ==
  /\ e \in Cached
  /\ e.revision <= e.manifest /\ e.manifest <= man
  /\ e.down <=> e.status = "offline"
Complete(c) ==
  /\ IsInjective(c.order)
  /\ Range(c.order) = {i \in DOMAIN Providers : c.seen[i] # "offline" \/ Providers[i] \in c.exempt}
LooksUp(c) ==
  /\ Len(c.seen) <= Len(Providers)
  /\ \A i \in 1 .. Len(c.seen) : Providers[i] \in c.exempt => c.seen[i] = "unknown"
  /\ c.fetch.pc \in {"fallback", "look"} =>
       Len(c.seen) < Len(Providers) /\ Providers[Len(c.seen) + 1] \notin c.exempt
CallerSound(c) == LooksUp(c) /\ (c.fetch.pc = "ordered" => Complete(c))
ManagerSound ==
  manifest \in Nat /\ revision \in Nat /\ changing \in Nat /\ manifest = revision + changing
SnapshotsSound == \A e \in snapshots : SnapshotSound(e, manifest)
WorkersSound ==
  /\ healthWorker \in [HealthWorkers -> Fetches]
  /\ \A w \in HealthWorkers : FetchSound(healthWorker[w], revision, manifest)
CallersSound ==
  /\ healthCaller \in [HealthThreads -> Callers]
  /\ \A t \in HealthThreads : FetchSound(healthCaller[t].fetch, revision, manifest) /\ CallerSound(healthCaller[t])
Closing == healthClosed \in {"no", "flag", "joins", "done"} /\ HealthQuiet
HealthIInv == ManagerSound /\ SnapshotsSound /\ WorkersSound /\ CallersSound /\ Closing

LEMMA FetchTyped == Fetch \in Fetches /\ Fetch.pc = "idle" /\ Fetch.revision = 0
BY DEF Fetch, Fetches

LEMMA FetchKept ==
  ASSUME NEW f \in Fetches, NEW rev \in Nat, NEW man \in Nat, NEW later \in Nat, NEW newer \in Nat,
         rev <= later, man <= newer, FetchSound(f, rev, man)
  PROVE  FetchSound(f, later, newer)
BY DEF FetchSound, Fetches
LEMMA SnapshotKept ==
  ASSUME NEW e, NEW man \in Nat, NEW newer \in Nat, man <= newer, SnapshotSound(e, man)
  PROVE  SnapshotSound(e, newer)
BY DEF SnapshotSound, Cached

(* One step of a fetch, of a caller or of a worker.                         *)
LEMMA FetchStepSound ==
  ASSUME ManagerSound, NEW STATE f, NEW STATE record, f \in Fetches, FetchSound(f, revision, manifest),
         record \in FetchRecords(f), FetchStep(f, record)
  PROVE  /\ f.pc \in {"ask", "cache"} /\ record.pc \in {"cache", "ended"}
         /\ record \in Fetches /\ FetchSound(record, revision, manifest)
         /\ \A e \in snapshots' : e \in snapshots \/ SnapshotSound(e, manifest)
         /\ healthClosed # "no" => snapshots' = snapshots
<1>1. Ended(f) \in Fetches /\ FetchSound(Ended(f), revision, manifest) /\ Ended(f).pc = "ended"
  BY FetchTyped DEF Ended, Fetches, FetchSound, Fetch
<1>2. CASE f.pc = "ask" /\ record \in AskService(f) /\ UNCHANGED snapshots
  <2>1. CASE ~Valid(f)
    <3>1. record = Ended(f) BY <1>2, <2>1 DEF AskService
    <3> QED BY <1>1, <1>2, <3>1
  <2>2. CASE Valid(f)
    <3>1. PICK checks \in Answers :
            record = [f EXCEPT !.pc = "cache", !.status = StatusOf(checks),
                               !.down = \E i \in DOMAIN checks : checks[i].required /\ checks[i].status = "offline"]
      BY <1>2, <2>2 DEF AskService
    <3> DEFINE down == \E i \in DOMAIN checks : checks[i].required /\ checks[i].status = "offline"
    <3>2. StatusOf(checks) \in Statuses /\ (StatusOf(checks) = "offline" <=> down)
      BY HealthAssumption, StatusDecides
    <3>3. down \in BOOLEAN OBVIOUS
    <3> HIDE DEF down
    <3>4. record = [f EXCEPT !.pc = "cache", !.status = StatusOf(checks), !.down = down] BY <3>1 DEF down
    <3>5. record \in Fetches BY <3>2, <3>3, <3>4 DEF Fetches
    <3>6. /\ record.pc = "cache" /\ record.status = StatusOf(checks)
          /\ record.revision = f.revision /\ record.manifest = f.manifest
      BY <3>4 DEF Fetches
    <3>7. record.down = down BY <3>4 DEF Fetches
    <3>8. FetchSound(record, revision, manifest) BY <1>2, <3>2, <3>6, <3>7 DEF FetchSound
    <3> QED BY <1>2, <3>5, <3>6, <3>8
  <2> QED BY <2>1, <2>2
<1>3. CASE f.pc = "cache" /\ Valid(f) /\ snapshots' = {e \in Kept(f.revision) : e.id # f.id} \cup {Snapshot(f)}
           /\ record = Ended(f)
  <2>1. SnapshotSound(Snapshot(f), manifest) BY <1>3 DEF FetchSound, Snapshot, SnapshotSound, Cached, Fetches
  <2> QED BY <1>1, <1>3, <2>1 DEF Kept, Valid
<1>4. CASE f.pc = "cache" /\ UNCHANGED snapshots /\ record = Ended(f) BY <1>1, <1>4
<1> QED BY <1>2, <1>3, <1>4 DEF FetchStep

(* The manager goes on.                                                     *)
LEMMA ManagerStep ==
  ASSUME HealthIInv, ManagerSound', revision <= revision', manifest <= manifest',
         UNCHANGED <<snapshots, healthWorker, healthCaller, healthClosed>>
  PROVE  HealthIInv'
<1>1. revision \in Nat /\ revision' \in Nat /\ manifest \in Nat /\ manifest' \in Nat BY DEF HealthIInv, ManagerSound
<1>2. SnapshotsSound' BY <1>1, SnapshotKept DEF HealthIInv, SnapshotsSound
<1>3. WorkersSound'
  <2>1. \A w \in HealthWorkers : healthWorker[w] \in Fetches /\ FetchSound(healthWorker[w], revision, manifest)
    BY DEF HealthIInv, WorkersSound
  <2>2. \A w \in HealthWorkers : FetchSound(healthWorker[w], revision', manifest') BY <1>1, <2>1, FetchKept
  <2> QED BY <2>2 DEF HealthIInv, WorkersSound
<1>4. CallersSound'
  <2>1. \A t \in HealthThreads : healthCaller[t].fetch \in Fetches /\ FetchSound(healthCaller[t].fetch, revision, manifest)
    BY DEF HealthIInv, CallersSound, Callers
  <2>2. \A t \in HealthThreads : FetchSound(healthCaller[t].fetch, revision', manifest') BY <1>1, <2>1, FetchKept
  <2> QED BY <2>2 DEF HealthIInv, CallersSound
<1>5. Closing' BY DEF HealthIInv, Closing, HealthQuiet, FreeWorkers
<1> QED BY <1>2, <1>3, <1>4, <1>5 DEF HealthIInv

LEMMA ChangeExtensionsIInv == HealthIInv /\ ChangeExtensions => HealthIInv'
<1> SUFFICES ASSUME HealthIInv, ChangeExtensions PROVE HealthIInv' OBVIOUS
<1>1. ManagerSound' /\ revision <= revision' /\ manifest <= manifest'
  BY DEF HealthIInv, ManagerSound, ChangeExtensions
<1> QED BY <1>1, ManagerStep DEF ChangeExtensions, Caches
LEMMA RaiseRevisionIInv == HealthIInv /\ RaiseRevision => HealthIInv'
<1> SUFFICES ASSUME HealthIInv, RaiseRevision PROVE HealthIInv' OBVIOUS
<1>1. ManagerSound' /\ revision <= revision' /\ manifest <= manifest'
  BY DEF HealthIInv, ManagerSound, RaiseRevision
<1> QED BY <1>1, ManagerStep DEF RaiseRevision, Caches

(* One caller's record changes.                                             *)
LEMMA CallerStep ==
  ASSUME HealthIInv, NEW STATE t, t \in HealthThreads, NEW STATE c, c \in Callers, CallerSound(c),
         FetchSound(c.fetch, revision, manifest), healthCaller' = [healthCaller EXCEPT ![t] = c],
         UNCHANGED <<manifest, revision>>
  PROVE  CallersSound'
BY DEF HealthIInv, CallersSound

LEMMA ReadRevisionIInv == ASSUME HealthIInv, NEW t \in HealthThreads, ReadRevision(t) PROVE HealthIInv'
<1>1. healthCaller[t] \in Callers /\ CallerSound(healthCaller[t]) /\ revision \in Nat /\ manifest \in Nat
  BY DEF HealthIInv, CallersSound, ManagerSound
<1>2. Len(healthCaller[t].seen) < Len(Providers) /\ Len(healthCaller[t].seen) \in Nat /\ Len(Providers) \in Nat
      /\ DOMAIN Providers = 1 .. Len(Providers)
  BY <1>1, LenProperties, HealthAssumption DEF ReadRevision, Callers, Seen
<1>3. PICK goal \in {"fetch"} \cup (IF Providers[Len(healthCaller[t].seen) + 1] \in healthCaller[t].exempt THEN {} ELSE {"fallback"}) :
        healthCaller' = [healthCaller EXCEPT ![t].fetch =
            [Fetch EXCEPT !.pc = goal, !.revision = revision, !.id = Providers[Len(healthCaller[t].seen) + 1]]]
  BY DEF ReadRevision
<1> DEFINE id == Providers[Len(healthCaller[t].seen) + 1]
           f == [Fetch EXCEPT !.pc = goal, !.revision = revision, !.id = id]
           c == [healthCaller[t] EXCEPT !.fetch = f]
<1>4. id \in Ids BY <1>2 DEF Ids, Range
<1>5. f \in Fetches /\ f.pc = goal /\ f.revision = revision
  <2> HIDE DEF id
  <2> QED BY <1>1, <1>3, <1>4 DEF Fetches, Fetch
<1>6. goal = "fallback" => id \notin healthCaller[t].exempt BY <1>3
<1>7. goal \in {"fetch", "fallback"} BY <1>3
<1> HIDE DEF f, id
<1>8. /\ c \in Callers /\ c.seen = healthCaller[t].seen /\ c.exempt = healthCaller[t].exempt
      /\ c.order = healthCaller[t].order /\ c.fetch = f
  BY <1>1, <1>5 DEF Callers
<1>9. healthCaller' = [healthCaller EXCEPT ![t] = c]
  <2>1. healthCaller' = [healthCaller EXCEPT ![t].fetch = f] BY <1>3 DEF f, id
  <2> QED BY <2>1 DEF HealthIInv, CallersSound
<1> HIDE DEF c
<1>10. CallerSound(c)
  <2>1. LooksUp(c) BY <1>1, <1>2, <1>5, <1>6, <1>8 DEF CallerSound, LooksUp, id
  <2> QED BY <1>5, <1>7, <1>8, <2>1 DEF CallerSound
<1>11. FetchSound(c.fetch, revision, manifest) BY <1>1, <1>5, <1>7, <1>8 DEF FetchSound
<1>12. UNCHANGED <<manifest, revision, changing, snapshots, refreshing, healthWorker, healthClosed>>
  BY DEF ReadRevision, Manager, Caches
<1>13. CallersSound' BY <1>8, <1>9, <1>10, <1>11, <1>12, CallerStep
<1> QED BY <1>12, <1>13 DEF HealthIInv, ManagerSound, SnapshotsSound, WorkersSound, Closing, HealthQuiet, FreeWorkers

LEMMA ReadManifestIInv == ASSUME HealthIInv, NEW t \in HealthThreads, ReadManifest(t) PROVE HealthIInv'
<1>1. /\ healthCaller[t] \in Callers /\ CallerSound(healthCaller[t]) /\ healthCaller[t].fetch \in Fetches
      /\ FetchSound(healthCaller[t].fetch, revision, manifest) /\ ManagerSound
  BY DEF HealthIInv, CallersSound, Callers
<1> DEFINE g == healthCaller[t].fetch
           f == [g EXCEPT !.manifest = manifest, !.pc = IF g.pc = "fetch" THEN "ask" ELSE "look"]
           c == [healthCaller[t] EXCEPT !.fetch = f]
<1>2. g.pc \in {"fetch", "fallback"} /\ healthCaller' = [healthCaller EXCEPT ![t].fetch = f] BY DEF ReadManifest
<1>3. g \in Fetches /\ g.revision <= revision BY <1>1 DEF FetchSound
<1> HIDE DEF g
<1>4. f \in Fetches /\ f.revision = g.revision /\ f.manifest = manifest /\ f.pc \in {"ask", "look"}
      /\ (f.pc = "look" => g.pc = "fallback")
  BY <1>1, <1>2, <1>3 DEF Fetches, ManagerSound
<1> HIDE DEF f
<1>5. /\ c \in Callers /\ c.seen = healthCaller[t].seen /\ c.exempt = healthCaller[t].exempt
      /\ c.order = healthCaller[t].order /\ c.fetch = f
  BY <1>1, <1>4 DEF Callers
<1>6. healthCaller' = [healthCaller EXCEPT ![t] = c] BY <1>2 DEF HealthIInv, CallersSound
<1> HIDE DEF c
<1>7. CallerSound(c) BY <1>1, <1>4, <1>5 DEF CallerSound, LooksUp, g
<1>8. FetchSound(c.fetch, revision, manifest)
  <2>1. revision \in Nat /\ manifest \in Nat /\ revision <= manifest BY <1>1 DEF ManagerSound
  <2>2. f.revision \in Nat BY <1>4 DEF Fetches
  <2> QED BY <1>3, <1>4, <1>5, <2>1, <2>2 DEF FetchSound
<1>9. UNCHANGED <<manifest, revision, changing, snapshots, refreshing, healthWorker, healthClosed>>
  BY DEF ReadManifest, Manager, Caches
<1>10. CallersSound' BY <1>5, <1>6, <1>7, <1>8, <1>9, CallerStep
<1> QED BY <1>9, <1>10 DEF HealthIInv, ManagerSound, SnapshotsSound, WorkersSound, Closing, HealthQuiet, FreeWorkers

LEMMA CheckHealthIInv == ASSUME HealthIInv, NEW t \in HealthThreads, CheckHealth(t) PROVE HealthIInv'
<1>1. /\ healthCaller[t] \in Callers /\ CallerSound(healthCaller[t]) /\ healthCaller[t].fetch \in Fetches
      /\ FetchSound(healthCaller[t].fetch, revision, manifest) /\ ManagerSound
  BY DEF HealthIInv, CallersSound, Callers
<1>2. PICK record \in FetchRecords(healthCaller[t].fetch) :
        /\ FetchStep(healthCaller[t].fetch, record)
        /\ healthCaller' = [healthCaller EXCEPT ![t].fetch = record]
  BY DEF CheckHealth
<1>3. /\ record.pc \in {"cache", "ended"} /\ record \in Fetches /\ FetchSound(record, revision, manifest)
      /\ \A e \in snapshots' : e \in snapshots \/ SnapshotSound(e, manifest)
      /\ healthClosed # "no" => snapshots' = snapshots
  BY <1>1, <1>2, FetchStepSound
<1> DEFINE c == [healthCaller[t] EXCEPT !.fetch = record]
<1>4. /\ c \in Callers /\ c.seen = healthCaller[t].seen /\ c.exempt = healthCaller[t].exempt
      /\ c.order = healthCaller[t].order /\ c.fetch = record
  BY <1>1, <1>3 DEF Callers
<1>5. healthCaller' = [healthCaller EXCEPT ![t] = c] BY <1>2 DEF HealthIInv, CallersSound
<1> HIDE DEF c
<1>6. CallerSound(c) BY <1>1, <1>3, <1>4 DEF CallerSound, LooksUp
<1>7. UNCHANGED <<manifest, revision, changing, refreshing, healthWorker, healthClosed>>
  BY DEF CheckHealth, Manager
<1>8. CallersSound' BY <1>3, <1>4, <1>5, <1>6, <1>7, CallerStep
<1>9. SnapshotsSound' BY <1>3, <1>7 DEF HealthIInv, SnapshotsSound
<1>10. Closing' BY <1>3, <1>7 DEF HealthIInv, Closing, HealthQuiet, FreeWorkers
<1> QED BY <1>7, <1>8, <1>9, <1>10 DEF HealthIInv, ManagerSound, WorkersSound

(* What is seen of the next provider.                                       *)
LEMMA SeenNext ==
  ASSUME NEW c \in Callers, NEW d \in Callers, NEW status \in Statuses, LooksUp(c), Len(c.seen) < Len(Providers),
         Providers[Len(c.seen) + 1] \in c.exempt => status = "unknown",
         d.seen = Append(c.seen, status), d.exempt = c.exempt, d.fetch.pc = "idle"
  PROVE  CallerSound(d)
<1>1. c.seen \in Seq(Statuses) /\ Len(c.seen) \in Nat /\ Len(Providers) \in Nat
  BY LenProperties, HealthAssumption DEF Callers, Seen
<1>2. /\ Len(d.seen) = Len(c.seen) + 1
      /\ \A i \in 1 .. Len(c.seen) : d.seen[i] = c.seen[i]
      /\ d.seen[Len(c.seen) + 1] = status
  BY <1>1, AppendProperties
<1>3. \A i \in 1 .. Len(d.seen) : i \in 1 .. Len(c.seen) \/ i = Len(c.seen) + 1 BY <1>1, <1>2
<1> QED BY <1>1, <1>2, <1>3 DEF CallerSound, LooksUp

LEMMA FallbackStatusIInv == ASSUME HealthIInv, NEW t \in HealthThreads, FallbackStatus(t) PROVE HealthIInv'
<1> DEFINE c     == healthCaller[t]
           f     == c.fetch
           mine  == {e \in Kept(f.revision) : e.id = f.id}
           fresh == {e \in mine : e.fresh}
           known == IF \E e \in mine : e.status # "offline" THEN (CHOOSE e \in mine : TRUE).status ELSE "unknown"
           Sees(status) == healthCaller' = [healthCaller EXCEPT ![t].seen = Append(@, status), ![t].fetch = Fetch]
           refresh == [f EXCEPT !.pc = "ask"]
<1>1. /\ c \in Callers /\ CallerSound(c) /\ f \in Fetches /\ FetchSound(f, revision, manifest) /\ f.pc = "look"
      /\ ManagerSound /\ SnapshotsSound /\ WorkersSound
  BY DEF HealthIInv, CallersSound, Callers, FallbackStatus
<1>2. UNCHANGED <<manifest, revision, changing, healthClosed>> BY DEF FallbackStatus, Manager
<1>3. \A e \in snapshots : e.status \in Statuses BY <1>1 DEF SnapshotsSound, SnapshotSound, Cached
<1>4. "unknown" \in Statuses BY DEF Statuses
<1>5. known \in Statuses
  <2>1. mine \subseteq snapshots BY DEF Kept
  <2>2. CASE \E e \in mine : e.status # "offline"
    <3>1. (CHOOSE e \in mine : TRUE) \in mine BY <2>2
    <3> QED BY <1>3, <2>1, <2>2, <3>1
  <2>3. CASE ~\E e \in mine : e.status # "offline" BY <1>4, <2>3
  <2> QED BY <2>2, <2>3
<1>6. fresh # {} => (CHOOSE e \in fresh : TRUE).status \in Statuses
  <2>1. fresh \subseteq snapshots BY DEF Kept
  <2>2. fresh # {} => (CHOOSE e \in fresh : TRUE) \in fresh OBVIOUS
  <2> QED BY <1>3, <2>1, <2>2
<1>7. \/ healthClosed # "no" /\ Sees("unknown") /\ UNCHANGED <<snapshots, refreshing, healthWorker>>
      \/ healthClosed = "no" /\ snapshots' = Kept(f.revision) /\ fresh # {} /\ Sees((CHOOSE e \in fresh : TRUE).status)
           /\ UNCHANGED healthWorker
      \/ healthClosed = "no" /\ snapshots' = Kept(f.revision) /\ Sees(known)
           /\ (UNCHANGED healthWorker \/ \E w \in FreeWorkers : healthWorker' = [healthWorker EXCEPT ![w] = refresh])
  <2> HIDE DEF known, refresh, fresh
  <2> QED BY DEF FallbackStatus, Caches, known, refresh, fresh
<1>8. \E status \in Statuses : Sees(status)
  <2> HIDE DEF known, Sees, fresh
  <2> QED BY <1>4, <1>5, <1>6, <1>7
<1>9. PICK status \in Statuses : Sees(status) BY <1>8
<1> DEFINE d == [healthCaller[t] EXCEPT !.seen = Append(c.seen, status), !.fetch = Fetch]
<1>10. /\ d \in Callers /\ d.seen = Append(c.seen, status) /\ d.exempt = c.exempt /\ d.fetch = Fetch
  BY <1>1, FetchTyped, AppendProperties DEF Callers, Seen
<1>11. healthCaller' = [healthCaller EXCEPT ![t] = d] BY <1>9 DEF HealthIInv, CallersSound
<1>12. CallerSound(d)
  <2> HIDE DEF d
  <2>1. /\ LooksUp(c) /\ Len(c.seen) < Len(Providers)
        /\ Providers[Len(c.seen) + 1] \notin c.exempt
    BY <1>1 DEF CallerSound, LooksUp
  <2>2. d.fetch.pc = "idle" BY <1>10, FetchTyped
  <2> HIDE DEF c
  <2> QED BY <1>1, <1>10, <2>1, <2>2, SeenNext
<1>13. FetchSound(d.fetch, revision, manifest)
  <2> HIDE DEF d
  <2> QED BY <1>1, <1>10, FetchTyped DEF FetchSound, ManagerSound
<1>14. CallersSound'
  <2> HIDE DEF d
  <2> QED BY <1>2, <1>10, <1>11, <1>12, <1>13, CallerStep
<1>15. SnapshotsSound' BY <1>1, <1>2, <1>7 DEF SnapshotsSound, Kept
<1>16. WorkersSound' /\ (healthClosed # "no" => UNCHANGED healthWorker)
  <2>1. CASE UNCHANGED healthWorker BY <1>1, <1>2, <2>1 DEF WorkersSound
  <2>2. CASE healthClosed = "no" /\ \E w \in FreeWorkers : healthWorker' = [healthWorker EXCEPT ![w] = refresh]
    <3>1. PICK w \in FreeWorkers : healthWorker' = [healthWorker EXCEPT ![w] = refresh] BY <2>2
    <3>2. w \in HealthWorkers BY DEF FreeWorkers
    <3> HIDE DEF f
    <3>3. refresh \in Fetches /\ FetchSound(refresh, revision, manifest) BY <1>1 DEF Fetches, FetchSound
    <3> HIDE DEF refresh
    <3> QED BY <1>1, <1>2, <2>2, <3>1, <3>2, <3>3 DEF WorkersSound
  <2> QED BY <1>7, <2>1, <2>2
<1>17. Closing'
  <2>1. CASE healthClosed # "no" /\ UNCHANGED <<snapshots, healthWorker>>
    BY <1>2, <2>1 DEF HealthIInv, Closing, HealthQuiet, FreeWorkers
  <2>2. CASE healthClosed = "no" BY <1>2, <2>2 DEF Closing, HealthQuiet
  <2> QED BY <1>7, <2>1, <2>2
<1> QED BY <1>1, <1>2, <1>14, <1>15, <1>16, <1>17 DEF HealthIInv, ManagerSound

LEMMA SkipExemptIInv == ASSUME HealthIInv, NEW t \in HealthThreads, SkipExempt(t) PROVE HealthIInv'
<1> DEFINE c == healthCaller[t]
           d == [healthCaller[t] EXCEPT !.seen = Append(c.seen, "unknown")]
<1>1. /\ c \in Callers /\ CallerSound(c) /\ FetchSound(c.fetch, revision, manifest)
      /\ c.fetch.pc = "idle" /\ Len(c.seen) < Len(Providers)
  BY DEF HealthIInv, CallersSound, SkipExempt
<1>2. "unknown" \in Statuses BY DEF Statuses
<1>3. /\ d \in Callers /\ d.seen = Append(c.seen, "unknown") /\ d.exempt = c.exempt /\ d.fetch = c.fetch
  BY <1>1, <1>2, AppendProperties DEF Callers, Seen
<1>4. healthCaller' = [healthCaller EXCEPT ![t] = d] BY DEF HealthIInv, CallersSound, SkipExempt
<1> HIDE DEF d
<1>5. CallerSound(d)
  <2>1. LooksUp(c) BY <1>1 DEF CallerSound
  <2> HIDE DEF c
  <2> QED BY <1>1, <1>2, <1>3, <2>1, SeenNext
<1>6. UNCHANGED <<manifest, revision, changing, snapshots, refreshing, healthWorker, healthClosed>>
  BY DEF SkipExempt, Manager, Caches
<1>7. CallersSound' BY <1>1, <1>3, <1>4, <1>5, <1>6, CallerStep
<1> QED BY <1>6, <1>7 DEF HealthIInv, ManagerSound, SnapshotsSound, WorkersSound, Closing, HealthQuiet, FreeWorkers

LEMMA PrioritizeIInv == ASSUME HealthIInv, NEW t \in HealthThreads, Prioritize(t) PROVE HealthIInv'
<1> DEFINE c        == healthCaller[t]
           all      == [i \in DOMAIN Providers |-> i]
           Ranked3(n) == {i \in DOMAIN Providers : c.seen[i] # "offline" /\ Rank(c.seen[i]) = n}
           Group(n) == Only(all, Ranked3(n))
           sorted   == Group(0) \o Group(1) \o Group(2)
           Chosen(p) == {i \in DOMAIN Providers : Providers[i] = p}
           Rest(p)  == {i \in DOMAIN Providers : Providers[i] # p}
           D        == DOMAIN Providers
<1>1. /\ c \in Callers /\ CallerSound(c) /\ FetchSound(c.fetch, revision, manifest)
      /\ c.fetch.pc = "idle" /\ Len(c.seen) = Len(Providers)
  BY DEF HealthIInv, CallersSound, Prioritize
<1>2. PICK selected \in Ids :
        healthCaller' = [healthCaller EXCEPT ![t].order = Fronted(sorted, selected), ![t].fetch.pc = "ordered"]
  BY DEF Prioritize
<1>3. D = 1 .. Len(Providers) /\ Len(Providers) \in Nat BY LenProperties, HealthAssumption
<1>4. all \in Seq(D) /\ IsInjective(all) /\ Range(all) = D
  <2>1. all \in Seq(D) BY <1>3, IsASeq
  <2> QED BY <2>1 DEF IsInjective, Range
<1>5. \A n \in {0, 1, 2} : Group(n) \in Seq(D) /\ IsInjective(Group(n)) /\ Range(Group(n)) = Ranked3(n)
  <2> HIDE DEF all
  <2>1. \A S : Only(all, S) \in Seq(D) /\ IsInjective(Only(all, S)) /\ Range(Only(all, S)) = Range(all) \cap S
    <3> HIDE DEF D
    <3> QED BY <1>4, OnlyFacts
  <2> QED BY <1>4, <2>1
<1> HIDE DEF D, Group
<1>6. Group(0) \o Group(1) \in Seq(D) /\ IsInjective(Group(0) \o Group(1)) /\ Range(Group(0) \o Group(1)) = Ranked3(0) \cup Ranked3(1)
  <2>1. Range(Group(0)) \cap Range(Group(1)) = {} BY <1>5
  <2>2. Group(0) \in Seq(D) /\ IsInjective(Group(0)) /\ Group(1) \in Seq(D) /\ IsInjective(Group(1)) BY <1>5
  <2> HIDE DEF Ranked3
  <2>3. Range(Group(0)) = Ranked3(0) /\ Range(Group(1)) = Ranked3(1) BY <1>5
  <2> QED BY <2>1, <2>2, <2>3, ConcatFacts
<1>7. sorted \in Seq(D) /\ IsInjective(sorted) /\ Range(sorted) = Ranked3(0) \cup Ranked3(1) \cup Ranked3(2)
  <2> DEFINE first == Group(0) \o Group(1)
             last  == Group(2)
  <2>1. Range(first) \cap Range(last) = {} BY <1>5, <1>6
  <2>2. last \in Seq(D) /\ IsInjective(last) /\ Range(last) = Ranked3(2) BY <1>5
  <2>3. first \in Seq(D) /\ IsInjective(first) /\ Range(first) = Ranked3(0) \cup Ranked3(1) BY <1>6
  <2>4. sorted = first \o last OBVIOUS
  <2> HIDE DEF first, last, sorted, Ranked3
  <2>5. first \o last \in Seq(D) /\ IsInjective(first \o last) /\ Range(first \o last) = Range(first) \cup Range(last)
    BY <2>1, <2>2, <2>3, ConcatFacts
  <2> QED BY <2>2, <2>3, <2>4, <2>5
<1>8. Ranked3(0) \cup Ranked3(1) \cup Ranked3(2) = {i \in D : c.seen[i] # "offline"}
  <2>1. \A i \in D : Rank(c.seen[i]) \in {0, 1, 2} BY DEF Rank
  <2> QED BY <2>1 DEF D
<1> HIDE DEF sorted, Ranked3
<1> DEFINE o == Fronted(sorted, selected)
<1>9. o \in Seq(D) /\ IsInjective(o) /\ Range(o) = Range(sorted)
  <2> DEFINE a == Only(sorted, Chosen(selected))
             b == Only(sorted, Rest(selected))
  <2>1. a \in Seq(D) /\ IsInjective(a) /\ Range(a) = Range(sorted) \cap Chosen(selected) BY <1>7, OnlyFacts
  <2>2. b \in Seq(D) /\ IsInjective(b) /\ Range(b) = Range(sorted) \cap Rest(selected) BY <1>7, OnlyFacts
  <2>3. Range(sorted) \subseteq D BY <1>7, <1>8
  <2>4. Range(a) \cap Range(b) = {} /\ Range(a) \cup Range(b) = Range(sorted) BY <2>1, <2>2, <2>3 DEF D
  <2>5. o = a \o b BY DEF Fronted
  <2> HIDE DEF a, b, o
  <2>6. a \o b \in Seq(D) /\ IsInjective(a \o b) /\ Range(a \o b) = Range(a) \cup Range(b)
    BY <2>1, <2>2, <2>4, ConcatFacts
  <2> QED BY <2>4, <2>5, <2>6
<1> DEFINE f == [c.fetch EXCEPT !.pc = "ordered"]
           d == [healthCaller[t] EXCEPT !.order = o, !.fetch = f]
<1>10. o \in Seq(D) /\ IsInjective(o) /\ Range(o) = {i \in D : c.seen[i] # "offline"} BY <1>7, <1>8, <1>9
<1>11. healthCaller' = [healthCaller EXCEPT ![t] = d]
  <2> HIDE DEF o
  <2>1. healthCaller' = [healthCaller EXCEPT ![t].order = o, ![t].fetch.pc = "ordered"] BY <1>2 DEF o
  <2> QED BY <2>1 DEF HealthIInv, CallersSound
<1> HIDE DEF o
<1>12. f \in Fetches /\ f.pc = "ordered" /\ f.revision = c.fetch.revision BY <1>1 DEF Fetches, Callers
<1> HIDE DEF f
<1>13. /\ d \in Callers /\ d.seen = c.seen /\ d.exempt = c.exempt /\ d.order = o /\ d.fetch = f
  BY <1>1, <1>10, <1>12 DEF Callers, D
<1> HIDE DEF d
<1>14. CallerSound(d)
  <2>1. LooksUp(c) BY <1>1 DEF CallerSound
  <2>2. LooksUp(d) BY <1>12, <1>13, <2>1 DEF LooksUp
  <2>3. \A i \in D : Providers[i] \in c.exempt => c.seen[i] # "offline"
    <3>1. \A i \in D : i \in 1 .. Len(c.seen) BY <1>1, <1>3
    <3> QED BY <2>1, <3>1 DEF LooksUp
  <2>4. Complete(d) BY <1>10, <1>13, <2>3 DEF Complete, D
  <2> QED BY <2>2, <2>4 DEF CallerSound
<1>15. FetchSound(d.fetch, revision, manifest) BY <1>1, <1>12, <1>13 DEF FetchSound
<1>16. UNCHANGED <<manifest, revision, changing, snapshots, refreshing, healthWorker, healthClosed>>
  BY DEF Prioritize, Manager, Caches
<1>17. CallersSound' BY <1>11, <1>13, <1>14, <1>15, <1>16, CallerStep
<1> QED BY <1>16, <1>17 DEF HealthIInv, ManagerSound, SnapshotsSound, WorkersSound, Closing, HealthQuiet, FreeWorkers

LEMMA RefreshStepIInv == ASSUME HealthIInv, NEW w \in HealthWorkers, RefreshStep(w) PROVE HealthIInv'
<1>1. healthWorker[w] \in Fetches /\ FetchSound(healthWorker[w], revision, manifest) /\ ManagerSound
  BY DEF HealthIInv, WorkersSound
<1>2. PICK record \in FetchRecords(healthWorker[w]) :
        FetchStep(healthWorker[w], record) /\ healthWorker' = [healthWorker EXCEPT ![w] = record]
  BY DEF RefreshStep
<1>3. /\ healthWorker[w].pc \in {"ask", "cache"}
      /\ record \in Fetches /\ FetchSound(record, revision, manifest)
      /\ \A e \in snapshots' : e \in snapshots \/ SnapshotSound(e, manifest)
      /\ healthClosed # "no" => snapshots' = snapshots
  BY <1>1, <1>2, FetchStepSound
<1>4. UNCHANGED <<manifest, revision, changing, refreshing, healthCaller, healthClosed>>
  BY DEF RefreshStep, Manager
<1>5. SnapshotsSound' BY <1>3, <1>4 DEF HealthIInv, SnapshotsSound
<1>6. WorkersSound' BY <1>2, <1>3, <1>4 DEF HealthIInv, WorkersSound
<1>7. Closing'
  <2>1. w \notin FreeWorkers BY <1>3 DEF FreeWorkers
  <2>2. healthClosed # "done" BY <2>1 DEF HealthIInv, Closing, HealthQuiet
  <2> QED BY <1>3, <1>4, <2>2 DEF HealthIInv, Closing, HealthQuiet
<1> QED BY <1>4, <1>5, <1>6, <1>7 DEF HealthIInv, ManagerSound, CallersSound

LEMMA RefreshEndsIInv == ASSUME HealthIInv, NEW w \in HealthWorkers, RefreshEnds(w) PROVE HealthIInv'
<1>1. healthWorker' = [healthWorker EXCEPT ![w] = [Fetch EXCEPT !.pc = "finished"]] /\ healthWorker[w].pc = "ended"
  BY DEF RefreshEnds
<1> DEFINE f == [Fetch EXCEPT !.pc = "finished"]
<1>2. f \in Fetches /\ f.pc = "finished" /\ f.revision = 0 BY FetchTyped DEF Fetches, Fetch
<1>3. healthWorker' = [healthWorker EXCEPT ![w] = f] BY <1>1
<1> HIDE DEF f
<1>4. UNCHANGED <<manifest, revision, changing, snapshots, healthCaller, healthClosed>>
  BY DEF RefreshEnds, Manager
<1>5. FetchSound(f, revision, manifest) BY <1>2 DEF FetchSound, HealthIInv, ManagerSound
<1>6. WorkersSound' BY <1>2, <1>3, <1>4, <1>5 DEF HealthIInv, WorkersSound
<1>7. Closing'
  <2>1. w \notin FreeWorkers BY <1>1 DEF FreeWorkers
  <2>2. healthClosed # "done" BY <2>1 DEF HealthIInv, Closing, HealthQuiet
  <2> QED BY <1>4, <2>2 DEF HealthIInv, Closing, HealthQuiet
<1> QED BY <1>4, <1>6, <1>7 DEF HealthIInv, ManagerSound, SnapshotsSound, CallersSound

LEMMA ExpireSnapshotIInv == HealthIInv /\ ExpireSnapshot => HealthIInv'
<1> SUFFICES ASSUME HealthIInv, ExpireSnapshot PROVE HealthIInv' OBVIOUS
<1>1. PICK e \in snapshots : e.fresh /\ snapshots' = (snapshots \ {e}) \cup {[e EXCEPT !.fresh = FALSE]}
  BY DEF ExpireSnapshot
<1>2. UNCHANGED <<manifest, revision, changing, healthWorker, healthCaller, healthClosed>>
  BY DEF ExpireSnapshot, Manager
<1>3. SnapshotSound([e EXCEPT !.fresh = FALSE], manifest)
  BY DEF HealthIInv, SnapshotsSound, SnapshotSound, Cached
<1>4. SnapshotsSound' BY <1>1, <1>2, <1>3 DEF HealthIInv, SnapshotsSound
<1>5. Closing' BY <1>1, <1>2 DEF HealthIInv, Closing, HealthQuiet, FreeWorkers
<1> QED BY <1>2, <1>4, <1>5 DEF HealthIInv, ManagerSound, WorkersSound, CallersSound
LEMMA ClearHealthIInv == HealthIInv /\ ClearHealth => HealthIInv'
BY DEF ClearHealth, Manager, HealthIInv, ManagerSound, SnapshotsSound, WorkersSound, CallersSound, Closing, HealthQuiet, FreeWorkers
LEMMA CloseHealthIInv == HealthIInv /\ CloseHealth => HealthIInv'
<1> SUFFICES ASSUME HealthIInv, CloseHealth PROVE HealthIInv' OBVIOUS
<1>1. UNCHANGED <<manifest, revision, changing, healthWorker, healthCaller>> /\ snapshots' \subseteq snapshots
  BY DEF CloseHealth, Manager
<1>2. Closing' BY <1>1 DEF CloseHealth, HealthIInv, Closing, HealthQuiet, FreeWorkers
<1> QED BY <1>1, <1>2 DEF HealthIInv, ManagerSound, SnapshotsSound, WorkersSound, CallersSound

LEMMA HealthInitIInv == HealthInit => HealthIInv
<1> SUFFICES ASSUME HealthInit PROVE HealthIInv OBVIOUS
<1>1. ManagerSound /\ SnapshotsSound /\ Closing BY DEF HealthInit, ManagerSound, SnapshotsSound, Closing, HealthQuiet
<1>2. FetchSound(Fetch, revision, manifest) BY FetchTyped DEF HealthInit, FetchSound
<1>3. WorkersSound BY <1>2, FetchTyped DEF HealthInit, WorkersSound
<1>4. \A s \in SUBSET Ids :
        LET c == [fetch |-> Fetch, seen |-> <<>>, order |-> <<>>, exempt |-> s]
        IN c \in Callers /\ c.fetch = Fetch /\ CallerSound(c)
  <2> TAKE s \in SUBSET Ids
  <2> DEFINE c == [fetch |-> Fetch, seen |-> <<>>, order |-> <<>>, exempt |-> s]
  <2>1. <<>> \in Seen /\ <<>> \in Seq(DOMAIN Providers) /\ Len(<<>>) = 0 BY EmptySeq DEF Seen
  <2>2. c \in Callers BY <2>1, FetchTyped DEF Callers
  <2>3. Len(Providers) \in Nat BY LenProperties, HealthAssumption
  <2>4. CallerSound(c) BY <2>1, <2>3, FetchTyped DEF CallerSound, LooksUp
  <2> QED BY <2>2, <2>4
<1>5. CallersSound BY <1>2, <1>4 DEF HealthInit, CallersSound
<1> QED BY <1>1, <1>3, <1>5 DEF HealthIInv

LEMMA HealthNextIInv == HealthIInv /\ [HealthNext]_healthVars => HealthIInv'
<1> SUFFICES ASSUME HealthIInv, [HealthNext]_healthVars PROVE HealthIInv' OBVIOUS
<1>1. CASE UNCHANGED healthVars
  BY <1>1 DEF healthVars, HealthIInv, ManagerSound, SnapshotsSound, WorkersSound, CallersSound, Closing, HealthQuiet, FreeWorkers
<1>2. CASE ChangeExtensions \/ RaiseRevision \/ ExpireSnapshot \/ ClearHealth \/ CloseHealth
  BY <1>2, ChangeExtensionsIInv, RaiseRevisionIInv, ExpireSnapshotIInv, ClearHealthIInv, CloseHealthIInv
<1>3. ASSUME NEW t \in HealthThreads,
             ReadRevision(t) \/ ReadManifest(t) \/ CheckHealth(t) \/ FallbackStatus(t) \/ SkipExempt(t) \/ Prioritize(t)
      PROVE  HealthIInv'
  BY <1>3, ReadRevisionIInv, ReadManifestIInv, CheckHealthIInv, FallbackStatusIInv, SkipExemptIInv, PrioritizeIInv
<1>4. ASSUME NEW w \in HealthWorkers, RefreshStep(w) \/ RefreshEnds(w) PROVE HealthIInv'
  BY <1>4, RefreshStepIInv, RefreshEndsIInv
<1> QED BY <1>1, <1>2, <1>3, <1>4 DEF HealthNext

(* The health that the order of providers rests on is that of the manager's  *)
(* revision, shows every required service that is offline, and is quiet      *)
(* after shutdown(); the order leaves out only what is offline, for any list *)
(* of providers and any answers (fetch, fallback_status,                    *)
(* prioritize_healthy_downloads).                                           *)
THEOREM HealthIsSound == HealthSpec => []HealthSound
<1>1. HealthIInv => HealthSound
  <2> SUFFICES ASSUME HealthIInv PROVE HealthSound OBVIOUS
  <2>1. SnapshotsCurrent BY DEF HealthIInv, ManagerSound, SnapshotsSound, SnapshotSound, Cached, SnapshotsCurrent
  <2>2. OfflineShown BY DEF HealthIInv, SnapshotsSound, SnapshotSound, OfflineShown
  <2>3. OrdersComplete BY DEF HealthIInv, CallersSound, CallerSound, Complete, OrdersComplete
  <2>4. HealthQuiet BY DEF HealthIInv, Closing
  <2> QED BY <2>1, <2>2, <2>3, <2>4 DEF HealthSound
<1> QED BY <1>1, HealthInitIInv, HealthNextIInv, PTL DEF HealthSpec

(***************************************************************************)
(* Covers.  A flight registered is led: its leader is at its key, or at the  *)
(* original on the way to the resized cover; and a key that is cached has no *)
(* flight, so that an entry is never counted twice.                         *)
(***************************************************************************)

Calls ==
  [pc : {"idle", "enter", "wait", "fetch", "check", "settle", "done"}, want : CoverKeys, at : CoverKeys,
   flight : CoverFlights, result : {"none", "ok", "error", "cancelled"}, stopped : BOOLEAN, noticed : BOOLEAN]
Outcomes == {"pending", "ok", "error", "retry"}
CoverTyped ==
  /\ covers \in Seq(CoverKeys) /\ expired \in 0 .. Len(covers) /\ coverBytes \in Nat
  /\ coverFlights \subseteq CoverFlights /\ coverOutcome \in [CoverFlights -> Outcomes]
  /\ cover \in [CoverCallers -> Calls]
(* A call, given the flights registered, their outcomes, and its caller.    *)
CallSound(c, r, flights, outcomes) ==
  /\ r.result = "cancelled" \/ r.noticed => r.stopped
  /\ r.pc \in {"check", "settle"} => r.result # "none"
  /\ r.pc = "settle" /\ r.result = "cancelled" => r.noticed
  /\ r.pc \in {"fetch", "check", "settle"} => <<c, r.at>> \in flights
  /\ r.at # r.want => r.want = "resized" /\ <<c, "resized">> \in flights
  /\ r.pc = "wait" /\ outcomes[r.flight] = "pending" => r.flight \in flights
  /\ \A key \in CoverKeys : <<c, key>> \in flights =>
       /\ r.pc \notin {"idle", "done"}
       /\ r.at = key => r.pc \in {"fetch", "check", "settle"}
       /\ r.at # key => key = r.want
CallsSound == \A c \in CoverCallers : CallSound(c, cover[c], coverFlights, coverOutcome)
FlightsSound ==
  /\ \A f, g \in coverFlights : f[2] = g[2] => f = g
  /\ \A f \in coverFlights : f[2] \notin Range(covers)
CoverIInv == CoverTyped /\ CoversCounted /\ CallsSound /\ FlightsSound

LEMMA CoverFacts ==
  /\ CoverKeys = {"original", "resized"}
  /\ \A key \in CoverKeys : CoverBytes[key] \in Nat
  /\ MaxCoverBytes \in Nat
BY CoverAssumption DEF CoverKeys

(* What a set of entries takes.                                             *)
LEMMA TotalFacts ==
  ASSUME NEW s \in Seq(CoverKeys)
  PROVE  /\ Total(s) \in Nat
         /\ Range(s) = {} => Total(s) = 0
BY CoverFacts DEF Total
LEMMA TotalSplit ==
  ASSUME NEW s \in Seq(CoverKeys), NEW a \in Seq(CoverKeys), NEW b \in Seq(CoverKeys),
         Range(s) = Range(a) \cup Range(b), Range(a) \cap Range(b) = {}
  PROVE  Total(s) = Total(a) + Total(b)
<1>1. CoverBytes["original"] \in Nat /\ CoverBytes["resized"] \in Nat BY CoverFacts
<1>2. \A key : /\ key \in Range(s) <=> key \in Range(a) \/ key \in Range(b)
               /\ ~(key \in Range(a) /\ key \in Range(b))
  BY Zenon
<1> QED BY <1>1, <1>2 DEF Total
LEMMA TotalAppend ==
  ASSUME NEW s \in Seq(CoverKeys), NEW key \in CoverKeys, key \notin Range(s)
  PROVE  /\ Append(s, key) \in Seq(CoverKeys) /\ Range(Append(s, key)) = Range(s) \cup {key}
         /\ Total(Append(s, key)) = Total(s) + CoverBytes[key]
         /\ IsInjective(s) => IsInjective(Append(s, key))
<1>1. /\ Append(s, key) \in Seq(CoverKeys) /\ DOMAIN Append(s, key) = 1 .. Len(s) + 1 /\ DOMAIN s = 1 .. Len(s)
      /\ Len(s) \in Nat
      /\ \A i \in 1 .. Len(s) : Append(s, key)[i] = s[i]
      /\ Append(s, key)[Len(s) + 1] = key
  BY AppendProperties, LenProperties
<1>2. Range(Append(s, key)) = Range(s) \cup {key}
  <2>1. 1 .. Len(s) + 1 = (1 .. Len(s)) \cup {Len(s) + 1} BY <1>1
  <2> QED BY <1>1, <2>1 DEF Range
<1>3. Total(Append(s, key)) = Total(s) + CoverBytes[key]
  <2>1. key = "original" \/ key = "resized" BY CoverFacts
  <2>2. CoverBytes["original"] \in Nat /\ CoverBytes["resized"] \in Nat BY CoverFacts
  <2>3. \A k : k \in Range(Append(s, key)) <=> k \in Range(s) \/ k = key BY <1>2
  <2> QED BY <2>1, <2>2, <2>3 DEF Total
<1>4. ASSUME IsInjective(s) PROVE IsInjective(Append(s, key))
  <2>1. \A i \in 1 .. Len(s) : s[i] # key BY <1>1 DEF Range
  <2> QED BY <1>1, <1>4, <2>1 DEF IsInjective
<1> QED BY <1>1, <1>2, <1>3, <1>4

(* A sequence without repetition, cut in two, or with one element taken out. *)
LEMMA CutFacts ==
  ASSUME NEW s \in Seq(CoverKeys), IsInjective(s), NEW n \in 0 .. Len(s)
  PROVE  LET a == SubSeq(s, 1, n)
             b == SubSeq(s, n + 1, Len(s))
         IN /\ a \in Seq(CoverKeys) /\ b \in Seq(CoverKeys) /\ IsInjective(b) /\ Len(b) = Len(s) - n
            /\ Range(s) = Range(a) \cup Range(b) /\ Range(a) \cap Range(b) = {}
<1> DEFINE a == SubSeq(s, 1, n)
           b == SubSeq(s, n + 1, Len(s))
<1>1. Len(s) \in Nat /\ n \in Nat /\ n <= Len(s) /\ DOMAIN s = 1 .. Len(s) BY LenProperties
<1>2. \A i \in 1 .. Len(s) : s[i] \in CoverKeys BY ElementOfSeq
<1>3. a = [i \in 1 .. n |-> s[i]] /\ b = [i \in 1 .. Len(s) - n |-> s[i + n]]
  BY <1>1, SubSeqProperties
<1> HIDE DEF a, b
<1>4. a \in Seq(CoverKeys) /\ b \in Seq(CoverKeys) /\ Len(b) = Len(s) - n
  <2>1. Len(s) - n \in Nat BY <1>1
  <2>2. a \in [1 .. n -> CoverKeys] BY <1>1, <1>2, <1>3
  <2>3. b \in [1 .. Len(s) - n -> CoverKeys]
    <3>1. \A i \in 1 .. Len(s) - n : s[i + n] \in CoverKeys BY <1>1, <1>2
    <3> QED BY <1>3, <3>1
  <2>4. a \in Seq(CoverKeys) BY <1>1, <2>2, IsASeq
  <2>5. b \in Seq(CoverKeys) BY <2>1, <2>3, IsASeq
  <2>6. DOMAIN b = 1 .. Len(b) /\ Len(b) \in Nat BY <2>5, LenProperties
  <2> QED BY <1>3, <2>1, <2>4, <2>5, <2>6
<1>5. \A i \in 1 .. Len(s) - n : i + n \in 1 .. Len(s) BY <1>1
<1>6. IsInjective(b)
  <2> SUFFICES ASSUME NEW i \in 1 .. Len(s) - n, NEW j \in 1 .. Len(s) - n, b[i] = b[j] PROVE i = j
    BY <1>3 DEF IsInjective
  <2>1. s[i + n] = s[j + n] BY <1>3
  <2>2. i + n = j + n BY <1>1, <1>5, <2>1 DEF IsInjective
  <2> QED BY <1>1, <2>2
<1>7. Range(a) \cap Range(b) = {} BY <1>1, <1>3, <1>5 DEF IsInjective, Range
<1>8. Range(s) = Range(a) \cup Range(b)
  <2>1. Range(a) \subseteq Range(s) /\ Range(b) \subseteq Range(s) BY <1>1, <1>3, <1>5 DEF Range
  <2>2. ASSUME NEW i \in 1 .. Len(s) PROVE s[i] \in Range(a) \cup Range(b)
    <3>1. CASE i <= n
      <4>1. i \in 1 .. n /\ a[i] = s[i] BY <1>1, <1>3, <3>1
      <4> QED BY <1>3, <4>1 DEF Range
    <3>2. CASE i > n
      <4>1. i - n \in 1 .. Len(s) - n /\ (i - n) + n = i BY <1>1, <3>2
      <4>2. b[i - n] = s[i] BY <1>3, <4>1
      <4> QED BY <1>3, <4>1, <4>2 DEF Range
    <3> QED BY <1>1, <3>1, <3>2
  <2> QED BY <1>1, <2>1, <2>2 DEF Range
<1> QED BY <1>4, <1>6, <1>7, <1>8 DEF a, b

LEMMA RemoveFacts ==
  ASSUME NEW s \in Seq(CoverKeys), IsInjective(s), NEW i \in 1 .. Len(s)
  PROVE  /\ RemoveAt(s, i) \in Seq(CoverKeys) /\ IsInjective(RemoveAt(s, i)) /\ Len(RemoveAt(s, i)) = Len(s) - 1
         /\ Range(RemoveAt(s, i)) = Range(s) \ {s[i]}
         /\ Total(RemoveAt(s, i)) = Total(s) - CoverBytes[s[i]]
<1> DEFINE r == RemoveAt(s, i)
<1>1. Len(s) \in Nat /\ i \in Nat /\ i >= 1 /\ i <= Len(s) /\ DOMAIN s = 1 .. Len(s) BY LenProperties
<1>2. \A j \in 1 .. Len(s) : s[j] \in CoverKeys BY ElementOfSeq
<1>3. r = [j \in 1 .. Len(s) - 1 |-> IF j < i THEN s[j] ELSE s[j + 1]]
  <2> DEFINE a == SubSeq(s, 1, i - 1)
             b == SubSeq(s, i + 1, Len(s))
             ab == a \o b
  <2>1. 1 \in Int /\ i - 1 \in Int /\ i + 1 \in Int /\ Len(s) \in Int BY <1>1
  <2>2. a = [j \in 1 .. i - 1 |-> s[j]] /\ b = [j \in 1 .. Len(s) - i |-> s[j + i]]
    BY <1>1, <2>1, SubSeqProperties
  <2>3. a \in Seq(CoverKeys) /\ b \in Seq(CoverKeys)
    <3>1. (\A j \in 1 .. i - 1 : s[j] \in CoverKeys) /\ (\A j \in i + 1 .. Len(s) : s[j] \in CoverKeys) BY <1>1, <1>2
    <3>2. a \in Seq(CoverKeys) BY <2>1, <3>1, SubSeqProperties
    <3>3. b \in Seq(CoverKeys) BY <2>1, <3>1, SubSeqProperties
    <3> QED BY <3>2, <3>3
  <2>4. r = ab BY DEF RemoveAt
  <2> HIDE DEF a, b
  <2>5. Len(a) = i - 1 /\ Len(b) = Len(s) - i
    <3>1. DOMAIN a = 1 .. i - 1 /\ DOMAIN b = 1 .. Len(s) - i BY <2>2
    <3>2. Len(a) \in Nat /\ DOMAIN a = 1 .. Len(a) /\ Len(b) \in Nat /\ DOMAIN b = 1 .. Len(b) BY <2>3, LenProperties
    <3>3. i - 1 \in Nat /\ Len(s) - i \in Nat BY <1>1
    <3>4. Len(a) = i - 1 BY <3>1, <3>2, <3>3
    <3>5. Len(b) = Len(s) - i BY <3>1, <3>2, <3>3
    <3> QED BY <3>4, <3>5
  <2>6. /\ ab \in Seq(CoverKeys) /\ Len(ab) = Len(a) + Len(b)
        /\ \A j \in 1 .. Len(a) + Len(b) : ab[j] = IF j <= Len(a) THEN a[j] ELSE b[j - Len(a)]
    BY <2>3, ConcatProperties
  <2> HIDE DEF ab
  <2>7. Len(a) + Len(b) = Len(s) - 1 BY <1>1, <2>5
  <2>8. \A j \in 1 .. Len(s) - 1 : ab[j] = IF j < i THEN s[j] ELSE s[j + 1]
    <3> SUFFICES ASSUME NEW j \in 1 .. Len(s) - 1 PROVE ab[j] = IF j < i THEN s[j] ELSE s[j + 1] OBVIOUS
    <3>0. ab[j] = IF j <= i - 1 THEN a[j] ELSE b[j - (i - 1)]
      <4>1. j \in 1 .. Len(a) + Len(b) BY <2>7
      <4>2. ab[j] = IF j <= Len(a) THEN a[j] ELSE b[j - Len(a)] BY <2>6, <4>1
      <4> QED BY <2>5, <4>2
    <3>1. CASE j < i
      <4>1. j <= i - 1 /\ j \in 1 .. i - 1 BY <1>1, <3>1
      <4>2. ab[j] = a[j] BY <3>0, <4>1
      <4> QED BY <2>2, <3>1, <4>1, <4>2
    <3>2. CASE ~(j < i)
      <4>1. j - (i - 1) \in 1 .. Len(s) - i /\ (j - (i - 1)) + i = j + 1 /\ ~(j <= i - 1) BY <1>1, <3>2
      <4>2. ab[j] = b[j - (i - 1)] BY <3>0, <4>1
      <4>3. b[j - (i - 1)] = s[(j - (i - 1)) + i] BY <2>2, <4>1
      <4> QED BY <3>2, <4>1, <4>2, <4>3
    <3> QED BY <3>1, <3>2
  <2>9. ab = [j \in 1 .. Len(s) - 1 |-> ab[j]]
    <3>1. DOMAIN ab = 1 .. Len(ab) BY <2>6, LenProperties
    <3>2. ab \in [1 .. Len(ab) -> CoverKeys] BY <2>6, LenProperties
    <3> QED BY <2>6, <2>7, <3>2
  <2>10. r = [j \in 1 .. Len(s) - 1 |-> ab[j]] BY <2>4, <2>9
  <2> QED BY <2>8, <2>10
<1> HIDE DEF r
<1>4. r \in Seq(CoverKeys) /\ Len(r) = Len(s) - 1
  <2>1. Len(s) - 1 \in Nat BY <1>1
  <2>2. \A j \in 1 .. Len(s) - 1 : j \in 1 .. Len(s) /\ j + 1 \in 1 .. Len(s) BY <1>1
  <2>3. r \in [1 .. Len(s) - 1 -> CoverKeys] BY <1>2, <1>3, <2>2
  <2>4. r \in Seq(CoverKeys) BY <2>1, <2>3, IsASeq
  <2>5. DOMAIN r = 1 .. Len(r) /\ Len(r) \in Nat BY <2>4, LenProperties
  <2> QED BY <1>3, <2>1, <2>4, <2>5
<1> DEFINE At(j) == IF j < i THEN j ELSE j + 1
<1>5. \A j \in 1 .. Len(s) - 1 : At(j) \in 1 .. Len(s) /\ At(j) # i /\ r[j] = s[At(j)] BY <1>1, <1>3
<1>6. \A j, k \in 1 .. Len(s) - 1 : At(j) = At(k) => j = k BY <1>1
<1>7. \A j \in 1 .. Len(s) : j # i => \E k \in 1 .. Len(s) - 1 : At(k) = j
  <2> SUFFICES ASSUME NEW j \in 1 .. Len(s), j # i PROVE \E k \in 1 .. Len(s) - 1 : At(k) = j OBVIOUS
  <2>1. CASE j < i BY <1>1, <2>1
  <2>2. CASE j > i
    <3>1. j - 1 \in 1 .. Len(s) - 1 /\ At(j - 1) = j BY <1>1, <2>2
    <3> QED BY <3>1
  <2> QED BY <1>1, <2>1, <2>2
<1> HIDE DEF At
<1>8. IsInjective(r)
  <2> SUFFICES ASSUME NEW j \in 1 .. Len(s) - 1, NEW k \in 1 .. Len(s) - 1, r[j] = r[k] PROVE j = k
    BY <1>3 DEF IsInjective
  <2> QED BY <1>1, <1>5, <1>6 DEF IsInjective
<1>9. Range(r) = Range(s) \ {s[i]}
  <2>1. \A j \in 1 .. Len(s) - 1 : r[j] \in Range(s) /\ r[j] # s[i] BY <1>1, <1>5 DEF IsInjective, Range
  <2>2. ASSUME NEW j \in 1 .. Len(s), s[j] # s[i] PROVE s[j] \in Range(r)
    <3>1. PICK k \in 1 .. Len(s) - 1 : At(k) = j BY <1>7, <2>2
    <3>2. r[k] = s[j] BY <1>5, <3>1
    <3> QED BY <1>3, <3>2 DEF Range
  <2>3. DOMAIN r = 1 .. Len(s) - 1 BY <1>3
  <2> QED BY <1>1, <2>1, <2>2, <2>3 DEF Range
<1>10. Total(r) = Total(s) - CoverBytes[s[i]]
  <2>1. s[i] \in CoverKeys /\ s[i] \in Range(s) BY <1>1, <1>2 DEF Range
  <2>2. s[i] = "original" \/ s[i] = "resized" BY <2>1, CoverFacts
  <2>3. \A k : k \in Range(r) <=> k \in Range(s) /\ k # s[i] BY <1>9
  <2>4. CoverBytes["original"] \in Nat /\ CoverBytes["resized"] \in Nat BY CoverFacts
  <2> QED BY <2>1, <2>2, <2>3, <2>4 DEF Total
<1> QED BY <1>4, <1>8, <1>9, <1>10 DEF r

LEMMA PositionFacts ==
  ASSUME CoverTyped, NEW key \in CoverKeys
  PROVE  /\ Position(key) = 0 => key \notin Range(covers)
         /\ Position(key) # 0 => Position(key) \in 1 .. Len(covers) /\ covers[Position(key)] = key
<1>1. Len(covers) \in Nat /\ DOMAIN covers = 1 .. Len(covers) BY LenProperties DEF CoverTyped
<1> DEFINE Is(i) == IF key \in Range(covers) THEN i > 0 /\ covers[i] = key ELSE i = 0
<1>2. \E i \in 0 .. Len(covers) : Is(i)
  <2>1. CASE key \in Range(covers)
    <3>1. PICK i \in 1 .. Len(covers) : covers[i] = key BY <1>1, <2>1 DEF Range
    <3> QED BY <1>1, <2>1, <3>1
  <2>2. CASE key \notin Range(covers) BY <1>1, <2>2
  <2> QED BY <2>1, <2>2
<1>3. Position(key) \in 0 .. Len(covers) /\ Is(Position(key)) BY <1>2 DEF Position
<1> QED BY <1>1, <1>3

(* The evictions that make room for the entry just taken in.                *)
LEMMA EvictionFacts ==
  ASSUME NEW s \in Seq(CoverKeys), IsInjective(s)
  PROVE  LET n == Evictions(s, Total(s))
         IN n \in 0 .. Len(s) /\ Total(s) - Total(SubSeq(s, 1, n)) <= MaxCoverBytes
<1> DEFINE Fits(n) == Total(s) - Total(SubSeq(s, 1, n)) <= MaxCoverBytes
           T == {n \in 0 .. Len(s) : Fits(n)}
           n == Evictions(s, Total(s))
<1>1. Len(s) \in Nat BY LenProperties
<1>2. Fits(Len(s))
  <2>1. SubSeq(s, 1, Len(s)) = s BY SubSeqFull
  <2>2. Total(s) \in Nat BY TotalFacts
  <2>3. Total(s) - Total(s) <= MaxCoverBytes BY <2>2, CoverFacts
  <2>4. Total(s) - Total(SubSeq(s, 1, Len(s))) <= MaxCoverBytes BY <2>1, <2>3
  <2> QED BY <2>4
<1>3. T \subseteq Nat /\ T # {} BY <1>1, <1>2
<1> HIDE DEF Fits
<1>4. PICK m \in T : \A k \in T : m <= k BY <1>3, LeastNat
<1>5. \E k \in 0 .. Len(s) : Fits(k) /\ \A j \in 0 .. k - 1 : ~Fits(j)
  <2>1. m \in 0 .. Len(s) /\ Fits(m) BY <1>4
  <2>2. \A j \in 0 .. m - 1 : j \in 0 .. Len(s) /\ j < m BY <1>1, <2>1
  <2> QED BY <1>1, <1>4, <2>1, <2>2
<1>6. \A j \in 0 .. Len(s) : Total(SubSeq(s, 1, j)) \in Nat
  BY CutFacts, TotalFacts
<1>7. \A k \in 0 .. Len(s) : (\A j \in 0 .. k - 1 : ~Fits(j)) <=>
        (\A j \in 0 .. k - 1 : Total(s) - Total(SubSeq(s, 1, j)) > MaxCoverBytes)
  <2>1. \A k \in 0 .. Len(s) : \A j \in 0 .. k - 1 : j \in 0 .. Len(s) BY <1>1
  <2>2. \A j \in 0 .. Len(s) : ~Fits(j) <=> Total(s) - Total(SubSeq(s, 1, j)) > MaxCoverBytes
    BY <1>6, TotalFacts, CoverFacts DEF Fits
  <2> QED BY <2>1, <2>2
<1>8. \E k \in 0 .. Len(s) : /\ Total(s) - Total(SubSeq(s, 1, k)) <= MaxCoverBytes
                             /\ \A j \in 0 .. k - 1 : Total(s) - Total(SubSeq(s, 1, j)) > MaxCoverBytes
  BY <1>5, <1>7 DEF Fits
<1> QED BY <1>8 DEF Evictions

(* cached() returns: to its caller, or to the leader of the resized cover.  *)
LEMMA ReturnedSound ==
  ASSUME NEW c \in CoverCallers, CoverTyped, NEW result \in {"ok", "error", "cancelled"},
         NEW record \in Returned(c, result), NEW flights, NEW outcomes,
         CallSound(c, cover[c], coverFlights, coverOutcome),
         result = "cancelled" => cover[c].stopped,
         \A key \in CoverKeys : <<c, key>> \in flights <=> <<c, key>> \in coverFlights /\ key # cover[c].at
  PROVE  record \in Calls /\ CallSound(c, record, flights, outcomes)
<1>1. cover[c] \in Calls BY DEF CoverTyped
<1>2. CoverKeys = {"original", "resized"} BY CoverFacts
<1>3. CASE cover[c].at = cover[c].want
  <2>1. record = [cover[c] EXCEPT !.pc = "done", !.result = result] BY <1>3 DEF Returned
  <2>2. record \in Calls BY <1>1, <2>1 DEF Calls
  <2>3. record.pc = "done" /\ record.result = result /\ record.at = record.want /\ record.at = cover[c].at
        /\ record.stopped = cover[c].stopped /\ record.noticed = cover[c].noticed
    BY <1>1, <1>3, <2>1 DEF Calls
  <2>4. ASSUME NEW key \in CoverKeys, <<c, key>> \in flights PROVE FALSE
    BY <1>3, <2>4 DEF CallSound
  <2> QED BY <2>2, <2>3, <2>4 DEF CallSound
<1>4. CASE cover[c].at # cover[c].want
  <2>1. PICK r \in {"ok", "error", "cancelled"} :
          /\ r = "cancelled" => result = "cancelled"
          /\ record = [cover[c] EXCEPT !.pc = "check", !.at = "resized", !.result = r]
    BY <1>4 DEF Returned
  <2>2. record \in Calls BY <1>1, <1>2, <2>1 DEF Calls
  <2>3. record.pc = "check" /\ record.result = r /\ record.at = "resized" /\ record.want = cover[c].want
        /\ record.stopped = cover[c].stopped /\ record.noticed = cover[c].noticed
    BY <1>1, <2>1 DEF Calls
  <2>4. cover[c].want = "resized" /\ cover[c].at = "original" /\ <<c, "resized">> \in coverFlights
    BY <1>1, <1>2, <1>4 DEF CallSound, Calls
  <2>5. <<c, "resized">> \in flights BY <1>2, <2>4
  <2>6. \A key \in CoverKeys : <<c, key>> \in flights => key = "resized" BY <1>2, <2>4
  <2> QED BY <2>1, <2>2, <2>3, <2>4, <2>5, <2>6 DEF CallSound
<1> QED BY <1>3, <1>4

(* One caller moves; the others keep their flights.                         *)
LEMMA MoveSound ==
  ASSUME NEW c \in CoverCallers, CoverTyped, CallsSound, NEW record \in Calls, Move(c, record),
         CallSound(c, record, coverFlights', coverOutcome'),
         \A d \in CoverCallers \ {c}, key \in CoverKeys : <<d, key>> \in coverFlights' <=> <<d, key>> \in coverFlights,
         \A f \in CoverFlights : coverOutcome'[f] = "pending" /\ (coverOutcome[f] = "pending" => f \in coverFlights)
                                   => f \in coverFlights'
  PROVE  cover' \in [CoverCallers -> Calls] /\ CallsSound'
<1>1. cover \in [CoverCallers -> Calls] /\ cover' = [cover EXCEPT ![c] = record] BY DEF CoverTyped, Move
<1>2. cover' \in [CoverCallers -> Calls] /\ cover'[c] = record /\ \A d \in CoverCallers \ {c} : cover'[d] = cover[d]
  BY <1>1
<1>3. ASSUME NEW d \in CoverCallers \ {c} PROVE CallSound(d, cover[d], coverFlights', coverOutcome')
  <2>1. CallSound(d, cover[d], coverFlights, coverOutcome) /\ cover[d] \in Calls BY <1>1 DEF CallsSound
  <2>2. cover[d].flight \in CoverFlights /\ cover[d].at \in CoverKeys /\ "resized" \in CoverKeys
    BY <2>1, CoverFacts DEF Calls
  <2>3. cover[d].pc = "wait" /\ coverOutcome'[cover[d].flight] = "pending" => cover[d].flight \in coverFlights'
    BY <2>1, <2>2 DEF CallSound
  <2>4. \A key \in CoverKeys : <<d, key>> \in coverFlights' <=> <<d, key>> \in coverFlights BY <1>3
  <2> QED BY <2>1, <2>2, <2>3, <2>4 DEF CallSound
<1>4. \A d \in CoverCallers : CallSound(d, cover'[d], coverFlights', coverOutcome')
  BY <1>2, <1>3
<1> QED BY <1>2, <1>4 DEF CallsSound

(* A move that leaves the cache and the flights alone.                      *)
LEMMA QuietMove ==
  ASSUME NEW c \in CoverCallers, CoverIInv, NEW record \in Calls, Move(c, record),
         CallSound(c, record, coverFlights, coverOutcome),
         UNCHANGED <<covers, expired, coverBytes, coverFlights, coverOutcome>>
  PROVE  CoverIInv'
<1>1. CallSound(c, record, coverFlights', coverOutcome') OBVIOUS
<1>2. cover' \in [CoverCallers -> Calls] /\ CallsSound'
  BY <1>1, MoveSound DEF CoverIInv
<1>3. CoverTyped' BY <1>2 DEF CoverIInv, CoverTyped
<1>4. CoversCounted' BY DEF CoverIInv, CoversCounted, Total
<1>5. FlightsSound' BY DEF CoverIInv, FlightsSound
<1> QED BY <1>2, <1>3, <1>4, <1>5 DEF CoverIInv
LEMMA QuietReturn ==
  ASSUME NEW c \in CoverCallers, CoverIInv, NEW result \in {"ok", "error", "cancelled"}, ReturnsCover(c, result),
         cover[c].pc \notin {"fetch", "check", "settle"},
         result = "cancelled" => cover[c].stopped,
         UNCHANGED <<covers, expired, coverBytes, coverFlights, coverOutcome>>
  PROVE  CoverIInv'
<1>1. PICK record \in Returned(c, result) : Move(c, record) BY DEF ReturnsCover
<1>2. CallSound(c, cover[c], coverFlights, coverOutcome) BY DEF CoverIInv, CallsSound
<1>3. \A key \in CoverKeys : <<c, key>> \in coverFlights => key # cover[c].at
  BY <1>2 DEF CallSound
<1>4. CoverTyped BY DEF CoverIInv
<1>5. record \in Calls /\ CallSound(c, record, coverFlights, coverOutcome)
  BY <1>2, <1>3, <1>4, ReturnedSound
<1> QED BY <1>1, <1>5, QuietMove

LEMMA CoversStart ==
  ASSUME NEW c \in CoverCallers, CoverIInv,
         \/ \E key \in CoverKeys : StartCover(c, key)
         \/ StopCover(c) \/ FetchCover(c) \/ CheckCover(c)
  PROVE  CoverIInv'
<1>1. cover[c] \in Calls /\ CallSound(c, cover[c], coverFlights, coverOutcome)
  BY DEF CoverIInv, CoverTyped, CallsSound
<1>2. CoverKeys = {"original", "resized"} BY CoverFacts
<1>3. ASSUME NEW key \in CoverKeys, StartCover(c, key) PROVE CoverIInv'
  <2> DEFINE r == [cover[c] EXCEPT !.pc = "enter", !.want = key, !.at = key]
  <2>1. r \in Calls BY <1>1 DEF Calls
  <2>2. cover[c].pc = "idle" BY <1>3 DEF StartCover, Does
  <2>3. \A k \in CoverKeys : <<c, k>> \notin coverFlights BY <1>1, <2>2 DEF CallSound
  <2>4. r.pc = "enter" /\ r.at = key /\ r.want = key /\ r.result = cover[c].result /\ r.stopped = cover[c].stopped
        /\ r.noticed = cover[c].noticed BY <1>1 DEF Calls
  <2>5. CallSound(c, r, coverFlights, coverOutcome) BY <1>1, <2>3, <2>4 DEF CallSound
  <2> QED BY <1>3, <2>1, <2>5, QuietMove DEF StartCover
<1>4. ASSUME StopCover(c) PROVE CoverIInv'
  <2> DEFINE r == [cover[c] EXCEPT !.stopped = TRUE]
  <2>1. r \in Calls BY <1>1 DEF Calls
  <2>2. r.pc = cover[c].pc /\ r.at = cover[c].at /\ r.want = cover[c].want /\ r.result = cover[c].result /\ r.stopped
        /\ r.noticed = cover[c].noticed /\ r.flight = cover[c].flight BY <1>1 DEF Calls
  <2>3. CallSound(c, r, coverFlights, coverOutcome) BY <1>1, <2>2 DEF CallSound
  <2> QED BY <1>4, <2>1, <2>3, QuietMove DEF StopCover
<1>5. ASSUME CheckCover(c) PROVE CoverIInv'
  <2> DEFINE r == [cover[c] EXCEPT !.pc = "settle", !.noticed = cover[c].stopped]
  <2>1. r \in Calls BY <1>1 DEF Calls
  <2>2. r.pc = "settle" /\ r.at = cover[c].at /\ r.want = cover[c].want /\ r.result = cover[c].result
        /\ r.stopped = cover[c].stopped /\ r.noticed = cover[c].stopped BY <1>1 DEF Calls
  <2>3. cover[c].pc = "check" BY <1>5 DEF CheckCover, Does
  <2>4. CallSound(c, r, coverFlights, coverOutcome) BY <1>1, <2>2, <2>3 DEF CallSound
  <2> QED BY <1>5, <2>1, <2>4, QuietMove DEF CheckCover
<1>6. ASSUME FetchCover(c) PROVE CoverIInv'
  <2>1. cover[c].pc = "fetch" BY <1>6 DEF FetchCover, Does
  <2>2. CASE cover[c].at = "resized"
    <3> DEFINE r == [cover[c] EXCEPT !.pc = "enter", !.at = "original"]
    <3>1. r \in Calls BY <1>1, <1>2 DEF Calls
    <3>2. r.pc = "enter" /\ r.at = "original" /\ r.want = cover[c].want /\ r.result = cover[c].result
          /\ r.stopped = cover[c].stopped /\ r.noticed = cover[c].noticed BY <1>1 DEF Calls
    <3>3. cover[c].want = "resized" /\ <<c, "resized">> \in coverFlights BY <1>1, <2>1, <2>2 DEF CallSound
    <3>4. <<c, "original">> \notin coverFlights BY <1>1, <1>2, <2>2, <3>3 DEF CallSound
    <3>5. CallSound(c, r, coverFlights, coverOutcome) BY <1>1, <1>2, <3>2, <3>3, <3>4 DEF CallSound
    <3>6. Move(c, r) /\ UNCHANGED <<covers, expired, coverBytes, coverFlights, coverOutcome>>
      BY <1>6, <2>2 DEF FetchCover
    <3> QED BY <3>1, <3>5, <3>6, QuietMove
  <2>3. CASE cover[c].at # "resized"
    <3>1. PICK result \in {"ok", "error", "cancelled"} :
            /\ result = "cancelled" => cover[c].stopped
            /\ Move(c, [cover[c] EXCEPT !.pc = "check", !.result = result])
      BY <1>6, <2>3 DEF FetchCover
    <3> DEFINE r == [cover[c] EXCEPT !.pc = "check", !.result = result]
    <3>2. r \in Calls BY <1>1 DEF Calls
    <3>3. r.pc = "check" /\ r.at = cover[c].at /\ r.want = cover[c].want /\ r.result = result
          /\ r.stopped = cover[c].stopped /\ r.noticed = cover[c].noticed BY <1>1 DEF Calls
    <3>4. CallSound(c, r, coverFlights, coverOutcome) BY <1>1, <2>1, <3>1, <3>3 DEF CallSound
    <3>5. UNCHANGED <<covers, expired, coverBytes, coverFlights, coverOutcome>> BY <1>6 DEF FetchCover
    <3> QED BY <3>1, <3>2, <3>4, <3>5, QuietMove
  <2> QED BY <2>2, <2>3
<1> QED BY <1>3, <1>4, <1>5, <1>6

LEMMA CoversFollow ==
  ASSUME NEW c \in CoverCallers, CoverIInv, FollowCover(c)
  PROVE  CoverIInv'
<1>1. cover[c] \in Calls /\ CallSound(c, cover[c], coverFlights, coverOutcome)
  BY DEF CoverIInv, CoverTyped, CallsSound
<1>2. coverOutcome[cover[c].flight] \in Outcomes BY <1>1 DEF CoverIInv, CoverTyped, Calls
<1>3. cover[c].pc = "wait" /\ UNCHANGED <<covers, expired, coverBytes, coverFlights, coverOutcome>>
  BY DEF FollowCover, Does
<1> DEFINE outcome == coverOutcome[cover[c].flight]
<1>4. CASE cover[c].stopped /\ ReturnsCover(c, "cancelled")
  BY <1>3, <1>4, QuietReturn
<1>5. CASE Move(c, [cover[c] EXCEPT !.pc = "enter"])
  <2> DEFINE r == [cover[c] EXCEPT !.pc = "enter"]
  <2>1. r \in Calls BY <1>1 DEF Calls
  <2>2. r.pc = "enter" /\ r.at = cover[c].at /\ r.want = cover[c].want /\ r.result = cover[c].result
        /\ r.stopped = cover[c].stopped /\ r.noticed = cover[c].noticed BY <1>1 DEF Calls
  <2>3. CallSound(c, r, coverFlights, coverOutcome) BY <1>1, <1>3, <2>2 DEF CallSound
  <2> QED BY <1>3, <1>5, <2>1, <2>3, QuietMove
<1>6. CASE outcome \notin {"retry", "pending"} /\ ReturnsCover(c, outcome)
  <2>1. outcome \in {"ok", "error"} BY <1>2, <1>6 DEF Outcomes
  <2> QED BY <1>3, <1>6, <2>1, QuietReturn
<1> QED BY <1>4, <1>5, <1>6 DEF FollowCover

LEMMA CoversExpire ==
  ASSUME CoverIInv, ExpireCover \/ ClearCovers
  PROVE  CoverIInv'
<1>1. Len(covers) \in Nat BY LenProperties DEF CoverIInv, CoverTyped
<1>2. UNCHANGED <<coverFlights, coverOutcome, cover>> BY DEF ExpireCover, ClearCovers
<1>3. CallsSound' BY <1>2 DEF CoverIInv, CallsSound
<1>4. CASE ExpireCover
  <2>1. CoverTyped' BY <1>1, <1>4 DEF CoverIInv, CoverTyped, ExpireCover
  <2>2. CoversCounted' BY <1>4 DEF CoverIInv, CoversCounted, ExpireCover, Total
  <2>3. FlightsSound' BY <1>4 DEF CoverIInv, FlightsSound, ExpireCover
  <2> QED BY <1>3, <2>1, <2>2, <2>3 DEF CoverIInv
<1>5. CASE ClearCovers
  <2>1. covers' = <<>> /\ expired' = 0 /\ coverBytes' = 0 BY <1>5 DEF ClearCovers
  <2>2. <<>> \in Seq(CoverKeys) /\ Len(<<>>) = 0 /\ Range(<<>>) = {} /\ IsInjective(<<>>)
    BY DEF Range, IsInjective
  <2>3. Total(covers') = 0 BY <2>1, <2>2, TotalFacts
  <2>4. CoverTyped' BY <1>2, <2>1, <2>2 DEF CoverIInv, CoverTyped
  <2>5. Total(covers)' = Total(covers') BY DEF Total
  <2>6. CoversCounted' BY <2>1, <2>2, <2>3, <2>5, CoverFacts DEF CoversCounted
  <2>7. FlightsSound' BY <1>2, <2>1, <2>2 DEF CoverIInv, FlightsSound
  <2> QED BY <1>3, <2>4, <2>6, <2>7 DEF CoverIInv
<1> QED BY <1>4, <1>5

LEMMA CoversEnter ==
  ASSUME NEW c \in CoverCallers, CoverIInv, EnterCover(c)
  PROVE  CoverIInv'
<1> DEFINE key == cover[c].at
           at  == Position(key)
           led == {f \in coverFlights : f[2] = key}
<1>1. cover[c] \in Calls /\ key \in CoverKeys /\ CallSound(c, cover[c], coverFlights, coverOutcome)
  BY DEF CoverIInv, CoverTyped, CallsSound, Calls
<1>2. cover[c].pc = "enter" BY DEF EnterCover, Does
<1>3. CASE cover[c].stopped /\ ReturnsCover(c, "cancelled")
           /\ UNCHANGED <<covers, expired, coverBytes, coverFlights, coverOutcome>>
  BY <1>2, <1>3, QuietReturn
<1>4. CASE ReturnsCover(c, "ok") /\ UNCHANGED <<covers, expired, coverBytes, coverFlights, coverOutcome>>
  BY <1>2, <1>4, QuietReturn
<1> DEFINE Took == IF at = 0 THEN UNCHANGED <<covers, expired, coverBytes>>
                   ELSE covers' = RemoveAt(covers, at) /\ expired' = expired - 1 /\ coverBytes' = BytesAfter(key)
           Waits == /\ Move(c, [cover[c] EXCEPT !.pc = "wait", !.flight = CHOOSE f \in led : TRUE])
                    /\ UNCHANGED <<coverFlights, coverOutcome>>
           Leads == /\ coverFlights' = coverFlights \cup {<<c, key>>}
                    /\ coverOutcome' = [coverOutcome EXCEPT ![<<c, key>>] = "pending"]
                    /\ Move(c, [cover[c] EXCEPT !.pc = "fetch"])
<1>5. CASE at <= expired /\ Took /\ (IF led # {} THEN Waits ELSE Leads)
  <2>1. Len(covers) \in Nat /\ covers \in Seq(CoverKeys) /\ expired \in 0 .. Len(covers) /\ IsInjective(covers)
        /\ coverBytes = Total(covers) /\ coverBytes <= MaxCoverBytes /\ Total(covers) \in Nat
    BY LenProperties, TotalFacts DEF CoverIInv, CoverTyped, CoversCounted
  <2>2. /\ at = 0 => key \notin Range(covers)
        /\ at # 0 => at \in 1 .. Len(covers) /\ covers[at] = key
    BY <1>1, PositionFacts DEF CoverIInv
  <2>3. /\ covers' \in Seq(CoverKeys) /\ expired' \in 0 .. Len(covers') /\ coverBytes' \in Nat
        /\ coverBytes' = Total(covers') /\ coverBytes' <= MaxCoverBytes /\ IsInjective(covers')
        /\ Range(covers') \subseteq Range(covers) \ {key}
    <3>1. CASE at = 0
      <4>1. UNCHANGED <<covers, expired, coverBytes>> BY <1>5, <3>1
      <4> QED BY <2>1, <2>2, <3>1, <4>1
    <3>2. CASE at # 0
      <4> DEFINE i == at
                 r == RemoveAt(covers, i)
      <4>1. i \in 1 .. Len(covers) /\ covers[i] = key /\ i <= expired BY <1>5, <2>2, <3>2
      <4>2. covers' = r /\ expired' = expired - 1 /\ coverBytes' = coverBytes - CoverBytes[key]
        BY <1>5, <3>2 DEF BytesAfter
      <4> HIDE DEF i
      <4>3. /\ r \in Seq(CoverKeys) /\ IsInjective(r) /\ Len(r) = Len(covers) - 1
            /\ Range(r) = Range(covers) \ {covers[i]} /\ Total(r) = Total(covers) - CoverBytes[covers[i]]
        BY <2>1, <4>1, RemoveFacts
      <4> HIDE DEF r
      <4>4. Total(r) \in Nat /\ CoverBytes[key] \in Nat BY <1>1, <4>3, TotalFacts, CoverFacts
      <4>5. coverBytes' = Total(r) /\ Total(r) <= MaxCoverBytes
        BY <2>1, <4>1, <4>2, <4>3, <4>4, CoverFacts, SMTT(30)
      <4>6. expired' \in 0 .. Len(r) BY <2>1, <4>1, <4>2, <4>3
      <4> QED BY <4>1, <4>2, <4>3, <4>4, <4>5, <4>6
    <3> QED BY <3>1, <3>2
  <2>4. CoversCounted'
    <3>1. Total(covers)' = Total(covers') BY DEF Total
    <3> QED BY <2>3, <3>1 DEF CoversCounted
  <2> HIDE DEF at, Took
  <2>5. CASE led # {} /\ Waits
    <3> DEFINE g == CHOOSE f \in led : TRUE
               r == [cover[c] EXCEPT !.pc = "wait", !.flight = g]
    <3>1. g \in coverFlights /\ g \in CoverFlights BY <2>5 DEF CoverIInv, CoverTyped
    <3> HIDE DEF g
    <3>2. r \in Calls BY <1>1, <3>1 DEF Calls
    <3>3. r.pc = "wait" /\ r.at = key /\ r.want = cover[c].want /\ r.result = cover[c].result
          /\ r.stopped = cover[c].stopped /\ r.noticed = cover[c].noticed /\ r.flight = g BY <1>1 DEF Calls
    <3>4. CallSound(c, r, coverFlights, coverOutcome) BY <1>1, <1>2, <3>1, <3>3 DEF CallSound
    <3>5. Move(c, r) /\ UNCHANGED <<coverFlights, coverOutcome>> BY <2>5 DEF g
    <3>6. CallSound(c, r, coverFlights', coverOutcome') BY <3>4, <3>5
    <3>7. CoverTyped /\ CallsSound BY DEF CoverIInv
    <3>8. cover' \in [CoverCallers -> Calls] /\ CallsSound' BY <3>2, <3>5, <3>6, <3>7, MoveSound
    <3>9. CoverTyped' BY <2>3, <3>5, <3>7, <3>8 DEF CoverTyped
    <3>10. FlightsSound' BY <2>3, <3>5 DEF CoverIInv, FlightsSound
    <3> QED BY <2>4, <3>8, <3>9, <3>10 DEF CoverIInv
  <2>6. CASE led = {} /\ Leads
    <3> DEFINE r == [cover[c] EXCEPT !.pc = "fetch"]
    <3>1. r \in Calls BY <1>1 DEF Calls
    <3>2. r.pc = "fetch" /\ r.at = key /\ r.want = cover[c].want /\ r.result = cover[c].result
          /\ r.stopped = cover[c].stopped /\ r.noticed = cover[c].noticed BY <1>1 DEF Calls
    <3>3. CoverTyped /\ CallsSound BY DEF CoverIInv
    <3>4. /\ coverFlights' = coverFlights \cup {<<c, key>>}
          /\ coverOutcome' = [coverOutcome EXCEPT ![<<c, key>>] = "pending"] /\ Move(c, r) BY <2>6
    <3>5. \A d \in CoverCallers, k \in CoverKeys : <<d, k>> \in coverFlights' <=> <<d, k>> \in coverFlights \/ (d = c /\ k = key)
      BY <3>4
    <3>6. CallSound(c, r, coverFlights', coverOutcome') BY <1>1, <1>2, <3>2, <3>5, CoverFacts DEF CallSound
    <3>7. \A f \in CoverFlights : coverOutcome'[f] = "pending" /\ (coverOutcome[f] = "pending" => f \in coverFlights)
                                    => f \in coverFlights' BY <3>3, <3>4 DEF CoverTyped
    <3>8. \A d \in CoverCallers \ {c}, k \in CoverKeys : <<d, k>> \in coverFlights' <=> <<d, k>> \in coverFlights
      BY <3>5
    <3> HIDE DEF r
    <3>9. cover' \in [CoverCallers -> Calls] /\ CallsSound' BY <3>1, <3>3, <3>4, <3>6, <3>7, <3>8, MoveSound
    <3>10. CoverTyped'
      <4>1. coverFlights' \subseteq CoverFlights BY <1>1, <3>3, <3>4 DEF CoverTyped, CoverFlights
      <4>2. coverOutcome' \in [CoverFlights -> Outcomes] BY <3>3, <3>4 DEF CoverTyped, Outcomes
      <4> QED BY <2>3, <3>9, <4>1, <4>2 DEF CoverTyped
    <3>11. FlightsSound'
      <4>1. \A f \in coverFlights : f[2] # key BY <2>6
      <4>2. <<c, key>>[2] = key OBVIOUS
      <4>3. \A f, g \in coverFlights' : f[2] = g[2] => f = g
        BY <3>4, <4>1, <4>2 DEF CoverIInv, FlightsSound
      <4>4. \A f \in coverFlights' : f[2] \notin Range(covers')
        BY <2>3, <3>4, <4>2 DEF CoverIInv, FlightsSound
      <4> QED BY <4>3, <4>4 DEF FlightsSound
    <3> QED BY <2>4, <3>9, <3>10, <3>11 DEF CoverIInv
  <2> QED BY <1>5, <2>5, <2>6
<1> QED BY <1>3, <1>4, <1>5 DEF EnterCover

LEMMA CoversSettle ==
  ASSUME NEW c \in CoverCallers, CoverIInv, SettleCover(c)
  PROVE  CoverIInv'
<1> DEFINE key == cover[c].at
           kept == ~cover[c].noticed /\ cover[c].result = "ok" /\ CoverBytes[key] <= MaxCoverBytes
           all == Append(covers, key)
           bytes == coverBytes + CoverBytes[key]
           gone == Evictions(all, bytes)
           ended == IF cover[c].noticed THEN "cancelled" ELSE cover[c].result
<1>1. cover[c] \in Calls /\ key \in CoverKeys /\ CallSound(c, cover[c], coverFlights, coverOutcome)
  BY DEF CoverIInv, CoverTyped, CallsSound, Calls
<1>2. cover[c].pc = "settle" /\ <<c, key>> \in coverFlights /\ cover[c].result # "none"
  BY <1>1 DEF SettleCover, Does, CallSound
<1>3. key \notin Range(covers)
  <2>1. <<c, key>>[2] = key OBVIOUS
  <2> QED BY <1>2, <2>1 DEF CoverIInv, FlightsSound
<1>4. /\ covers \in Seq(CoverKeys) /\ Len(covers) \in Nat /\ expired \in 0 .. Len(covers) /\ IsInjective(covers)
      /\ coverBytes = Total(covers) /\ coverBytes <= MaxCoverBytes /\ Total(covers) \in Nat
  BY LenProperties, TotalFacts DEF CoverIInv, CoverTyped, CoversCounted
<1>5. /\ covers' \in Seq(CoverKeys) /\ expired' \in 0 .. Len(covers') /\ coverBytes' = Total(covers')
      /\ coverBytes' \in Nat /\ coverBytes' <= MaxCoverBytes /\ IsInjective(covers')
      /\ Range(covers') \subseteq Range(covers) \cup {key}
  <2>1. CASE ~kept
    <3>1. UNCHANGED <<covers, expired, coverBytes>> BY <2>1 DEF SettleCover
    <3> QED BY <1>4, <3>1
  <2>2. CASE kept
    <3>1. /\ covers' = SubSeq(all, gone + 1, Len(all))
          /\ expired' = IF expired > gone THEN expired - gone ELSE 0
          /\ coverBytes' = bytes - Total(SubSeq(all, 1, gone))
      BY <2>2 DEF SettleCover
    <3>2. /\ all \in Seq(CoverKeys) /\ Range(all) = Range(covers) \cup {key}
          /\ Total(all) = Total(covers) + CoverBytes[key] /\ IsInjective(all)
      BY <1>1, <1>3, <1>4, TotalAppend
    <3>3. Len(all) = Len(covers) + 1 BY <1>1, <1>4, AppendProperties
    <3>4. bytes = Total(all) BY <1>4, <3>2
    <3> HIDE DEF all, bytes
    <3>5. gone \in 0 .. Len(all) /\ Total(all) - Total(SubSeq(all, 1, gone)) <= MaxCoverBytes
      BY <3>2, <3>4, EvictionFacts
    <3> HIDE DEF gone
    <3> DEFINE a == SubSeq(all, 1, gone)
               b == SubSeq(all, gone + 1, Len(all))
    <3>6. /\ a \in Seq(CoverKeys) /\ b \in Seq(CoverKeys) /\ IsInjective(b) /\ Len(b) = Len(all) - gone
          /\ Range(all) = Range(a) \cup Range(b) /\ Range(a) \cap Range(b) = {}
      BY <3>2, <3>5, CutFacts
    <3>7. covers' = b /\ coverBytes' = bytes - Total(a) /\ Total(all) - Total(a) <= MaxCoverBytes BY <3>1, <3>5
    <3> HIDE DEF a, b
    <3>8. Total(all) = Total(a) + Total(b) BY <3>2, <3>6, TotalSplit
    <3>9. Total(a) \in Nat /\ Total(b) \in Nat BY <3>6, TotalFacts
    <3>10. coverBytes' = Total(b) /\ Total(b) <= MaxCoverBytes BY <3>4, <3>7, <3>8, <3>9
    <3>11. expired' \in 0 .. Len(b) BY <1>4, <3>1, <3>3, <3>5, <3>6
    <3>12. Range(b) \subseteq Range(covers) \cup {key} BY <3>2, <3>6
    <3> QED BY <3>6, <3>7, <3>9, <3>10, <3>11, <3>12
  <2> QED BY <2>1, <2>2
<1>6. CoversCounted'
  <2>1. Total(covers)' = Total(covers') BY DEF Total
  <2> QED BY <1>5, <2>1 DEF CoversCounted
<1>7. /\ coverFlights' = coverFlights \ {<<c, key>>}
      /\ coverOutcome' = [coverOutcome EXCEPT ![<<c, key>>] = OutcomeOf(c)]
      /\ ReturnsCover(c, ended)
  BY DEF SettleCover
<1> HIDE DEF kept, all, bytes, gone
<1>8. OutcomeOf(c) \in {"ok", "error", "retry"}
  BY <1>1, <1>2 DEF OutcomeOf, CallSound, Calls
<1>9. ended \in {"ok", "error", "cancelled"} /\ (ended = "cancelled" => cover[c].stopped)
  BY <1>1, <1>2 DEF CallSound, Calls
<1>10. PICK record \in Returned(c, ended) : Move(c, record) BY <1>7 DEF ReturnsCover
<1> HIDE DEF ended
<1>11. CoverTyped /\ CallsSound BY DEF CoverIInv
<1>12. \A d \in CoverCallers, k \in CoverKeys : <<d, k>> \in coverFlights' <=> <<d, k>> \in coverFlights /\ ~(d = c /\ k = key)
  BY <1>7
<1>13. record \in Calls /\ CallSound(c, record, coverFlights', coverOutcome')
  <2>1. \A k \in CoverKeys : <<c, k>> \in coverFlights' <=> <<c, k>> \in coverFlights /\ k # cover[c].at BY <1>12
  <2> QED BY <1>1, <1>9, <1>10, <1>11, <2>1, ReturnedSound
<1>14. \A f \in CoverFlights : coverOutcome'[f] = "pending" /\ (coverOutcome[f] = "pending" => f \in coverFlights)
                                 => f \in coverFlights'
  <2>1. coverOutcome \in [CoverFlights -> Outcomes] BY <1>11 DEF CoverTyped
  <2>2. \A f \in CoverFlights : f # <<c, key>> => coverOutcome'[f] = coverOutcome[f] /\ (f \in coverFlights => f \in coverFlights')
    BY <1>7, <2>1
  <2>3. <<c, key>> \in CoverFlights => coverOutcome'[<<c, key>>] # "pending" BY <1>7, <1>8, <2>1
  <2> QED BY <2>2, <2>3
<1>15. \A d \in CoverCallers \ {c}, k \in CoverKeys : <<d, k>> \in coverFlights' <=> <<d, k>> \in coverFlights BY <1>12
<1>16. cover' \in [CoverCallers -> Calls] /\ CallsSound' BY <1>10, <1>11, <1>13, <1>14, <1>15, MoveSound
<1>17. CoverTyped'
  <2>1. coverFlights' \subseteq CoverFlights BY <1>7, <1>11 DEF CoverTyped
  <2>2. coverOutcome' \in [CoverFlights -> Outcomes] BY <1>7, <1>8, <1>11 DEF CoverTyped, Outcomes
  <2> QED BY <1>5, <1>16, <2>1, <2>2 DEF CoverTyped
<1>18. FlightsSound'
  <2>1. \A f, g \in coverFlights : f[2] = g[2] => f = g BY DEF CoverIInv, FlightsSound
  <2>2. \A f \in coverFlights' : f[2] # key
    <3>1. <<c, key>>[2] = key OBVIOUS
    <3> QED BY <1>2, <1>7, <2>1, <3>1
  <2>3. \A f \in coverFlights' : f[2] \notin Range(covers')
    BY <1>5, <1>7, <2>2 DEF CoverIInv, FlightsSound
  <2>4. \A f, g \in coverFlights' : f[2] = g[2] => f = g BY <1>7, <2>1
  <2> QED BY <2>3, <2>4 DEF FlightsSound
<1> QED BY <1>6, <1>16, <1>17, <1>18 DEF CoverIInv

LEMMA CoverInitIInv ==
  ASSUME CoverInit PROVE CoverIInv
<1>1. <<>> \in Seq(CoverKeys) /\ Len(<<>>) = 0 /\ Range(<<>>) = {} /\ IsInjective(<<>>)
  BY DEF Range, IsInjective
<1>2. Total(<<>>) = 0 BY <1>1, TotalFacts
<1>3. \A c \in CoverCallers : cover[c] \in Calls /\ CallSound(c, cover[c], coverFlights, coverOutcome)
  BY CoverFacts DEF CoverInit, Calls, CallSound, CoverFlights
<1>4. cover \in [CoverCallers -> Calls] BY <1>3 DEF CoverInit
<1>5. CoverTyped BY <1>1, <1>4 DEF CoverInit, CoverTyped, Outcomes
<1>6. CoversCounted BY <1>1, <1>2, CoverFacts DEF CoverInit, CoversCounted
<1>7. FlightsSound BY DEF CoverInit, FlightsSound
<1> QED BY <1>3, <1>5, <1>6, <1>7 DEF CoverIInv, CallsSound
LEMMA CoverIInvImplies ==
  ASSUME CoverIInv PROVE CoversSound
<1>1. \A c \in CoverCallers : CallSound(c, cover[c], coverFlights, coverOutcome) BY DEF CoverIInv, CallsSound
<1>2. CoverCancelledAlone BY <1>1 DEF CoverCancelledAlone, CallSound
<1>3. ASSUME NEW f \in coverFlights PROVE LeadsFlight(f)
  <2>1. f \in CoverCallers \X CoverKeys BY DEF CoverIInv, CoverTyped, CoverFlights
  <2>2. f = <<f[1], f[2]>> /\ f[1] \in CoverCallers /\ f[2] \in CoverKeys BY <2>1
  <2>3. CallSound(f[1], cover[f[1]], coverFlights, coverOutcome) BY <1>1, <2>2
  <2> QED BY <1>3, <2>2, <2>3 DEF CallSound, LeadsFlight
<1>4. CoverNotStranded BY <1>1, <1>3 DEF CoverNotStranded, CoverIInv, FlightsSound, CallSound, Does
<1> QED BY <1>2, <1>4 DEF CoversSound, CoverIInv

(* Callers that share covers do not harm each other, and the cache counts   *)
(* right (cached(), fetch() and clear() of cover.rs): for any number of     *)
(* callers, any sizes and any limit.                                       *)
THEOREM CoversAreSound == CoverSpec => []CoversSound
<1>1. CoverIInv /\ [CoverNext]_coverVars => CoverIInv'
  <2> SUFFICES ASSUME CoverIInv, [CoverNext]_coverVars PROVE CoverIInv' OBVIOUS
  <2>1. CASE CoverNext
    <3>1. ASSUME NEW c \in CoverCallers, (\E key \in CoverKeys : StartCover(c, key)) \/ StopCover(c) PROVE CoverIInv'
      BY <3>1, CoversStart
    <3>2. ASSUME NEW c \in CoverCallers, CoverStep(c) PROVE CoverIInv'
      BY <3>2, CoversStart, CoversEnter, CoversFollow, CoversSettle DEF CoverStep
    <3>3. CASE ExpireCover \/ ClearCovers BY <3>3, CoversExpire
    <3> QED BY <2>1, <3>1, <3>2, <3>3 DEF CoverNext
  <2>2. CASE UNCHANGED coverVars
    <3>1. UNCHANGED <<covers, expired, coverBytes, coverFlights, coverOutcome, cover>> BY <2>2 DEF coverVars
    <3> QED BY <3>1 DEF CoverIInv, CoverTyped, CoversCounted, CallsSound, FlightsSound, Total
  <2> QED BY <2>1, <2>2
<1> QED BY <1>1, CoverInitIInv, CoverIInvImplies, PTL DEF CoverSpec

-----------------------------------------------------------------------------
(***************************************************************************)
(* Enrichment. A tag that is not to be updated keeps the file's value      *)
(* through every lookup, the tags of a release name one album, no check    *)
(* has failed outside the lookups for lyrics and cover, and the file is as *)
(* it was until it is rewritten.                                           *)
(***************************************************************************)

(* A request is one of these; a tag in it comes from the file, from the      *)
(* release of a track, or from a service.                                   *)
TagSources == {"", "own", "x", "y", "none", "brainz", "extended"}
EnrichJobs ==
  [pc : {"idle", "identify", "search", "picked", "artist", "extended", "genre", "resolved", "preview", "fetch",
         "write", "done", "planned", "failed"},
   update : Updates \cup {{}}, known : KnownTags \cup {{}}, replace : BOOLEAN, req : [Fields -> TagSources],
   found : BOOLEAN, failed : BOOLEAN, list : SeqOf(Tracks, 2), picked : 0 .. 2,
   reading : {"", "extract", "lookup", "ready", "broken"}, fetching : {"", "download", "later", "ready"},
   lyrics : {"", "real", "marker", "fetched"}, read : BOOLEAN, embed : BOOLEAN, cover : {"none", "image"}]
EnrichedFiles ==
  [tags : [Fields -> TagSources], known : KnownTags, had : {"", "real", "marker"},
   lyrics : {"", "real", "marker", "fetched"}]

(* A tag that is not to be updated is the file's; tags of a release are those *)
(* of the album the request names; the file changes at the end only.         *)
Unwritten ==
  job.pc # "done" => audioFile.tags = [f \in Fields |-> FileTag(audioFile.known, f)] /\ audioFile.lyrics = audioFile.had
FailsLate == job.failed => job.pc = "fetch"
KeepsTags ==
  /\ job.pc \notin {"idle", "failed"} =>
       job.known = audioFile.known /\ \A f \in Fields : ~Selected(f) => job.req[f] = FileTag(job.known, f)
  /\ job.pc = "genre" => Selected("genre")
AlbumNamed ==
  ~job.replace /\ (Selected("album_name") \/ "album_name" \in job.known) =>
    /\ job.req["album_name"] \in {"", "x", "y"}
    /\ "album_name" \in job.known => job.req["album_name"] = "x"
    /\ \A f \in ReleaseFields : job.req[f] \in {"x", "y"} => job.req[f] = job.req["album_name"]
PickSound ==
  /\ job.pc # "picked" => job.picked = 0
  /\ job.picked # 0 => job.picked \in DOMAIN job.list
  /\ BestCandidate
LyricsRead == audioFile.had = "real" /\ job.read => job.lyrics \in {"real", "fetched"}
EnrichInv ==
  /\ job \in EnrichJobs /\ audioFile \in EnrichedFiles
  /\ Unwritten /\ FailsLate /\ KeepsTags /\ AlbumNamed /\ PickSound /\ LyricsRead /\ FileKept

LEMMA FieldsAre ==
  /\ Fields = {"track_name", "album_name", "album_artist", "release_date", "isrc", "genre", "track_number",
               "total_tracks", "cover"}
  /\ ReleaseFields \subseteq Fields
BY DEF Fields, Groups, ReleaseFields

LEMMA NoList == <<>> \in SeqOf(Tracks, 2)
<1>1. <<>> \in [1 .. 0 -> Tracks]
  OBVIOUS
<1> QED BY <1>1 DEF SeqOf

LEMMA ShortList ==
  ASSUME NEW list \in SeqOf(Tracks, 2)
  PROVE  DOMAIN list \in {{}, {1}, {1, 2}} /\ \A n \in DOMAIN list : list[n] \in Tracks
<1>1. PICK m \in 0 .. 2 : list \in [1 .. m -> Tracks]
  BY DEF SeqOf
<1>2. DOMAIN list = 1 .. m /\ \A n \in 1 .. m : list[n] \in Tracks
  BY <1>1
<1>3. m = 0 \/ m = 1 \/ m = 2
  OBVIOUS
<1>4. 1 .. m \in {{}, {1}, {1, 2}}
  BY <1>3
<1> QED BY <1>2, <1>4

LEMMA NoJobTyped == NoJob \in EnrichJobs
BY NoList, FieldsAre DEF NoJob, EnrichJobs, TagSources

LEMMA EnrichInitInv == EnrichInit => EnrichInv
<1> SUFFICES ASSUME EnrichInit PROVE EnrichInv
  OBVIOUS
<1>1. PICK known \in KnownTags, lyrics \in {"", "real", "marker"} :
        audioFile = [tags |-> [f \in Fields |-> FileTag(known, f)], known |-> known, had |-> lyrics, lyrics |-> lyrics]
  BY DEF EnrichInit
<1>2. job = NoJob
  BY DEF EnrichInit
<1>3. audioFile \in EnrichedFiles
  BY <1>1 DEF EnrichedFiles, FileTag, TagSources
<1>4. job \in EnrichJobs
  BY <1>2, NoJobTyped
<1>5. Unwritten /\ FailsLate /\ KeepsTags /\ PickSound /\ LyricsRead /\ FileKept
  BY <1>1, <1>2 DEF Unwritten, FailsLate, KeepsTags, PickSound, LyricsRead, FileKept, NoJob, BestCandidate
<1>6. AlbumNamed
  BY <1>2, FieldsAre DEF AlbumNamed, NoJob
<1> QED BY <1>3, <1>4, <1>5, <1>6 DEF EnrichInv

(* A step that leaves the tags, the candidates and the file alone.           *)
Retains ==
  /\ job'.update = job.update /\ job'.known = job.known /\ job'.replace = job.replace /\ job'.req = job.req
  /\ job'.list = job.list /\ job'.picked = job.picked
LEMMA QuietStep ==
  ASSUME EnrichInv, job' \in EnrichJobs, Retains, UNCHANGED audioFile,
         job.pc \notin {"idle", "failed", "picked", "done"}, job'.pc \notin {"picked", "done"},
         job'.failed => job'.pc = "fetch", job'.pc = "genre" => Selected("genre"),
         LyricsRead'
  PROVE  EnrichInv'
<1>1. \A f \in {"album_name", "genre"} \cup Fields : Selected(f)' = Selected(f)
  BY DEF Selected, Retains
<1>2. EnrichedFiles' = EnrichedFiles /\ EnrichJobs' = EnrichJobs
  OBVIOUS
<1>3. Unwritten' /\ FailsLate'
  BY DEF EnrichInv, Unwritten, FailsLate
<1>4. KeepsTags'
  BY <1>1 DEF EnrichInv, KeepsTags, Retains
<1>5. AlbumNamed'
  BY <1>1 DEF EnrichInv, AlbumNamed, Retains
<1>6. PickSound'
  BY DEF EnrichInv, PickSound, BestCandidate, Retains
<1>7. FileKept'
  BY DEF EnrichInv, FileKept, Unwritten
<1> QED BY <1>3, <1>4, <1>5, <1>6, <1>7 DEF EnrichInv

LEMMA FailsStep ==
  ASSUME EnrichInv, Fails, UNCHANGED audioFile, job.pc # "done"
  PROVE  EnrichInv'
<1>1. job' \in EnrichJobs
  BY NoJobTyped, ZenonT(60) DEF Fails, EnrichJobs, EnrichInv
<1>2. /\ job'.pc = "failed" /\ job'.failed = FALSE /\ job'.known = {} /\ job'.picked = 0 /\ job'.read = FALSE
      /\ job'.req = [f \in Fields |-> ""]
  BY DEF Fails, NoJob
<1>3. Unwritten' /\ FailsLate' /\ KeepsTags' /\ PickSound' /\ LyricsRead' /\ FileKept'
  BY <1>2 DEF EnrichInv, Unwritten, FailsLate, KeepsTags, PickSound, LyricsRead, FileKept, BestCandidate
<1>4. AlbumNamed'
  BY <1>2, FieldsAre DEF AlbumNamed
<1> QED BY <1>1, <1>3, <1>4 DEF EnrichInv

LEMMA StartEnrichStep ==
  ASSUME EnrichInv, StartEnrich
  PROVE  EnrichInv'
<1>1. PICK update \in Updates, replace \in BOOLEAN, online \in BOOLEAN :
        job' = [NoJob EXCEPT !.pc = IF online THEN "identify" ELSE "resolved", !.update = update, !.replace = replace,
                             !.known = audioFile.known, !.req = audioFile.tags]
  BY DEF StartEnrich
<1> DEFINE pc == IF online THEN "identify" ELSE "resolved"
<1>a. pc \in {"identify", "resolved"}
  OBVIOUS
<1>b. job' = [NoJob EXCEPT !.pc = pc, !.update = update, !.replace = replace, !.known = audioFile.known,
                           !.req = audioFile.tags]
  BY <1>1
<1> HIDE DEF pc
<1>2. job.pc = "idle" /\ UNCHANGED audioFile
  BY DEF StartEnrich
<1>c. audioFile.known \in KnownTags /\ audioFile.tags \in [Fields -> TagSources]
  BY DEF EnrichInv, EnrichedFiles
<1>3. job' \in EnrichJobs
  BY <1>a, <1>b, <1>c, NoJobTyped DEF EnrichJobs
<1>4. /\ job'.pc \in {"identify", "resolved"} /\ job'.failed = FALSE /\ job'.known = audioFile.known /\ job'.picked = 0
      /\ job'.read = FALSE /\ job'.req = [f \in Fields |-> FileTag(audioFile.known, f)]
  BY <1>a, <1>b, <1>2 DEF NoJob, EnrichInv, Unwritten
<1>5. Unwritten' /\ FailsLate' /\ PickSound' /\ LyricsRead' /\ FileKept'
  BY <1>2, <1>4 DEF EnrichInv, Unwritten, FailsLate, PickSound, LyricsRead, FileKept, BestCandidate
<1>6. KeepsTags'
  BY <1>2, <1>4 DEF KeepsTags
<1>7. AlbumNamed'
  BY <1>4, FieldsAre DEF AlbumNamed, FileTag
<1> QED BY <1>2, <1>3, <1>5, <1>6, <1>7 DEF EnrichInv

LEMMA SameFailed ==
  ASSUME NEW r \in EnrichJobs, r.failed = FALSE
  PROVE  [r EXCEPT !.failed = FALSE] = r
BY DEF EnrichJobs

(* A lookup that failed ends the request; any other ran with no failed check.  *)
LEMMA LookupEnds ==
  ASSUME NEW results, NEW none, NEW a \in BestEffort(results, none), NEW next \in EnrichJobs,
         job.failed \in BOOLEAN, next.failed = job.failed, Proceed(a, next)
  PROVE  Fails \/ (job' = next /\ a.result \in results /\ job.failed = FALSE)
<1>1. a.inner \in Checks(job.failed) /\ a.outer \in Checks(job.failed \/ ~a.inner)
      /\ a.result \in (IF a.inner THEN results ELSE {none}) /\ a.inner \in BOOLEAN /\ a.outer \in BOOLEAN
  BY DEF BestEffort
<1>2. CASE a.outer = FALSE
  BY <1>2 DEF Proceed
<1>3. CASE a.outer = TRUE
  <2>1. (job.failed \/ ~a.inner) = FALSE
    BY <1>1, <1>3 DEF Checks
  <2>2. job' = [next EXCEPT !.failed = next.failed \/ ~a.inner]
    BY <1>3 DEF Proceed
  <2>3. next.failed = FALSE /\ (next.failed \/ ~a.inner) = FALSE
    BY <2>1
  <2>4. job' = [next EXCEPT !.failed = FALSE]
    BY <2>2, <2>3
  <2>5. job' = next
    BY <2>3, <2>4, SameFailed
  <2> QED BY <1>1, <2>1, <2>5
<1> QED BY <1>1, <1>2, <1>3

(* One more tag is found, by a service that names no release.                *)
Fills(f, v) ==
  /\ job'.update = job.update /\ job'.known = job.known /\ job'.replace = job.replace
  /\ job'.req = [job.req EXCEPT ![f] = v]
  /\ job'.list = job.list /\ job'.picked = job.picked
LEMMA TagStep ==
  ASSUME EnrichInv, job' \in EnrichJobs, UNCHANGED audioFile,
         NEW f \in Fields, NEW v \in {"", "brainz", "extended"}, Fills(f, v), Selected(f), f \notin {"album_name", "isrc"},
         job.pc \notin {"idle", "failed", "picked", "done"}, job'.pc \notin {"picked", "done"},
         job'.failed => job'.pc = "fetch", job'.pc = "genre" => Selected("genre"),
         LyricsRead'
  PROVE  EnrichInv'
<1>1. \A g \in {"album_name", "genre"} \cup Fields : Selected(g)' = Selected(g)
  BY DEF Selected, Fills
<1>2. job.req \in [Fields -> TagSources]
  BY DEF EnrichInv, EnrichJobs
<1>3. \A g \in Fields : job'.req[g] = IF g = f THEN v ELSE job.req[g]
  BY <1>2 DEF Fills
<1>4. Unwritten' /\ FailsLate'
  BY DEF EnrichInv, Unwritten, FailsLate
<1>5. KeepsTags'
  BY <1>1, <1>3 DEF EnrichInv, KeepsTags, Fills
<1>6. AlbumNamed'
  BY <1>1, <1>3, FieldsAre DEF EnrichInv, AlbumNamed, Fills
<1>7. PickSound'
  BY DEF EnrichInv, PickSound, BestCandidate, Fills
<1>8. FileKept'
  BY DEF EnrichInv, FileKept, Unwritten
<1> QED BY <1>4, <1>5, <1>6, <1>7, <1>8 DEF EnrichInv

FillsTo(next, f, v) ==
  /\ next \in EnrichJobs /\ next.pc \in {"extended", "genre", "resolved"}
  /\ next.update = job.update /\ next.known = job.known /\ next.replace = job.replace
  /\ next.req = [job.req EXCEPT ![f] = v] /\ next.list = job.list /\ next.picked = job.picked
  /\ next.failed = job.failed /\ next.read = job.read /\ next.lyrics = job.lyrics
LEMMA FilledStep ==
  ASSUME EnrichInv, UNCHANGED audioFile, NEW f \in Fields, Selected(f), f \notin {"album_name", "isrc"},
         job.pc \in {"artist", "extended", "genre"},
         NEW source \in {"brainz", "extended"}, NEW a \in BestEffort({"", source}, ""),
         NEW next, FillsTo(next, f, a.result), next.pc = "genre" => Selected("genre"), Proceed(a, next)
  PROVE  EnrichInv'
<1> DEFINE v == a.result
<1>1. v \in {"", "brainz", "extended"}
  BY DEF BestEffort
<1>2. FillsTo(next, f, v)
  OBVIOUS
<1> HIDE DEF v
<1>3. next \in EnrichJobs /\ next.failed = job.failed /\ job.failed \in BOOLEAN
  BY <1>2 DEF FillsTo, EnrichJobs
<1>4. Fails \/ (job' = next /\ job.failed = FALSE)
  BY <1>3, LookupEnds
<1>5. CASE Fails
  BY <1>5, FailsStep
<1>6. CASE job' = next /\ job.failed = FALSE
  <2>1. /\ job' \in EnrichJobs /\ Fills(f, v) /\ job'.pc \in {"extended", "genre", "resolved"} /\ job'.failed = FALSE
        /\ job'.read = job.read /\ job'.lyrics = job.lyrics
    BY <1>2, <1>3, <1>6 DEF FillsTo, Fills
  <2>2. LyricsRead'
    BY <2>1 DEF EnrichInv, LyricsRead
  <2>3. job'.pc = "genre" => Selected("genre")
    BY <1>6
  <2> QED BY <1>1, <2>1, <2>2, <2>3, TagStep
<1> QED BY <1>4, <1>5, <1>6

LEMMA FilledRecord ==
  ASSUME job \in EnrichJobs, NEW f \in Fields, NEW v \in {"", "brainz", "extended"},
         NEW pc \in {"extended", "genre", "resolved"}, NEW found \in BOOLEAN
  PROVE  /\ FillsTo([job EXCEPT !.pc = pc, !.req[f] = v], f, v)
         /\ FillsTo([job EXCEPT !.pc = pc, !.req[f] = v, !.found = found], f, v)
<1>1. job.req \in [Fields -> TagSources] /\ v \in TagSources
  BY DEF EnrichJobs, TagSources
<1>2. [job.req EXCEPT ![f] = v] \in [Fields -> TagSources]
  BY <1>1
<1>3. [job EXCEPT !.pc = pc, !.req[f] = v] = [job EXCEPT !.pc = pc, !.req = [job.req EXCEPT ![f] = v]]
  BY DEF EnrichJobs
<1>4. [job EXCEPT !.pc = pc, !.req[f] = v, !.found = found]
      = [job EXCEPT !.pc = pc, !.req = [job.req EXCEPT ![f] = v], !.found = found]
  BY DEF EnrichJobs
<1> DEFINE req == [job.req EXCEPT ![f] = v]
<1>5. req \in [Fields -> TagSources]
  BY <1>2
<1>6. req = [job.req EXCEPT ![f] = v]
  OBVIOUS
<1> HIDE DEF req
<1>7. FillsTo([job EXCEPT !.pc = pc, !.req = req], f, v)
  BY <1>5, <1>6 DEF FillsTo, EnrichJobs
<1>8. FillsTo([job EXCEPT !.pc = pc, !.req = req, !.found = found], f, v)
  BY <1>5, <1>6, ZenonT(60) DEF FillsTo, EnrichJobs
<1> QED BY <1>3, <1>4, <1>6, <1>7, <1>8

LEMMA AlbumArtistStep ==
  ASSUME EnrichInv, AlbumArtist
  PROVE  EnrichInv'
<1>1. job \in EnrichJobs /\ job.pc = "artist" /\ UNCHANGED audioFile
  BY DEF EnrichInv, AlbumArtist
<1>2. CASE Selected("album_artist") /\ job.req["album_artist"] = "" /\ job.req["isrc"] # ""
  <2>1. PICK a \in BestEffort({"", "brainz"}, "") :
         Proceed(a, [job EXCEPT !.pc = "extended", !.req["album_artist"] = a.result, !.found = job.found \/ a.result # ""])
    BY <1>2 DEF AlbumArtist
  <2> DEFINE v == a.result
             found == job.found \/ v # ""
  <2>2. v \in {"", "brainz", "extended"} /\ found \in BOOLEAN
    BY <1>1 DEF BestEffort, EnrichJobs
  <2>3. Proceed(a, [job EXCEPT !.pc = "extended", !.req["album_artist"] = v, !.found = found])
    BY <2>1
  <2>4. v = a.result
    OBVIOUS
  <2> HIDE DEF v, found
  <2> DEFINE next == [job EXCEPT !.pc = "extended", !.req["album_artist"] = v, !.found = found]
  <2>5. FillsTo(next, "album_artist", v)
    BY <1>1, <2>2, FilledRecord, FieldsAre
  <2>6. next.pc = "extended" /\ Proceed(a, next)
    BY <1>1, <2>3 DEF EnrichJobs
  <2> HIDE DEF next
  <2> QED BY <1>1, <1>2, <2>4, <2>5, <2>6, FilledStep, FieldsAre
<1>3. CASE ~(Selected("album_artist") /\ job.req["album_artist"] = "" /\ job.req["isrc"] # "")
  <2>1. job' = [job EXCEPT !.pc = "extended"]
    BY <1>3 DEF AlbumArtist
  <2>2. job' \in EnrichJobs
    BY <1>1, <2>1 DEF EnrichJobs
  <2>3. Retains /\ LyricsRead' /\ job'.failed = FALSE /\ job'.pc = "extended"
    BY <1>1, <2>1 DEF Retains, EnrichInv, LyricsRead, FailsLate, EnrichJobs
  <2> QED BY <1>1, <2>2, <2>3, QuietStep
<1> QED BY <1>2, <1>3

LEMMA ExtendedStep ==
  ASSUME EnrichInv, Extended
  PROVE  EnrichInv'
<1>1. job \in EnrichJobs /\ job.pc = "extended" /\ UNCHANGED audioFile
  BY DEF EnrichInv, Extended
<1>2. CASE job.found /\ job.req["isrc"] # "" /\ Selected("genre") /\ job.req["genre"] = ""
  <2>1. PICK a \in BestEffort({"", "extended"}, "") : Proceed(a, [job EXCEPT !.pc = "genre", !.req["genre"] = a.result])
    BY <1>2 DEF Extended
  <2> DEFINE v == a.result
  <2>2. v \in {"", "brainz", "extended"}
    BY DEF BestEffort
  <2>3. Proceed(a, [job EXCEPT !.pc = "genre", !.req["genre"] = v])
    BY <2>1
  <2>4. v = a.result /\ Selected("genre")
    BY <1>1, <1>2 DEF EnrichInv, KeepsTags
  <2> HIDE DEF v
  <2> DEFINE next == [job EXCEPT !.pc = "genre", !.req["genre"] = v]
  <2>5. FillsTo(next, "genre", v)
    BY <1>1, <2>2, FilledRecord, FieldsAre
  <2>6. Proceed(a, next)
    BY <2>3
  <2> HIDE DEF next
  <2> QED BY <1>1, <1>2, <2>4, <2>5, <2>6, FilledStep, FieldsAre
<1>3. CASE ~(job.found /\ job.req["isrc"] # "" /\ Selected("genre") /\ job.req["genre"] = "")
  <2>1. job' = [job EXCEPT !.pc = "resolved"]
    BY <1>3 DEF Extended
  <2>2. job' \in EnrichJobs
    BY <1>1, <2>1 DEF EnrichJobs
  <2>3. Retains /\ LyricsRead' /\ job'.failed = FALSE /\ job'.pc = "resolved"
    BY <1>1, <2>1 DEF Retains, EnrichInv, LyricsRead, FailsLate, EnrichJobs
  <2> QED BY <1>1, <2>2, <2>3, QuietStep
<1> QED BY <1>2, <1>3

LEMMA GenreStep ==
  ASSUME EnrichInv, Genre
  PROVE  EnrichInv'
<1>1. job \in EnrichJobs /\ job.pc = "genre" /\ UNCHANGED audioFile
  BY DEF EnrichInv, Genre
<1>2. CASE job.req["genre"] = ""
  <2>1. PICK a \in BestEffort({"", "brainz"}, "") : Proceed(a, [job EXCEPT !.pc = "resolved", !.req["genre"] = a.result])
    BY <1>2 DEF Genre
  <2> DEFINE v == a.result
  <2>2. v \in {"", "brainz", "extended"}
    BY DEF BestEffort
  <2>3. Proceed(a, [job EXCEPT !.pc = "resolved", !.req["genre"] = v])
    BY <2>1
  <2>4. v = a.result /\ Selected("genre")
    BY <1>1, <1>2 DEF EnrichInv, KeepsTags
  <2> HIDE DEF v
  <2> DEFINE next == [job EXCEPT !.pc = "resolved", !.req["genre"] = v]
  <2>5. FillsTo(next, "genre", v)
    BY <1>1, <2>2, FilledRecord, FieldsAre
  <2>6. Proceed(a, next)
    BY <2>3
  <2> HIDE DEF next
  <2> QED BY <1>1, <1>2, <2>4, <2>5, <2>6, FilledStep, FieldsAre
<1>3. CASE ~(job.req["genre"] = "")
  <2>1. job' = [job EXCEPT !.pc = "resolved"]
    BY <1>3 DEF Genre
  <2>2. job' \in EnrichJobs
    BY <1>1, <2>1 DEF EnrichJobs
  <2>3. Retains /\ LyricsRead' /\ job'.failed = FALSE /\ job'.pc = "resolved"
    BY <1>1, <2>1 DEF Retains, EnrichInv, LyricsRead, FailsLate, EnrichJobs
  <2> QED BY <1>1, <2>2, <2>3, QuietStep
<1> QED BY <1>2, <1>3

LEMMA ResolvedStep ==
  ASSUME EnrichInv, Resolved
  PROVE  EnrichInv'
<1>1. job \in EnrichJobs /\ job.pc = "resolved" /\ UNCHANGED audioFile /\ job.failed = FALSE
  BY DEF EnrichInv, Resolved, FailsLate, EnrichJobs
<1>2. \/ job' = [job EXCEPT !.pc = "preview"]
      \/ \E embed \in BOOLEAN, reading \in {"extract", "ready"}, fetching \in {"ready", "download", "later"} :
           job' = [job EXCEPT !.pc = "fetch", !.embed = embed, !.reading = reading, !.fetching = fetching]
  BY Zenon DEF Resolved
<1>3. CASE job' = [job EXCEPT !.pc = "preview"]
  <2>1. job' \in EnrichJobs /\ Retains /\ job'.pc = "preview" /\ job'.failed = FALSE
        /\ job'.read = job.read /\ job'.lyrics = job.lyrics
    BY <1>1, <1>3 DEF EnrichJobs, Retains
  <2> QED BY <1>1, <2>1, QuietStep DEF EnrichInv, LyricsRead
<1>4. CASE \E embed \in BOOLEAN, reading \in {"extract", "ready"}, fetching \in {"ready", "download", "later"} :
             job' = [job EXCEPT !.pc = "fetch", !.embed = embed, !.reading = reading, !.fetching = fetching]
  <2>1. PICK embed \in BOOLEAN, reading \in {"extract", "ready"}, fetching \in {"ready", "download", "later"} :
             job' = [job EXCEPT !.pc = "fetch", !.embed = embed, !.reading = reading, !.fetching = fetching]
    BY <1>4
  <2>2. job' \in EnrichJobs /\ Retains /\ job'.pc = "fetch" /\ job'.failed = FALSE
        /\ job'.read = job.read /\ job'.lyrics = job.lyrics
    BY <1>1, <2>1, ZenonT(60) DEF EnrichJobs, Retains
  <2> QED BY <1>1, <2>2, QuietStep DEF EnrichInv, LyricsRead
<1> QED BY <1>2, <1>3, <1>4

LEMMA ExtractLyricsStep ==
  ASSUME EnrichInv, ExtractLyrics
  PROVE  EnrichInv'
<1>1. job \in EnrichJobs /\ job.pc = "fetch" /\ UNCHANGED audioFile
  BY DEF EnrichInv, ExtractLyrics
<1>2. PICK ok \in Checks(job.failed), lyrics \in {audioFile.lyrics, ""} :
       job' = IF ok THEN [job EXCEPT !.reading = IF job.embed THEN "lookup" ELSE "ready", !.lyrics = lyrics,
                                     !.read = (lyrics = audioFile.lyrics)]
              ELSE [job EXCEPT !.reading = "broken", !.failed = TRUE]
  BY DEF ExtractLyrics
<1> DEFINE reading == IF job.embed THEN "lookup" ELSE "ready"
           read == lyrics = audioFile.lyrics
<1>3. ok \in BOOLEAN /\ reading \in {"lookup", "ready"} /\ read \in BOOLEAN
  BY DEF Checks
<1>4. (lyrics = audioFile.lyrics) = read
  OBVIOUS
<1>5. job' = [job EXCEPT !.reading = reading, !.lyrics = lyrics, !.read = read]
      \/ job' = [job EXCEPT !.reading = "broken", !.failed = TRUE]
  BY <1>2
<1> HIDE DEF reading, read
<1>6. lyrics \in {"", "real", "marker", "fetched"}
  BY DEF EnrichInv, EnrichedFiles
<1>7. CASE job' = [job EXCEPT !.reading = reading, !.lyrics = lyrics, !.read = read]
  <2>1. job' \in EnrichJobs /\ Retains /\ job'.pc = "fetch"
    BY <1>1, <1>3, <1>6, <1>7 DEF EnrichJobs, Retains
  <2>2. job'.lyrics = lyrics /\ (job'.read <=> read)
    BY <1>1, <1>3, <1>7 DEF EnrichJobs
  <2>3. LyricsRead'
    BY <1>1, <1>4, <2>2 DEF EnrichInv, LyricsRead, Unwritten
  <2> QED BY <1>1, <2>1, <2>3, QuietStep
<1>8. CASE job' = [job EXCEPT !.reading = "broken", !.failed = TRUE]
  <2>1. job' \in EnrichJobs /\ Retains /\ job'.pc = "fetch" /\ LyricsRead'
    BY <1>1, <1>8 DEF EnrichJobs, Retains, EnrichInv, LyricsRead
  <2> QED BY <1>1, <2>1, QuietStep
<1> QED BY <1>5, <1>7, <1>8

LEMMA FetchLyricsStep ==
  ASSUME EnrichInv, FetchLyrics
  PROVE  EnrichInv'
<1>1. job \in EnrichJobs /\ job.pc = "fetch" /\ UNCHANGED audioFile
  BY DEF EnrichInv, FetchLyrics
<1>2. PICK inner \in Checks(job.failed) :
       \E outer \in Checks(job.failed \/ ~inner), r \in IF inner THEN {"instrumental", "text", "error"} ELSE {"error"} :
         job' = [job EXCEPT !.reading = IF outer THEN "ready" ELSE "broken", !.lyrics = AfterFetch(r),
                            !.failed = job.failed \/ ~inner \/ ~outer]
  BY DEF FetchLyrics
<1>3. PICK outer \in Checks(job.failed \/ ~inner), r \in {"instrumental", "text", "error"} :
         job' = [job EXCEPT !.reading = IF outer THEN "ready" ELSE "broken", !.lyrics = AfterFetch(r),
                            !.failed = job.failed \/ ~inner \/ ~outer]
  BY <1>2
<1> DEFINE reading == IF outer THEN "ready" ELSE "broken"
           failed == job.failed \/ ~inner \/ ~outer
           lyrics == AfterFetch(r)
<1>4. reading \in {"ready", "broken"} /\ failed \in BOOLEAN
  BY <1>1 DEF EnrichJobs
<1>5. lyrics \in {"", "real", "marker", "fetched"} /\ (job.lyrics \in {"real", "fetched"} => lyrics \in {"real", "fetched"})
  BY <1>1 DEF EnrichJobs, AfterFetch
<1>6. job' = [job EXCEPT !.reading = reading, !.lyrics = lyrics, !.failed = failed]
  BY <1>3
<1> HIDE DEF reading, failed, lyrics
<1>7. job' \in EnrichJobs /\ Retains /\ job'.pc = "fetch"
  BY <1>1, <1>4, <1>5, <1>6 DEF EnrichJobs, Retains
<1>8. LyricsRead'
  BY <1>1, <1>5, <1>6 DEF EnrichJobs, EnrichInv, LyricsRead
<1> QED BY <1>1, <1>7, <1>8, QuietStep

LEMMA DownloadCoverStep ==
  ASSUME EnrichInv, DownloadCover
  PROVE  EnrichInv'
<1>1. job \in EnrichJobs /\ job.pc = "fetch" /\ UNCHANGED audioFile
  BY DEF EnrichInv, DownloadCover
<1>2. PICK ok \in Checks(job.failed), found \in {"none", "image"} :
       job' = [job EXCEPT !.fetching = "ready", !.cover = IF ok THEN found ELSE "none", !.failed = job.failed \/ ~ok]
  BY DEF DownloadCover
<1> DEFINE picture == IF ok THEN found ELSE "none"
           failed == job.failed \/ ~ok
<1>3. picture \in {"none", "image"} /\ failed \in BOOLEAN
  BY <1>1 DEF EnrichJobs
<1>4. job' = [job EXCEPT !.fetching = "ready", !.cover = picture, !.failed = failed]
  BY <1>2
<1> HIDE DEF picture, failed
<1>5. job' \in EnrichJobs /\ Retains /\ job'.pc = "fetch" /\ LyricsRead'
  BY <1>1, <1>3, <1>4, ZenonT(60) DEF EnrichJobs, Retains, EnrichInv, LyricsRead
<1> QED BY <1>1, <1>5, QuietStep

LEMMA JoinStep ==
  ASSUME EnrichInv, Join
  PROVE  EnrichInv'
<1>1. job \in EnrichJobs /\ job.pc = "fetch" /\ UNCHANGED audioFile
  BY DEF EnrichInv, Join
<1>2. PICK ok \in Checks(job.failed) :
        IF ok /\ job.reading = "ready" THEN job' = [job EXCEPT !.pc = "write"] ELSE Fails
  BY DEF Join
<1>3. CASE Fails
  BY <1>1, <1>3, FailsStep
<1>4. CASE ok /\ job' = [job EXCEPT !.pc = "write"]
  <2>1. job.failed = FALSE
    BY <1>1, <1>4 DEF Checks, EnrichJobs
  <2>2. job' \in EnrichJobs /\ Retains /\ job'.pc = "write" /\ LyricsRead' /\ job'.failed = FALSE
    BY <1>1, <1>4, <2>1 DEF EnrichJobs, Retains, EnrichInv, LyricsRead
  <2> QED BY <1>1, <2>2, QuietStep
<1> QED BY <1>2, <1>3, <1>4

LEMMA PlanFfmpegStep ==
  ASSUME EnrichInv, PlanFfmpeg
  PROVE  EnrichInv'
<1>1. job \in EnrichJobs /\ job.pc = "write" /\ UNCHANGED audioFile
  BY DEF EnrichInv, PlanFfmpeg
<1>2. PICK a \in BestEffort({job.cover, "none"}, "none") : Proceed(a, [job EXCEPT !.pc = "planned", !.cover = a.result])
  BY DEF PlanFfmpeg
<1> DEFINE next == [job EXCEPT !.pc = "planned", !.cover = a.result]
<1>3. a.result \in {job.cover, "none"}
  BY DEF BestEffort
<1>4. next \in EnrichJobs /\ next.failed = job.failed /\ job.failed \in BOOLEAN
  BY <1>1, <1>3 DEF EnrichJobs
<1>5. Fails \/ (job' = next /\ job.failed = FALSE)
  BY <1>2, <1>4, LookupEnds
<1>6. CASE Fails
  BY <1>1, <1>6, FailsStep
<1>7. CASE job' = next /\ job.failed = FALSE
  <2> DEFINE picture == a.result
  <2>0. picture \in {"none", "image"} /\ job' = [job EXCEPT !.pc = "planned", !.cover = picture]
    BY <1>1, <1>3, <1>7 DEF EnrichJobs
  <2> HIDE DEF picture
  <2>1. job' \in EnrichJobs /\ Retains /\ job'.pc = "planned" /\ LyricsRead' /\ job'.failed = FALSE
    BY <1>1, <1>7, <2>0, ZenonT(60) DEF EnrichJobs, Retains, EnrichInv, LyricsRead
  <2> QED BY <1>1, <2>1, QuietStep
<1> QED BY <1>5, <1>6, <1>7

----------------------------------------------------------------------------
(* What is taken over from a track keeps the album one release.              *)
SameRequest(next) ==
  /\ next \in EnrichJobs /\ next.update = job.update /\ next.known = job.known /\ next.replace = job.replace
  /\ next.failed = job.failed /\ next.read = job.read /\ next.lyrics = job.lyrics
Applies(next) ==
  /\ SameRequest(next)
  /\ \A f \in Fields : ~Selected(f) => next.req[f] = job.req[f]
  /\ ~job.replace /\ (Selected("album_name") \/ "album_name" \in job.known) =>
       /\ next.req["album_name"] \in {"", "x", "y"}
       /\ "album_name" \in job.known => next.req["album_name"] = "x"
       /\ \A f \in ReleaseFields : next.req[f] \in {"x", "y"} => next.req[f] = next.req["album_name"]

LEMMA AppliedApplies ==
  ASSUME EnrichInv, NEW t \in Tracks \cup {NoTrack}
  PROVE  Applies(Applied(t)) /\ Applied(t).list = job.list /\ Applied(t).picked = job.picked
<1>1. job \in EnrichJobs /\ AlbumNamed
  BY DEF EnrichInv
<1>2. CASE t = NoTrack
  <2>1. Applied(t) = job
    BY <1>2 DEF Applied
  <2> QED BY <1>1, <2>1 DEF Applies, SameRequest, AlbumNamed
<1>3. CASE t # NoTrack
  <2>0. t \in Tracks /\ t.album \in {"x", "y", ""} /\ (t.album # "" => "album_name" \in t.has)
    BY <1>3, ReEnrichAssumption DEF TrackRecords
  <2> DEFINE Taken(f) == /\ f \in t.has /\ TagOf(t, f) # "" /\ Selected(f)
                         /\ f \in ReleaseFields => SameRelease(t)
             req == [f \in Fields |-> IF Taken(f) THEN TagOf(t, f) ELSE job.req[f]]
  <2>1. job.req \in [Fields -> TagSources] /\ \A f \in Fields : TagOf(t, f) \in TagSources
    BY <1>1, <2>0 DEF EnrichJobs, TagOf, TagSources
  <2>2. req \in [Fields -> TagSources] /\ \A f \in Fields : req[f] = IF Taken(f) THEN TagOf(t, f) ELSE job.req[f]
    BY <2>1
  <2>3. Applied(t) = [job EXCEPT !.found = TRUE, !.req = req]
    BY <1>3 DEF Applied
  <2>4. \A f \in Fields : ~Selected(f) => req[f] = job.req[f]
    BY <2>2
  <2>5. ASSUME ~job.replace, Selected("album_name") \/ "album_name" \in job.known
        PROVE  /\ req["album_name"] \in {"", "x", "y"}
               /\ "album_name" \in job.known => req["album_name"] = "x"
               /\ \A f \in ReleaseFields : req[f] \in {"x", "y"} => req[f] = req["album_name"]
    <3>1. "album_name" \in Fields /\ "album_name" \in ReleaseFields
      BY FieldsAre DEF ReleaseFields
    <3>2. /\ job.req["album_name"] \in {"", "x", "y"}
          /\ "album_name" \in job.known => job.req["album_name"] = "x"
          /\ \A f \in ReleaseFields : job.req[f] \in {"x", "y"} => job.req[f] = job.req["album_name"]
      BY <1>1, <2>5 DEF AlbumNamed
    <3>3. SameRelease(t) => job.req["album_name"] = "" \/ t.album = "" \/ t.album = job.req["album_name"]
      BY <2>5 DEF SameRelease, SameAlbum
    <3>4. CASE ~SameRelease(t)
      <4>1. \A f \in ReleaseFields : req[f] = job.req[f]
        BY <2>2, <3>4, FieldsAre
      <4> QED BY <3>1, <3>2, <4>1
    <3>5. CASE t.album = ""
      <4>1. \A f \in ReleaseFields : req[f] = job.req[f] \/ (req[f] = "none" /\ f # "album_name")
        BY <2>2, <3>5, FieldsAre DEF TagOf
      <4> QED BY <3>1, <3>2, <4>1
    <3>6. CASE SameRelease(t) /\ t.album # ""
      <4>1. \A f \in ReleaseFields : TagOf(t, f) = t.album
        BY <3>6 DEF TagOf
      <4>2. \A f \in ReleaseFields : req[f] = t.album \/ req[f] = job.req[f]
        BY <2>2, <4>1, FieldsAre
      <4>3. req["album_name"] = t.album
        <5>1. CASE Selected("album_name")
          BY <2>0, <2>2, <3>1, <3>6, <4>1, <5>1
        <5>2. CASE ~Selected("album_name")
          BY <2>5, <2>2, <3>1, <3>2, <3>3, <3>6, <5>2
        <5> QED BY <5>1, <5>2
      <4>4. "album_name" \in job.known => t.album = "x"
        BY <3>2, <3>3, <3>6
      <4> QED BY <2>0, <3>1, <3>2, <3>3, <3>6, <4>2, <4>3, <4>4
    <3> QED BY <3>4, <3>5, <3>6
  <2> HIDE DEF req
  <2>6. SameRequest(Applied(t)) /\ Applied(t).req = req /\ Applied(t).list = job.list /\ Applied(t).picked = job.picked
    BY <1>1, <2>2, <2>3 DEF SameRequest, EnrichJobs
  <2> QED BY <2>4, <2>5, <2>6 DEF Applies
<1> QED BY <1>2, <1>3

LEMMA AppliedStep ==
  ASSUME EnrichInv, UNCHANGED audioFile, job.pc \notin {"idle", "failed", "done"}, Applies(job'), job'.failed = FALSE,
         job'.picked = 0, job'.pc \notin {"idle", "failed", "genre", "done"}
  PROVE  EnrichInv'
<1>1. \A g \in {"album_name", "genre"} \cup Fields : Selected(g)' = Selected(g)
  BY DEF Selected, Applies, SameRequest
<1>2. Unwritten' /\ FailsLate' /\ LyricsRead'
  BY DEF EnrichInv, Unwritten, FailsLate, LyricsRead, Applies, SameRequest
<1>3. KeepsTags'
  BY <1>1 DEF EnrichInv, KeepsTags, Applies, SameRequest
<1>4. AlbumNamed'
  BY <1>1 DEF AlbumNamed, Applies, SameRequest
<1>5. PickSound' /\ FileKept'
  BY DEF EnrichInv, PickSound, BestCandidate, FileKept, Unwritten
<1> QED BY <1>2, <1>3, <1>4, <1>5 DEF EnrichInv, Applies, SameRequest

LEMMA IdentifyStep ==
  ASSUME EnrichInv, Identify
  PROVE  EnrichInv'
<1>1. job \in EnrichJobs /\ job.pc = "identify" /\ UNCHANGED audioFile
  BY DEF EnrichInv, Identify
<1>2. PICK a \in BestEffort({t \in Tracks : Verified(t)} \cup {NoTrack}, NoTrack) :
        Proceed(a, [Applied(a.result) EXCEPT !.pc = "search"])
  BY DEF Identify
<1> DEFINE t == a.result
           r == Applied(t)
           next == [r EXCEPT !.pc = "search"]
<1>3. t \in Tracks \cup {NoTrack}
  BY DEF BestEffort
<1>4. Proceed(a, next)
  BY <1>2
<1> HIDE DEF t
<1>5. Applies(r) /\ r.picked = job.picked
  BY <1>3, AppliedApplies
<1> HIDE DEF r
<1>6. SameRequest(next) /\ next.req = r.req /\ next.picked = r.picked /\ next.pc = "search"
  BY <1>5 DEF Applies, SameRequest, EnrichJobs
<1>7. Applies(next)
  BY <1>5, <1>6 DEF Applies
<1> HIDE DEF next
<1>a. next \in EnrichJobs /\ next.failed = job.failed /\ job.failed \in BOOLEAN
  BY <1>1, <1>6 DEF SameRequest, EnrichJobs
<1>8. Fails \/ (job' = next /\ job.failed = FALSE)
  BY <1>4, <1>a, LookupEnds
<1>9. CASE Fails
  BY <1>1, <1>9, FailsStep
<1>10. CASE job' = next /\ job.failed = FALSE
  <2>1. Applies(job') /\ job'.failed = FALSE /\ job'.pc = "search" /\ job'.picked = 0
    BY <1>1, <1>5, <1>6, <1>7, <1>10 DEF SameRequest, EnrichInv, PickSound
  <2> QED BY <1>1, <2>1, AppliedStep
<1> QED BY <1>8, <1>9, <1>10

LEMMA PickStep ==
  ASSUME EnrichInv, Pick
  PROVE  EnrichInv'
<1>1. job \in EnrichJobs /\ job.pc = "picked" /\ UNCHANGED audioFile /\ job.failed = FALSE
  BY DEF EnrichInv, Pick, FailsLate, EnrichJobs
<1> DEFINE r == IF job.picked = 0 THEN job ELSE Applied(job.list[job.picked])
<1>2. job' = [r EXCEPT !.pc = "artist", !.list = <<>>, !.picked = 0]
  BY DEF Pick
<1>3. Applies(r)
  <2>1. CASE job.picked = 0
    BY <1>1, <2>1 DEF Applies, SameRequest, EnrichInv, AlbumNamed
  <2>2. CASE job.picked # 0
    <3>1. job.list \in SeqOf(Tracks, 2) /\ job.picked \in DOMAIN job.list
      BY <1>1, <2>2 DEF EnrichInv, PickSound, EnrichJobs
    <3>2. job.list[job.picked] \in Tracks
      BY <3>1, ShortList
    <3> QED BY <2>2, <3>2, AppliedApplies
  <2> QED BY <2>1, <2>2
<1> HIDE DEF r
<1>4. SameRequest(job') /\ job'.req = r.req /\ job'.picked = 0 /\ job'.pc = "artist"
  <2>1. r \in EnrichJobs /\ SameRequest(r)
    BY <1>3 DEF Applies, SameRequest
  <2> DEFINE nothing == <<>>
  <2>a. nothing \in SeqOf(Tracks, 2)
    BY NoList
  <2>b. job' = [r EXCEPT !.pc = "artist", !.list = nothing, !.picked = 0]
    BY <1>2
  <2> HIDE DEF nothing
  <2>2. job' \in EnrichJobs /\ job'.req = r.req /\ job'.picked = 0 /\ job'.pc = "artist"
        /\ job'.update = r.update /\ job'.known = r.known /\ job'.replace = r.replace
        /\ job'.failed = r.failed /\ job'.read = r.read /\ job'.lyrics = r.lyrics
    <3> DEFINE picked == 0
    <3>1. picked \in 0 .. 2 /\ picked = 0
      OBVIOUS
    <3>2. job' = [r EXCEPT !.pc = "artist", !.list = nothing, !.picked = picked]
      BY <2>b
    <3> HIDE DEF picked
    <3> DEFINE next == [r EXCEPT !.pc = "artist", !.list = nothing, !.picked = picked]
    <3>3. /\ next \in EnrichJobs /\ next.req = r.req /\ next.picked = picked /\ next.pc = "artist"
          /\ next.update = r.update /\ next.known = r.known /\ next.replace = r.replace
          /\ next.failed = r.failed /\ next.read = r.read /\ next.lyrics = r.lyrics
      <4>1. r \in EnrichJobs
        BY <2>1
      <4> QED BY <4>1, <2>a, <3>1 DEF EnrichJobs
    <3>4. job' = next
      BY <3>2
    <3> HIDE DEF next
    <3> QED BY <3>1, <3>3, <3>4
  <2> QED BY <2>1, <2>2 DEF SameRequest
<1>5. Applies(job') /\ job'.failed = FALSE
  BY <1>1, <1>3, <1>4 DEF Applies, SameRequest
<1> QED BY <1>1, <1>4, <1>5, AppliedStep

----------------------------------------------------------------------------
(* The choice among candidates: an ISRC is worth more than all the rest, and   *)
(* what was verified more than all that is found in a name.                  *)
LEMMA ScoreBounds ==
  ASSUME NEW t \in Tracks
  PROVE  /\ Score(t) \in Nat
         /\ Exact(t) => Score(t) >= 10000
         /\ ~Exact(t) => Score(t) < 10000
         /\ Verified(t) => Score(t) - Points(Exact(t), 10000) >= 2000
         /\ ~Verified(t) => Score(t) - Points(Exact(t), 10000) < 2000
<1> DEFINE p1 == Points(Verified(t), 2000) p2 == Points(Exact(t), 10000) p3 == Points(Names(t), 720)
           p4 == Points(SameAlbum(t), 120) p5 == Points(t.length = "near", 80)
           p6 == Points("release_date" \in t.has, 70) p7 == Points("track_number" \in t.has, 30)
           p8 == Points("isrc" \in t.has, 40)
<1>2. (p1 = 0 \/ p1 = 2000) /\ (Verified(t) => p1 = 2000) /\ (~Verified(t) => p1 = 0)
  <2>1. CASE Verified(t)
    BY <2>1 DEF Points
  <2>2. CASE ~Verified(t)
    BY <2>2 DEF Points
  <2> QED BY <2>1, <2>2
<1>3. (p2 = 0 \/ p2 = 10000) /\ (Exact(t) => p2 = 10000) /\ (~Exact(t) => p2 = 0)
  <2>1. CASE Exact(t)
    BY <2>1 DEF Points
  <2>2. CASE ~Exact(t)
    BY <2>2 DEF Points
  <2> QED BY <2>1, <2>2
<1>4. (p3 = 0 \/ p3 = 720) /\ (p4 = 0 \/ p4 = 120) /\ (p5 = 0 \/ p5 = 80) /\ (p6 = 0 \/ p6 = 70) /\ (p7 = 0 \/ p7 = 30)
      /\ (p8 = 0 \/ p8 = 40)
  BY Zenon DEF Points
<1>5. Score(t) = p1 + p2 + p3 + p4 + p5 + p6 + p7 + p8
  BY DEF Score
<1>6. Points(Exact(t), 10000) = p2
  OBVIOUS
<1> HIDE DEF p1, p2, p3, p4, p5, p6, p7, p8
<1> QED BY <1>2, <1>3, <1>4, <1>5, <1>6

LEMMA SelectIsBest ==
  ASSUME NEW list \in SeqOf(Tracks, 2), Select(list) # 0
  PROVE  /\ Select(list) \in DOMAIN list
         /\ \A n \in DOMAIN list : Eligible(list[n]) =>
              /\ Exact(list[n]) => Exact(list[Select(list)])
              /\ Exact(list[n]) = Exact(list[Select(list)]) /\ Verified(list[n]) => Verified(list[Select(list)])
<1> DEFINE good == {n \in DOMAIN list : Eligible(list[n])}
           Best(n) == \A m \in good : Score(list[m]) < Score(list[n]) \/ (Score(list[m]) = Score(list[n]) /\ n <= m)
<1>1. good # {} /\ Select(list) = CHOOSE n \in good : Best(n)
  BY DEF Select
<1>2. good \in {{}, {1}, {2}, {1, 2}} /\ good \subseteq DOMAIN list
  BY ShortList
<1>3. \A n \in DOMAIN list : list[n] \in Tracks
  BY ShortList
<1>4. \A n \in good : Score(list[n]) \in Nat
  BY <1>2, <1>3, ScoreBounds
<1>5. \E n \in good : Best(n)
  <2>1. CASE good = {1} \/ good = {2}
    BY <1>4, <2>1
  <2>2. CASE good = {1, 2}
    <3>1. Score(list[1]) \in Nat /\ Score(list[2]) \in Nat
      BY <1>4, <2>2
    <3>2. Score(list[2]) <= Score(list[1]) \/ Score(list[1]) < Score(list[2])
      BY <3>1
    <3>3. CASE Score(list[2]) <= Score(list[1])
      <4>1. Best(1)
        BY <2>2, <3>1, <3>3
      <4> QED BY <2>2, <4>1
    <3>4. CASE Score(list[1]) < Score(list[2])
      <4>1. Best(2)
        BY <2>2, <3>1, <3>4
      <4> QED BY <2>2, <4>1
    <3> QED BY <3>2, <3>3, <3>4
  <2> QED BY <1>1, <1>2, <2>1, <2>2
<1> DEFINE best == Select(list)
<1>6. best \in good /\ Best(best)
  BY <1>1, <1>5
<1>7. best \in DOMAIN list /\ list[best] \in Tracks
  BY <1>2, <1>3, <1>6
<1>8. ASSUME NEW n \in DOMAIN list, Eligible(list[n])
      PROVE  /\ Exact(list[n]) => Exact(list[best])
             /\ Exact(list[n]) = Exact(list[best]) /\ Verified(list[n]) => Verified(list[best])
  <2>1. n \in good
    BY <1>8
  <2>2. Score(list[n]) <= Score(list[best]) /\ list[n] \in Tracks
    BY <1>3, <1>4, <1>6, <2>1
  <2> HIDE DEF best, good
  <2>3. Exact(list[n]) => Exact(list[best])
    BY <1>7, <2>2, ScoreBounds
  <2>4. ASSUME Exact(list[n]) = Exact(list[best]), Verified(list[n]) PROVE Verified(list[best])
    <3>1. Points(Exact(list[n]), 10000) = Points(Exact(list[best]), 10000)
      BY <2>4
    <3>2. Points(Exact(list[best]), 10000) \in Nat
      BY DEF Points
    <3> QED BY <1>7, <2>2, <2>4, <3>1, <3>2, ScoreBounds
  <2> QED BY <2>3, <2>4
<1> QED BY <1>7, <1>8

LEMMA SearchStep ==
  ASSUME EnrichInv, Search
  PROVE  EnrichInv'
<1>1. job \in EnrichJobs /\ job.pc = "search" /\ UNCHANGED audioFile /\ job.failed = FALSE /\ job.picked = 0
  BY DEF EnrichInv, Search, FailsLate, EnrichJobs, PickSound
<1>2. CASE ~HasQuery
  <2>1. job' = [job EXCEPT !.pc = "artist"]
    BY <1>2 DEF Search
  <2>2. job' \in EnrichJobs /\ Retains /\ LyricsRead' /\ job'.failed = FALSE /\ job'.pc = "artist"
    BY <1>1, <2>1, ZenonT(60) DEF EnrichJobs, Retains, EnrichInv, LyricsRead
  <2> QED BY <1>1, <2>2, QuietStep
<1>3. CASE HasQuery
  <2>1. PICK a \in BestEffort(SeqOf(Tracks, 2), <<>>) :
          Proceed(a, [job EXCEPT !.pc = "picked", !.list = a.result, !.picked = Select(a.result)])
    BY <1>3 DEF Search
  <2> DEFINE list == a.result
             picked == Select(list)
             next == [job EXCEPT !.pc = "picked", !.list = list, !.picked = picked]
  <2>2. list \in SeqOf(Tracks, 2)
    BY NoList DEF BestEffort
  <2>3. Proceed(a, next)
    BY <2>1
  <2> HIDE DEF list
  <2>4. picked = 0 \/ picked \in DOMAIN list
    BY <2>2, SelectIsBest
  <2>5. picked \in 0 .. 2
    BY <2>2, <2>4, ShortList
  <2>6. picked # 0 => \A n \in DOMAIN list : Eligible(list[n]) =>
              /\ Exact(list[n]) => Exact(list[picked])
              /\ Exact(list[n]) = Exact(list[picked]) /\ Verified(list[n]) => Verified(list[picked])
    BY <2>2, SelectIsBest
  <2> HIDE DEF picked
  <2>7. /\ next \in EnrichJobs /\ next.pc = "picked" /\ next.list = list /\ next.picked = picked
        /\ next.update = job.update /\ next.known = job.known /\ next.replace = job.replace /\ next.req = job.req
        /\ next.failed = job.failed /\ next.read = job.read /\ next.lyrics = job.lyrics
    BY <1>1, <2>2, <2>5, ZenonT(60) DEF EnrichJobs
  <2> HIDE DEF next
  <2>8. Fails \/ job' = next
    BY <1>1, <2>3, <2>7, LookupEnds
  <2>9. CASE Fails
    BY <1>1, <2>9, FailsStep
  <2>10. CASE job' = next
    <3>1. \A g \in {"album_name", "genre"} \cup Fields : Selected(g)' = Selected(g)
      BY <2>7, <2>10 DEF Selected
    <3>2. job' \in EnrichJobs /\ Unwritten' /\ FailsLate' /\ LyricsRead' /\ FileKept'
      BY <1>1, <2>7, <2>10 DEF EnrichInv, Unwritten, FailsLate, LyricsRead, FileKept
    <3>3. KeepsTags' /\ AlbumNamed'
      BY <1>1, <2>7, <2>10, <3>1 DEF EnrichInv, KeepsTags, AlbumNamed
    <3>4. \A t : Exact(t)' = Exact(t) /\ Verified(t)' = Verified(t) /\ Eligible(t)' = Eligible(t)
      <4>1. job'.req = job.req /\ job'.known = job.known
        BY <2>7, <2>10
      <4> QED BY <4>1 DEF Exact, Verified, Eligible, Named, Names, SameAlbum
    <3>5. job'.list = list /\ job'.picked = picked /\ job'.pc = "picked"
      BY <2>7, <2>10
    <3>6. BestCandidate'
      BY <2>6, <3>4, <3>5 DEF BestCandidate
    <3>7. PickSound'
      BY <2>4, <3>5, <3>6 DEF PickSound
    <3> QED BY <1>1, <3>2, <3>3, <3>7 DEF EnrichInv
  <2> QED BY <2>8, <2>9, <2>10
<1> QED BY <1>2, <1>3

LEMMA WriteFlacStep ==
  ASSUME EnrichInv, WriteFlac
  PROVE  EnrichInv'
<1>1. job \in EnrichJobs /\ job.pc = "write" /\ audioFile \in EnrichedFiles
  BY DEF EnrichInv, WriteFlac
<1>2. CASE Fails /\ UNCHANGED audioFile
  BY <1>1, <1>2, FailsStep
<1>3. CASE ~(Fails /\ UNCHANGED audioFile)
  <2>1. PICK external \in BOOLEAN :
          /\ TRUE \in Checks(job.failed)
          /\ audioFile' = [audioFile EXCEPT
                             !.tags = [f \in Fields |-> IF Writes(f) THEN job.req[f] ELSE audioFile.tags[f]],
                             !.lyrics = IF Selected("lyrics") /\ ~external /\ job.lyrics # "" THEN job.lyrics
                                        ELSE audioFile.lyrics]
          /\ job' = [job EXCEPT !.pc = "done"]
    BY <1>3 DEF WriteFlac
  <2> DEFINE tags == [f \in Fields |-> IF Writes(f) THEN job.req[f] ELSE audioFile.tags[f]]
             lyrics == IF Selected("lyrics") /\ ~external /\ job.lyrics # "" THEN job.lyrics ELSE audioFile.lyrics
  <2>2. tags \in [Fields -> TagSources] /\ \A f \in Fields : tags[f] \in {job.req[f], audioFile.tags[f]}
    BY <1>1 DEF EnrichJobs, EnrichedFiles
  <2>3. lyrics \in {"", "real", "marker", "fetched"} /\ lyrics \in {job.lyrics, audioFile.lyrics}
        /\ (~Selected("lyrics") => lyrics = audioFile.lyrics)
    BY <1>1 DEF EnrichJobs, EnrichedFiles
  <2>4. audioFile' = [audioFile EXCEPT !.tags = tags, !.lyrics = lyrics]
    BY <2>1
  <2> HIDE DEF tags, lyrics
  <2>5. audioFile' \in EnrichedFiles /\ audioFile'.tags = tags /\ audioFile'.lyrics = lyrics
        /\ audioFile'.had = audioFile.had /\ audioFile'.known = audioFile.known
    BY <1>1, <2>2, <2>3, <2>4 DEF EnrichedFiles
  <2>6. job' \in EnrichJobs /\ Retains /\ job'.pc = "done" /\ job'.read = job.read /\ job'.lyrics = job.lyrics
        /\ job'.failed = FALSE
    BY <1>1, <2>1 DEF EnrichJobs, Retains, EnrichInv, FailsLate
  <2>7. \A g \in {"album_name", "genre", "lyrics"} \cup Fields : Selected(g)' = Selected(g)
    BY <2>6 DEF Selected, Retains
  <2>8. Unwritten' /\ FailsLate' /\ LyricsRead'
    BY <2>5, <2>6 DEF EnrichInv, Unwritten, FailsLate, LyricsRead
  <2>9. KeepsTags' /\ AlbumNamed'
    BY <1>1, <2>5, <2>6, <2>7 DEF EnrichInv, KeepsTags, AlbumNamed, Retains
  <2>10. PickSound'
    BY <1>1, <2>6 DEF EnrichInv, PickSound, BestCandidate, Retains
  <2>11. FileKept'
    <3>1. audioFile.had = "real" /\ (job.read \/ ~Selected("lyrics")) => lyrics \in {"real", "fetched"}
      BY <1>1, <2>3 DEF EnrichInv, Unwritten, LyricsRead
    <3>2. \A f \in Fields : ~Selected(f) => tags[f] = FileTag(audioFile.known, f)
      BY <1>1, <2>2 DEF EnrichInv, Unwritten, KeepsTags
    <3>3. \A f : FileTag(audioFile.known, f)' = FileTag(audioFile.known, f)
      BY <2>5 DEF FileTag
    <3> QED BY <2>5, <2>6, <2>7, <3>1, <3>2, <3>3 DEF FileKept
  <2> QED BY <2>5, <2>6, <2>8, <2>9, <2>10, <2>11 DEF EnrichInv
<1> QED BY <1>2, <1>3

LEMMA EnrichIdle ==
  ASSUME EnrichInv, UNCHANGED enrichVars
  PROVE  EnrichInv'
<1> USE DEF enrichVars
<1>1. \A g : Selected(g)' = Selected(g)
  BY DEF Selected
<1>2. Unwritten' /\ FailsLate' /\ LyricsRead' /\ FileKept'
  BY <1>1 DEF EnrichInv, Unwritten, FailsLate, LyricsRead, FileKept, FileTag
<1>3. KeepsTags' /\ AlbumNamed'
  BY <1>1 DEF EnrichInv, KeepsTags, AlbumNamed, FileTag
<1>4. \A t : Exact(t)' = Exact(t) /\ Verified(t)' = Verified(t) /\ Eligible(t)' = Eligible(t)
  BY DEF Exact, Verified, Eligible, Named, Names, SameAlbum
<1>5. PickSound'
  BY <1>4 DEF EnrichInv, PickSound, BestCandidate
<1> QED BY <1>2, <1>3, <1>5 DEF EnrichInv

LEMMA EnrichNextInv ==
  ASSUME EnrichInv, [EnrichNext]_enrichVars
  PROVE  EnrichInv'
BY StartEnrichStep, IdentifyStep, SearchStep, PickStep, AlbumArtistStep, ExtendedStep, GenreStep, ResolvedStep,
   ExtractLyricsStep, FetchLyricsStep, DownloadCoverStep, JoinStep, WriteFlacStep, PlanFfmpegStep, EnrichIdle
   DEF EnrichNext

LEMMA EnrichInvIsSound == EnrichInv => EnrichSound
<1> SUFFICES ASSUME EnrichInv PROVE EnrichSound
  OBVIOUS
<1>1. NothingLost /\ BestCandidate /\ FileKept
  BY DEF EnrichInv, FailsLate, NothingLost, PickSound
<1>2. OneRelease
  <2> DEFINE of(f) == IF job.req[f] # "own" THEN job.req[f] ELSE IF "album_name" \in job.known THEN "x" ELSE "none"
             releases == {of(f) : f \in ReleaseFields} \cap {"x", "y"}
  <2>1. SUFFICES ASSUME ~job.replace /\ (Selected("album_name") \/ "album_name" \in job.known)
                 PROVE  Cardinality(releases) <= 1
    BY DEF OneRelease
  <2>2. \A f \in ReleaseFields : of(f) \in {"x", "y"} => of(f) = job.req["album_name"]
    BY <2>1 DEF EnrichInv, AlbumNamed
  <2>3. releases \subseteq {job.req["album_name"]}
    BY <2>2
  <2> HIDE DEF releases
  <2>4. IsFiniteSet({job.req["album_name"]}) /\ Cardinality({job.req["album_name"]}) = 1
    BY FS_Singleton
  <2>5. Cardinality(releases) <= Cardinality({job.req["album_name"]})
    BY <2>3, <2>4, FS_Subset
  <2> QED BY <2>4, <2>5
<1> QED BY <1>1, <1>2 DEF EnrichSound

(* A request to complete the tags of a file takes one track of the best of    *)
(* those found, keeps the album one release, leaves what is not to be updated, *)
(* loses no lyrics, and writes nothing after a failed check (reenrich_file).  *)
THEOREM EnrichmentIsSound == EnrichSpec => []EnrichSound
<1>1. EnrichInit => EnrichInv
  BY EnrichInitInv
<1>2. EnrichInv /\ [EnrichNext]_enrichVars => EnrichInv'
  BY EnrichNextInv
<1> QED BY <1>1, <1>2, EnrichInvIsSound, PTL DEF EnrichSpec
=============================================================================
