-------------------------- MODULE DownloadsProofs ---------------------------
(***************************************************************************)
(* Proofs about downloads, for all values of the constants: of what their   *)
(* progress shows (ProgressRegistry), of the planner (DownloadPlanner), and *)
(* of a transfer in segments (SegmentedTransfer).                           *)
(***************************************************************************)
EXTENDS Backend, ProgressRegistry, DownloadPlanner, ResumableTransfer, SegmentedTransfer,
        FiniteSetTheorems, SequenceTheorems, TLAPS

(***************************************************************************)
(* The progress registry.  The mirror of the Android service is exact       *)
(* whenever it has caught up, and the cached snapshot is never stale.       *)
(***************************************************************************)

(* Every operation on an item yields an item. *)
LEMMA ItemOps ==
  ASSUME NEW i \in Item
  PROVE  /\ NewItem \in Item
         /\ MarkDownloading(i) \in Item
         /\ \A stage \in Stages : PreparingItem(i, stage) \in Item
         /\ \A t \in Amounts : [i EXCEPT !.total = t] \in Item
         /\ \A s \in Speeds : [i EXCEPT !.speed = s] \in Item
         /\ FinalizingItem(i) \in Item
         /\ CompleteItem(i) \in Item
BY ProgressAssumption
   DEF Item, Status, NewItem, MarkDownloading, PreparingItem, FinalizingItem, CompleteItem

LEMMA ReceivedItemType ==
  ASSUME NEW i \in Item, NEW n \in Amounts
  PROVE  ReceivedItem(i, n) \in Item
<1> DEFINE p == IF i.total > 0 THEN (100 * n) \div i.total ELSE i.progress
           j == [i EXCEPT !.received = n, !.progress = p]
<1>1. n \in Nat /\ i.total \in Nat /\ i.progress \in Nat \cup {NaN}
  BY ProgressAssumption DEF Item
<1>2. p \in Nat \cup {NaN}
  <2>1. CASE i.total > 0
    <3>1. \A x, y \in Nat : y > 0 => x \div y \in Nat OBVIOUS
    <3>2. 100 * n \in Nat BY <1>1
    <3> QED BY <1>1, <2>1, <3>1, <3>2
  <2> QED BY <1>1, <2>1
<1> HIDE DEF p
<1>3. j \in Item BY <1>1, <1>2 DEF Item
<1>4. ReceivedItem(i, n) = IF n > 0 THEN MarkDownloading(j) ELSE j
  BY DEF ReceivedItem, p
<1> QED BY <1>3, <1>4, ItemOps

LEMMA ProgressItemType ==
  ASSUME NEW i \in Item, NEW p \in Percents, NEW n \in Amounts, NEW t \in Amounts
  PROVE  ProgressItem(i, p, n, t) \in Item
<1> DEFINE bytes == n > 0 \/ t > 0
           j == [i EXCEPT !.progress = IF i.status # "preparing" \/ bytes \/ Done(p) THEN p ELSE 0,
                          !.received = IF n > 0 THEN n ELSE i.received,
                          !.total = IF t > 0 THEN t ELSE i.total]
<1>1. n \in Nat /\ t \in Nat /\ p \in Nat \cup {NaN} BY ProgressAssumption
<1>2. j \in Item BY <1>1 DEF Item
<1>3. ProgressItem(i, p, n, t) =
        IF bytes \/ Done(p) \/ i.status = "downloading" THEN MarkDownloading(j) ELSE j
  BY DEF ProgressItem, Item
<1> QED BY <1>2, <1>3, ItemOps

(* The parts of IInv that concern the reader survive a registry step that  *)
(* keeps every up-to-date mirror up to date.                               *)
LEMMA RegistryFrame ==
  ASSUME IInv, TypeOK', SnapshotFresh',
         UNCHANGED <<mirror, since, current, control, sub, asked, payload>>,
         \A r \in Readers : \/ phase'[r] = phase[r]
                            \/ phase[r] = "asleep" /\ phase'[r] = "check",
         seq' >= seq, reset' >= reset, reset' <= seq', closed => closed',
         \A id \in Ids : revision'[id] <= seq' /\ removed'[id] <= seq',
         \A id \in Ids : item'[id] # NoItem => removed'[id] = 0,
         \A m \in Items, s \in Nat :
            ~closed' /\ s <= seq /\ s >= reset' /\ UpToDate(m, s) => UpToDate(m, s)'
  PROVE  IInv'
<1>1. Bounds' BY DEF IInv, Bounds, TypeOK
<1>2. NoRemovalLost'
  <2> SUFFICES ASSUME ~closed', since' > 0, since' >= reset' PROVE UpToDate(mirror, since)'
    BY DEF NoRemovalLost
  <2>1. ~closed /\ since > 0 /\ since >= reset BY DEF IInv, TypeOK
  <2>2. UpToDate(mirror, since) BY <2>1 DEF IInv, NoRemovalLost
  <2>3. mirror \in Items /\ since \in Nat /\ since <= seq BY DEF IInv, TypeOK, Bounds
  <2>4. \A m \in Items, s \in Nat : m = mirror /\ s = since => UpToDate(m, s)'
    BY <2>2, <2>3
  <2> QED BY <2>3, <2>4 DEF UpToDate
<1>3. PayloadGood'
  <2> SUFFICES ASSUME NEW r \in Readers, current' = r, phase'[r] = "payload",
                      payload'[r] # NoDelta
               PROVE  /\ payload'[r].seq > since' /\ payload'[r].seq <= seq'
                      /\ ~closed' /\ payload'[r].seq >= reset' =>
                           UpToDate(Applied(mirror, payload[r]), payload[r].seq)'
    BY DEF PayloadGood, NoDelta, NoItems
  <2> DEFINE d == payload[r]
             a == Applied(mirror, d)
  <2>1. current = r /\ phase[r] = "payload" /\ d # NoDelta OBVIOUS
  <2>2. d \in Delta /\ mirror \in Items BY DEF IInv, TypeOK
  <2>3. d.seq > since /\ d.seq <= seq /\ d.seq \in Nat
    BY <2>1, <2>2 DEF IInv, PayloadGood, Delta
  <2>4. a \in Items BY <2>2 DEF Applied, Items, Delta
  <2>5. d.seq <= seq' BY <2>3 DEF IInv, TypeOK
  <2>6. ASSUME ~closed', d.seq >= reset' PROVE UpToDate(Applied(mirror, payload[r]), payload[r].seq)'
    <3>1. d.seq >= reset /\ ~closed BY <2>3, <2>6 DEF IInv, TypeOK
    <3>2. UpToDate(a, d.seq) BY <2>1, <3>1 DEF IInv, PayloadGood
    <3> HIDE DEF a, d
    <3>3. \A m \in Items, s \in Nat : m = a /\ s = d.seq => UpToDate(m, s)'
      BY <2>3, <2>6, <3>2
    <3>4. Applied(mirror, payload[r])' = a /\ payload'[r].seq = d.seq
      BY DEF a, d, Applied
    <3> QED BY <2>3, <2>4, <3>3, <3>4 DEF UpToDate
  <2> QED BY <2>3, <2>5, <2>6
<1> QED BY <1>1, <1>2, <1>3 DEF IInv

(* The condition variable wakes sleepers and nobody else. *)
LEMMA WakeAllEffect ==
  ASSUME TypeOK, WakeAll \/ UNCHANGED phase
  PROVE  /\ \A r \in Readers : \/ phase'[r] = phase[r]
                               \/ phase[r] = "asleep" /\ phase'[r] = "check"
         /\ phase' \in [Readers -> {"free", "idle", "read", "check", "asleep", "payload"}]
BY DEF TypeOK, WakeAll

LEMMA StartIInv ==
  ASSUME IInv, NEW id \in Ids, Start(id)
  PROVE  IInv'
<1>1. /\ seq' = seq + 1 /\ dirty' = TRUE /\ WakeAll
      /\ item' = [item EXCEPT ![id] = NewItem]
      /\ revision' = [revision EXCEPT ![id] = seq + 1]
      /\ removed' = [removed EXCEPT ![id] = 0]
      /\ UNCHANGED <<reset, cached, closed, mirror, since, current, control, sub, asked, payload>>
  BY DEF Start, NextSeq, service
<1>t. TypeOK /\ Bounds BY DEF IInv
<1>2. NewItem \in Item BY DEF NewItem, Item, Status
<1>3. TypeOK' BY <1>1, <1>2, <1>t, WakeAllEffect DEF TypeOK, Items
<1>4. SnapshotFresh' BY <1>1 DEF SnapshotFresh
<1>5. /\ seq \in Nat /\ seq' > seq /\ reset' <= seq'
      /\ \A j \in Ids : revision'[j] <= seq' /\ removed'[j] <= seq'
      /\ \A j \in Ids : item'[j] # NoItem => removed'[j] = 0
  BY <1>1, <1>t DEF TypeOK, Bounds
<1>6. ASSUME NEW m \in Items, NEW s \in Nat, s <= seq, UpToDate(m, s)
      PROVE  UpToDate(m, s)'
  <2>1. item'[id] # NoItem /\ revision'[id] > s
    BY <1>1, <1>2, <1>5, <1>6, <1>t, NoItemAssumption DEF TypeOK, Items
  <2>2. \A j \in Ids : j # id => /\ item'[j] = item[j] /\ revision'[j] = revision[j]
                                 /\ removed'[j] = removed[j]
    BY <1>1, <1>t DEF TypeOK, Items
  <2> QED BY <1>5, <1>6, <2>1, <2>2, <1>3 DEF UpToDate, TypeOK
<1> QED BY <1>1, <1>3, <1>4, <1>5, <1>6, <1>t, WakeAllEffect, RegistryFrame DEF TypeOK

LEMMA UpdateIInv ==
  ASSUME IInv, NEW id \in Ids, NEW i \in Item, Update(id, i)
  PROVE  IInv'
<1>t. TypeOK /\ Bounds BY DEF IInv
<1>1. /\ item' = [item EXCEPT ![id] = i] /\ item[id] # NoItem /\ i # NoItem
      /\ UNCHANGED <<removed, reset, cached, closed, mirror, since, current, control, sub,
                     asked, payload>>
  BY NoItemAssumption DEF Update, service
<1>2. \/ /\ Bridge(i) = Bridge(item[id])
         /\ UNCHANGED <<revision, seq, dirty, phase>>
      \/ /\ seq' = seq + 1 /\ dirty' = TRUE /\ WakeAll
         /\ revision' = [revision EXCEPT ![id] = seq + 1]
  BY DEF Update, NextSeq
<1>3. TypeOK'
  <2>1. item' \in Items BY <1>1, <1>t DEF TypeOK, Items
  <2>2. phase' \in [Readers -> {"free", "idle", "read", "check", "asleep", "payload"}]
    BY <1>2, <1>t, WakeAllEffect
  <2>3. revision' \in [Ids -> Nat] /\ seq' \in Nat
    <3>1. revision \in [Ids -> Nat] /\ seq \in Nat BY <1>t DEF TypeOK
    <3> QED BY <1>2, <3>1
  <2>4. dirty' \in BOOLEAN BY <1>2, <1>t DEF TypeOK
  <2> QED BY <1>1, <1>t, <2>1, <2>2, <2>3, <2>4 DEF TypeOK
<1>4. \A j \in Ids : j # id => /\ item'[j] = item[j] /\ revision'[j] = revision[j]
                               /\ removed'[j] = removed[j]
  BY <1>1, <1>2, <1>t DEF TypeOK, Items
<1>5. item'[id] = i BY <1>1, <1>t DEF TypeOK, Items
<1>6. SnapshotFresh'
  BY <1>1, <1>2, <1>4, <1>5 DEF IInv, SnapshotFresh, View
<1>7. /\ seq \in Nat /\ seq' >= seq /\ reset' <= seq'
      /\ \A j \in Ids : revision'[j] <= seq' /\ removed'[j] <= seq'
  BY <1>1, <1>2, <1>t DEF TypeOK, Bounds
<1>8. \A j \in Ids : item'[j] # NoItem => removed'[j] = 0
  BY <1>1, <1>4, <1>t DEF Bounds
<1>9. ASSUME NEW m \in Items, NEW s \in Nat, s <= seq, UpToDate(m, s)
      PROVE  UpToDate(m, s)'
  <2>1. revision'[id] <= s => View(m[id]) = View(item'[id])
    <3>1. CASE Bridge(i) = Bridge(item[id]) /\ UNCHANGED <<revision, seq, dirty, phase>>
      BY <1>1, <1>5, <1>9, <3>1 DEF UpToDate, View
    <3>2. CASE seq' = seq + 1 /\ revision' = [revision EXCEPT ![id] = seq + 1]
      BY <1>7, <1>9, <3>2, <1>t DEF TypeOK
    <3> QED BY <1>2, <3>1, <3>2
  <2> QED BY <1>1, <1>4, <1>5, <1>9, <2>1 DEF UpToDate
<1> QED BY <1>1, <1>2, <1>3, <1>6, <1>7, <1>8, <1>9, <1>t, WakeAllEffect, RegistryFrame DEF TypeOK

(* Pruning keeps every tombstone that a reader at or beyond the reset      *)
(* point may still need.                                                   *)
LEMMA PruneEffect ==
  ASSUME NEW tombs \in [Ids -> Nat], reset \in Nat, Prune(tombs), NEW n \in Nat,
         \A id \in Ids : tombs[id] <= n, reset <= n
  PROVE  /\ removed' \in [Ids -> Nat] /\ reset' \in Nat
         /\ reset' >= reset /\ reset' <= n
         /\ \A id \in Ids : removed'[id] <= n /\ removed'[id] <= tombs[id]
         /\ \A id \in Ids, s \in Nat : s >= reset' /\ tombs[id] > s => removed'[id] > s
<1> DEFINE revisions == {tombs[id] : id \in {i \in Ids : tombs[i] > 0}}
<1>1. CASE removed' = tombs /\ UNCHANGED reset BY <1>1
<1>2. CASE \E cutoff \in revisions :
               /\ removed' = [id \in Ids |-> IF tombs[id] > cutoff THEN tombs[id] ELSE 0]
               /\ reset' = IF cutoff > reset THEN cutoff ELSE reset
  <2>1. PICK cutoff \in revisions :
               /\ removed' = [id \in Ids |-> IF tombs[id] > cutoff THEN tombs[id] ELSE 0]
               /\ reset' = IF cutoff > reset THEN cutoff ELSE reset
    BY <1>2
  <2>2. cutoff \in Nat /\ cutoff <= n OBVIOUS
  <2> HIDE DEF revisions
  <2> QED BY <2>1, <2>2
<1> QED BY <1>1, <1>2 DEF Prune

LEMMA RemoveIInv ==
  ASSUME IInv, NEW id \in Ids, Remove(id)
  PROVE  IInv'
<1>t. TypeOK /\ Bounds BY DEF IInv
<1> DEFINE tombs == [removed EXCEPT ![id] = seq + 1]
<1>1. /\ seq' = seq + 1 /\ dirty' = TRUE /\ WakeAll
      /\ item' = [item EXCEPT ![id] = NoItem]
      /\ revision' = [revision EXCEPT ![id] = 0]
      /\ Prune(tombs)
      /\ UNCHANGED <<cached, closed, mirror, since, current, control, sub, asked, payload>>
  BY DEF Remove, NextSeq, service
<1>2. /\ tombs \in [Ids -> Nat] /\ seq \in Nat /\ seq' \in Nat /\ reset \in Nat /\ reset <= seq'
      /\ \A j \in Ids : tombs[j] <= seq'
      /\ tombs[id] = seq + 1
      /\ \A j \in Ids : j # id => tombs[j] = removed[j]
  BY <1>1, <1>t DEF TypeOK, Bounds
<1> HIDE DEF tombs
<1>3. /\ removed' \in [Ids -> Nat] /\ reset' \in Nat
      /\ reset' >= reset /\ reset' <= seq'
      /\ \A j \in Ids : removed'[j] <= seq' /\ removed'[j] <= tombs[j]
      /\ \A j \in Ids, s \in Nat : s >= reset' /\ tombs[j] > s => removed'[j] > s
  BY <1>1, <1>2, PruneEffect
<1>4. TypeOK' BY <1>1, <1>2, <1>3, <1>t, WakeAllEffect DEF TypeOK, Items
<1>5. SnapshotFresh' BY <1>1 DEF SnapshotFresh
<1>6. /\ item'[id] = NoItem /\ revision'[id] = 0
      /\ \A j \in Ids : j # id => item'[j] = item[j] /\ revision'[j] = revision[j]
  BY <1>1, <1>t DEF TypeOK, Items
<1>7. \A j \in Ids : revision'[j] <= seq'
  BY <1>1, <1>2, <1>6, <1>t DEF TypeOK, Bounds
<1>8. ASSUME NEW j \in Ids, item'[j] # NoItem PROVE removed'[j] = 0
  <2>1. tombs[j] = 0 BY <1>2, <1>6, <1>8, <1>t DEF Bounds
  <2> QED BY <1>3, <2>1
<1>9. ASSUME NEW m \in Items, NEW s \in Nat, s <= seq, s >= reset', UpToDate(m, s)
      PROVE  UpToDate(m, s)'
  <2>1. removed'[id] > s BY <1>2, <1>3, <1>9
  <2>2. \A j \in Ids : j # id /\ item[j] = NoItem /\ m[j] # NoItem => removed'[j] > s
    BY <1>2, <1>3, <1>9 DEF UpToDate
  <2> QED BY <1>6, <1>9, <2>1, <2>2 DEF UpToDate
<1> QED BY <1>1, <1>2, <1>3, <1>4, <1>5, <1>7, <1>8, <1>9, <1>t, WakeAllEffect, RegistryFrame

(* The steps of the registry that touch all items or none. *)
LEMMA OtherRegistryIInv ==
  ASSUME IInv, Clear \/ Snapshot \/ Shutdown \/ \E id \in Ids : RemoveMissing(id)
  PROVE  IInv'
<1>t. TypeOK /\ Bounds BY DEF IInv
<1>z. NoItems \in Items BY DEF NoItems, Items
<1>1. CASE Clear
  <2>1. /\ seq' = seq + 1 /\ dirty' = TRUE /\ WakeAll /\ reset' = seq + 1
        /\ item' = NoItems /\ revision' = [id \in Ids |-> 0] /\ removed' = [id \in Ids |-> 0]
        /\ UNCHANGED <<cached, closed, mirror, since, current, control, sub, asked, payload>>
    BY <1>1 DEF Clear, NextSeq, service
  <2>2. TypeOK' BY <2>1, <1>t, <1>z, WakeAllEffect DEF TypeOK
  <2>3. SnapshotFresh' BY <2>1 DEF SnapshotFresh
  <2>4. seq \in Nat /\ reset' > seq /\ reset' >= reset /\ reset' <= seq' /\ seq' >= seq
    BY <2>1, <1>t DEF TypeOK, Bounds
  <2>5. \A id \in Ids : revision'[id] <= seq' /\ removed'[id] <= seq' /\ removed'[id] = 0
    BY <2>1, <2>4
  <2> QED BY <2>1, <2>2, <2>3, <2>4, <2>5, <1>t, WakeAllEffect, RegistryFrame
<1>2. CASE Snapshot \/ \E id \in Ids : RemoveMissing(id)
  <2>1. UNCHANGED <<item, revision, removed, seq, reset, closed, mirror, since, current,
                    control, phase, sub, asked, payload>>
    BY <1>2 DEF Snapshot, RemoveMissing, service, reads
  <2>2. TypeOK' /\ SnapshotFresh'
    BY <1>2, <1>t DEF Snapshot, RemoveMissing, TypeOK, SnapshotFresh, service, reads
  <2>3. \A m \in Items, s \in Nat : UpToDate(m, s) => UpToDate(m, s)' BY <2>1 DEF UpToDate
  <2>4. /\ seq' >= seq /\ reset' >= reset /\ reset' <= seq'
        /\ \A id \in Ids : revision'[id] <= seq' /\ removed'[id] <= seq'
        /\ \A id \in Ids : item'[id] # NoItem => removed'[id] = 0
    BY <2>1, <1>t DEF TypeOK, Bounds
  <2> QED BY <2>1, <2>2, <2>3, <2>4, RegistryFrame
<1>3. CASE Shutdown
  <2>1. /\ closed' = TRUE /\ WakeAll
        /\ item' = NoItems /\ revision' = [id \in Ids |-> 0]
        /\ removed' = [id \in Ids |-> 0] /\ cached' = NoItems
        /\ UNCHANGED <<seq, reset, dirty, mirror, since, current, control, sub, asked, payload>>
    BY <1>3 DEF Shutdown, service
  <2>2. TypeOK' BY <2>1, <1>t, <1>z, WakeAllEffect DEF TypeOK
  <2>3. SnapshotFresh' BY <2>1 DEF SnapshotFresh
  <2>4. seq' >= seq /\ reset' >= reset /\ reset' <= seq' /\ seq' >= 0
    BY <2>1, <1>t DEF TypeOK, Bounds
  <2>5. \A id \in Ids : revision'[id] <= seq' /\ removed'[id] <= seq' /\ removed'[id] = 0
    BY <2>1, <2>4
  <2> QED BY <2>1, <2>2, <2>3, <2>4, <2>5, <1>t, WakeAllEffect, RegistryFrame
<1> QED BY <1>1, <1>2, <1>3

(* The delta of an open registry brings an up-to-date mirror to seq. *)
LEMMA DeltaGood ==
  ASSUME IInv, ~closed, since < seq, DeltaOf(since) # NoDelta
  PROVE  /\ DeltaOf(since) \in Delta
         /\ DeltaOf(since).seq = seq
         /\ UpToDate(Applied(mirror, DeltaOf(since)), seq)
<1> DEFINE full == since <= 0 \/ since < reset
           items == [id \in Ids |-> IF item[id] # NoItem /\ (full \/ revision[id] > since)
                                      THEN item[id] ELSE NoItem]
           gone == IF full THEN {} ELSE {id \in Ids : removed[id] > since}
           d == DeltaOf(since)
<1>t. TypeOK /\ Bounds BY DEF IInv
<1>1. d = [seq |-> seq, reset |-> full, items |-> items, removed |-> gone] BY DEF DeltaOf
<1>2. d \in Delta /\ d.seq = seq /\ d.reset = full /\ d.items = items /\ d.removed = gone
  BY <1>1, <1>t DEF Delta, TypeOK, Items
<1>3. UpToDate(Applied(mirror, d), seq)
  <2> SUFFICES ASSUME NEW id \in Ids
               PROVE  /\ item[id] # NoItem => View(Applied(mirror, d)[id]) = View(item[id])
                      /\ item[id] = NoItem => Applied(mirror, d)[id] = NoItem
    BY DEF UpToDate
  <2> HIDE DEF d
  <2>1. Applied(mirror, d)[id] =
          IF id \in gone THEN NoItem
          ELSE IF items[id] # NoItem THEN items[id]
          ELSE IF full THEN NoItem ELSE mirror[id]
    BY <1>2 DEF Applied
  <2>2. CASE full BY <2>1, <2>2
  <2>3. CASE ~full
    <3>1. since > 0 /\ since >= reset BY <2>3, <1>t DEF TypeOK
    <3>2. UpToDate(mirror, since) BY <3>1 DEF IInv, NoRemovalLost
    <3>3. CASE item[id] # NoItem
      <4>1. id \notin gone BY <2>3, <3>3, <1>t DEF TypeOK, Bounds
      <4>2. CASE revision[id] > since BY <2>1, <3>3, <4>1, <4>2
      <4>3. CASE ~(revision[id] > since)
        <5>1. View(mirror[id]) = View(item[id])
          BY <3>2, <3>3, <4>3, <1>t DEF UpToDate, TypeOK
        <5> QED BY <2>1, <2>3, <3>3, <4>1, <4>3, <5>1
      <4> QED BY <4>2, <4>3
    <3>4. CASE item[id] = NoItem
      <4>1. mirror[id] # NoItem => id \in gone
        BY <2>3, <3>2, <3>4 DEF UpToDate
      <4> QED BY <2>1, <2>3, <3>4, <4>1
    <3> QED BY <3>3, <3>4
  <2> QED BY <2>2, <2>3
<1> QED BY <1>2, <1>3

(* Steps of a reader that leave the mirror alone and deliver nothing. *)
LEMMA QuietReader ==
  ASSUME IInv, TypeOK', UNCHANGED <<state, mirror, since, current, control>>, NEW r \in Readers,
         phase'[r] # "payload" \/ payload'[r] = NoDelta,
         current = r /\ phase'[r] \in {"read", "check", "asleep"} => asked'[r] = since,
         \A q \in Readers : q # r => /\ payload'[q] = payload[q] /\ asked'[q] = asked[q]
                                     /\ \/ phase'[q] = phase[q]
                                        \/ phase[q] = "asleep" /\ phase'[q] = "check"
  PROVE  IInv'
<1>1. Bounds' BY DEF IInv, Bounds, state
<1>2. NoRemovalLost' BY DEF IInv, NoRemovalLost, UpToDate, state
<1>3. SnapshotFresh' BY DEF IInv, SnapshotFresh, state
<1>4. PayloadGood'
  <2> SUFFICES ASSUME NEW q \in Readers, current' = q, phase'[q] = "payload",
                      payload'[q] # NoDelta
               PROVE  /\ payload'[q].seq > since' /\ payload'[q].seq <= seq'
                      /\ ~closed' /\ payload'[q].seq >= reset' =>
                           UpToDate(Applied(mirror, payload[q]), payload[q].seq)'
    BY DEF PayloadGood, NoDelta, NoItems
  <2>1. q # r /\ phase[q] = "payload" /\ payload[q] # NoDelta /\ payload'[q] = payload[q]
    OBVIOUS
  <2>2. /\ payload[q].seq > since /\ payload[q].seq <= seq
        /\ ~closed /\ payload[q].seq >= reset =>
             UpToDate(Applied(mirror, payload[q]), payload[q].seq)
    BY <2>1 DEF IInv, PayloadGood
  <2> QED BY <2>1, <2>2 DEF UpToDate, Applied, state
<1> QED BY <1>1, <1>2, <1>3, <1>4 DEF IInv

(* The mirror is emptied while the reader concerned delivers nothing. *)
LEMMA MirrorEmptied ==
  ASSUME IInv, TypeOK', UNCHANGED <<state, current>>, mirror' = NoItems, since' = 0,
         control' \in {"clear", "assign"} => current = NoReader,
         control' \in {"close", "detach"} => current # NoReader,
         \A r \in Readers : current = r => phase'[r] = "idle"
  PROVE  IInv'
<1>1. Bounds' BY DEF IInv, Bounds, state, TypeOK
<1>2. NoRemovalLost' BY DEF NoRemovalLost
<1>3. SnapshotFresh' BY DEF IInv, SnapshotFresh, state
<1>4. PayloadGood' BY DEF PayloadGood
<1> QED BY <1>1, <1>2, <1>3, <1>4 DEF IInv

LEMMA FailedIInv ==
  ASSUME IInv, NEW r \in Readers, Failed(r)
  PROVE  IInv'
<1>t. TypeOK /\ Bounds BY DEF IInv
<1>z. NoItems \in Items BY DEF NoItems, Items
<1>1. TypeOK' BY <1>t, <1>z DEF Failed, TypeOK, state
<1>2. /\ phase' = [phase EXCEPT ![r] = "idle"] /\ asked' = [asked EXCEPT ![r] = 0]
      /\ UNCHANGED <<state, current, control, payload>>
  BY DEF Failed
<1>3. CASE current = r
  <2>1. mirror' = NoItems /\ since' = 0 BY <1>3 DEF Failed
  <2> QED BY <1>1, <1>2, <1>3, <2>1, <1>t, MirrorEmptied DEF TypeOK, Bounds
<1>4. CASE current # r
  <2>1. UNCHANGED <<mirror, since>> BY <1>4 DEF Failed
  <2> QED BY <1>1, <1>2, <1>4, <2>1, <1>t, QuietReader DEF TypeOK
<1> QED BY <1>3, <1>4

LEMMA ApplyIInv ==
  ASSUME IInv, NEW r \in Readers, Apply(r)
  PROVE  IInv'
<1>t. TypeOK /\ Bounds BY DEF IInv
<1>1. /\ phase[r] = "payload" /\ phase' = [phase EXCEPT ![r] = "idle"]
      /\ payload' = [payload EXCEPT ![r] = NoDelta] /\ asked' = [asked EXCEPT ![r] = 0]
      /\ UNCHANGED <<state, current, control, sub>>
  BY DEF Apply
<1>z. NoDelta \in Delta BY DEF NoDelta, Delta, NoItems, Items
<1>2. CASE payload[r] # NoDelta /\ current = r
  <2> DEFINE d == payload[r]
  <2>1. /\ d \in Delta /\ mirror \in Items /\ d.seq \in Nat
        /\ d.seq > since /\ d.seq <= seq
        /\ ~closed /\ d.seq >= reset => UpToDate(Applied(mirror, d), d.seq)
    BY <1>1, <1>2, <1>t DEF IInv, PayloadGood, TypeOK, Delta
  <2>2. mirror' = Applied(mirror, d) /\ since' = d.seq BY <1>2, <2>1 DEF Apply
  <2>3. Applied(mirror, d) \in Items BY <2>1 DEF Applied, Items, Delta
  <2> HIDE DEF d
  <2>4. TypeOK' BY <1>1, <1>t, <1>z, <2>1, <2>2, <2>3 DEF TypeOK, state
  <2>5. Bounds' BY <1>1, <1>2, <1>t, <2>1, <2>2 DEF Bounds, state, TypeOK
  <2>6. NoRemovalLost'
    BY <1>1, <2>1, <2>2 DEF NoRemovalLost, UpToDate, state
  <2>7. SnapshotFresh' BY <1>1 DEF IInv, SnapshotFresh, state
  <2>8. PayloadGood' BY <1>1, <1>2, <1>t DEF PayloadGood, TypeOK
  <2> QED BY <2>4, <2>5, <2>6, <2>7, <2>8 DEF IInv
<1>3. CASE ~(payload[r] # NoDelta /\ current = r)
  <2>1. UNCHANGED <<mirror, since>> BY <1>3 DEF Apply
  <2>2. TypeOK' BY <1>1, <1>t, <1>z, <2>1 DEF TypeOK, state
  <2> QED BY <1>1, <1>t, <2>1, <2>2, QuietReader DEF TypeOK
<1> QED BY <1>2, <1>3

(* The waiting steps of a reader. *)
LEMMA WaitIInv ==
  ASSUME IInv, NEW r \in Readers,
         PollRead(r) \/ PollConnect(r) \/ WaitTurn(r) \/ WaitExpire(r) \/ Exit(r)
  PROVE  IInv'
<1>t. TypeOK /\ Bounds BY DEF IInv
<1>z. NoDelta \in Delta BY DEF NoDelta, Delta, NoItems, Items
<1>1. CASE PollRead(r)
  <2>1. TypeOK' BY <1>1, <1>t DEF PollRead, TypeOK, state, service
  <2> QED BY <1>1, <1>t, <2>1, QuietReader DEF PollRead, TypeOK, service
<1>2. CASE PollConnect(r)
  <2>1. CASE Failed(r) BY <2>1, FailedIInv
  <2>2. CASE ~Failed(r)
    <3>1. /\ phase[r] = "read"
          /\ phase' = [phase EXCEPT ![r] = IF current = r THEN "check" ELSE "idle"]
          /\ sub' = [sub EXCEPT ![r] = IF current = r THEN "open" ELSE "none"]
          /\ asked' = [asked EXCEPT ![r] = IF current = r THEN @ ELSE 0]
          /\ UNCHANGED <<state, mirror, since, current, control, payload>>
      BY <1>2, <2>2 DEF PollConnect, service
    <3>2. TypeOK' BY <3>1, <1>t DEF TypeOK, state
    <3> QED BY <3>1, <3>2, <1>t, QuietReader DEF TypeOK, Bounds
  <2> QED BY <2>1, <2>2
<1>3. CASE WaitTurn(r)
  <2>1. CASE Failed(r) BY <2>1, FailedIInv
  <2>2. CASE ~Failed(r)
    <3>1. /\ phase[r] = "check" /\ ~closed
          /\ phase' = [phase EXCEPT ![r] = IF asked[r] < seq THEN "payload" ELSE "asleep"]
          /\ payload' = [payload EXCEPT ![r] = IF asked[r] < seq THEN DeltaOf(asked[r]) ELSE @]
          /\ UNCHANGED <<state, mirror, since, current, control, sub, asked>>
      BY <1>3, <2>2 DEF WaitTurn, service
    <3>d. DeltaOf(asked[r]) \in Delta
      <4>1. \A s \in Nat : DeltaOf(s) \in Delta
        BY <1>t, <1>z DEF DeltaOf, Delta, TypeOK, Items
      <4> QED BY <4>1, <1>t DEF TypeOK
    <3>2. TypeOK' BY <3>1, <3>d, <1>t DEF TypeOK, state
    <3>3. CASE asked[r] < seq /\ current = r /\ DeltaOf(asked[r]) # NoDelta
      <4>1. asked[r] = since /\ since < seq BY <3>1, <3>3, <1>t DEF Bounds
      <4>2. /\ payload'[r] = DeltaOf(since) /\ DeltaOf(since).seq = seq
            /\ UpToDate(Applied(mirror, DeltaOf(since)), seq)
        BY <3>1, <3>3, <4>1, <1>t, DeltaGood DEF TypeOK
      <4>3. Bounds' BY <3>1, <3>3, <1>t DEF Bounds, state, TypeOK
      <4>4. NoRemovalLost' /\ SnapshotFresh'
        BY <3>1 DEF IInv, NoRemovalLost, UpToDate, SnapshotFresh, state
      <4>5. PayloadGood'
        <5>1. UpToDate(Applied(mirror, payload[r]), payload[r].seq)'
          BY <3>1, <4>2 DEF UpToDate, Applied, state
        <5>2. payload'[r].seq > since' /\ payload'[r].seq <= seq'
          BY <3>1, <4>1, <4>2, <1>t DEF state, TypeOK
        <5>3. current' = r BY <3>1, <3>3
        <5> QED BY <5>1, <5>2, <5>3 DEF PayloadGood
      <4> QED BY <3>2, <4>3, <4>4, <4>5 DEF IInv
    <3>4. CASE ~(asked[r] < seq) \/ DeltaOf(asked[r]) = NoDelta
      BY <3>1, <3>2, <3>4, <1>t, QuietReader DEF TypeOK, Bounds
    <3>5. CASE current # r
      <4>1. Bounds' BY <3>1, <3>5, <1>t DEF Bounds, state, TypeOK
      <4>2. NoRemovalLost' /\ SnapshotFresh'
        BY <3>1 DEF IInv, NoRemovalLost, UpToDate, SnapshotFresh, state
      <4>3. PayloadGood'
        <5> SUFFICES ASSUME NEW q \in Readers, current' = q, phase'[q] = "payload",
                            payload'[q] # NoDelta
                     PROVE  /\ payload'[q].seq > since' /\ payload'[q].seq <= seq'
                            /\ ~closed' /\ payload'[q].seq >= reset' =>
                                 UpToDate(Applied(mirror, payload[q]), payload[q].seq)'
          BY DEF PayloadGood, NoDelta, NoItems
        <5>1. q # r /\ phase[q] = "payload" /\ payload'[q] = payload[q]
          BY <3>1, <3>5, <1>t DEF TypeOK
        <5>2. /\ payload[q].seq > since /\ payload[q].seq <= seq
              /\ ~closed /\ payload[q].seq >= reset =>
                   UpToDate(Applied(mirror, payload[q]), payload[q].seq)
          BY <3>1, <5>1 DEF IInv, PayloadGood
        <5> QED BY <3>1, <5>1, <5>2 DEF UpToDate, Applied, state
      <4> QED BY <3>2, <4>1, <4>2, <4>3 DEF IInv
    <3> QED BY <3>3, <3>4, <3>5
  <2> QED BY <2>1, <2>2
<1>4. CASE WaitExpire(r)
  <2>1. TypeOK' BY <1>4, <1>t, <1>z DEF WaitExpire, TypeOK, state, service
  <2> QED BY <1>4, <1>t, <2>1, QuietReader DEF WaitExpire, TypeOK, service
<1>5. CASE Exit(r)
  <2>1. TypeOK' BY <1>5, <1>t DEF Exit, TypeOK, state, service
  <2> QED BY <1>5, <1>t, <2>1, QuietReader DEF Exit, TypeOK, service
<1> QED BY <1>1, <1>2, <1>3, <1>4, <1>5

(* The steps of the coordinator. *)
LEMMA CoordinatorIInv ==
  ASSUME IInv, Coordinator
  PROVE  IInv'
<1>t. TypeOK /\ Bounds BY DEF IInv
<1>1. CASE StopBegin
  <2>1. TypeOK' BY <1>1, <1>t DEF StopBegin, TypeOK, state, reads
  <2>2. Bounds' BY <1>1, <1>t DEF StopBegin, Bounds, state, reads
  <2>3. NoRemovalLost' /\ SnapshotFresh'
    BY <1>1 DEF StopBegin, IInv, NoRemovalLost, UpToDate, SnapshotFresh, state, reads
  <2>4. PayloadGood'
    BY <1>1 DEF StopBegin, IInv, PayloadGood, UpToDate, Applied, NoDelta, NoItems, state, reads
  <2> QED BY <2>1, <2>2, <2>3, <2>4 DEF IInv
<1>2. CASE StopClose
  <2>1. /\ control = "close" /\ control' = "detach"
        /\ UNCHANGED <<state, mirror, since, current, asked, payload>>
        /\ WakeAll \/ UNCHANGED phase
        /\ sub' = [sub EXCEPT ![current] = IF @ = "open" THEN "closed" ELSE @]
    BY <1>2 DEF StopClose
  <2>2. /\ \A r \in Readers : \/ phase'[r] = phase[r]
                              \/ phase[r] = "asleep" /\ phase'[r] = "check"
        /\ phase' \in [Readers -> {"free", "idle", "read", "check", "asleep", "payload"}]
    BY <2>1, <1>t, WakeAllEffect
  <2>3. TypeOK' BY <2>1, <2>2, <1>t DEF TypeOK, state
  <2>4. Bounds' BY <2>1, <2>2, <1>t DEF Bounds, state
  <2>5. NoRemovalLost' /\ SnapshotFresh'
    BY <2>1 DEF IInv, NoRemovalLost, UpToDate, SnapshotFresh, state
  <2>6. PayloadGood'
    BY <2>1, <2>2 DEF IInv, PayloadGood, UpToDate, Applied, NoDelta, NoItems, state
  <2> QED BY <2>3, <2>4, <2>5, <2>6 DEF IInv
<1>3. CASE StopDetach
  <2>1. TypeOK' BY <1>3, <1>t DEF StopDetach, TypeOK, state, reads
  <2>2. Bounds'
    BY <1>3, <1>t, ProgressAssumption DEF StopDetach, Bounds, state, reads
  <2>3. NoRemovalLost' /\ SnapshotFresh'
    BY <1>3 DEF StopDetach, IInv, NoRemovalLost, UpToDate, SnapshotFresh, state
  <2>4. PayloadGood' BY <1>3, ProgressAssumption DEF StopDetach, PayloadGood
  <2> QED BY <2>1, <2>2, <2>3, <2>4 DEF IInv
<1>4. CASE ClearMirror
  <2>z. NoItems \in Items BY DEF NoItems, Items
  <2>1. TypeOK' BY <1>4, <1>t, <2>z DEF ClearMirror, TypeOK, state, reads
  <2>2. current = NoReader BY <1>4, <1>t DEF ClearMirror, Bounds
  <2> QED BY <1>4, <2>1, <2>2, ProgressAssumption, MirrorEmptied DEF ClearMirror
<1>5. ASSUME NEW r \in Readers, Assign(r) PROVE IInv'
  <2>1. TypeOK' BY <1>5, <1>t DEF Assign, TypeOK, state
  <2>2. Bounds'
    BY <1>5, <1>t, ProgressAssumption DEF Assign, Bounds, state, TypeOK
  <2>3. NoRemovalLost' /\ SnapshotFresh'
    BY <1>5 DEF Assign, IInv, NoRemovalLost, UpToDate, SnapshotFresh, state
  <2>4. PayloadGood' BY <1>5, <1>t DEF Assign, PayloadGood, TypeOK
  <2> QED BY <2>1, <2>2, <2>3, <2>4 DEF IInv
<1> QED BY <1>1, <1>2, <1>3, <1>4, <1>5 DEF Coordinator

LEMMA InitIInv == Init => IInv
<1> SUFFICES ASSUME Init PROVE IInv OBVIOUS
<1>1. NoItems \in Items /\ NoDelta \in Delta BY DEF NoDelta, Delta, NoItems, Items
<1>2. TypeOK BY <1>1, ProgressAssumption DEF Init, TypeOK
<1>3. Bounds BY DEF Init, Bounds, NoItems
<1>4. NoRemovalLost /\ PayloadGood /\ SnapshotFresh
  BY DEF Init, NoRemovalLost, PayloadGood, SnapshotFresh
<1> QED BY <1>2, <1>3, <1>4 DEF IInv

(* Every operation that reports on an item is an Update with an item. *)
LEMMA ReportIInv ==
  ASSUME IInv, NEW id \in Ids,
         \/ Preparing(id) \/ Downloading(id) \/ SetTotal(id) \/ SetReceived(id)
         \/ SetReceivedWithSpeed(id) \/ SetProgress(id) \/ Finalizing(id) \/ Complete(id)
  PROVE  IInv'
<1>1. item[id] \in Item
  <2>1. item[id] # NoItem
    BY DEF Preparing, Downloading, SetTotal, SetReceived, SetReceivedWithSpeed, SetProgress,
           Finalizing, Complete, Update
  <2> QED BY <2>1 DEF IInv, TypeOK, Items
<1>2. ASSUME NEW i \in Item, Update(id, i) PROVE IInv' BY <1>2, UpdateIInv
<1>3. CASE Preparing(id) BY <1>1, <1>2, <1>3, ItemOps DEF Preparing
<1>4. CASE Downloading(id) BY <1>1, <1>2, <1>4, ItemOps DEF Downloading
<1>5. CASE SetTotal(id) BY <1>1, <1>2, <1>5, ItemOps DEF SetTotal
<1>6. CASE SetReceived(id) BY <1>1, <1>2, <1>6, ReceivedItemType DEF SetReceived
<1>7. CASE SetReceivedWithSpeed(id)
  BY <1>1, <1>2, <1>7, ItemOps, ReceivedItemType DEF SetReceivedWithSpeed
<1>8. CASE SetProgress(id) BY <1>1, <1>2, <1>8, ProgressItemType DEF SetProgress
<1>9. CASE Finalizing(id) BY <1>1, <1>2, <1>9, ItemOps DEF Finalizing
<1>10. CASE Complete(id) BY <1>1, <1>2, <1>10, ItemOps DEF Complete
<1> QED BY <1>3, <1>4, <1>5, <1>6, <1>7, <1>8, <1>9, <1>10

LEMMA NextIInv == IInv /\ [Next]_vars => IInv'
<1> SUFFICES ASSUME IInv, [Next]_vars PROVE IInv' OBVIOUS
<1>1. CASE Registry
  BY <1>1, StartIInv, ReportIInv, RemoveIInv, OtherRegistryIInv DEF Registry
<1>2. CASE Coordinator BY <1>2, CoordinatorIInv
<1>3. ASSUME NEW r \in Readers, Reader(r) PROVE IInv'
  BY <1>3, WaitIInv, ApplyIInv DEF Reader
<1>4. CASE UNCHANGED vars
  <2>1. TypeOK' /\ Bounds' BY <1>4 DEF vars, IInv, TypeOK, Bounds
  <2>2. NoRemovalLost' /\ SnapshotFresh'
    BY <1>4 DEF vars, IInv, NoRemovalLost, UpToDate, SnapshotFresh
  <2>3. PayloadGood'
    BY <1>4 DEF vars, IInv, PayloadGood, UpToDate, Applied, NoDelta, NoItems
  <2> QED BY <2>1, <2>2, <2>3 DEF IInv
<1> QED BY <1>1, <1>2, <1>3, <1>4 DEF Next

(* IInv holds in every reachable state. *)
THEOREM Invariance == Spec => []IInv
BY InitIInv, NextIInv, PTL DEF Spec

(* Type correctness of the registry, its readers and their mirror. *)
THEOREM TypeCorrect == Spec => []TypeOK
<1>1. IInv => TypeOK BY DEF IInv
<1> QED BY <1>1, Invariance, PTL

(* A reader at or beyond the reset point finds a tombstone for everything  *)
(* that has gone since, whatever pruning discarded.                        *)
THEOREM TombstonesSuffice == Spec => []NoRemovalLost
<1>1. IInv => NoRemovalLost BY DEF IInv
<1> QED BY <1>1, Invariance, PTL

(* A service that has caught up shows exactly the items of the registry,   *)
(* whatever was pruned, cleared, restarted or delivered late.              *)
THEOREM MirrorCorrect == Spec => []MirrorExact
<1>1. IInv => MirrorExact
  <2> SUFFICES ASSUME IInv, ~closed, since > 0, since = seq, NEW id \in Ids
               PROVE  View(mirror[id]) = View(item[id])
    BY DEF MirrorExact
  <2>t. TypeOK /\ Bounds BY DEF IInv
  <2>1. UpToDate(mirror, since) BY <2>t DEF IInv, NoRemovalLost, Bounds
  <2>2. revision[id] <= since /\ ~(removed[id] > since) BY <2>t DEF Bounds, TypeOK
  <2> QED BY <2>1, <2>2 DEF UpToDate
<1> QED BY <1>1, Invariance, PTL

(* The cached snapshot is what the user interface would be shown afresh. *)
THEOREM SnapshotCorrect == Spec => []SnapshotFresh
<1>1. IInv => SnapshotFresh BY DEF IInv
<1> QED BY <1>1, Invariance, PTL
-----------------------------------------------------------------------------
(***************************************************************************)
(* The download planner.  A lock belongs to a request that works at its     *)
(* path, and to nobody else: that is what publishing and waiting rest on.   *)
(***************************************************************************)

AtFirstPath == {"reclaim", "provider", "match"}
AtFinalPath == {"open", "publish", "renamed"}
PlanPC == {"idle", "end", "preflight", "plan", "source", "next", "avail", "attempt", "relock"}
          \cup AtFirstPath \cup AtFinalPath

Progress ==
  [pc : PlanPC, left : 0 .. MaxProviders, retry : BOOLEAN, stop : BOOLEAN,
   out : Paths \cup {NoPath}, fin : Paths \cup {NoPath}, file : {"none", "right", "wrong"},
   cancelled : BOOLEAN, result : {"none", "ok", "error", "failed", "verification"}]
Files == {"none", "old", "right", "other"}

PlanTyped ==
  /\ req \in [Requests -> Progress]
  /\ locked \in [Paths -> Requests \cup {Nobody}]
  /\ library \in [Paths -> Files]

(* The path whose lock a request holds.                                     *)
WorksAt(x, p) == (x.pc \in AtFirstPath /\ p = x.out) \/ (x.pc \in AtFinalPath /\ p = x.fin)

(* A request holds the lock of the path it works at, and no other.          *)
LocksExact == \A r \in Requests, p \in Paths : locked[p] = r <=> WorksAt(req[r], p)

(* What is on the way into the library matched the track.                   *)
OnlyMatched == \A r \in Requests : req[r].pc \in AtFinalPath \cup {"relock"} => req[r].file = "right"

(* A planner at work has a path, and one that chose its last has that too.  *)
PathsKnown ==
  \A r \in Requests : /\ req[r].pc \notin {"idle", "end"} => req[r].out \in Paths
                      /\ req[r].pc \in AtFinalPath \cup {"relock"} => req[r].fin \in Paths

PlanIInv == PlanTyped /\ LocksExact /\ OnlyMatched /\ PathsKnown

LEMMA PlanInitIInv == PlanInit => PlanIInv
BY PlannerAssumption
   DEF PlanInit, PlanIInv, PlanTyped, Progress, Files, LocksExact, OnlyMatched, PathsKnown, WorksAt, Unasked, PlanPC,
       AtFirstPath, AtFinalPath, Nobody, NoPath

(* A step of one request that leaves the locks alone and the place where it *)
(* works.                                                                   *)
LEMMA StepOfOne ==
  ASSUME PlanIInv, NEW r \in Requests, NEW x, To(r, x),
         x \in Progress,
         locked' \in [Paths -> Requests \cup {Nobody}],
         library' \in [Paths -> Files],
         \A p \in Paths : locked'[p] = r <=> WorksAt(x, p),
         \A p \in Paths : locked'[p] # locked[p] => r \in {locked[p], locked'[p]} 
                            /\ {locked[p], locked'[p]} \subseteq {r, Nobody},
         x.pc \in AtFinalPath \cup {"relock"} => x.file = "right" /\ x.fin \in Paths,
         x.pc \notin {"idle", "end"} => x.out \in Paths
  PROVE  PlanIInv'
<1>1. req' = [req EXCEPT ![r] = x] BY DEF To
<1>2. req'[r] = x /\ \A q \in Requests \ {r} : req'[q] = req[q]
  BY <1>1 DEF PlanIInv, PlanTyped
<1>3. PlanTyped' BY <1>1 DEF PlanIInv, PlanTyped
<1>4. LocksExact'
  <2> SUFFICES ASSUME NEW q \in Requests, NEW p \in Paths
               PROVE  (locked'[p] = q) <=> WorksAt(req'[q], p)
    BY DEF LocksExact, WorksAt
  <2>1. CASE q = r BY <2>1, <1>2
  <2>2. CASE q # r
    <3>1. (locked[p] = q) <=> WorksAt(req'[q], p) BY <1>2, <2>2 DEF PlanIInv, LocksExact
    <3>2. q # Nobody BY PlannerAssumption DEF Nobody
    <3>3. (locked'[p] = q) <=> (locked[p] = q) BY <2>2, <3>2
    <3> QED BY <3>1, <3>3
  <2> QED BY <2>1, <2>2
<1>5. OnlyMatched' BY <1>2 DEF PlanIInv, OnlyMatched
<1>6. PathsKnown' BY <1>2 DEF PlanIInv, PathsKnown
<1> QED BY <1>3, <1>4, <1>5, <1>6 DEF PlanIInv

(* A request that ends, or goes on to another provider, lets its lock go.   *)
LEMMA LetsGo ==
  ASSUME PlanIInv, NEW r \in Requests, NEW x \in Progress, To(r, x),
         locked' = [p \in Paths |-> IF locked[p] = r THEN Nobody ELSE locked[p]],
         library' = library,
         x.pc \notin AtFirstPath \cup AtFinalPath \cup {"relock"},
         x.pc \notin {"idle", "end"} => x.out \in Paths
  PROVE  PlanIInv'
<1>1. r # Nobody BY PlannerAssumption DEF Nobody
<1>2. locked' \in [Paths -> Requests \cup {Nobody}] /\ library' \in [Paths -> Files]
  BY DEF PlanIInv, PlanTyped
<1>3. \A p \in Paths : locked'[p] # r /\ ~WorksAt(x, p) BY <1>1 DEF WorksAt
<1>4. \A p \in Paths : locked'[p] # locked[p] => locked[p] = r /\ locked'[p] = Nobody OBVIOUS
<1> QED BY <1>2, <1>3, <1>4, StepOfOne

LEMMA IdleIsProgress == Unasked \in Progress /\ Unasked.pc = "idle"
BY PlannerAssumption DEF Progress, Unasked, PlanPC, NoPath

LEMMA EndsIInv ==
  ASSUME PlanIInv, NEW r \in Requests,
         NEW result \in {"none", "ok", "error", "failed", "verification"},
         Ends(r, result), library' = library
  PROVE  PlanIInv'
<1> DEFINE x == [Unasked EXCEPT !.pc = "end", !.result = ResponseOf(r, result), !.fin = req[r].fin]
<1>1. req[r] \in Progress BY DEF PlanIInv, PlanTyped
<1>2. ResponseOf(r, result) \in {"none", "ok", "error", "failed", "verification"} BY DEF ResponseOf
<1>3. x \in Progress BY <1>1, <1>2, IdleIsProgress DEF Progress, PlanPC
<1>5. x.pc = "end" BY IdleIsProgress DEF Progress
<1>4. To(r, x) /\ locked' = [p \in Paths |-> IF locked[p] = r THEN Nobody ELSE locked[p]]
  BY DEF Ends
<1> HIDE DEF x
<1> QED BY <1>3, <1>4, <1>5, LetsGo DEF AtFirstPath, AtFinalPath

LEMMA OnwardIInv ==
  ASSUME PlanIInv, NEW r \in Requests, Onward(r), library' = library,
         req[r].pc \notin {"idle", "end"}
  PROVE  PlanIInv'
<1> DEFINE x == [req[r] EXCEPT !.pc = IF req[r].retry THEN "source" ELSE "next", !.file = "none", !.fin = NoPath]
<1>1. req[r] \in Progress /\ req[r].out \in Paths BY DEF PlanIInv, PlanTyped, PathsKnown
<1>2. x \in Progress BY <1>1 DEF Progress, PlanPC
<1>3. x.pc \in {"source", "next"} /\ x.out \in Paths BY <1>1 DEF Progress
<1>4. To(r, x) /\ locked' = [p \in Paths |-> IF locked[p] = r THEN Nobody ELSE locked[p]]
  BY DEF Onward
<1> HIDE DEF x
<1> QED BY <1>2, <1>3, <1>4, LetsGo DEF AtFirstPath, AtFinalPath

LEMMA AttemptFailedIInv ==
  ASSUME PlanIInv, NEW r \in Requests, AttemptFailed(r), library' = library,
         req[r].pc \notin {"idle", "end"}
  PROVE  PlanIInv'
BY EndsIInv, OnwardIInv DEF AttemptFailed

(* A step that keeps locks, library and the place where the request works.  *)
LEMMA StaysIInv ==
  ASSUME PlanIInv, NEW r \in Requests, NEW x \in Progress, To(r, x),
         locked' = locked, library' = library,
         \A p \in Paths : WorksAt(x, p) <=> WorksAt(req[r], p),
         x.pc \in AtFinalPath \cup {"relock"} => x.file = "right" /\ x.fin \in Paths,
         x.pc \notin {"idle", "end"} => x.out \in Paths
  PROVE  PlanIInv'
<1>1. locked' \in [Paths -> Requests \cup {Nobody}] /\ library' \in [Paths -> Files]
  BY DEF PlanIInv, PlanTyped
<1>2. \A p \in Paths : locked'[p] = r <=> WorksAt(x, p) BY DEF PlanIInv, LocksExact
<1> QED BY <1>1, <1>2, StepOfOne


(* One step per action of a request.                                        *)
LEMMA CallerIInv ==
  ASSUME PlanIInv, NEW r \in Requests,
         \/ \E p \in Paths : DownloadRequest(r, p)
         \/ ReleaseLease(r) \/ Respond(r) \/ Stops(r)
  PROVE  PlanIInv'
<1>1. req[r] \in Progress BY DEF PlanIInv, PlanTyped
<1>2. ASSUME NEW p \in Paths, DownloadRequest(r, p) PROVE PlanIInv'
  <2> DEFINE x == [Unasked EXCEPT !.pc = "preflight", !.out = p]
  <2>1. x \in Progress /\ x.pc = "preflight" /\ x.out = p BY IdleIsProgress DEF Progress, PlanPC
  <2>2. To(r, x) /\ req[r].pc = "idle" BY <1>2 DEF DownloadRequest
  <2> HIDE DEF x
  <2> QED BY <1>2, <2>1, <2>2, StaysIInv DEF DownloadRequest, WorksAt, AtFirstPath, AtFinalPath
<1>3. ASSUME ReleaseLease(r) PROVE PlanIInv'
  <2> DEFINE x == [req[r] EXCEPT !.cancelled = TRUE]
  <2>1. x \in Progress /\ x.pc = req[r].pc /\ x.out = req[r].out /\ x.fin = req[r].fin
        /\ x.file = req[r].file
    BY <1>1 DEF Progress
  <2>2. To(r, x) BY <1>3 DEF ReleaseLease
  <2> HIDE DEF x
  <2>3. /\ x.pc \in AtFinalPath \cup {"relock"} => x.file = "right" /\ x.fin \in Paths
        /\ x.pc \notin {"idle", "end"} => x.out \in Paths
    BY <2>1 DEF PlanIInv, OnlyMatched, PathsKnown
  <2>4. \A p \in Paths : WorksAt(x, p) <=> WorksAt(req[r], p) BY <2>1 DEF WorksAt
  <2> QED BY <1>3, <2>1, <2>2, <2>3, <2>4, StaysIInv DEF ReleaseLease
<1>4. ASSUME Respond(r) PROVE PlanIInv'
  <2> QED BY <1>4, IdleIsProgress, StaysIInv DEF Respond, WorksAt, AtFirstPath, AtFinalPath
<1>5. ASSUME Stops(r) PROVE PlanIInv'
  BY <1>5, EndsIInv DEF Stops
<1> QED BY <1>2, <1>3, <1>4, <1>5

(* Before a path is locked.                                                 *)
Choosing == {"preflight", "plan", "source", "next", "avail", "attempt"}

LEMMA ChoosingIInv ==
  ASSUME PlanIInv, NEW r \in Requests, NEW x, To(r, x), locked' = locked, library' = library,
         req[r].pc \in Choosing,
         x.pc \in Choosing, x.left \in 0 .. MaxProviders, x.retry \in BOOLEAN, x.stop \in BOOLEAN,
         x = [req[r] EXCEPT !.pc = x.pc, !.left = x.left, !.retry = x.retry, !.stop = x.stop]
  PROVE  PlanIInv'
<1>1. req[r] \in Progress /\ req[r].out \in Paths
  BY DEF PlanIInv, PlanTyped, PathsKnown, Choosing
<1>2. x \in Progress /\ x.out \in Paths BY <1>1 DEF Progress, Choosing, PlanPC
<1> QED BY <1>2, StaysIInv DEF WorksAt, Choosing, AtFirstPath, AtFinalPath

LEMMA PlansIInv ==
  ASSUME PlanIInv, NEW r \in Requests,
         Preflight(r) \/ Plan(r) \/ Source(r) \/ NextProvider(r) \/ Availability(r)
  PROVE  PlanIInv'
<1>1. req[r] \in Progress BY DEF PlanIInv, PlanTyped
<1>2. ASSUME Preflight(r) PROVE PlanIInv'
  <2>1. CASE \E result \in {"verification", "failed"} : Ends(r, result)
    BY <1>2, <2>1, EndsIInv DEF Preflight
  <2>2. CASE At(r, "plan") /\ locked' = locked
    BY <1>1, <1>2, <2>2, ChoosingIInv DEF Preflight, At, Choosing, Progress
  <2> QED BY <1>2, <2>1, <2>2 DEF Preflight
<1>3. ASSUME Plan(r) PROVE PlanIInv'
  BY <1>1, <1>3, ChoosingIInv DEF Plan, At, Choosing, Progress
<1>4. ASSUME Source(r) PROVE PlanIInv'
  <2>1. PICK direct, stop \in BOOLEAN :
          To(r, [req[r] EXCEPT !.pc = IF direct THEN "attempt" ELSE "next",
                              !.stop = stop, !.retry = FALSE, !.left = MaxProviders])
    BY <1>4 DEF Source
  <2> DEFINE x == [req[r] EXCEPT !.pc = IF direct THEN "attempt" ELSE "next",
                                !.stop = stop, !.retry = FALSE, !.left = MaxProviders]
  <2>2. /\ x = [req[r] EXCEPT !.pc = x.pc, !.left = x.left, !.retry = x.retry, !.stop = x.stop]
        /\ x.pc \in {"attempt", "next"} /\ x.left = MaxProviders
        /\ x.retry = FALSE /\ x.stop = stop
    BY <1>1 DEF Progress
  <2>3. To(r, x) BY <2>1
  <2> HIDE DEF x
  <2>4. x.left \in 0 .. MaxProviders BY <2>2, PlannerAssumption
  <2>5. x.pc \in Choosing /\ req[r].pc \in Choosing /\ locked' = locked /\ library' = library
    BY <1>4, <2>2 DEF Source, Choosing
  <2>6. x.retry \in BOOLEAN /\ x.stop \in BOOLEAN BY <2>2
  <2> QED BY <2>2, <2>3, <2>4, <2>5, <2>6, ChoosingIInv
<1>5. ASSUME NextProvider(r) PROVE PlanIInv'
  <2>1. CASE req[r].left = 0 BY <1>5, <2>1, EndsIInv DEF NextProvider
  <2>2. CASE req[r].left # 0
    <3>1. req[r].left - 1 \in 0 .. MaxProviders BY <1>1, <2>2, PlannerAssumption DEF Progress
    <3> QED BY <1>1, <1>5, <2>2, <3>1, ChoosingIInv DEF NextProvider, Choosing, Progress
  <2> QED BY <2>1, <2>2
<1>6. ASSUME Availability(r) PROVE PlanIInv'
  <2>1. CASE \E result \in {"verification", "failed"} : Ends(r, result)
    BY <1>6, <2>1, EndsIInv DEF Availability
  <2>2. CASE Onward(r) BY <1>6, <2>2, OnwardIInv DEF Availability
  <2>3. ASSUME NEW stop \in BOOLEAN, To(r, [req[r] EXCEPT !.pc = "attempt", !.stop = stop]), locked' = locked
        PROVE  PlanIInv'
    BY <1>1, <1>6, <2>3, ChoosingIInv DEF Availability, Choosing, Progress
  <2> QED BY <1>6, <2>1, <2>2, <2>3 DEF Availability
<1> QED BY <1>2, <1>3, <1>4, <1>5, <1>6


(* Under a lock.                                                            *)
LEMMA LocksIInv ==
  ASSUME PlanIInv, NEW r \in Requests, LockOutput(r) \/ Reclaim(r) \/ Provide(r)
  PROVE  PlanIInv'
<1>1. req[r] \in Progress BY DEF PlanIInv, PlanTyped
<1>2. r # Nobody BY PlannerAssumption DEF Nobody
<1>3. ASSUME LockOutput(r) PROVE PlanIInv'
  <2>1. CASE AttemptFailed(r) BY <1>3, <2>1, AttemptFailedIInv DEF LockOutput
  <2>2. CASE /\ locked[req[r].out] = Nobody /\ At(r, "reclaim")
             /\ locked' = [locked EXCEPT ![req[r].out] = r]
    <3> DEFINE x == [req[r] EXCEPT !.pc = "reclaim"]
    <3>1. x \in Progress /\ x.pc = "reclaim" /\ x.out = req[r].out
      BY <1>1 DEF Progress, PlanPC, AtFirstPath
    <3>2. To(r, x) BY <2>2 DEF At
    <3> HIDE DEF x
    <3>3. req[r].pc = "attempt" /\ req[r].out \in Paths /\ library' = library
      BY <1>3 DEF LockOutput, PlanIInv, PathsKnown
    <3>4. \A p \in Paths : locked[p] # r
      BY <3>3 DEF PlanIInv, LocksExact, WorksAt, AtFirstPath, AtFinalPath
    <3>5. \A p \in Paths : locked'[p] = IF p = req[r].out THEN r ELSE locked[p]
      BY <2>2 DEF PlanIInv, PlanTyped
    <3>6. /\ locked' \in [Paths -> Requests \cup {Nobody}] /\ library' \in [Paths -> Files]
      BY <2>2, <3>3 DEF PlanIInv, PlanTyped
    <3>7. \A p \in Paths : locked'[p] = r <=> WorksAt(x, p)
      BY <3>1, <3>4, <3>5 DEF WorksAt, AtFirstPath, AtFinalPath
    <3> QED BY <2>2, <3>1, <3>2, <3>3, <3>5, <3>6, <3>7, StepOfOne DEF AtFinalPath
  <2> QED BY <1>3, <2>1, <2>2 DEF LockOutput
<1>4. ASSUME Reclaim(r) PROVE PlanIInv'
  <2>1. CASE Ends(r, "error") BY <1>4, <2>1, EndsIInv DEF Reclaim
  <2>2. CASE At(r, "provider") /\ locked' = locked
    <3> DEFINE x == [req[r] EXCEPT !.pc = "provider"]
    <3>1. x \in Progress /\ x.pc = "provider" /\ x.out = req[r].out
      BY <1>1 DEF Progress, PlanPC, AtFirstPath
    <3>2. To(r, x) BY <2>2 DEF At
    <3> HIDE DEF x
    <3>3. req[r].pc = "reclaim" /\ req[r].out \in Paths /\ library' = library
      BY <1>4 DEF Reclaim, PlanIInv, PathsKnown
    <3> QED BY <2>2, <3>1, <3>2, <3>3, StaysIInv DEF WorksAt, AtFirstPath, AtFinalPath
  <2>3. CASE /\ To(r, [Unasked EXCEPT !.pc = "end", !.result = "ok", !.fin = req[r].out])
             /\ locked' = [locked EXCEPT ![req[r].out] = Nobody]
    <3> DEFINE x == [Unasked EXCEPT !.pc = "end", !.result = "ok", !.fin = req[r].out]
    <3>1. x \in Progress /\ x.pc = "end" BY <1>1, IdleIsProgress DEF Progress, PlanPC
    <3>2. To(r, x) BY <2>3
    <3> HIDE DEF x
    <3>3. req[r].pc = "reclaim" /\ library' = library BY <1>4 DEF Reclaim
    <3>4. \A p \in Paths : locked[p] = r <=> p = req[r].out
      BY <3>3 DEF PlanIInv, LocksExact, WorksAt, AtFirstPath, AtFinalPath
    <3>5. locked' = [p \in Paths |-> IF locked[p] = r THEN Nobody ELSE locked[p]]
      BY <2>3, <3>4 DEF PlanIInv, PlanTyped
    <3> QED BY <3>1, <3>2, <3>3, <3>5, LetsGo DEF AtFirstPath, AtFinalPath
  <2> QED BY <1>4, <2>1, <2>2, <2>3 DEF Reclaim
<1>5. ASSUME Provide(r) PROVE PlanIInv'
  <2>1. CASE AttemptFailed(r) BY <1>5, <2>1, AttemptFailedIInv DEF Provide
  <2>2. ASSUME NEW f \in {"right", "wrong"}, To(r, [req[r] EXCEPT !.pc = "match", !.file = f]),
               locked' = locked
        PROVE  PlanIInv'
    <3> DEFINE x == [req[r] EXCEPT !.pc = "match", !.file = f]
    <3>1. x \in Progress /\ x.pc = "match" /\ x.out = req[r].out
      BY <1>1 DEF Progress, PlanPC, AtFirstPath
    <3>2. To(r, x) BY <2>2
    <3> HIDE DEF x
    <3>3. req[r].pc = "provider" /\ req[r].out \in Paths /\ library' = library
      BY <1>5 DEF Provide, PlanIInv, PathsKnown
    <3> QED BY <2>2, <3>1, <3>2, <3>3, StaysIInv DEF WorksAt, AtFirstPath, AtFinalPath
  <2> QED BY <1>5, <2>1, <2>2 DEF Provide
<1> QED BY <1>3, <1>4, <1>5

LEMMA FinalizeIInv ==
  ASSUME PlanIInv, NEW r \in Requests, Finalize(r)
  PROVE  PlanIInv'
<1>1. /\ req[r] \in Progress /\ req[r].pc = "match" /\ library' = library
      /\ req[r].out \in Paths /\ r # Nobody
  BY PlannerAssumption DEF PlanIInv, PlanTyped, PathsKnown, Finalize, Nobody
<1>2. CASE AttemptFailed(r) BY <1>1, <1>2, AttemptFailedIInv
<1>3. CASE \E result \in {"ok", "error"} : Ends(r, result) BY <1>1, <1>3, EndsIInv
<1>4. ASSUME NEW p \in Paths, MatchesTrack(r), DropGuard(r, p),
             To(r, [req[r] EXCEPT !.pc = IF p = req[r].out THEN "open" ELSE "relock", !.fin = p])
      PROVE  PlanIInv'
  <2> DEFINE x == [req[r] EXCEPT !.pc = IF p = req[r].out THEN "open" ELSE "relock", !.fin = p]
  <2>1. /\ x \in Progress /\ x.pc = (IF p = req[r].out THEN "open" ELSE "relock")
        /\ x.out = req[r].out /\ x.fin = p /\ x.file = "right"
    BY <1>1, <1>4 DEF Progress, PlanPC, AtFinalPath, MatchesTrack
  <2>2. To(r, x) BY <1>4
  <2> HIDE DEF x
  <2>3. \A q \in Paths : locked[q] = r <=> q = req[r].out
    BY <1>1 DEF PlanIInv, LocksExact, WorksAt, AtFirstPath, AtFinalPath
  <2>4. \A q \in Paths :
          locked'[q] = IF q = req[r].out THEN (IF p = req[r].out THEN r ELSE Nobody) ELSE locked[q]
    BY <1>4 DEF DropGuard, PlanIInv, PlanTyped
  <2>5. /\ locked' \in [Paths -> Requests \cup {Nobody}] /\ library' \in [Paths -> Files]
    BY <1>1, <1>4 DEF DropGuard, PlanIInv, PlanTyped
  <2>6. \A q \in Paths : locked'[q] = r <=> WorksAt(x, q)
    BY <1>1, <2>1, <2>3, <2>4 DEF WorksAt, AtFirstPath, AtFinalPath
  <2>7. \A q \in Paths : locked'[q] # locked[q] => locked[q] = r /\ locked'[q] = Nobody
    BY <2>3, <2>4
  <2> QED BY <1>1, <2>1, <2>2, <2>5, <2>6, <2>7, StepOfOne
<1> QED BY <1>2, <1>3, <1>4 DEF Finalize, OutputPath

LEMMA RelockIInv ==
  ASSUME PlanIInv, NEW r \in Requests, Relock(r)
  PROVE  PlanIInv'
<1>1. /\ req[r] \in Progress /\ req[r].pc = "relock" /\ library' = library
      /\ req[r].out \in Paths /\ req[r].fin \in Paths /\ req[r].file = "right"
      /\ locked[req[r].fin] = Nobody
  BY DEF PlanIInv, PlanTyped, PathsKnown, OnlyMatched, Relock
<1>2. CASE Ends(r, "failed") BY <1>1, <1>2, EndsIInv
<1>3. CASE At(r, "open") /\ locked' = [locked EXCEPT ![req[r].fin] = r]
  <2> DEFINE x == [req[r] EXCEPT !.pc = "open"]
  <2>1. x \in Progress /\ x.pc = "open" /\ x.out = req[r].out /\ x.fin = req[r].fin /\ x.file = "right"
    BY <1>1 DEF Progress, PlanPC, AtFinalPath
  <2>2. To(r, x) BY <1>3 DEF At
  <2> HIDE DEF x
  <2>3. \A p \in Paths : locked[p] # r
    BY <1>1 DEF PlanIInv, LocksExact, WorksAt, AtFirstPath, AtFinalPath
  <2>4. \A p \in Paths : locked'[p] = IF p = req[r].fin THEN r ELSE locked[p]
    BY <1>3 DEF PlanIInv, PlanTyped
  <2>5. /\ locked' \in [Paths -> Requests \cup {Nobody}] /\ library' \in [Paths -> Files]
    BY <1>1, <1>3 DEF PlanIInv, PlanTyped
  <2>6. \A p \in Paths : locked'[p] = r <=> WorksAt(x, p)
    BY <2>1, <2>3, <2>4 DEF WorksAt, AtFirstPath, AtFinalPath
  <2> QED BY <1>1, <2>1, <2>2, <2>4, <2>5, <2>6, StepOfOne
<1> QED BY <1>2, <1>3 DEF Relock

LEMMA PublishesIInv ==
  ASSUME PlanIInv, NEW r \in Requests, Open(r) \/ Publish(r) \/ Published(r)
  PROVE  PlanIInv'
<1>1. req[r] \in Progress BY DEF PlanIInv, PlanTyped
<1>2. ASSUME NEW pc \in AtFinalPath, req[r].pc \in AtFinalPath, At(r, pc), locked' = locked,
             library' \in [Paths -> Files]
      PROVE  PlanIInv'
  <2> DEFINE x == [req[r] EXCEPT !.pc = pc]
  <2>1. x \in Progress /\ x.pc = pc /\ x.out = req[r].out /\ x.fin = req[r].fin /\ x.file = req[r].file
    BY <1>1 DEF Progress, PlanPC
  <2>2. To(r, x) BY <1>2 DEF At
  <2> HIDE DEF x
  <2>3. req[r].file = "right" /\ req[r].fin \in Paths /\ req[r].out \in Paths
    BY <1>2 DEF PlanIInv, OnlyMatched, PathsKnown, AtFinalPath
  <2>4. \A p \in Paths : locked'[p] = r <=> WorksAt(x, p)
    BY <1>2, <2>1 DEF PlanIInv, LocksExact, WorksAt, AtFirstPath, AtFinalPath
  <2>5. locked' \in [Paths -> Requests \cup {Nobody}] BY <1>2 DEF PlanIInv, PlanTyped
  <2> QED BY <1>2, <2>1, <2>2, <2>3, <2>4, <2>5, StepOfOne
<1>3. CASE Open(r)
  <2>1. CASE Ends(r, "error") BY <1>3, <2>1, EndsIInv DEF Open
  <2>2. CASE At(r, "publish") /\ locked' = locked
    BY <1>2, <1>3, <2>2 DEF Open, PlanIInv, PlanTyped, AtFinalPath
  <2> QED BY <1>3, <2>1, <2>2 DEF Open
<1>4. CASE Publish(r)
  <2>1. CASE Ends(r, "failed") /\ library' = library BY <1>4, <2>1, EndsIInv
  <2>2. CASE /\ At(r, "renamed") /\ locked' = locked
             /\ library' = [library EXCEPT ![req[r].fin] = req[r].file]
    <3>1. req[r].pc = "publish" /\ req[r].file = "right"
      BY <1>4 DEF Publish, PlanIInv, OnlyMatched, AtFinalPath
    <3>2. library' \in [Paths -> Files] BY <2>2, <3>1 DEF PlanIInv, PlanTyped, Files
    <3> QED BY <1>2, <2>2, <3>1, <3>2 DEF AtFinalPath
  <2> QED BY <1>4, <2>1, <2>2 DEF Publish
<1>5. CASE Published(r) BY <1>5, EndsIInv DEF Published
<1> QED BY <1>3, <1>4, <1>5

LEMMA PlanNextIInv == PlanIInv /\ [PlanNext]_planVars => PlanIInv'
<1> SUFFICES ASSUME PlanIInv, [PlanNext]_planVars PROVE PlanIInv'
  OBVIOUS
<1>1. ASSUME NEW p \in Paths, OtherProgram(p) PROVE PlanIInv'
  <2>1. library' \in [Paths -> Files] /\ req' = req /\ locked' = locked
    BY <1>1 DEF OtherProgram, PlanIInv, PlanTyped, Files
  <2> QED BY <2>1 DEF PlanIInv, PlanTyped, LocksExact, OnlyMatched, PathsKnown
<1>2. ASSUME EndProcess PROVE PlanIInv'
  <2>1. /\ req' = [r \in Requests |-> Unasked] /\ locked' = [p \in Paths |-> Nobody]
        /\ library' = library
    BY <1>2 DEF EndProcess
  <2>2. PlanTyped' BY <2>1, IdleIsProgress DEF PlanIInv, PlanTyped
  <2>3. LocksExact'
    BY <2>1, IdleIsProgress, PlannerAssumption DEF LocksExact, WorksAt, AtFirstPath, AtFinalPath, Nobody
  <2>4. OnlyMatched' /\ PathsKnown'
    BY <2>1, IdleIsProgress DEF OnlyMatched, PathsKnown, AtFinalPath
  <2> QED BY <2>2, <2>3, <2>4 DEF PlanIInv
<1>3. ASSUME UNCHANGED planVars PROVE PlanIInv'
  BY <1>3 DEF planVars, PlanIInv, PlanTyped, LocksExact, OnlyMatched, PathsKnown
<1> QED BY <1>1, <1>2, <1>3, CallerIInv, PlansIInv, LocksIInv, FinalizeIInv, RelockIInv, PublishesIInv
    DEF PlanNext

(* Requests that change their path do not wait for each other in a cycle:   *)
(* one that waits for its second lock holds none.                           *)
THEOREM NoCycleOfLocks == PlanSpec => []NoLockCycle
<1>1. PlanIInv => NoLockCycle
  BY DEF PlanIInv, LocksExact, WorksAt, AtFirstPath, AtFinalPath, PathsKnown, NoLockCycle
<1> QED BY PlanInitIInv, PlanNextIInv, <1>1, PTL DEF PlanSpec

(* Only the holder of the lock of a path publishes there, a file that       *)
(* matched the track, and over another file only at the path it was first   *)
(* asked for.                                                               *)
THEOREM LibraryIsSafe == PlanSpec => LibrarySafe
<1> DEFINE Safe == \A p \in Paths : library'[p] \notin {library[p], "other"} =>
                     /\ library'[p] = "right"
                     /\ locked[p] \in Requests
                     /\ library[p] = "none" \/ req[locked[p]].out = p
<1>1. PlanIInv /\ [PlanNext]_planVars => [Safe]_planVars
  <2> SUFFICES ASSUME PlanIInv, PlanNext,
                      NEW p \in Paths, library'[p] \notin {library[p], "other"}
               PROVE  /\ library'[p] = "right"
                      /\ locked[p] \in Requests
                      /\ library[p] = "none" \/ req[locked[p]].out = p
    OBVIOUS
  <2>1. \A q \in Paths : ~OtherProgram(q) BY DEF OtherProgram, PlanIInv, PlanTyped
  <2>2. PICK r \in Requests : Publish(r) /\ library' # library
    BY <2>1 DEF PlanNext, EndProcess, DownloadRequest, ReleaseLease, Respond, Stops, Preflight, Plan,
         Source, NextProvider, Availability, LockOutput, Reclaim, Provide, Finalize, Relock, Open, Published
  <2>3. /\ req[r].pc = "publish" /\ Replaces(r)
        /\ library' = [library EXCEPT ![req[r].fin] = req[r].file]
    BY <2>2 DEF Publish
  <2>4. req[r].file = "right" /\ locked[req[r].fin] = r /\ req[r].fin \in Paths
    BY <2>3 DEF PlanIInv, OnlyMatched, PathsKnown, LocksExact, WorksAt, AtFinalPath
  <2>5. p = req[r].fin /\ library'[p] = "right" BY <2>3, <2>4 DEF PlanIInv, PlanTyped
  <2> QED BY <2>3, <2>4, <2>5 DEF Replaces
<1> QED BY PlanInitIInv, PlanNextIInv, <1>1, PTL DEF PlanSpec, LibrarySafe
-----------------------------------------------------------------------------
(***************************************************************************)
(* The segmented transfer.  While there are jobs left, the indices given    *)
(* out are the segments appended and a window of one per worker behind      *)
(* them, none of which is lost: the next one to append is with a worker, in *)
(* a channel or fetched, and not the latter while the caller waits.         *)
(***************************************************************************)

Indices == 1 .. Segments
BusyPC == {"fetch", "ok", "failed"}
Result == [pc : {"ok", "failed"}, index : Indices]
FetcherRecord == [pc : {"gone", "check", "recv"} \cup BusyPC, index : 0 .. Segments]
Coordinators ==
  [pc : {"idle", "recv", "assemble", "send", "joined", "renamed", "dropped"},
   keep : BOOLEAN, workers : 0 .. Parallel, job : 1 .. Segments + 1,
   open : BOOLEAN, stop : BOOLEAN, failed : BOOLEAN]

SegTyped ==
  /\ assembled \in Seq(Nat) /\ durable \in 0 .. Len(assembled) /\ mark \in 0 .. Segments
  /\ coord \in Coordinators
  /\ jobs \in Seq(Indices) /\ results \in Seq(Result) /\ ready \in SUBSET Indices
  /\ fetcher \in [Fetchers -> FetcherRecord]
  /\ \A w \in Fetchers : fetcher[w].pc \in BusyPC => fetcher[w].index \in Indices

(* The partial file is the first segments in order.                         *)
InOrder == Len(assembled) <= Segments /\ \A i \in 1 .. Len(assembled) : assembled[i] = i

Busy == {w \in Fetchers : fetcher[w].pc \in BusyPC}
InFlight == Len(jobs) + Len(results) + Cardinality(ready) + Cardinality(Busy)

SlotsCounted ==
  /\ InFlight <= coord.workers
  /\ coord.pc = "send" => coord.open /\ InFlight < coord.workers

AllGone == \A w \in Fetchers : fetcher[w].pc = "gone"
QuietOutside ==
  /\ coord.pc \in {"idle", "joined", "renamed", "dropped"} => results = <<>> /\ AllGone
  /\ coord.pc = "idle" => jobs = <<>> /\ ready = {} /\ ~coord.open

Outstanding(i) ==
  \/ i \in ready
  \/ \E k \in 1 .. Len(jobs) : jobs[k] = i
  \/ \E k \in 1 .. Len(results) : results[k].index = i
  \/ \E w \in Busy : fetcher[w].index = i

AtWork == coord.open /\ coord.pc \in {"recv", "assemble", "send"}
NothingLost ==
  /\ coord.open => coord.job <= Segments
  /\ AtWork => /\ coord.workers >= 1
               /\ coord.job = Len(assembled) + coord.workers + IF coord.pc = "send" THEN 0 ELSE 1
               /\ \A i \in Len(assembled) + 1 .. coord.job - 1 : Outstanding(i)
               /\ coord.pc = "recv" => Len(assembled) + 1 \notin ready

SegIInv ==
  /\ SegTyped
  /\ InOrder
  /\ PublishedInOrder
  /\ SlotsCounted
  /\ QuietOutside
  /\ NothingLost

LEMMA SetsFinite ==
  ASSUME SegTyped
  PROVE  /\ IsFiniteSet(ready) /\ Cardinality(ready) \in Nat
         /\ IsFiniteSet(Busy) /\ Cardinality(Busy) \in Nat
         /\ Len(jobs) \in Nat /\ Len(results) \in Nat /\ Len(assembled) \in Nat
<1>1. IsFiniteSet(1 .. Segments) /\ IsFiniteSet(1 .. Parallel)
  BY FS_Interval, SegmentAssumption
<1>2. ready \in SUBSET (1 .. Segments) /\ Busy \in SUBSET (1 .. Parallel)
  BY DEF SegTyped, Indices, Busy, Fetchers
<1>3. IsFiniteSet(ready) /\ IsFiniteSet(Busy) BY <1>1, <1>2, FS_Subset
<1> QED BY <1>3, FS_CardinalityType, LenProperties DEF SegTyped

(* The window keeps the calling thread from waiting for workers that wait   *)
(* for it: the next segment would be with none of them.                     *)
LEMMA SegSound == SegIInv => SegmentsSound
<1> SUFFICES ASSUME SegIInv PROVE SegmentsSound OBVIOUS
<1> USE DEF SegIInv
<1>1. /\ Cardinality(ready) \in Nat /\ Cardinality(Busy) \in Nat
      /\ Len(jobs) \in Nat /\ Len(results) \in Nat /\ Len(assembled) \in Nat
  BY SetsFinite
<1>2. coord.workers \in Nat /\ coord.job \in Nat /\ coord.open \in BOOLEAN
  BY SegmentAssumption DEF SegTyped, Coordinators
<1>3. SlotsBounded
  <2>1. Busy = {w \in Fetchers : fetcher[w].pc \in {"fetch", "ok", "failed"}} BY DEF Busy, BusyPC
  <2>2. InFlight <= coord.workers /\ (coord.pc = "send" => InFlight < coord.workers)
    BY DEF SlotsCounted
  <2>3. coord.pc = "send" => Len(jobs) < coord.workers BY <1>1, <1>2, <2>2 DEF InFlight
  <2> QED BY <2>1, <2>2, <2>3 DEF SlotsBounded, InFlight
<1>4. NobodyStuck
  <2> SUFFICES ASSUME coord.pc = "recv", results = <<>>, NEW w \in Fetchers, fetcher[w].pc # "gone",
                      \A v \in Fetchers : fetcher[v].pc \in {"gone", "recv"},
                      fetcher[w].pc = "recv" => jobs = <<>> /\ coord.open
               PROVE  FALSE
    BY DEF NobodyStuck
  <2>1. jobs = <<>> /\ coord.open /\ AtWork BY DEF AtWork
  <2>2. Busy = {} BY DEF Busy, BusyPC
  <2>3. Len(jobs) = 0 /\ Len(results) = 0 BY <2>1
  <2>4. Len(assembled) + 1 \in Len(assembled) + 1 .. coord.job - 1
    BY <1>1, <1>2, <2>1 DEF NothingLost
  <2>5. Outstanding(Len(assembled) + 1) BY <2>1, <2>4 DEF NothingLost
  <2>6. Len(assembled) + 1 \in ready BY <2>2, <2>3, <2>5 DEF Outstanding
  <2> QED BY <2>1, <2>6 DEF NothingLost
<1> QED BY <1>3, <1>4 DEF SegmentsSound

LEMMA SegInitIInv == SegmentInit => SegIInv
<1> SUFFICES ASSUME SegmentInit PROVE SegIInv OBVIOUS
<1> USE DEF SegmentInit
<1>1. SegTyped
  BY SegmentAssumption DEF SegTyped, Coordinators, NoTransfer, Unborn, FetcherRecord, BusyPC
<1>2. InOrder /\ PublishedInOrder BY SegmentAssumption DEF InOrder, PublishedInOrder
<1>3. QuietOutside /\ NothingLost
  BY DEF QuietOutside, NothingLost, AtWork, AllGone, NoTransfer, Unborn
<1>4. SlotsCounted
  <2>1. Busy = {} BY DEF Busy, BusyPC, Unborn
  <2> QED BY <2>1, FS_EmptySet DEF SlotsCounted, InFlight, NoTransfer
<1> QED BY <1>1, <1>2, <1>3, <1>4 DEF SegIInv

(* The segments appended stay as they are when the file is cut.             *)
LEMMA CutFile ==
  ASSUME SegIInv, NEW n \in 0 .. Len(assembled)
  PROVE  /\ SubSeq(assembled, 1, n) \in Seq(Nat) /\ Len(SubSeq(assembled, 1, n)) = n
         /\ \A i \in 1 .. n : SubSeq(assembled, 1, n)[i] = i
<1>1. assembled \in Seq(Nat) /\ Len(assembled) \in Nat BY SetsFinite DEF SegIInv, SegTyped
<1>2. \A i \in 1 .. n : i \in 1 .. Len(assembled) BY <1>1
<1>3. \A i \in 1 .. n : assembled[i] \in Nat BY <1>1, <1>2, ElementOfSeq
<1>4. n \in Int /\ n \in Nat BY <1>1
<1>5. /\ SubSeq(assembled, 1, n) \in Seq(Nat)
      /\ Len(SubSeq(assembled, 1, n)) = IF 1 <= n THEN n - 1 + 1 ELSE 0
      /\ \A i \in 1 .. n - 1 + 1 : SubSeq(assembled, 1, n)[i] = assembled[1 + i - 1]
  BY <1>3, <1>4, SubSeqProperties
<1>6. \A i \in 1 .. n : i \in 1 .. n - 1 + 1 /\ 1 + i - 1 = i BY <1>4
<1>7. \A i \in 1 .. n : SubSeq(assembled, 1, n)[i] = assembled[i] BY <1>5, <1>6
<1> QED BY <1>2, <1>4, <1>5, <1>7 DEF SegIInv, InOrder

(* A transfer begins with n segments taken up, and so many workers.         *)
Begun(n, workers, keep, spawned) ==
  LET c == [NoTransfer EXCEPT !.keep = keep, !.workers = workers, !.job = n + workers + 1] IN
  /\ assembled' = SubSeq(assembled, 1, n) /\ durable' = Lesser(durable, n) /\ mark' = n
  /\ spawned <= workers
  /\ IF n = Segments THEN Coord([c EXCEPT !.pc = "joined"]) /\ UNCHANGED <<jobs, fetcher>>
     ELSE /\ Coord([c EXCEPT !.pc = "recv", !.open = spawned = workers /\ c.job <= Segments,
                             !.stop = spawned < workers, !.failed = spawned < workers])
          /\ jobs' = [i \in 1 .. workers |-> n + i]
          /\ fetcher' = [w \in Fetchers |-> IF w <= spawned THEN [Unborn EXCEPT !.pc = "check"] ELSE Unborn]

LEMMA BeginStep ==
  ASSUME SegIInv, BeginSegments
  PROVE  SegIInv'
<1>1. PICK keep \in BOOLEAN, valid \in BOOLEAN, spawned \in 0 .. Parallel :
        LET n == IF keep /\ valid /\ TakenUp THEN mark ELSE 0
        IN  Begun(n, Lesser(Parallel, Segments - n), keep, spawned)
  BY DEF BeginSegments, Begun
<1>2. PICK n \in Nat, workers \in Nat :
        /\ n <= Len(assembled) /\ n <= Segments
        /\ workers = Lesser(Parallel, Segments - n)
        /\ Begun(n, workers, keep, spawned)
  <2>1. PICK m : m = IF keep /\ valid /\ TakenUp THEN mark ELSE 0 OBVIOUS
  <2>2. m \in Nat /\ m <= Len(assembled) /\ m <= Segments
    BY <2>1, SegmentAssumption, SetsFinite DEF SegIInv, SegTyped, TakenUp, Appended
  <2>3. PICK x : x = Lesser(Parallel, Segments - m) OBVIOUS
  <2>4. x \in Nat BY <2>2, <2>3, SegmentAssumption DEF Lesser
  <2>5. Begun(m, x, keep, spawned) BY <1>1, <2>1, <2>3
  <2> QED BY <2>2, <2>3, <2>4, <2>5
<1> DEFINE c == [NoTransfer EXCEPT !.keep = keep, !.workers = workers, !.job = n + workers + 1]
<1>3. /\ workers <= Parallel /\ n + workers <= Segments
      /\ n # Segments => workers >= 1
      /\ n = Segments => workers = 0
      /\ Parallel \in Nat \ {0} /\ Segments \in Nat \ {0}
  BY <1>2, SegmentAssumption DEF Lesser
<1>4. /\ coord.pc = "idle" /\ results = <<>> /\ ready = {} /\ jobs = <<>> /\ AllGone
      /\ UNCHANGED <<whole, results, ready>>
  BY DEF BeginSegments, SegIInv, QuietOutside
<1>5. n \in 0 .. Len(assembled) BY <1>2, SetsFinite DEF SegIInv
<1>6. /\ assembled' \in Seq(Nat) /\ Len(assembled') = n
      /\ \A i \in 1 .. n : assembled'[i] = i
  BY <1>2, <1>5, CutFile DEF Begun
<1>7. durable' \in 0 .. n /\ mark' \in 0 .. Segments
  <2>1. durable \in Nat BY DEF SegIInv, SegTyped
  <2> QED BY <1>2, <1>3, <2>1 DEF Lesser, Begun
<1>8. InOrder' /\ PublishedInOrder'
  BY <1>2, <1>3, <1>4, <1>6 DEF InOrder, SegIInv, PublishedInOrder, Begun
<1>9. results' = <<>> /\ ready' = {} /\ results' \in Seq(Result) /\ ready' \in SUBSET Indices /\ Len(results') = 0
      /\ Cardinality(ready') = 0
  BY <1>4, FS_EmptySet
<1>10. CASE n = Segments
  <2>1. coord' = [c EXCEPT !.pc = "joined"] /\ UNCHANGED <<jobs, fetcher>>
    BY <1>2, <1>10 DEF Coord, Begun
  <2>2. coord' \in Coordinators /\ coord'.pc = "joined" /\ coord'.workers = 0 /\ ~coord'.open
    <3>1. workers = 0 /\ 0 \in 0 .. Parallel /\ n + workers + 1 \in 1 .. Segments + 1
      BY <1>2, <1>3, <1>10
    <3>2. coord' = [pc |-> "joined", keep |-> keep, workers |-> workers, job |-> n + workers + 1,
                    open |-> FALSE, stop |-> FALSE, failed |-> FALSE]
      BY <2>1 DEF NoTransfer
    <3> QED BY <3>1, <3>2 DEF Coordinators
  <2> HIDE DEF c
  <2>3. SegTyped' BY <1>6, <1>7, <1>9, <2>1, <2>2 DEF SegIInv, SegTyped
  <2>4. Busy' = {} BY <1>4, <2>1 DEF AllGone, Busy, BusyPC
  <2>5. InFlight' = 0 /\ 0 <= coord'.workers
    <3>1. Len(jobs') = 0 BY <1>4, <2>1
    <3> QED BY <1>9, <2>2, <2>4, <3>1, FS_EmptySet DEF InFlight
  <2>6. SlotsCounted' BY <2>2, <2>5 DEF SlotsCounted
  <2>7. QuietOutside' /\ NothingLost'
    BY <1>4, <1>9, <2>1, <2>2 DEF QuietOutside, AllGone, NothingLost, AtWork
  <2> QED BY <1>8, <2>3, <2>6, <2>7 DEF SegIInv
<1>11. CASE n # Segments
  <2>1. /\ coord' = [c EXCEPT !.pc = "recv", !.open = spawned = workers /\ c.job <= Segments,
                              !.stop = spawned < workers, !.failed = spawned < workers]
        /\ jobs' = [i \in 1 .. workers |-> n + i]
        /\ fetcher' = [w \in Fetchers |-> IF w <= spawned THEN [Unborn EXCEPT !.pc = "check"] ELSE Unborn]
    BY <1>2, <1>11 DEF Coord, Begun
  <2>2. c.job = n + workers + 1 /\ c.workers = workers BY DEF NoTransfer
  <2>3. /\ coord' \in Coordinators /\ coord'.pc = "recv" /\ coord'.workers = workers
        /\ coord'.job = n + workers + 1 /\ (coord'.open => coord'.job <= Segments)
    <3>1. workers \in 0 .. Parallel /\ n + workers + 1 \in 1 .. Segments + 1 BY <1>2, <1>3
    <3>2. PICK open \in BOOLEAN, short \in BOOLEAN :
            /\ open => n + workers + 1 <= Segments
            /\ coord' = [pc |-> "recv", keep |-> keep, workers |-> workers, job |-> n + workers + 1,
                         open |-> open, stop |-> short, failed |-> short]
      <4> DEFINE open == spawned = workers /\ c.job <= Segments
                 short == spawned < workers
      <4>1. coord' = [pc |-> "recv", keep |-> keep, workers |-> workers, job |-> n + workers + 1,
                      open |-> open, stop |-> short, failed |-> short]
        BY <2>1 DEF NoTransfer
      <4>2. open \in BOOLEAN /\ short \in BOOLEAN /\ (open => n + workers + 1 <= Segments) BY <2>2
      <4> HIDE DEF open, short
      <4> QED BY <4>1, <4>2
    <3> QED BY <3>1, <3>2 DEF Coordinators
  <2> HIDE DEF c
  <2>4. jobs' \in Seq(Indices) /\ Len(jobs') = workers /\ \A i \in 1 .. workers : jobs'[i] = n + i
    <3>1. \A i \in 1 .. workers : n + i \in Indices BY <1>2, <1>3 DEF Indices
    <3> QED BY <1>2, <2>1, <3>1
  <2>5. /\ fetcher' \in [Fetchers -> FetcherRecord]
        /\ \A w \in Fetchers : fetcher'[w].pc \notin BusyPC
    BY <1>3, <2>1 DEF FetcherRecord, BusyPC, Unborn
  <2>6. SegTyped' BY <1>6, <1>7, <1>9, <2>3, <2>4, <2>5 DEF SegIInv, SegTyped
  <2>7. Busy' = {} BY <2>5 DEF Busy
  <2>8. InFlight' = workers BY <1>2, <1>9, <2>4, <2>7, FS_EmptySet DEF InFlight
  <2>9. SlotsCounted' BY <1>2, <2>3, <2>8 DEF SlotsCounted
  <2>10. QuietOutside' BY <2>3 DEF QuietOutside
  <2>11. NothingLost'
    <3>1. ASSUME NEW i \in n + 1 .. n + workers PROVE Outstanding(i)'
      <4>1. i - n \in 1 .. workers /\ n + (i - n) = i BY <1>2, <3>1
      <4> QED BY <2>4, <4>1 DEF Outstanding
    <3>2. coord'.job - 1 = n + workers BY <1>2, <2>3
    <3> QED BY <1>2, <1>3, <1>6, <1>9, <1>11, <2>3, <3>1, <3>2 DEF NothingLost, AtWork
  <2> QED BY <1>8, <2>6, <2>9, <2>10, <2>11 DEF SegIInv
<1> QED BY <1>10, <1>11

(* A worker that takes no segment and delivers none.                        *)
LEMMA IdlerStep ==
  ASSUME SegIInv, NEW w \in Fetchers, NEW pc, NEW i \in 0 .. Segments, Fetcher(w, pc, i),
         pc \in {"gone", "check", "recv"} \cup BusyPC,
         UNCHANGED <<files, coord, jobs, results, ready>>,
         fetcher[w].pc # "gone",
         pc \in BusyPC <=> fetcher[w].pc \in BusyPC,
         pc \in BusyPC => i = fetcher[w].index
  PROVE  SegIInv'
<1>1. /\ fetcher' \in [Fetchers -> FetcherRecord] /\ fetcher'[w] = [pc |-> pc, index |-> i]
      /\ \A v \in Fetchers \ {w} : fetcher'[v] = fetcher[v]
  BY DEF Fetcher, SegIInv, SegTyped, FetcherRecord
<1>2. UNCHANGED <<assembled, durable, mark, whole>> BY DEF files
<1>3. /\ \A v \in Fetchers : fetcher'[v].pc \in BusyPC => fetcher[v].pc \in BusyPC
                                                        /\ fetcher'[v].index = fetcher[v].index
      /\ Busy' = Busy
  BY <1>1 DEF Busy
<1>4. SegTyped' BY <1>1, <1>2, <1>3 DEF SegIInv, SegTyped
<1>5. InOrder' /\ PublishedInOrder' BY <1>2 DEF SegIInv, InOrder, PublishedInOrder
<1>6. SlotsCounted' BY <1>3 DEF SegIInv, SlotsCounted, InFlight
<1>7. QuietOutside' BY <1>1 DEF SegIInv, QuietOutside, AllGone
<1>8. \A j : Outstanding(j)' <=> Outstanding(j)
  <2>1. \A v \in Busy : fetcher'[v].index = fetcher[v].index BY <1>3 DEF Busy
  <2> QED BY <1>3, <2>1 DEF Outstanding
<1>9. NothingLost' BY <1>2, <1>8 DEF SegIInv, NothingLost, AtWork
<1> QED BY <1>4, <1>5, <1>6, <1>7, <1>9 DEF SegIInv

(* Head and tail of a channel: what it holds besides its head is kept.      *)
LEMMA HeadKept ==
  ASSUME NEW S, NEW s \in Seq(S), s # <<>>
  PROVE  /\ Head(s) \in S /\ Tail(s) \in Seq(S) /\ Len(s) \in Nat \ {0}
         /\ Len(Tail(s)) = Len(s) - 1 /\ Head(s) = s[1]
         /\ \A k \in 1 .. Len(s) : k = 1 \/ (k - 1 \in 1 .. Len(Tail(s)) /\ Tail(s)[k - 1] = s[k])
<1>1. Len(s) \in Nat \ {0} /\ Head(s) = s[1] BY LenProperties, EmptySeq
<1>2. /\ Head(s) \in S /\ Tail(s) \in Seq(S) /\ Len(Tail(s)) = Len(s) - 1
      /\ \A i \in 1 .. Len(Tail(s)) : Tail(s)[i] = s[i + 1]
  BY HeadTailProperties
<1>3. ASSUME NEW k \in 1 .. Len(s), k # 1
      PROVE  k - 1 \in 1 .. Len(Tail(s)) /\ Tail(s)[k - 1] = s[k]
  <2>1. k - 1 \in 1 .. Len(Tail(s)) /\ (k - 1) + 1 = k BY <1>1, <1>2, <1>3
  <2>2. Tail(s)[k - 1] = s[(k - 1) + 1] BY <1>2, <2>1
  <2> QED BY <2>1, <2>2
<1> QED BY <1>1, <1>2, <1>3

LEMMA TakeStep ==
  ASSUME SegIInv, NEW w \in Fetchers, fetcher[w].pc = "recv", jobs # <<>>,
         Fetcher(w, "fetch", Head(jobs)), jobs' = Tail(jobs),
         UNCHANGED <<files, coord, results, ready>>
  PROVE  SegIInv'
<1> DEFINE i == Head(jobs)
<1>1. /\ i \in Indices /\ jobs' \in Seq(Indices) /\ Len(jobs) \in Nat \ {0}
      /\ Len(jobs') = Len(jobs) - 1 /\ i = jobs[1]
      /\ \A k \in 1 .. Len(jobs) : k = 1 \/ (k - 1 \in 1 .. Len(jobs') /\ jobs'[k - 1] = jobs[k])
  BY HeadKept DEF SegIInv, SegTyped
<1>2. fetcher' = [fetcher EXCEPT ![w] = [pc |-> "fetch", index |-> i]] BY DEF Fetcher
<1> HIDE DEF i
<1>3. /\ fetcher' \in [Fetchers -> FetcherRecord] /\ fetcher'[w] = [pc |-> "fetch", index |-> i]
      /\ \A v \in Fetchers \ {w} : fetcher'[v] = fetcher[v]
  BY <1>1, <1>2, SegmentAssumption DEF SegIInv, SegTyped, FetcherRecord, BusyPC, Indices
<1>4. UNCHANGED <<assembled, durable, mark, whole>> BY DEF files
<1>5. Busy' = Busy \cup {w} /\ w \notin Busy BY <1>3 DEF Busy, BusyPC
<1>6. ASSUME NEW v \in Fetchers, fetcher'[v].pc \in BusyPC PROVE fetcher'[v].index \in Indices
  <2>1. CASE v = w BY <1>1, <1>3, <2>1
  <2>2. CASE v # w BY <1>3, <1>6, <2>2 DEF SegIInv, SegTyped
  <2> QED BY <2>1, <2>2
<1>7. SegTyped' BY <1>1, <1>3, <1>4, <1>6 DEF SegIInv, SegTyped
<1>8. InOrder' /\ PublishedInOrder' BY <1>4 DEF SegIInv, InOrder, PublishedInOrder
<1>9. InFlight' = InFlight
  <2>1. /\ IsFiniteSet(Busy) /\ Cardinality(Busy) \in Nat /\ Cardinality(ready) \in Nat
        /\ Len(results) \in Nat
    BY SetsFinite DEF SegIInv
  <2>2. Cardinality(Busy') = Cardinality(Busy) + 1 BY <1>5, <2>1, FS_AddElement
  <2> QED BY <1>1, <2>1, <2>2 DEF InFlight
<1>10. SlotsCounted' BY <1>9 DEF SegIInv, SlotsCounted
<1>11. QuietOutside' BY <1>3 DEF SegIInv, QuietOutside, AllGone
<1>12. ASSUME NEW j, Outstanding(j) PROVE Outstanding(j)'
  <2>1. CASE j \in ready BY <2>1 DEF Outstanding
  <2>2. ASSUME NEW k \in 1 .. Len(jobs), jobs[k] = j PROVE Outstanding(j)'
    <3>1. CASE k = 1 BY <1>1, <1>3, <1>5, <2>2, <3>1 DEF Outstanding
    <3>2. CASE k # 1 BY <1>1, <2>2, <3>2 DEF Outstanding
    <3> QED BY <3>1, <3>2
  <2>3. CASE \E k \in 1 .. Len(results) : results[k].index = j BY <2>3 DEF Outstanding
  <2>4. ASSUME NEW v \in Busy, fetcher[v].index = j PROVE Outstanding(j)'
    BY <1>3, <1>5, <2>4 DEF Outstanding, Busy
  <2> QED BY <1>12, <2>1, <2>2, <2>3, <2>4 DEF Outstanding
<1>13. NothingLost' BY <1>4, <1>12 DEF SegIInv, NothingLost, AtWork
<1> QED BY <1>7, <1>8, <1>10, <1>11, <1>13 DEF SegIInv

LEMMA SendResultStep ==
  ASSUME SegIInv, NEW w \in Fetchers, SendResult(w)
  PROVE  SegIInv'
<1>1. /\ fetcher[w].pc \in {"ok", "failed"} /\ results' = Append(results, fetcher[w])
      /\ Fetcher(w, IF fetcher[w].pc = "ok" THEN "check" ELSE "gone", 0)
      /\ UNCHANGED <<files, coord, jobs, ready>>
  BY DEF SendResult
<1>2. UNCHANGED <<assembled, durable, mark, whole>> BY <1>1 DEF files
<1>3. fetcher[w] \in Result
  BY <1>1 DEF SegIInv, SegTyped, FetcherRecord, BusyPC, Result
<1>4. /\ results \in Seq(Result) /\ results' \in Seq(Result)
      /\ Len(results) \in Nat /\ Len(results') = Len(results) + 1
      /\ \A k \in 1 .. Len(results) : results'[k] = results[k]
      /\ results'[Len(results) + 1] = fetcher[w]
  BY <1>1, <1>3, AppendProperties, LenProperties DEF SegIInv, SegTyped
<1>5. PICK pc \in {"check", "gone"} : fetcher' = [fetcher EXCEPT ![w] = [pc |-> pc, index |-> 0]]
  BY <1>1 DEF Fetcher
<1>6. /\ fetcher' \in [Fetchers -> FetcherRecord] /\ fetcher'[w] = [pc |-> pc, index |-> 0]
      /\ \A v \in Fetchers \ {w} : fetcher'[v] = fetcher[v]
  BY <1>5, SegmentAssumption DEF SegIInv, SegTyped, FetcherRecord, BusyPC
<1>7. Busy' = Busy \ {w} /\ w \in Busy BY <1>1, <1>6 DEF Busy, BusyPC
<1>8. \A v \in Fetchers : fetcher'[v].pc \in BusyPC => fetcher'[v].index \in Indices
  BY <1>6 DEF SegIInv, SegTyped, BusyPC
<1>9. SegTyped' BY <1>1, <1>2, <1>4, <1>6, <1>8 DEF SegIInv, SegTyped
<1>10. InOrder' /\ PublishedInOrder' BY <1>2 DEF SegIInv, InOrder, PublishedInOrder
<1>11. InFlight' = InFlight
  <2>1. /\ IsFiniteSet(Busy) /\ Cardinality(Busy) \in Nat /\ Cardinality(ready) \in Nat
        /\ Len(jobs) \in Nat
    BY SetsFinite DEF SegIInv
  <2>2. Cardinality(Busy') = Cardinality(Busy) - 1 BY <1>7, <2>1, FS_RemoveElement
  <2> QED BY <1>1, <1>4, <2>1, <2>2 DEF InFlight
<1>12. SlotsCounted' BY <1>1, <1>11 DEF SegIInv, SlotsCounted
<1>13. QuietOutside' BY <1>1 DEF SegIInv, QuietOutside, AllGone
<1>14. ASSUME NEW j, Outstanding(j) PROVE Outstanding(j)'
  <2>1. CASE j \in ready BY <1>1, <2>1 DEF Outstanding
  <2>2. CASE \E k \in 1 .. Len(jobs) : jobs[k] = j BY <1>1, <2>2 DEF Outstanding
  <2>3. ASSUME NEW k \in 1 .. Len(results), results[k].index = j PROVE Outstanding(j)'
    <3>1. k \in 1 .. Len(results') BY <1>4
    <3> QED BY <1>4, <2>3, <3>1 DEF Outstanding
  <2>4. ASSUME NEW v \in Busy, fetcher[v].index = j PROVE Outstanding(j)'
    <3>1. CASE v = w
      <4>1. Len(results) + 1 \in 1 .. Len(results') BY <1>4
      <4> QED BY <1>4, <2>4, <3>1, <4>1 DEF Outstanding
    <3>2. CASE v # w BY <1>6, <1>7, <2>4, <3>2 DEF Outstanding, Busy
    <3> QED BY <3>1, <3>2
  <2> QED BY <1>14, <2>1, <2>2, <2>3, <2>4 DEF Outstanding
<1>15. NothingLost' BY <1>1, <1>2, <1>14 DEF SegIInv, NothingLost, AtWork
<1> QED BY <1>9, <1>10, <1>12, <1>13, <1>15 DEF SegIInv

LEMMA WorkerStep ==
  ASSUME SegIInv, NEW w \in Fetchers, Worker(w)
  PROVE  SegIInv'
<1>1. fetcher[w] \in FetcherRecord /\ 0 \in 0 .. Segments
  BY SegmentAssumption DEF SegIInv, SegTyped
<1>2. CASE CheckWorker(w)
  <2>1. PICK pc \in {"gone", "recv"} : Fetcher(w, pc, 0) BY <1>2 DEF CheckWorker
  <2>2. fetcher[w].pc = "check" /\ UNCHANGED <<files, coord, jobs, results, ready>>
    BY <1>2 DEF CheckWorker
  <2> QED BY <1>1, <2>1, <2>2, IdlerStep DEF BusyPC
<1>3. CASE TakeJob(w)
  <2>1. fetcher[w].pc = "recv" /\ UNCHANGED <<files, coord, results, ready>> BY <1>3 DEF TakeJob
  <2>2. CASE jobs # <<>> BY <1>3, <2>1, <2>2, TakeStep DEF TakeJob
  <2>3. CASE jobs = <<>>
    <3>1. Fetcher(w, "gone", 0) /\ UNCHANGED jobs BY <1>3, <2>3 DEF TakeJob
    <3> QED BY <1>1, <2>1, <3>1, IdlerStep DEF BusyPC
  <2> QED BY <2>2, <2>3
<1>4. CASE Fetch(w)
  <2>1. PICK pc \in {"ok", "failed"} : Fetcher(w, pc, fetcher[w].index) BY <1>4 DEF Fetch
  <2>2. fetcher[w].pc = "fetch" /\ UNCHANGED <<files, coord, jobs, results, ready>>
    BY <1>4 DEF Fetch
  <2>3. fetcher[w].index \in 0 .. Segments BY <1>1 DEF FetcherRecord
  <2> QED BY <2>1, <2>2, <2>3, IdlerStep DEF BusyPC
<1> QED BY <1>2, <1>3, <1>4, SendResultStep DEF Worker

(* A step of the calling thread that leaves the workers and the files alone.*)
LEMMA StopStep ==
  ASSUME SegIInv, StopSegments
  PROVE  SegIInv'
<1>1. /\ coord' = Stopped /\ coord.pc = "recv" /\ coord \in Coordinators
      /\ UNCHANGED <<files, jobs, results, fetcher, ready>>
  BY DEF StopSegments, Coord, SegIInv, SegTyped
<1>2. /\ coord' \in Coordinators /\ coord'.pc = "recv" /\ ~coord'.open
      /\ coord'.workers = coord.workers
  BY <1>1 DEF Stopped, Coordinators
<1>3. UNCHANGED <<assembled, durable, mark, whole>> BY <1>1 DEF files
<1>4. SegTyped' BY <1>1, <1>2, <1>3 DEF SegIInv, SegTyped
<1>5. InOrder' /\ PublishedInOrder' BY <1>3 DEF SegIInv, InOrder, PublishedInOrder
<1>6. Busy' = Busy BY <1>1 DEF Busy
<1>7. InFlight' = InFlight BY <1>1, <1>6 DEF InFlight
<1>8. SlotsCounted' BY <1>2, <1>7 DEF SegIInv, SlotsCounted
<1>9. QuietOutside' /\ NothingLost' BY <1>2 DEF QuietOutside, NothingLost, AtWork
<1> QED BY <1>4, <1>5, <1>8, <1>9 DEF SegIInv

LEMMA ReceiveStep ==
  ASSUME SegIInv, Receive
  PROVE  SegIInv'
<1>1. /\ coord.pc = "recv" /\ coord \in Coordinators /\ UNCHANGED <<files, jobs, fetcher>>
  BY DEF Receive, SegIInv, SegTyped
<1>2. UNCHANGED <<assembled, durable, mark, whole>> BY <1>1 DEF files
<1>3. InOrder' /\ PublishedInOrder' BY <1>2 DEF SegIInv, InOrder, PublishedInOrder
<1>4. Busy' = Busy BY <1>1 DEF Busy
<1>5. CASE results = <<>>
  <2>1. /\ AllGone /\ coord' = [coord EXCEPT !.pc = "joined"] /\ UNCHANGED <<results, ready>>
    BY <1>5 DEF Receive, Coord, AllGone
  <2>2. /\ coord' \in Coordinators /\ coord'.pc = "joined" /\ coord'.workers = coord.workers
        /\ coord'.open = coord.open /\ coord'.job = coord.job
    BY <1>1, <2>1 DEF Coordinators
  <2>3. SegTyped' BY <1>1, <1>2, <2>1, <2>2 DEF SegIInv, SegTyped
  <2>4. InFlight' = InFlight BY <1>1, <1>4, <2>1 DEF InFlight
  <2>5. SlotsCounted' BY <2>2, <2>4 DEF SegIInv, SlotsCounted
  <2>6. QuietOutside' /\ NothingLost'
    BY <1>1, <1>5, <2>1, <2>2 DEF SegIInv, QuietOutside, AllGone, NothingLost, AtWork
  <2> QED BY <1>3, <2>3, <2>5, <2>6 DEF SegIInv
<1>6. CASE results # <<>>
  <2> DEFINE h == Head(results)
  <2>1. /\ h \in Result /\ results' \in Seq(Result) /\ Len(results) \in Nat \ {0}
        /\ Len(results') = Len(results) - 1 /\ h = results[1]
        /\ \A k \in 1 .. Len(results) :
             k = 1 \/ (k - 1 \in 1 .. Len(results') /\ results'[k - 1] = results[k])
    <3>1. results \in Seq(Result) /\ results' = Tail(results)
      BY <1>6 DEF SegIInv, SegTyped, Receive
    <3> QED BY <1>6, <3>1, HeadKept
  <2>2. \/ h.pc = "ok" /\ ready' = ready \cup {h.index} /\ coord' = [coord EXCEPT !.pc = "assemble"]
        \/ h.pc # "ok" /\ coord' = [Stopped EXCEPT !.pc = "assemble"] /\ UNCHANGED ready
    BY <1>6 DEF Receive, Coord, AfterArrival, Failure
  <2> HIDE DEF h
  <2>3. /\ coord' \in Coordinators /\ coord'.pc = "assemble" /\ coord'.workers = coord.workers
        /\ coord'.job = coord.job
        /\ coord'.open => coord.open /\ ready' = ready \cup {h.index}
    BY <1>1, <2>2 DEF Coordinators, Stopped
  <2>4. ready' \in SUBSET Indices /\ ready \subseteq ready' /\ ready' \subseteq ready \cup {h.index}
    BY <2>1, <2>2 DEF SegIInv, SegTyped, Result
  <2>5. SegTyped' BY <1>1, <1>2, <2>1, <2>3, <2>4 DEF SegIInv, SegTyped
  <2>6. InFlight' <= InFlight /\ InFlight \in Nat /\ InFlight' \in Nat
    <3>1. /\ Cardinality(Busy) \in Nat /\ Cardinality(ready) \in Nat /\ IsFiniteSet(ready)
          /\ Len(jobs) \in Nat
      BY SetsFinite DEF SegIInv
    <3>2. Cardinality(ready') \in {Cardinality(ready), Cardinality(ready) + 1}
      <4>1. CASE ready' = ready BY <4>1
      <4>2. CASE ready' = ready \cup {h.index} /\ h.index \in ready BY <3>1, <4>2, FS_AddElement
      <4>3. CASE ready' = ready \cup {h.index} /\ h.index \notin ready BY <3>1, <4>3, FS_AddElement
      <4> QED BY <2>2, <4>1, <4>2, <4>3
    <3>3. Cardinality(ready') \in Nat /\ Cardinality(ready') <= Cardinality(ready) + 1 BY <3>1, <3>2
    <3>4. Len(jobs') = Len(jobs) /\ Cardinality(Busy') = Cardinality(Busy) BY <1>1, <1>4
    <3> QED BY <2>1, <3>1, <3>2, <3>3, <3>4, SMTT(30) DEF InFlight
  <2>7. SlotsCounted'
    BY <1>1, <2>3, <2>6 DEF SegIInv, SlotsCounted, Coordinators
  <2>8. QuietOutside' BY <2>3 DEF QuietOutside
  <2>9. ASSUME coord'.open, NEW j, Outstanding(j) PROVE Outstanding(j)'
    <3>1. CASE j \in ready BY <2>4, <3>1 DEF Outstanding
    <3>2. CASE \E k \in 1 .. Len(jobs) : jobs[k] = j BY <1>1, <3>2 DEF Outstanding
    <3>3. ASSUME NEW k \in 1 .. Len(results), results[k].index = j PROVE Outstanding(j)'
      <4>1. CASE k = 1 BY <2>1, <2>3, <2>9, <3>3, <4>1 DEF Outstanding
      <4>2. CASE k # 1 BY <2>1, <3>3, <4>2 DEF Outstanding
      <4> QED BY <4>1, <4>2
    <3>4. CASE \E v \in Busy : fetcher[v].index = j BY <1>1, <1>4, <3>4 DEF Outstanding
    <3> QED BY <2>9, <3>1, <3>2, <3>3, <3>4 DEF Outstanding
  <2>10. NothingLost' BY <1>1, <1>2, <2>3, <2>9 DEF SegIInv, NothingLost, AtWork
  <2> QED BY <1>3, <2>5, <2>7, <2>8, <2>10 DEF SegIInv
<1> QED BY <1>5, <1>6

(* A segment that is appended leaves its slot to the next job; after a      *)
(* failed append, or when none is due, the caller waits.                    *)
LEMMA AssembleStep ==
  ASSUME SegIInv, Assemble
  PROVE  SegIInv'
<1>1. /\ coord.pc = "assemble" /\ coord \in Coordinators
      /\ UNCHANGED <<whole, jobs, results, fetcher>>
  BY DEF Assemble, SegIInv, SegTyped
<1>2. Busy' = Busy BY <1>1 DEF Busy
<1>3. /\ IsFiniteSet(ready) /\ Cardinality(ready) \in Nat /\ Cardinality(Busy) \in Nat
      /\ Len(jobs) \in Nat /\ Len(results) \in Nat /\ Len(assembled) \in Nat
  BY SetsFinite DEF SegIInv
<1>4. PublishedInOrder' BY <1>1 DEF SegIInv, PublishedInOrder
<1>5. ASSUME coord'.pc = "recv", coord' \in Coordinators, coord'.workers = coord.workers,
             coord'.job = coord.job, coord'.open => coord.open /\ ready' = ready /\ Len(assembled) + 1 \notin ready,
             UNCHANGED <<assembled, durable, mark>>, ready' \in SUBSET Indices,
             Cardinality(ready') \in Nat, Cardinality(ready') <= Cardinality(ready)
      PROVE  SegIInv'
  <2>1. SegTyped' BY <1>1, <1>5 DEF SegIInv, SegTyped
  <2>2. InOrder' BY <1>5 DEF SegIInv, InOrder
  <2>3. InFlight' <= InFlight /\ InFlight \in Nat /\ InFlight' \in Nat
    BY <1>1, <1>2, <1>3, <1>5 DEF InFlight
  <2>4. SlotsCounted' BY <1>1, <1>5, <2>3 DEF SegIInv, SlotsCounted, Coordinators
  <2>5. QuietOutside' BY <1>5 DEF QuietOutside
  <2>6. ASSUME coord'.open, NEW j, Outstanding(j) PROVE Outstanding(j)'
    BY <1>1, <1>2, <1>5, <2>6 DEF Outstanding
  <2>7. NothingLost' BY <1>1, <1>5, <2>6 DEF SegIInv, NothingLost, AtWork
  <2> QED BY <1>4, <2>1, <2>2, <2>4, <2>5, <2>7 DEF SegIInv
<1>6. CASE Due = {}
  <2>1. coord' = [coord EXCEPT !.pc = "recv"] /\ UNCHANGED <<ready, assembled, durable, mark>>
    BY <1>6 DEF Assemble, Coord
  <2>2. Len(assembled) + 1 \notin ready BY <1>6 DEF Due, Appended
  <2>3. ready' \in SUBSET Indices BY <2>1 DEF SegIInv, SegTyped
  <2>4. /\ coord'.pc = "recv" /\ coord' \in Coordinators /\ coord'.workers = coord.workers
        /\ coord'.job = coord.job /\ coord'.open = coord.open
    BY <1>1, <2>1 DEF Coordinators
  <2> QED BY <1>3, <1>5, <2>1, <2>2, <2>3, <2>4
<1>7. ASSUME NEW i \in Due, ready' = ready \ {i},
             \/ /\ assembled' = Append(assembled, i) /\ SaveMark
                /\ Coord([coord EXCEPT !.pc = IF coord.open THEN "send" ELSE "assemble"])
             \/ Coord([Stopped EXCEPT !.pc = "recv"]) /\ UNCHANGED <<assembled, durable, mark>>
      PROVE  SegIInv'
  <2>1. i = Len(assembled) + 1 /\ i \in ready /\ i \in Indices
    BY DEF Due, Appended, SegIInv, SegTyped
  <2>2. /\ Cardinality(ready') = Cardinality(ready) - 1 /\ Cardinality(ready') \in Nat
        /\ ready' \in SUBSET Indices
    <3>1. Cardinality(ready \ {i}) = Cardinality(ready) - 1 /\ IsFiniteSet(ready \ {i})
      BY <1>3, <2>1, FS_RemoveElement
    <3>2. Cardinality(ready \ {i}) \in Nat BY <3>1, FS_CardinalityType
    <3> QED BY <1>7, <3>1, <3>2 DEF SegIInv, SegTyped
  <2>3. CASE Coord([Stopped EXCEPT !.pc = "recv"]) /\ UNCHANGED <<assembled, durable, mark>>
    <3>1. /\ coord'.pc = "recv" /\ coord' \in Coordinators /\ coord'.workers = coord.workers
          /\ coord'.job = coord.job /\ ~coord'.open
      BY <1>1, <2>3 DEF Coord, Stopped, Coordinators
    <3> QED BY <1>3, <1>5, <2>2, <2>3, <3>1
  <2>4. CASE /\ assembled' = Append(assembled, i) /\ SaveMark
             /\ Coord([coord EXCEPT !.pc = IF coord.open THEN "send" ELSE "assemble"])
    <3>1. PICK pc : pc = (IF coord.open THEN "send" ELSE "assemble") OBVIOUS
    <3>2. coord' = [coord EXCEPT !.pc = pc] BY <2>4, <3>1 DEF Coord
    <3>3. /\ coord' \in Coordinators /\ coord'.pc = pc /\ coord'.workers = coord.workers
          /\ coord'.job = coord.job /\ coord'.open = coord.open
      BY <1>1, <3>1, <3>2 DEF Coordinators
    <3>4. i \in Nat /\ i <= Segments BY <2>1, SegmentAssumption DEF Indices
    <3>5. /\ assembled' \in Seq(Nat) /\ Len(assembled') = i
          /\ \A k \in 1 .. Len(assembled) : assembled'[k] = assembled[k]
          /\ assembled'[i] = i
      <4>1. assembled \in Seq(Nat) BY DEF SegIInv, SegTyped
      <4>2. /\ Append(assembled, i) \in Seq(Nat) /\ Len(Append(assembled, i)) = Len(assembled) + 1
            /\ \A k \in 1 .. Len(assembled) : Append(assembled, i)[k] = assembled[k]
            /\ Append(assembled, i)[Len(assembled) + 1] = i
        BY <3>4, <4>1, AppendProperties
      <4> QED BY <2>1, <2>4, <4>2
    <3>6. InOrder'
      <4>1. \A k \in 1 .. i : k = i \/ k \in 1 .. Len(assembled) BY <1>3, <2>1
      <4> QED BY <3>4, <3>5, <4>1 DEF SegIInv, InOrder
    <3>7. durable' \in 0 .. i /\ mark' \in 0 .. Segments
      <4>1. CASE UNCHANGED <<durable, mark>> BY <1>3, <2>1, <4>1 DEF SegIInv, SegTyped
      <4>2. CASE durable' = Len(assembled') /\ mark' = Len(assembled') BY <3>4, <3>5, <4>2, SegmentAssumption
      <4> QED BY <2>4, <4>1, <4>2 DEF SaveMark
    <3>8. SegTyped' BY <1>1, <2>2, <3>3, <3>5, <3>7 DEF SegIInv, SegTyped
    <3>9. InFlight' = InFlight - 1 /\ InFlight \in Nat /\ InFlight' \in Nat
      BY <1>1, <1>2, <1>3, <2>2, SMTT(30) DEF InFlight
    <3>10. SlotsCounted'
      <4>1. coord'.pc = "send" => coord'.open BY <3>1, <3>3
      <4> QED BY <1>1, <3>3, <3>9, <4>1 DEF SegIInv, SlotsCounted, Coordinators
    <3>11. QuietOutside' BY <3>1, <3>3 DEF QuietOutside
    <3>12. ASSUME NEW j, j # i, Outstanding(j) PROVE Outstanding(j)'
      BY <1>1, <1>2, <1>7, <3>12 DEF Outstanding
    <3>13. NothingLost'
      <4>1. CASE ~coord.open BY <3>3, <4>1 DEF NothingLost, AtWork
      <4>2. CASE coord.open
        <5>1. /\ coord.job <= Segments /\ coord.workers >= 1
              /\ coord.job = Len(assembled) + coord.workers + 1
              /\ \A j \in Len(assembled) + 1 .. coord.job - 1 : Outstanding(j)
          BY <1>1, <4>2 DEF SegIInv, NothingLost, AtWork
        <5>2. \A j \in i + 1 .. coord.job - 1 : j # i /\ j \in Len(assembled) + 1 .. coord.job - 1
          BY <1>3, <2>1
        <5>3. \A j \in i + 1 .. coord.job - 1 : Outstanding(j)' BY <3>12, <5>1, <5>2
        <5>4. coord'.pc = "send" BY <3>1, <3>3, <4>2
        <5>5. coord'.job = Len(assembled') + coord'.workers + 0
          BY <1>1, <1>3, <2>1, <3>3, <3>5, <5>1 DEF Coordinators
        <5> QED BY <3>3, <3>5, <5>1, <5>3, <5>4, <5>5 DEF NothingLost, AtWork
      <4> QED BY <4>1, <4>2
    <3> QED BY <1>4, <3>6, <3>8, <3>10, <3>11, <3>13 DEF SegIInv
  <2> QED BY <1>7, <2>3, <2>4
<1> QED BY <1>6, <1>7 DEF Assemble

LEMMA SendJobStep ==
  ASSUME SegIInv, SendJob
  PROVE  SegIInv'
<1>1. /\ coord.pc = "send" /\ coord \in Coordinators /\ coord.open
      /\ jobs' = Append(jobs, coord.job)
      /\ coord' = [coord EXCEPT !.pc = "assemble", !.job = @ + 1, !.open = coord.job < Segments]
      /\ UNCHANGED <<files, results, fetcher, ready>>
  BY DEF SendJob, Coord, SegIInv, SegTyped, SlotsCounted
<1>2. UNCHANGED <<assembled, durable, mark, whole>> BY <1>1 DEF files
<1>3. Busy' = Busy BY <1>1 DEF Busy
<1>4. /\ Cardinality(ready) \in Nat /\ Cardinality(Busy) \in Nat
      /\ Len(jobs) \in Nat /\ Len(results) \in Nat /\ Len(assembled) \in Nat
  BY SetsFinite DEF SegIInv
<1>5. /\ coord.job \in Nat /\ coord.workers \in Nat /\ coord.job \in Indices
      /\ coord.workers >= 1 /\ coord.job = Len(assembled) + coord.workers
      /\ \A i \in Len(assembled) + 1 .. coord.job - 1 : Outstanding(i)
  BY <1>1, SegmentAssumption DEF SegIInv, NothingLost, AtWork, Coordinators, Indices
<1>6. /\ coord'.pc = "assemble" /\ coord'.workers = coord.workers /\ coord'.job = coord.job + 1
      /\ coord'.open => coord.job < Segments
      /\ coord' \in Coordinators
  <2>1. coord.job + 1 \in 1 .. Segments + 1 BY <1>5, SegmentAssumption DEF Indices
  <2>2. CASE coord.job < Segments
    <3>1. coord' = [coord EXCEPT !.pc = "assemble", !.job = @ + 1, !.open = TRUE]
      <4>1. (coord.job < Segments) = TRUE BY <2>2
      <4> QED BY <1>1, <4>1, Zenon
    <3> QED BY <1>1, <2>1, <2>2, <3>1 DEF Coordinators
  <2>3. CASE ~(coord.job < Segments)
    <3>1. coord' = [coord EXCEPT !.pc = "assemble", !.job = @ + 1, !.open = FALSE]
      <4>1. (coord.job < Segments) = FALSE BY <2>3
      <4> QED BY <1>1, <4>1, Zenon
    <3> QED BY <1>1, <2>1, <2>3, <3>1 DEF Coordinators
  <2> QED BY <2>2, <2>3
<1>7. /\ jobs' \in Seq(Indices) /\ Len(jobs') = Len(jobs) + 1
      /\ \A k \in 1 .. Len(jobs) : jobs'[k] = jobs[k]
      /\ jobs'[Len(jobs) + 1] = coord.job
  <2>1. jobs \in Seq(Indices) BY DEF SegIInv, SegTyped
  <2> QED BY <1>1, <1>5, <2>1, AppendProperties
<1>8. SegTyped' BY <1>1, <1>2, <1>6, <1>7 DEF SegIInv, SegTyped
<1>9. InOrder' /\ PublishedInOrder' BY <1>2 DEF SegIInv, InOrder, PublishedInOrder
<1>10. InFlight' = InFlight + 1 /\ InFlight \in Nat BY <1>1, <1>3, <1>4, <1>7 DEF InFlight
<1>11. SlotsCounted' BY <1>1, <1>5, <1>6, <1>10 DEF SegIInv, SlotsCounted
<1>12. QuietOutside' BY <1>6 DEF QuietOutside
<1>13. ASSUME NEW i, Outstanding(i) \/ i = coord.job PROVE Outstanding(i)'
  <2>1. CASE i \in ready BY <1>1, <2>1 DEF Outstanding
  <2>2. ASSUME NEW k \in 1 .. Len(jobs), jobs[k] = i PROVE Outstanding(i)'
    <3>1. k \in 1 .. Len(jobs') BY <1>4, <1>7
    <3> QED BY <1>7, <2>2, <3>1 DEF Outstanding
  <2>3. CASE \E k \in 1 .. Len(results) : results[k].index = i BY <1>1, <2>3 DEF Outstanding
  <2>4. CASE \E v \in Busy : fetcher[v].index = i BY <1>1, <1>3, <2>4 DEF Outstanding
  <2>5. CASE i = coord.job
    <3>1. Len(jobs) + 1 \in 1 .. Len(jobs') BY <1>4, <1>7
    <3> QED BY <1>7, <2>5, <3>1 DEF Outstanding
  <2> QED BY <1>13, <2>1, <2>2, <2>3, <2>4, <2>5 DEF Outstanding
<1>14. NothingLost'
  <2>1. coord'.open => coord'.job <= Segments BY <1>5, <1>6, SegmentAssumption
  <2>2. coord'.workers >= 1 /\ coord'.job = Len(assembled') + coord'.workers + 1
    BY <1>2, <1>4, <1>5, <1>6
  <2>3. ASSUME NEW i \in Len(assembled') + 1 .. coord'.job - 1 PROVE Outstanding(i)'
    <3>1. i \in Len(assembled) + 1 .. coord.job - 1 \/ i = coord.job BY <1>2, <1>4, <1>5, <1>6, SMTT(30)
    <3> QED BY <1>5, <1>13, <3>1
  <2> QED BY <1>6, <2>1, <2>2, <2>3 DEF NothingLost, AtWork
<1> QED BY <1>8, <1>9, <1>11, <1>12, <1>14 DEF SegIInv

LEMMA EndStep ==
  ASSUME SegIInv, EndSegments
  PROVE  SegIInv'
<1>1. /\ coord.pc = "joined" /\ coord \in Coordinators
      /\ UNCHANGED <<jobs, results, fetcher, ready>>
  BY DEF EndSegments, SegIInv, SegTyped
<1>2. PICK pc \in {"renamed", "dropped"} : coord' = [coord EXCEPT !.pc = pc] BY DEF EndSegments, Coord
<1>3. /\ coord' \in Coordinators /\ coord'.pc \in {"renamed", "dropped"} /\ coord'.workers = coord.workers
      /\ coord'.job = coord.job /\ coord'.open = coord.open
  BY <1>1, <1>2 DEF Coordinators
<1>4. /\ assembled \in Seq(Nat) /\ Len(assembled) \in Nat /\ <<>> \in Seq(Nat) /\ Len(<<>>) = 0
      /\ durable \in 0 .. Len(assembled) /\ mark \in 0 .. Segments
  BY LenProperties, EmptySeq DEF SegIInv, SegTyped
<1>5. /\ assembled' \in Seq(Nat) /\ durable' \in 0 .. Len(assembled') /\ mark' \in 0 .. Segments
      /\ InOrder' /\ PublishedInOrder'
  <2>1. CASE whole' = assembled /\ assembled' = <<>> /\ durable' = 0 /\ UNCHANGED mark /\ Appended = Segments
    <3>1. whole' = [i \in 1 .. Segments |-> i]
      <4>1. DOMAIN assembled = 1 .. Segments BY <1>4, <2>1, LenProperties DEF Appended
      <4>2. assembled = [i \in 1 .. Segments |-> assembled[i]] BY <1>4, <4>1, SeqDef
      <4>3. \A i \in 1 .. Segments : assembled[i] = i BY <2>1 DEF SegIInv, InOrder, Appended
      <4> QED BY <2>1, <4>2, <4>3
    <3> QED BY <1>4, <2>1, <3>1, SegmentAssumption DEF InOrder, PublishedInOrder
  <2>2. CASE UNCHANGED <<assembled, durable, mark, whole>>
    BY <1>4, <2>2 DEF InOrder, PublishedInOrder, SegIInv
  <2>3. CASE UNCHANGED <<assembled, whole>> /\ SaveMark
    <3>1. durable' \in 0 .. Len(assembled) /\ mark' \in 0 .. Segments
      BY <1>4, <2>3, SegmentAssumption DEF SaveMark, SegIInv, InOrder
    <3> QED BY <1>4, <2>3, <3>1 DEF InOrder, PublishedInOrder, SegIInv
  <2> QED BY <2>1, <2>2, <2>3 DEF EndSegments, files
<1>6. SegTyped' BY <1>1, <1>3, <1>5 DEF SegIInv, SegTyped
<1>7. Busy' = Busy BY <1>1 DEF Busy
<1>8. SlotsCounted'
  <2>1. InFlight' = InFlight BY <1>1, <1>7 DEF InFlight
  <2> QED BY <1>3, <2>1 DEF SegIInv, SlotsCounted
<1>9. QuietOutside' /\ NothingLost'
  BY <1>1, <1>3 DEF SegIInv, QuietOutside, AllGone, NothingLost, AtWork
<1> QED BY <1>5, <1>6, <1>8, <1>9 DEF SegIInv

(* Whatever ends a transfer leaves no worker, no job and no segment behind. *)
LEMMA ResetStep ==
  ASSUME SegIInv, coord' = NoTransfer, jobs' = <<>>, results' = <<>>, ready' = {},
         fetcher' \in [Fetchers -> FetcherRecord], AllGone', UNCHANGED whole,
         assembled' \in Seq(Nat), Len(assembled') <= Segments,
         \A i \in 1 .. Len(assembled') : assembled'[i] = i,
         durable' \in 0 .. Len(assembled'), mark' \in 0 .. Segments
  PROVE  SegIInv'
<1>1. coord' \in Coordinators /\ coord'.pc = "idle" /\ ~coord'.open /\ coord'.workers = 0
  BY SegmentAssumption DEF NoTransfer, Coordinators
<1>2. Busy' = {} /\ \A w \in Fetchers : fetcher'[w].pc \notin BusyPC BY DEF Busy, BusyPC, AllGone
<1>3. /\ jobs' \in Seq(Indices) /\ results' \in Seq(Result) /\ Len(jobs') = 0 /\ Len(results') = 0
  BY EmptySeq
<1>4. SegTyped' BY <1>1, <1>2, <1>3 DEF SegTyped
<1>5. InOrder' /\ PublishedInOrder' BY DEF InOrder, SegIInv, PublishedInOrder
<1>6. InFlight' = 0 BY <1>2, <1>3, FS_EmptySet DEF InFlight
<1>7. SlotsCounted' BY <1>1, <1>6 DEF SlotsCounted
<1>8. QuietOutside' /\ NothingLost' BY <1>1 DEF QuietOutside, NothingLost, AtWork
<1> QED BY <1>4, <1>5, <1>7, <1>8 DEF SegIInv

LEMMA DropStep ==
  ASSUME SegIInv, DropOutput \/ LoseSegments
  PROVE  SegIInv'
<1>1. /\ assembled \in Seq(Nat) /\ Len(assembled) \in Nat /\ <<>> \in Seq(Nat) /\ Len(<<>>) = 0
      /\ durable \in 0 .. Len(assembled) /\ mark \in 0 .. Segments /\ Len(assembled) <= Segments
      /\ \A i \in 1 .. Len(assembled) : assembled[i] = i
  BY LenProperties, EmptySeq DEF SegIInv, SegTyped, InOrder
<1>2. CASE DropOutput
  <2>1. /\ coord' = NoTransfer /\ jobs' = <<>> /\ ready' = {} /\ results' = <<>>
        /\ fetcher' \in [Fetchers -> FetcherRecord] /\ AllGone' /\ UNCHANGED whole
    BY <1>2 DEF DropOutput, Coord, SegIInv, SegTyped, QuietOutside, AllGone
  <2>2. CASE assembled' = <<>> /\ durable' = 0 /\ mark' = 0
    BY <1>1, <2>1, <2>2, ResetStep, SegmentAssumption
  <2>3. CASE UNCHANGED <<assembled, durable, mark>> BY <1>1, <2>1, <2>3, ResetStep
  <2> QED BY <1>2, <2>2, <2>3 DEF DropOutput
<1>3. CASE LoseSegments
  <2>1. /\ coord' = NoTransfer /\ jobs' = <<>> /\ ready' = {} /\ results' = <<>>
        /\ fetcher' = [w \in Fetchers |-> Unborn] /\ UNCHANGED <<mark, whole>>
    BY <1>3 DEF LoseSegments, Coord
  <2>2. fetcher' \in [Fetchers -> FetcherRecord] /\ AllGone'
    BY <2>1, SegmentAssumption DEF Unborn, FetcherRecord, AllGone
  <2>3. PICK n \in durable .. Len(assembled) : assembled' = SubSeq(assembled, 1, n) /\ durable' = n
    BY <1>3 DEF LoseSegments, Appended
  <2>4. n \in 0 .. Len(assembled) /\ n \in Nat /\ n <= Segments BY <1>1, <2>3, SegmentAssumption
  <2>5. /\ assembled' \in Seq(Nat) /\ Len(assembled') = n
        /\ \A i \in 1 .. n : assembled'[i] = i
    BY <2>3, <2>4, CutFile
  <2>6. durable' \in 0 .. Len(assembled') BY <2>3, <2>4, <2>5
  <2> QED BY <1>1, <2>1, <2>2, <2>4, <2>5, <2>6, ResetStep
<1> QED BY <1>2, <1>3

LEMMA SegNextIInv == SegIInv /\ [SegmentNext]_segmentVars => SegIInv'
<1> SUFFICES ASSUME SegIInv, [SegmentNext]_segmentVars PROVE SegIInv' OBVIOUS
<1>1. CASE UNCHANGED segmentVars
  BY <1>1 DEF segmentVars, SegIInv, SegTyped, InOrder, PublishedInOrder, SlotsCounted, InFlight, Busy,
              QuietOutside, AllGone, NothingLost, AtWork, Outstanding
<1> QED BY <1>1, BeginStep, WorkerStep, StopStep, ReceiveStep, AssembleStep, SendJobStep, EndStep, DropStep
        DEF SegmentNext, Caller

(* For any number of segments and workers, in whatever order segments       *)
(* arrive, fail or are lost with the power: what is published is all of     *)
(* them in order, no channel overflows, and the calling thread never waits  *)
(* for workers that wait for it (download, fetch, append).                  *)
THEOREM SegmentsAreSound == SegmentSpec => []SegmentsSound
<1> QED BY SegInitIInv, SegNextIInv, SegSound, PTL DEF SegmentSpec

-----------------------------------------------------------------------------
(***************************************************************************)
(* The backend. An operation keeps its place among those that are counted, *)
(* and the manager goes when the count is zero; and whatever is shown as   *)
(* running has an attempt.                                                 *)
(***************************************************************************)

Marks == {"none", "live", "cancelled"}
Shown == {"none", "running", "completed"}
BackendTyped ==
  /\ shut \in BOOLEAN /\ owned \in BOOLEAN /\ operations \in Nat
  /\ task \in [Clients -> TaskSet]
  /\ closers \in [Closers -> {"idle", "flag", "drain", "release", "returned"}]
  /\ marks \in [DownloadItems -> Marks] /\ shown \in [DownloadItems -> Shown]
  /\ canceller \in [Cancellers -> SUBSET DownloadItems]

(* An operation: what its place says of its worker, its item and its lease.  *)
TaskSound(r) ==
  /\ r.work = "running" => r.pc \in {"polling", "joining"}
  /\ r.lease => r.pc # "idle" /\ r.item # NoDownload
  /\ r.item # NoDownload => r.kind \in {"search", "download"}
  /\ r.pc \in {"leased", "settling"} => r.item # NoDownload
  /\ r.pc = "settling" => r.kind = "download"
  /\ r.pc \in {"polling", "joining"} => r.kind # "search"
TasksSound == \A t \in Clients : TaskSound(task[t])

(* Only the last closer takes the manager, and only from nobody.             *)
ClosersSound ==
  /\ ~owned => shut /\ operations = 0
  /\ \A c \in Closers : /\ closers[c] \in {"drain", "release"} => shut
                        /\ closers[c] = "release" => operations = 0
                        /\ closers[c] = "returned" => ~owned
Counted == operations = Cardinality(Inside)

BackendIInv == BackendTyped /\ TasksSound /\ ClosersSound /\ Counted /\ LeasesMarked /\ NoOrphanShown

LEMMA TaskFields ==
  ASSUME NEW r \in TaskSet
  PROVE  /\ r.pc \in Places /\ r.kind \in Kinds /\ r.item \in DownloadItems \cup {NoDownload}
         /\ r.late \in BOOLEAN /\ r.lease \in BOOLEAN /\ r.leg \in 0 .. 2
         /\ r.work \in {"none", "running", "ok", "failed"} /\ r.verdict \in Verdicts
BY DEF TaskSet

LEMMA InsideFinite == IsFiniteSet(Inside) /\ Cardinality(Inside) \in Nat
<1>1. Inside \subseteq Clients BY DEF Inside
<1>2. IsFiniteSet(Inside) BY <1>1, BackendAssumption, FS_Subset
<1> QED BY <1>2, FS_CardinalityType

(* What an operation does while it is inside: it keeps its place among those *)
(* that are counted, the entry of every lease, and an attempt for whatever   *)
(* is shown as running.                                                      *)
LEMMA TaskMoves ==
  ASSUME BackendIInv, NEW t \in Clients, NEW r \in TaskSet, Become(t, r),
         task[t].pc # "idle", r.pc # "idle", TaskSound(r),
         UNCHANGED <<shut, operations, closers, owned, canceller>>,
         marks' \in [DownloadItems -> Marks], shown' \in [DownloadItems -> Shown],
         \A u \in Clients : u # t /\ task[u].lease => marks'[task[u].item] # "none",
         r.lease => marks'[r.item] # "none",
         \A i \in DownloadItems : shown'[i] = "running" =>
            \/ r.item = i /\ r.kind = "download" /\ r.pc \in {"polling", "joining", "settling"}
            \/ shown[i] = "running" /\ t \notin Attempts(i)
  PROVE  BackendIInv'
<1> USE DEF BackendIInv
<1>1. task' = [task EXCEPT ![t] = r] /\ task \in [Clients -> TaskSet] BY DEF Become, BackendTyped
<1>2. task'[t] = r /\ \A u \in Clients : u # t => task'[u] = task[u] BY <1>1
<1>3. BackendTyped' BY <1>1 DEF BackendTyped
<1>4. TasksSound' BY <1>2 DEF TasksSound
<1>5. Inside' = Inside BY <1>2 DEF Inside
<1>6. ClosersSound' BY DEF ClosersSound
<1>7. Counted' BY <1>5 DEF Counted
<1>8. LeasesMarked' BY <1>2 DEF LeasesMarked
<1>9. NoOrphanShown'
  <2> SUFFICES ASSUME NEW i \in DownloadItems, shown'[i] = "running" PROVE Attempts(i)' # {}
    BY DEF NoOrphanShown
  <2>1. CASE r.item = i /\ r.kind = "download" /\ r.pc \in {"polling", "joining", "settling"}
    <3>1. t \in Attempts(i)' BY <2>1, <1>2 DEF Attempts
    <3> QED BY <3>1
  <2>2. CASE shown[i] = "running" /\ t \notin Attempts(i)
    <3>1. PICK u \in Clients : u \in Attempts(i) BY <2>2 DEF NoOrphanShown, Attempts
    <3>2. u # t BY <3>1, <2>2
    <3>3. u \in Attempts(i)' BY <3>1, <3>2, <1>2 DEF Attempts
    <3> QED BY <3>3
  <2> QED BY <2>1, <2>2
<1> QED BY <1>3, <1>4, <1>6, <1>7, <1>8, <1>9

(* A lease that is given back leaves the entries of the others.              *)
LEMMA GivenBackKeeps ==
  ASSUME BackendIInv, NEW t \in Clients
  PROVE  /\ GivenBack(t) \in [DownloadItems -> Marks]
         /\ \A u \in Clients : u # t /\ task[u].lease => GivenBack(t)[task[u].item] # "none"
<1> USE DEF BackendIInv
<1>1. GivenBack(t) \in [DownloadItems -> Marks] BY DEF GivenBack, BackendTyped, Marks
<1>2. ASSUME NEW u \in Clients, u # t, task[u].lease PROVE GivenBack(t)[task[u].item] # "none"
  <2>1. task[u].item \in DownloadItems
    BY <1>2, TaskFields DEF TasksSound, TaskSound, BackendTyped
  <2>2. u \in Leased(task[u].item) BY <1>2 DEF Leased
  <2>3. Leased(task[u].item) # {t} BY <1>2, <2>2
  <2>4. marks[task[u].item] # "none" BY <1>2 DEF LeasesMarked
  <2> QED BY <2>1, <2>3, <2>4 DEF GivenBack
<1> QED BY <1>1, <1>2

(* One lemma for each thing an operation does inside.                        *)
LEMMA GivesUpKeeps == ASSUME BackendIInv, NEW t \in Clients, GivesUp(t) PROVE BackendIInv'
<1> DEFINE r == [task[t] EXCEPT !.late = TRUE]
<1>1. task[t] \in TaskSet /\ TaskSound(task[t]) BY DEF BackendIInv, BackendTyped, TasksSound
<1>2. r \in TaskSet /\ r.pc = task[t].pc /\ TaskSound(r) /\ r.lease = task[t].lease /\ r.item = task[t].item
  BY <1>1 DEF TaskSet, TaskSound
<1>3. r.kind = task[t].kind BY <1>1 DEF TaskSet
<1> HIDE DEF r
<1>4. \A i \in DownloadItems : t \in Attempts(i) =>
         r.item = i /\ r.kind = "download" /\ r.pc \in {"polling", "joining", "settling"}
  BY <1>2, <1>3 DEF Attempts
<1>5. Become(t, r) /\ task[t].pc # "idle" BY DEF GivesUp, r
<1> QED BY <1>1, <1>2, <1>4, <1>5, TaskMoves DEF GivesUp, BackendIInv, BackendTyped, LeasesMarked

LEMMA WorkEndsKeeps == ASSUME BackendIInv, NEW t \in Clients, WorkEnds(t) PROVE BackendIInv'
<1> PICK w \in {"ok", "failed"} : Become(t, [task[t] EXCEPT !.work = w]) BY DEF WorkEnds
<1> DEFINE r == [task[t] EXCEPT !.work = w]
<1>1. task[t] \in TaskSet /\ TaskSound(task[t]) BY DEF BackendIInv, BackendTyped, TasksSound
<1>2. r \in TaskSet /\ r.pc = task[t].pc /\ TaskSound(r) /\ r.lease = task[t].lease /\ r.item = task[t].item
  BY <1>1 DEF TaskSet, TaskSound
<1>3. r.kind = task[t].kind BY <1>1 DEF TaskSet
<1>5. Become(t, r) OBVIOUS
<1> HIDE DEF r
<1>4. \A i \in DownloadItems : t \in Attempts(i) =>
         r.item = i /\ r.kind = "download" /\ r.pc \in {"polling", "joining", "settling"}
  BY <1>2, <1>3 DEF Attempts
<1>6. task[t].pc # "idle" BY <1>1 DEF WorkEnds, TaskSound
<1> QED BY <1>1, <1>2, <1>4, <1>5, <1>6, TaskMoves DEF WorkEnds, BackendIInv, BackendTyped, LeasesMarked

LEMMA BeginOperationKeeps == ASSUME BackendIInv, NEW t \in Clients, BeginOperation(t) PROVE BackendIInv'
<1> DEFINE q == task[t]
           begins == q.kind # "plain" /\ ~Fails(q)
           tracked == q.item # NoDownload
           works == q.kind \in {"provider", "download"}
           r == IF ~begins
                THEN [q EXCEPT !.pc = "end", !.verdict = IF q.kind = "plain" THEN "ok" ELSE "cancelled"]
                ELSE [q EXCEPT !.pc = IF tracked THEN "leased" ELSE IF works THEN "polling" ELSE "search",
                               !.work = IF works /\ ~tracked THEN "running" ELSE "none",
                               !.lease = tracked]
<1>1. q \in TaskSet /\ TaskSound(q) BY DEF BackendIInv, BackendTyped, TasksSound
<1>2. Become(t, r) /\ q.pc = "entered" BY DEF BeginOperation
<1>3. r \in TaskSet
  <2>1. CASE ~begins
    <3> DEFINE v == IF q.kind = "plain" THEN "ok" ELSE "cancelled"
    <3>1. r = [q EXCEPT !.pc = "end", !.verdict = v] BY <2>1
    <3>2. v \in Verdicts BY DEF Verdicts
    <3> HIDE DEF v, r
    <3> QED BY <3>1, <3>2, <1>1 DEF TaskSet, Places
  <2>2. CASE begins
    <3> DEFINE place == IF tracked THEN "leased" ELSE IF works THEN "polling" ELSE "search"
               labour == IF works /\ ~tracked THEN "running" ELSE "none"
    <3>1. r = [q EXCEPT !.pc = place, !.work = labour, !.lease = tracked] BY <2>2
    <3>2. place \in Places /\ labour \in {"none", "running"} /\ tracked \in BOOLEAN BY DEF Places
    <3> HIDE DEF place, labour, tracked, r
    <3> QED BY <3>1, <3>2, <1>1 DEF TaskSet
  <2> QED BY <2>1, <2>2
<1>4. r.pc # "idle" /\ TaskSound(r) /\ r.item = q.item BY <1>1, <1>2 DEF TaskSet, TaskSound
<1>5. r.lease => q.item \in DownloadItems /\ (q.lease \/ (begins /\ tracked))
  BY <1>1 DEF TaskSet, TaskSound
<1>6. \A i \in DownloadItems : t \notin Attempts(i) BY <1>2 DEF Attempts
<1>7. marks' = IF begins /\ tracked /\ marks[q.item] = "none" THEN [marks EXCEPT ![q.item] = "live"] ELSE marks
  BY DEF BeginOperation
<1>8. \A i \in DownloadItems : marks[i] # "none" => marks'[i] # "none" BY <1>7 DEF BackendIInv, BackendTyped
<1>9. marks' \in [DownloadItems -> Marks] BY <1>7 DEF BackendIInv, BackendTyped, Marks
<1>10. r.lease => marks'[r.item] # "none"
  BY <1>4, <1>5, <1>7, <1>8 DEF BackendIInv, BackendTyped, LeasesMarked
<1>11. \A u \in Clients : u # t /\ task[u].lease => marks'[task[u].item] # "none"
  <2> SUFFICES ASSUME NEW u \in Clients, task[u].lease PROVE marks'[task[u].item] # "none" OBVIOUS
  <2>1. task[u].item \in DownloadItems BY TaskFields DEF BackendIInv, BackendTyped, TasksSound, TaskSound
  <2>2. marks[task[u].item] # "none" BY DEF BackendIInv, LeasesMarked
  <2> QED BY <2>1, <2>2, <1>8
<1> HIDE DEF r, begins, tracked, works
<1> QED BY <1>1, <1>2, <1>3, <1>4, <1>6, <1>9, <1>10, <1>11, TaskMoves
  DEF BeginOperation, BackendIInv, BackendTyped, LeasesMarked

LEMMA AdmitKeeps == ASSUME BackendIInv, NEW t \in Clients, Admit(t) PROVE BackendIInv'
<1> DEFINE q == task[t]
           out == MarkedFor(q) \/ (q.kind = "search" /\ Fails(q))
           r == IF out THEN [q EXCEPT !.pc = "end", !.verdict = "cancelled"]
                ELSE [q EXCEPT !.pc = IF q.kind = "search" THEN "search" ELSE "polling",
                               !.work = IF q.kind = "search" THEN "none" ELSE "running"]
<1>1. q \in TaskSet /\ TaskSound(q) BY DEF BackendIInv, BackendTyped, TasksSound
<1>2. Become(t, r) /\ q.pc = "leased" BY DEF Admit
<1>3. r \in TaskSet
  <2>1. [q EXCEPT !.pc = "end", !.verdict = "cancelled"] \in TaskSet BY <1>1 DEF TaskSet, Places, Verdicts
  <2> DEFINE place == IF q.kind = "search" THEN "search" ELSE "polling"
             labour == IF q.kind = "search" THEN "none" ELSE "running"
  <2>2. place \in Places /\ labour \in {"none", "running"} BY DEF Places
  <2>3. [q EXCEPT !.pc = place, !.work = labour] \in TaskSet
    <3> HIDE DEF place, labour
    <3> QED BY <2>2, <1>1 DEF TaskSet
  <2> QED BY <2>1, <2>3
<1>4. q.item \in DownloadItems /\ q.kind \in {"search", "download"} BY <1>1, <1>2 DEF TaskSet, TaskSound
<1>5. r.pc # "idle" /\ TaskSound(r) /\ r.item = q.item /\ r.lease = q.lease /\ r.kind = q.kind
  BY <1>1, <1>2, <1>4 DEF TaskSet, TaskSound
<1>6. \A i \in DownloadItems : t \notin Attempts(i) BY <1>2 DEF Attempts
<1>7. shown' = IF q.kind = "download" /\ ~MarkedFor(q) THEN [shown EXCEPT ![q.item] = "running"] ELSE shown
  BY DEF Admit
<1>8. shown' \in [DownloadItems -> Shown] BY <1>7, <1>4 DEF BackendIInv, BackendTyped, Shown
<1>9. \A i \in DownloadItems : shown'[i] = "running" =>
         \/ r.item = i /\ r.kind = "download" /\ r.pc \in {"polling", "joining", "settling"}
         \/ shown[i] = "running" /\ t \notin Attempts(i)
  <2>1. CASE q.kind = "download" /\ ~MarkedFor(q)
    <3>1. r.pc = "polling" BY <1>1, <2>1 DEF TaskSet
    <3>2. shown' = [shown EXCEPT ![q.item] = "running"] BY <1>7, <2>1
    <3> QED BY <3>1, <3>2, <2>1, <1>5, <1>6 DEF BackendIInv, BackendTyped
  <2>2. CASE ~(q.kind = "download" /\ ~MarkedFor(q)) BY <2>2, <1>6, <1>7
  <2> QED BY <2>1, <2>2
<1> HIDE DEF r
<1> QED BY <1>1, <1>2, <1>3, <1>5, <1>8, <1>9, TaskMoves
  DEF Admit, BackendIInv, BackendTyped, LeasesMarked

LEMMA SearchEnds ==
  ASSUME NEW q \in TaskSet, NEW v \in Verdicts, TaskSound(q), q.pc = "search"
  PROVE  LET r == [q EXCEPT !.pc = "end", !.lease = FALSE, !.leg = 0, !.verdict = v]
         IN  r \in TaskSet /\ r.pc = "end" /\ ~r.lease /\ TaskSound(r)
<1> DEFINE r == [q EXCEPT !.pc = "end", !.lease = FALSE, !.leg = 0, !.verdict = v]
<1>1. r \in TaskSet
  <2>1. ASSUME NEW m \in TaskSet, NEW n \in 0 .. 2
        PROVE  [m EXCEPT !.leg = n, !.verdict = v] \in TaskSet
    <3>1. [m EXCEPT !.leg = n] \in TaskSet BY DEF TaskSet
    <3>2. ASSUME NEW k \in TaskSet PROVE [k EXCEPT !.verdict = v] \in TaskSet BY DEF TaskSet
    <3> QED BY <3>1, <3>2
  <2>2. [q EXCEPT !.pc = "end", !.lease = FALSE] \in TaskSet BY DEF TaskSet, Places
  <2>3. 0 \in 0 .. 2 OBVIOUS
  <2> QED BY <2>1, <2>2, <2>3, Zenon
<1>2. r.pc = "end" /\ r.lease = FALSE /\ r.work = q.work /\ r.item = q.item /\ r.kind = q.kind BY DEF TaskSet
<1> QED BY <1>1, <1>2 DEF TaskSound

LEMMA SearchAnswersKeeps == ASSUME BackendIInv, NEW t \in Clients, SearchAnswers(t) PROVE BackendIInv'
<1> DEFINE q == task[t]
<1>1. q \in TaskSet /\ TaskSound(q) BY DEF BackendIInv, BackendTyped, TasksSound
<1>0. /\ task[t].pc = "search"
      /\ UNCHANGED <<shut, operations, closers, owned, shown, canceller>>
  BY Zenon DEF SearchAnswers
<1>2. task[t].pc = "search" /\ \A i \in DownloadItems : t \notin Attempts(i) BY <1>0 DEF Attempts
<1>3. ASSUME NEW v \in Verdicts,
             Become(t, [task[t] EXCEPT !.pc = "end", !.lease = FALSE, !.leg = 0, !.verdict = v]),
             marks' = GivenBack(t)
      PROVE  BackendIInv'
  <2> DEFINE r == [task[t] EXCEPT !.pc = "end", !.lease = FALSE, !.leg = 0, !.verdict = v]
  <2>1. r \in TaskSet /\ r.pc = "end" /\ ~r.lease /\ TaskSound(r) BY <1>1, <1>2, SearchEnds, Zenon
  <2>2. ~r.lease BY <2>1
  <2> HIDE DEF r
  <2>3. Become(t, r) BY <1>3 DEF r
  <2> QED BY <1>0, <1>2, <1>3, <2>1, <2>2, <2>3, TaskMoves, GivenBackKeeps
    DEF BackendIInv, BackendTyped
<1>4. ASSUME Become(t, [task[t] EXCEPT !.leg = 1]), UNCHANGED marks PROVE BackendIInv'
  <2> DEFINE r == [task[t] EXCEPT !.leg = 1]
  <2>1. r \in TaskSet BY <1>1 DEF TaskSet
  <2>2. r.pc = task[t].pc /\ TaskSound(r) /\ r.lease = task[t].lease /\ r.item = task[t].item
    BY <1>1 DEF TaskSet, TaskSound
  <2> HIDE DEF r
  <2>3. Become(t, r) BY <1>4 DEF r
  <2> QED BY <1>0, <1>2, <1>4, <2>1, <2>2, <2>3, TaskMoves
    DEF BackendIInv, BackendTyped, LeasesMarked
<1>5. {"ok", "failed", "cancelled"} \subseteq Verdicts BY DEF Verdicts
<1> QED BY <1>3, <1>4, <1>5, Zenon DEF SearchAnswers

LEMMA PollKeeps == ASSUME BackendIInv, NEW t \in Clients, Poll(t) PROVE BackendIInv'
<1>1. task[t] \in TaskSet /\ TaskSound(task[t]) BY DEF BackendIInv, BackendTyped, TasksSound
<1>2. task[t].pc = "polling" BY DEF Poll
<1>3. CASE Become(t, [task[t] EXCEPT !.pc = "joining", !.lease = FALSE, !.verdict = "cancelled"])
           /\ marks' = GivenBack(t)
  <2> DEFINE r == [task[t] EXCEPT !.pc = "joining", !.lease = FALSE, !.verdict = "cancelled"]
  <2>1. r \in TaskSet BY <1>1 DEF TaskSet, Places, Verdicts
  <2>2. r.pc = "joining" /\ TaskSound(r) /\ r.lease = FALSE /\ r.item = task[t].item /\ r.kind = task[t].kind
    BY <1>1, <1>2 DEF TaskSet, TaskSound
  <2> HIDE DEF r
  <2>3. Become(t, r) BY <1>3 DEF r
  <2>4. \A i \in DownloadItems : t \in Attempts(i) => r.item = i /\ r.kind = "download" BY <2>2 DEF Attempts
  <2> QED BY <1>2, <1>3, <2>1, <2>2, <2>3, <2>4, TaskMoves, GivenBackKeeps
    DEF Poll, BackendIInv, BackendTyped
<1>4. CASE Become(t, [task[t] EXCEPT !.pc = "joining"]) /\ UNCHANGED marks
  <2> DEFINE r == [task[t] EXCEPT !.pc = "joining"]
  <2>1. r \in TaskSet BY <1>1 DEF TaskSet, Places
  <2>2. r.pc = "joining" /\ TaskSound(r) /\ r.lease = task[t].lease /\ r.item = task[t].item
        /\ r.kind = task[t].kind
    BY <1>1, <1>2 DEF TaskSet, TaskSound
  <2> HIDE DEF r
  <2>3. Become(t, r) BY <1>4 DEF r
  <2>4. \A i \in DownloadItems : t \in Attempts(i) => r.item = i /\ r.kind = "download" BY <2>2 DEF Attempts
  <2> QED BY <1>2, <1>4, <2>1, <2>2, <2>3, <2>4, TaskMoves
    DEF Poll, BackendIInv, BackendTyped, LeasesMarked
<1> QED BY <1>3, <1>4 DEF Poll

LEMMA JoinedKeeps == ASSUME BackendIInv, NEW t \in Clients, Joined(t) PROVE BackendIInv'
<1> DEFINE q == task[t]
           place == IF q.item = NoDownload THEN "end" ELSE "settling"
           v == IF q.verdict = "cancelled" \/ Fails(q) \/ MarkedFor(q) THEN "cancelled" ELSE q.work
           r == [q EXCEPT !.pc = place, !.verdict = v]
<1>1. q \in TaskSet /\ TaskSound(q) BY DEF BackendIInv, BackendTyped, TasksSound
<1>2. q.pc = "joining" /\ q.work # "running" BY DEF Joined
<1>3. Become(t, r) BY <1>1 DEF Joined, TaskSet
<1>4. v \in Verdicts /\ place \in Places BY <1>1, <1>2 DEF TaskSet, Verdicts, Places
<1>5. r \in TaskSet BY <1>1, <1>4 DEF TaskSet
<1>6. r.pc = place /\ r.item = q.item /\ r.kind = q.kind /\ r.lease = q.lease /\ r.work = q.work
  BY <1>1 DEF TaskSet
<1>7. q.item # NoDownload => q.kind = "download" BY <1>1, <1>2 DEF TaskSound
<1>8. TaskSound(r) /\ r.pc # "idle" BY <1>1, <1>2, <1>6, <1>7 DEF TaskSound
<1>9. \A i \in DownloadItems : t \in Attempts(i) =>
         r.item = i /\ r.kind = "download" /\ r.pc = "settling"
  BY <1>6, BackendAssumption DEF Attempts
<1> HIDE DEF r, v, place
<1> QED BY <1>2, <1>3, <1>5, <1>6, <1>8, <1>9, TaskMoves
  DEF Joined, BackendIInv, BackendTyped, LeasesMarked

LEMMA SettleKeeps == ASSUME BackendIInv, NEW t \in Clients, Settle(t) PROVE BackendIInv'
<1> DEFINE r == [task[t] EXCEPT !.pc = "end"]
<1>1. task[t] \in TaskSet /\ TaskSound(task[t]) BY DEF BackendIInv, BackendTyped, TasksSound
<1>2. task[t].pc = "settling" /\ task[t].item \in DownloadItems BY <1>1 DEF Settle, TaskSound, TaskSet
<1>3. r \in TaskSet BY <1>1 DEF TaskSet, Places
<1>4. r.pc = "end" /\ TaskSound(r) /\ r.lease = task[t].lease /\ r.item = task[t].item
  BY <1>1, <1>2 DEF TaskSet, TaskSound
<1>5. Settled(t) \in {"none", "completed"} BY DEF Settled
<1>6. shown' = [shown EXCEPT ![task[t].item] = Settled(t)] BY DEF Settle
<1>7. shown' \in [DownloadItems -> Shown] BY <1>5, <1>6, <1>2 DEF BackendIInv, BackendTyped, Shown
<1>8. \A i \in DownloadItems : shown'[i] = "running" => shown[i] = "running" /\ t \notin Attempts(i)
  BY <1>2, <1>5, <1>6 DEF BackendIInv, BackendTyped, Attempts
<1>9. Become(t, r) BY DEF Settle
<1> HIDE DEF r
<1> QED BY <1>2, <1>3, <1>4, <1>7, <1>8, <1>9, TaskMoves
  DEF Settle, BackendIInv, BackendTyped, LeasesMarked

LEMMA EntersSound ==
  ASSUME NEW kind \in Kinds, NEW i \in DownloadItems \cup {NoDownload}, NEW legs \in 0 .. 2,
         i # NoDownload => kind \in {"search", "download"}
  PROVE  LET r == [NoTask EXCEPT !.pc = "entered", !.kind = kind, !.item = i, !.leg = legs]
         IN  r \in TaskSet /\ TaskSound(r) /\ r.pc = "entered" /\ ~r.lease
<1> DEFINE r == [NoTask EXCEPT !.pc = "entered", !.kind = kind, !.item = i, !.leg = legs]
<1>1. NoTask \in TaskSet /\ ~NoTask.lease /\ NoTask.work = "none"
  BY DEF TaskSet, NoTask, Places, Verdicts, Kinds
<1>2. r \in TaskSet BY <1>1 DEF TaskSet, Places
<1>3. r.pc = "entered" /\ r.kind = kind /\ r.item = i /\ r.work = "none" BY <1>1 DEF TaskSet
<1>4. r.lease = NoTask.lease BY <1>1 DEF TaskSet
<1> QED BY <1>1, <1>2, <1>3, <1>4 DEF TaskSound

(* Whoever enters is counted, and whoever leaves is not any more.            *)
LEMMA EnterKeeps ==
  ASSUME BackendIInv, NEW t \in Clients, NEW kind \in Kinds, NEW i \in DownloadItems \cup {NoDownload},
         Enter(t, kind, i)
  PROVE  BackendIInv'
<1> DEFINE legs == IF kind = "convert" THEN 2 ELSE 1
           r == [NoTask EXCEPT !.pc = "entered", !.kind = kind, !.item = i, !.leg = legs]
<1>2. legs \in 0 .. 2 OBVIOUS
<1>1. r \in TaskSet /\ TaskSound(r) /\ r.pc = "entered" /\ ~r.lease
  <2>1. i # NoDownload => kind \in {"search", "download"} BY DEF Enter
  <2> HIDE DEF legs
  <2> QED BY <1>2, <2>1, EntersSound
<1>3. Become(t, r) /\ task[t].pc = "idle" /\ ~shut /\ owned BY DEF Enter
<1> HIDE DEF r, legs
<1>7. task \in [Clients -> TaskSet] /\ task' = [task EXCEPT ![t] = r] BY <1>3 DEF Become, BackendIInv, BackendTyped
<1>8. task'[t] = r /\ \A u \in Clients : u # t => task'[u] = task[u] BY <1>7
<1>9. Inside' = Inside \cup {t} /\ t \notin Inside BY <1>1, <1>3, <1>8 DEF Inside
<1>10. operations' = operations + 1 BY DEF Enter
<1>11. Counted'
  <2>1. Cardinality(Inside \cup {t}) = Cardinality(Inside) + 1 BY <1>9, InsideFinite, FS_AddElement
  <2> QED BY <2>1, <1>9, <1>10 DEF Counted, BackendIInv
<1>12. BackendTyped' BY <1>1, <1>7, <1>10 DEF BackendTyped, BackendIInv, Enter
<1>13. TasksSound' BY <1>1, <1>8 DEF TasksSound, BackendIInv
<1>14. ClosersSound' BY <1>3 DEF ClosersSound, BackendIInv, Enter
<1>15. LeasesMarked' BY <1>1, <1>8 DEF LeasesMarked, BackendIInv, Enter
<1>16. NoOrphanShown'
  <2> SUFFICES ASSUME NEW d \in DownloadItems, shown[d] = "running" PROVE Attempts(d)' # {}
    BY DEF NoOrphanShown, Enter
  <2>1. PICK u \in Clients : u \in Attempts(d) BY DEF BackendIInv, NoOrphanShown, Attempts
  <2>2. u # t BY <2>1, <1>3 DEF Attempts
  <2>3. u \in Attempts(d)' BY <2>1, <2>2, <1>8 DEF Attempts
  <2> QED BY <2>3
<1> QED BY <1>11, <1>12, <1>13, <1>14, <1>15, <1>16 DEF BackendIInv

LEMMA LeaveBackendKeeps == ASSUME BackendIInv, NEW t \in Clients, LeaveBackend(t) PROVE BackendIInv'
<1>1. Become(t, NoTask) /\ task[t].pc = "end" BY DEF LeaveBackend
<1>2. NoTask \in TaskSet BY DEF TaskSet, NoTask, Places, Verdicts, Kinds
<1>3. NoTask.pc = "idle" /\ ~NoTask.lease /\ TaskSound(NoTask) BY DEF NoTask, TaskSound
<1>4. task \in [Clients -> TaskSet] /\ task' = [task EXCEPT ![t] = NoTask]
  BY <1>1 DEF Become, BackendIInv, BackendTyped
<1>5. task'[t] = NoTask /\ \A u \in Clients : u # t => task'[u] = task[u] BY <1>4
<1>6. Inside' = Inside \ {t} /\ t \in Inside BY <1>1, <1>3, <1>5 DEF Inside
<1>7. Cardinality(Inside \ {t}) = Cardinality(Inside) - 1 BY <1>6, InsideFinite, FS_RemoveElement
<1>8. operations' = operations - 1 BY DEF LeaveBackend
<1>9. Cardinality(Inside \ {t}) \in Nat
  <2>1. IsFiniteSet(Inside \ {t}) BY InsideFinite, FS_Subset
  <2> QED BY <2>1, FS_CardinalityType
<1>10. operations' = Cardinality(Inside \ {t}) BY <1>7, <1>8 DEF Counted, BackendIInv
<1>11. Counted' BY <1>6, <1>10 DEF Counted
<1>12. operations # 0 BY <1>7, <1>9, InsideFinite DEF Counted, BackendIInv
<1>13. BackendTyped'
  <2>1. task' \in [Clients -> TaskSet] BY <1>2, <1>4
  <2>2. operations' \in Nat BY <1>9, <1>10
  <2>3. marks' \in [DownloadItems -> Marks] BY GivenBackKeeps DEF LeaveBackend
  <2> QED BY <2>1, <2>2, <2>3 DEF BackendTyped, BackendIInv, LeaveBackend
<1>14. TasksSound' BY <1>3, <1>5 DEF TasksSound, BackendIInv
<1>15. ClosersSound' BY <1>12 DEF ClosersSound, BackendIInv, LeaveBackend
<1>16. LeasesMarked'
  <2>1. marks' = GivenBack(t) BY DEF LeaveBackend
  <2> QED BY <2>1, <1>3, <1>5, GivenBackKeeps DEF LeasesMarked
<1>17. NoOrphanShown'
  <2> SUFFICES ASSUME NEW d \in DownloadItems, shown[d] = "running" PROVE Attempts(d)' # {}
    BY DEF NoOrphanShown, LeaveBackend
  <2>1. PICK u \in Clients : u \in Attempts(d) BY DEF BackendIInv, NoOrphanShown, Attempts
  <2>2. u # t BY <2>1, <1>1 DEF Attempts
  <2>3. u \in Attempts(d)' BY <2>1, <2>2, <1>5 DEF Attempts
  <2> QED BY <2>3
<1> QED BY <1>11, <1>13, <1>14, <1>15, <1>16, <1>17 DEF BackendIInv

LEMMA CancelKeeps ==
  ASSUME BackendIInv, NEW c \in Cancellers, CancelDownloads(c) \/ HideCancelled(c) PROVE BackendIInv'
<1>1. CASE CancelDownloads(c)
  <2>1. PICK marked \in {{i} : i \in DownloadItems} \cup {{i \in DownloadItems : Leased(i) # {}}} :
           /\ marks' = [i \in DownloadItems |-> IF i \in marked THEN "cancelled" ELSE marks[i]]
           /\ canceller' = [canceller EXCEPT ![c] = marked]
    BY <1>1 DEF CancelDownloads
  <2>2. marked \in SUBSET DownloadItems OBVIOUS
  <2>3. BackendTyped' BY <1>1, <2>1, <2>2 DEF BackendIInv, BackendTyped, CancelDownloads, Marks
  <2>4. LeasesMarked'
    <3> SUFFICES ASSUME NEW u \in Clients, task[u].lease PROVE marks'[task[u].item] # "none"
      BY <1>1 DEF LeasesMarked, CancelDownloads
    <3>1. task[u].item \in DownloadItems BY TaskFields DEF BackendIInv, BackendTyped, TasksSound, TaskSound
    <3> QED BY <3>1, <2>1 DEF BackendIInv, LeasesMarked
  <2> QED BY <1>1, <2>3, <2>4 DEF BackendIInv, CancelDownloads, TasksSound, ClosersSound, Counted, Inside,
                                  NoOrphanShown, Attempts
<1>2. CASE HideCancelled(c)
  <2>1. PICK i \in canceller[c] : /\ canceller' = [canceller EXCEPT ![c] = @ \ {i}]
                                  /\ shown' = [shown EXCEPT ![i] = "none"]
    BY <1>2 DEF HideCancelled
  <2>2. BackendTyped' BY <1>2, <2>1 DEF BackendIInv, BackendTyped, HideCancelled, Shown
  <2>3. NoOrphanShown'
    <3>1. \A d \in DownloadItems : shown'[d] = "running" => shown[d] = "running"
      BY <2>1 DEF BackendIInv, BackendTyped
    <3>2. \A d \in DownloadItems : Attempts(d)' = Attempts(d) BY <1>2 DEF HideCancelled, Attempts
    <3> QED BY <3>1, <3>2 DEF BackendIInv, NoOrphanShown
  <2> QED BY <1>2, <2>2, <2>3 DEF BackendIInv, HideCancelled, TasksSound, ClosersSound, Counted, Inside,
                                  LeasesMarked
<1> QED BY <1>1, <1>2

LEMMA ResetIdleKeeps == ASSUME BackendIInv, NEW i \in DownloadItems, ResetIdle(i) PROVE BackendIInv'
<1>1. BackendTyped' BY DEF BackendIInv, BackendTyped, ResetIdle, Marks
<1>2. LeasesMarked'
  <2> SUFFICES ASSUME NEW u \in Clients, task[u].lease PROVE marks'[task[u].item] # "none"
    BY DEF LeasesMarked, ResetIdle
  <2>1. task[u].item # i BY DEF ResetIdle, Leased
  <2> QED BY <2>1 DEF BackendIInv, BackendTyped, LeasesMarked, ResetIdle
<1> QED BY <1>1, <1>2 DEF BackendIInv, ResetIdle, TasksSound, ClosersSound, Counted, Inside, NoOrphanShown, Attempts

LEMMA CloserKeeps ==
  ASSUME BackendIInv, NEW c \in Closers,
         LockShutdown(c) \/ RaiseFlag(c) \/ DrainOperations(c) \/ ReleaseOwner(c)
  PROVE  BackendIInv'
<1> USE DEF BackendIInv
<1>1. BackendTyped'
  <2>1. closers' \in [Closers -> {"idle", "flag", "drain", "release", "returned"}]
    BY DEF BackendTyped, LockShutdown, RaiseFlag, DrainOperations, ReleaseOwner
  <2>2. marks' \in [DownloadItems -> Marks] /\ shown' \in [DownloadItems -> Shown]
    BY DEF BackendTyped, LockShutdown, RaiseFlag, DrainOperations, ReleaseOwner, Marks, Shown
  <2>3. shut' \in BOOLEAN /\ owned' \in BOOLEAN
    BY DEF BackendTyped, LockShutdown, RaiseFlag, DrainOperations, ReleaseOwner
  <2>4. UNCHANGED <<operations, task, canceller>>
    BY DEF LockShutdown, RaiseFlag, DrainOperations, ReleaseOwner
  <2> QED BY <2>1, <2>2, <2>3, <2>4 DEF BackendTyped
<1>2. TasksSound' BY DEF TasksSound, LockShutdown, RaiseFlag, DrainOperations, ReleaseOwner
<1>3. Counted' BY DEF Counted, Inside, LockShutdown, RaiseFlag, DrainOperations, ReleaseOwner
<1>4. ClosersSound'
  <2>1. CASE LockShutdown(c) BY <2>1 DEF ClosersSound, BackendTyped, LockShutdown
  <2>2. CASE RaiseFlag(c) BY <2>2 DEF ClosersSound, BackendTyped, RaiseFlag
  <2>3. CASE DrainOperations(c) BY <2>3 DEF ClosersSound, BackendTyped, DrainOperations
  <2>4. CASE ReleaseOwner(c) BY <2>4 DEF ClosersSound, BackendTyped, ReleaseOwner
  <2> QED BY <2>1, <2>2, <2>3, <2>4
<1>5. LeasesMarked' /\ NoOrphanShown'
  <2>1. CASE ReleaseOwner(c)
    <3>1. Cardinality(Inside) = 0 BY <2>1 DEF ReleaseOwner, ClosersSound, Counted
    <3>2. Inside = {} BY <3>1, InsideFinite, FS_EmptySet
    <3>3. \A u \in Clients : ~task[u].lease BY <3>2 DEF Inside, TasksSound, TaskSound
    <3> QED BY <2>1, <3>3 DEF ReleaseOwner, LeasesMarked, NoOrphanShown
  <2>2. CASE LockShutdown(c) \/ RaiseFlag(c) \/ DrainOperations(c)
    BY <2>2 DEF LockShutdown, RaiseFlag, DrainOperations, LeasesMarked, NoOrphanShown, Attempts
  <2> QED BY <2>1, <2>2
<1> QED BY <1>1, <1>2, <1>3, <1>4, <1>5

LEMMA BackendInductive == BackendSpec => []BackendIInv
<1>1. BackendInit => BackendIInv
  <2> SUFFICES ASSUME BackendInit PROVE BackendIInv OBVIOUS
  <2> USE DEF BackendInit
  <2>1. NoTask \in TaskSet BY DEF TaskSet, NoTask, Places, Verdicts, Kinds
  <2>2. NoTask.pc = "idle" /\ ~NoTask.lease /\ TaskSound(NoTask) BY DEF NoTask, TaskSound
  <2>3. BackendTyped BY <2>1 DEF BackendTyped, Marks, Shown
  <2>4. Inside = {} BY <2>2 DEF Inside
  <2>5. Counted BY <2>4, FS_EmptySet DEF Counted
  <2> QED BY <2>2, <2>3, <2>5 DEF BackendIInv, TasksSound, ClosersSound, LeasesMarked, NoOrphanShown
<1>2. BackendIInv /\ [BackendNext]_backendVars => BackendIInv'
  <2> SUFFICES ASSUME BackendIInv, [BackendNext]_backendVars PROVE BackendIInv' OBVIOUS
  <2>1. ASSUME NEW t \in Clients, NEW kind \in Kinds, NEW i \in DownloadItems \cup {NoDownload},
               Enter(t, kind, i)
        PROVE  BackendIInv'
    BY <2>1, EnterKeeps
  <2>2. ASSUME NEW t \in Clients,
               GivesUp(t) \/ BeginOperation(t) \/ Admit(t) \/ SearchAnswers(t) \/ WorkEnds(t) \/ Poll(t)
               \/ Joined(t) \/ Settle(t) \/ LeaveBackend(t)
        PROVE  BackendIInv'
    BY <2>2, GivesUpKeeps, BeginOperationKeeps, AdmitKeeps, SearchAnswersKeeps, WorkEndsKeeps, PollKeeps,
       JoinedKeeps, SettleKeeps, LeaveBackendKeeps
  <2>3. ASSUME NEW c \in Cancellers, CancelDownloads(c) \/ HideCancelled(c) PROVE BackendIInv'
    BY <2>3, CancelKeeps
  <2>4. ASSUME NEW i \in DownloadItems, ResetIdle(i) PROVE BackendIInv' BY <2>4, ResetIdleKeeps
  <2>5. ASSUME NEW c \in Closers, LockShutdown(c) \/ RaiseFlag(c) \/ DrainOperations(c) \/ ReleaseOwner(c)
        PROVE  BackendIInv'
    BY <2>5, CloserKeeps
  <2>6. CASE UNCHANGED backendVars
    BY <2>6 DEF backendVars, BackendIInv, BackendTyped, TasksSound, ClosersSound, Counted, Inside,
                LeasesMarked, NoOrphanShown, Attempts
  <2> QED BY <2>1, <2>2, <2>3, <2>4, <2>5, <2>6 DEF BackendNext
<1> QED BY <1>1, <1>2, PTL DEF BackendSpec

(* Whatever threads enter, cancel, retry and shut down: the manager releases  *)
(* its directories only when nobody is inside any more, no worker outlives    *)
(* its operation, and a download is shown as running only while an attempt    *)
(* for it is under way (enter, shutdown_checked, download_request).           *)
THEOREM BackendIsSound == BackendSpec => []BackendSound
<1>1. BackendIInv => BackendSound
  <2> SUFFICES ASSUME BackendIInv PROVE OwnerLast BY DEF BackendSound, BackendIInv
  <2>1. ~owned => Inside = {}
    BY InsideFinite, FS_EmptySet DEF BackendIInv, ClosersSound, Counted
  <2> QED BY <2>1 DEF BackendIInv, OwnerLast, ClosersSound, Counted, TasksSound, TaskSound
<1> QED BY <1>1, BackendInductive, PTL

-----------------------------------------------------------------------------
(***************************************************************************)
(* The resumable transfer: a file that is taken up again is of the version *)
(* that its checkpoint names; a validator that the server confirms makes   *)
(* it the version of the next block too; and one it does not confirm never *)
(* comes back.                                                             *)
(***************************************************************************)

(* All blocks of a file are of one version, and the validator is the one of  *)
(* that version, or none that the server will ever confirm again.            *)
OneVersion(file, validator, last) ==
  \E v \in 1 .. last : (\A i \in 1 .. Len(file) : file[i] = v) /\ (validator = v \/ validator < last)

TransferPlaces == {"idle", "probe", "open", "request", "chunk", "sent", "body", "giveup", "finish", "publish", "renamed"}
Calls == [pc : TransferPlaces, kind : {"stream", "chunked"}, resume : BOOLEAN, keep : BOOLEAN,
          validator : Nat, total : {0, Blocks}, attempt : Nat, start : Nat, until : Nat, body : Nat,
          full : BOOLEAN, length : Int]
Checkpoints == [validator : Nat, bytes : Nat, total : {0, Blocks}]

TransferTyped ==
  /\ remote \in 1 .. MaxVersion
  /\ partial \in Seq(Nat)
  /\ synced \in 0 .. Len(partial)
  /\ saved \in Checkpoints
  /\ xfer \in Calls

(* In chunks and without a validator: nothing is promised, and nothing kept. *)
Unvalidated == xfer.kind = "chunked" /\ xfer.validator = Unknown
Working == xfer.pc \in {"request", "chunk", "sent", "body", "giveup", "finish", "publish"}

SavedSound == saved = NoCheckpoint \/ (saved.validator # Unknown /\ OneVersion(partial, saved.validator, remote))
PartialSound ==
  Working => /\ ~Unvalidated => OneVersion(partial, xfer.validator, remote)
             /\ Unvalidated => saved = NoCheckpoint
RangeSound ==
  /\ xfer.kind = "stream" /\ xfer.pc \in {"request", "sent"} /\ Bytes > 0 =>
       xfer.resume /\ xfer.validator # Unknown
  /\ xfer.pc = "sent" => xfer.start = Bytes
  /\ xfer.pc \in {"sent", "body"} =>
       IF xfer.kind = "stream" THEN xfer.until = Blocks
       ELSE xfer.total = Unknown => xfer.until >= xfer.start + ChunkBlocks
  /\ xfer.kind = "stream" => xfer.pc \notin {"probe", "chunk", "finish", "giveup"}
  /\ xfer.kind = "chunked" => xfer.pc # "request"
(* Only a stream that resumes keeps its file; a validator is one the server  *)
(* has, or had.                                                              *)
KeepSound == xfer.kind = "stream" /\ xfer.keep => xfer.resume
KnownSound == xfer.validator <= remote
BodySound ==
  xfer.pc = "body" =>
    /\ xfer.start <= Bytes
    /\ xfer.body \in 1 .. remote
    /\ saved.validator = xfer.body \/ saved.validator < remote
    /\ xfer.validator = xfer.body \/ xfer.validator < remote
    /\ ~Unvalidated => \A i \in 1 .. Bytes : partial[i] = xfer.body
    /\ xfer.full => xfer.start = 0
    /\ IF xfer.kind = "stream" THEN xfer.total = Unknown => xfer.length = Unknown
       ELSE xfer.length = 0 \/ xfer.length = (IF xfer.full THEN Blocks ELSE Smaller(xfer.until, Blocks)) - xfer.start
EndSound ==
  /\ xfer.pc = "finish" /\ xfer.total = Unknown => Bytes = Blocks
  /\ xfer.pc = "publish" => Bytes = Blocks

TransferIInv == TransferTyped /\ SavedSound /\ PartialSound /\ RangeSound /\ KeepSound
                /\ KnownSound /\ BodySound /\ EndSound

(* Files.                                                                    *)
LEMMA PrefixFacts ==
  ASSUME NEW s \in Seq(Nat), NEW n \in 0 .. Len(s)
  PROVE  /\ SubSeq(s, 1, n) \in Seq(Nat) /\ Len(SubSeq(s, 1, n)) = n
         /\ \A i \in 1 .. n : SubSeq(s, 1, n)[i] = s[i]
<1>1. \A i \in 1 .. n : s[i] \in Nat OBVIOUS
<1>2. SubSeq(s, 1, n) = [i \in 1 .. n |-> s[i]] BY SubSeqProperties
<1>3. [i \in 1 .. n |-> s[i]] \in Seq(Nat) BY <1>1
<1> QED BY <1>2, <1>3

LEMMA PrefixOne ==
  ASSUME NEW s \in Seq(Nat), NEW n \in 0 .. Len(s), NEW val, NEW last \in Nat, OneVersion(s, val, last)
  PROVE  OneVersion(SubSeq(s, 1, n), val, last)
<1>1. PICK v \in 1 .. last : (\A i \in 1 .. Len(s) : s[i] = v) /\ (val = v \/ val < last)
  BY DEF OneVersion
<1>2. \A i \in 1 .. Len(SubSeq(s, 1, n)) : SubSeq(s, 1, n)[i] = v BY <1>1, PrefixFacts
<1> QED BY <1>1, <1>2 DEF OneVersion

LEMMA EmptyOne ==
  ASSUME NEW s, Len(s) = 0, NEW last \in Nat \ {0}, NEW val \in Nat, val <= last
  PROVE  OneVersion(s, val, last)
<1>1. last \in 1 .. last /\ \A i \in 1 .. Len(s) : s[i] = last OBVIOUS
<1> QED BY <1>1 DEF OneVersion

LEMMA LaterOne ==
  ASSUME NEW s, NEW last \in Nat, NEW val \in Nat, OneVersion(s, val, last)
  PROVE  OneVersion(s, val, last + 1)
<1>1. PICK v \in 1 .. last : (\A i \in 1 .. Len(s) : s[i] = v) /\ (val = v \/ val < last)
  BY DEF OneVersion
<1>2. v \in 1 .. last + 1 /\ val < last + 1 BY <1>1
<1> QED BY <1>1, <1>2 DEF OneVersion

LEMMA ValidatorBounded ==
  ASSUME NEW s, NEW last \in Nat, NEW val \in Nat, OneVersion(s, val, last)
  PROVE  val <= last
BY DEF OneVersion

(* A validator that the server confirms is the version of every block.       *)
LEMMA ConfirmedOne ==
  ASSUME NEW s, NEW last \in Nat, OneVersion(s, last, last)
  PROVE  \A i \in 1 .. Len(s) : s[i] = last
BY DEF OneVersion

LEMMA AppendOne ==
  ASSUME NEW s \in Seq(Nat), NEW v \in Nat, \A i \in 1 .. Len(s) : s[i] = v
  PROVE  /\ Append(s, v) \in Seq(Nat) /\ Len(Append(s, v)) = Len(s) + 1
         /\ \A i \in 1 .. Len(Append(s, v)) : Append(s, v)[i] = v
<1>1. /\ Append(s, v) \in Seq(Nat) /\ Len(Append(s, v)) = Len(s) + 1
      /\ \A i \in 1 .. Len(s) : Append(s, v)[i] = s[i]
      /\ Append(s, v)[Len(s) + 1] = v
  BY AppendProperties
<1> QED BY <1>1

LEMMA SameOne ==
  ASSUME NEW s, NEW last \in Nat, NEW v \in 1 .. last, NEW val, \A i \in 1 .. Len(s) : s[i] = v,
         val = v \/ val < last
  PROVE  OneVersion(s, val, last)
BY DEF OneVersion

(* The file and its checkpoint after each of the ways to change them.        *)
FileSound == partial \in Seq(Nat) /\ synced \in 0 .. Len(partial) /\ saved \in Checkpoints /\ SavedSound

LEMMA CallFields ==
  ASSUME NEW x \in Calls
  PROVE  /\ x.pc \in TransferPlaces /\ x.kind \in {"stream", "chunked"} /\ x.resume \in BOOLEAN
         /\ x.keep \in BOOLEAN /\ x.validator \in Nat /\ x.total \in {0, Blocks} /\ x.attempt \in Nat
         /\ x.start \in Nat /\ x.until \in Nat /\ x.body \in Nat /\ x.full \in BOOLEAN /\ x.length \in Int
BY DEF Calls

LEMMA NoCheckpointType == NoCheckpoint \in Checkpoints /\ NoCheckpoint.validator = 0
BY DEF Checkpoints, NoCheckpoint, Unknown

LEMMA CutSound ==
  ASSUME TransferIInv, NEW n \in 0 .. Len(partial), Cut(n), UNCHANGED remote,
         UNCHANGED saved \/ saved' = NoCheckpoint
  PROVE  FileSound' /\ Len(partial') = n
<1>1. partial \in Seq(Nat) /\ synced \in 0 .. Len(partial) /\ remote \in Nat BY DEF TransferIInv, TransferTyped
<1>2. partial' = SubSeq(partial, 1, n) /\ synced' = Smaller(synced, n) BY DEF Cut
<1>3. partial' \in Seq(Nat) /\ Len(partial') = n BY <1>1, <1>2, PrefixFacts
<1>4. synced' \in 0 .. Len(partial') BY <1>1, <1>2, <1>3 DEF Smaller
<1>5. saved' \in Checkpoints BY NoCheckpointType DEF TransferIInv, TransferTyped
<1>6. SavedSound' BY <1>1, <1>2, PrefixOne DEF TransferIInv, SavedSound
<1> QED BY <1>3, <1>4, <1>5, <1>6 DEF FileSound

LEMMA CheckpointSound ==
  ASSUME TransferIInv, Checkpoint, partial' \in Seq(Nat), synced <= Len(partial'), UNCHANGED remote,
         xfer.validator # Unknown => OneVersion(partial', xfer.validator, remote),
         saved = NoCheckpoint \/ OneVersion(partial', saved.validator, remote)
  PROVE  FileSound'
<1>1. synced \in Nat /\ saved \in Checkpoints /\ xfer \in Calls BY DEF TransferIInv, TransferTyped
<1>2. Len(partial') \in Nat OBVIOUS
<1>3. CASE UNCHANGED <<synced, saved>>
  BY <1>1, <1>2, <1>3 DEF FileSound, SavedSound, TransferIInv
<1>4. CASE /\ xfer.keep /\ xfer.validator # Unknown /\ Len(partial') > 0
           /\ synced' = Len(partial')
           /\ saved' = [validator |-> xfer.validator, bytes |-> Len(partial'), total |-> xfer.total]
  <2>1. saved' \in Checkpoints BY <1>1, <1>2, <1>4, CallFields DEF Checkpoints
  <2>2. saved'.validator = xfer.validator BY <1>4
  <2> QED BY <1>2, <1>4, <2>1, <2>2 DEF FileSound, SavedSound
<1> QED BY <1>3, <1>4 DEF Checkpoint

(* What the bounds say.                                                      *)
LEMMA TransferBounds ==
  /\ Blocks \in Nat /\ Blocks > 0 /\ ChunkBlocks \in Nat /\ ChunkBlocks > 0
  /\ TransferIInv => remote \in Nat /\ remote > 0 /\ Len(partial) \in Nat /\ xfer \in Calls
                      /\ saved \in Checkpoints
BY TransferAssumption DEF TransferIInv, TransferTyped

(* A call that has returned leaves nothing but the file.                     *)
LEMMA ReturnedSound ==
  ASSUME TransferIInv, FileSound', UNCHANGED remote, xfer' = NoCall
  PROVE  TransferIInv'
<1>1. NoCall \in Calls /\ NoCall.pc = "idle" /\ NoCall.kind = "stream" /\ NoCall.keep = FALSE /\ NoCall.validator = 0
  BY DEF NoCall, Calls, TransferPlaces, Unknown
<1>2. KeepSound' BY <1>1 DEF KeepSound
<1> QED BY <1>1, <1>2, TransferBounds DEF TransferIInv, TransferTyped, FileSound, PartialSound, RangeSound,
                                          KnownSound, BodySound, EndSound, Working

LEMMA FileKept == ASSUME TransferIInv, UNCHANGED <<remote, partial, synced, saved>> PROVE FileSound'
BY DEF TransferIInv, TransferTyped, FileSound, SavedSound

LEMMA ReturnSound == ASSUME TransferIInv, Return, UNCHANGED remote PROVE TransferIInv'
<1>1. xfer' = NoCall BY DEF Return, Transfer
<1>2. CASE UNCHANGED <<partial, synced, saved>> BY <1>1, <1>2, FileKept, ReturnedSound
<1>3. CASE Cut(0) /\ saved' = NoCheckpoint
  <2>1. 0 \in 0 .. Len(partial) BY DEF TransferIInv, TransferTyped
  <2> QED BY <1>1, <1>3, <2>1, CutSound, ReturnedSound
<1> QED BY <1>2, <1>3 DEF Return

LEMMA ReturnSavedSound ==
  ASSUME TransferIInv, ReturnSaved, UNCHANGED remote, Working PROVE TransferIInv'
<1>1. CASE Return BY <1>1, ReturnSound
<1>2. CASE Transfer(NoCall) /\ UNCHANGED partial /\ Checkpoint
  <2>1. xfer.validator # Unknown => OneVersion(partial, xfer.validator, remote)
    BY DEF TransferIInv, PartialSound, Unvalidated
  <2>2. FileSound' BY <1>2, <2>1, CheckpointSound DEF TransferIInv, TransferTyped, SavedSound
  <2> QED BY <1>2, <2>2, ReturnedSound DEF Transfer
<1> QED BY <1>1, <1>2 DEF ReturnSaved

LEMMA BeginSound == ASSUME TransferIInv, Begin PROVE TransferIInv'
<1> PICK kind \in {"stream", "chunked"}, resume \in BOOLEAN, persistent \in BOOLEAN :
       Transfer([NoCall EXCEPT !.pc = IF kind = "stream" THEN "open" ELSE "probe", !.kind = kind,
                               !.resume = resume, !.keep = persistent /\ (kind = "chunked" \/ resume)])
  BY DEF Begin
<1> DEFINE place == IF kind = "stream" THEN "open" ELSE "probe"
           kept == persistent /\ (kind = "chunked" \/ resume)
<1>1. place \in {"open", "probe"} /\ kept \in BOOLEAN /\ (kind = "stream" => place = "open") OBVIOUS
<1>2. xfer' = [NoCall EXCEPT !.pc = place, !.kind = kind, !.resume = resume, !.keep = kept] BY DEF Transfer
<1> HIDE DEF place, kept
<1>3. NoCall \in Calls BY DEF NoCall, Calls, TransferPlaces, Unknown
<1>4. /\ xfer' \in Calls /\ xfer'.pc = place /\ xfer'.kind = kind /\ xfer'.resume = resume /\ xfer'.keep = kept
      /\ xfer'.validator = 0
  BY <1>1, <1>2, <1>3 DEF Calls, TransferPlaces, NoCall, Unknown
<1>5. FileSound' /\ remote' = remote BY FileKept DEF Begin
<1>6. kind = "stream" /\ kept => resume BY DEF kept
<1>7. KeepSound' BY <1>4, <1>6, Zenon DEF KeepSound
<1> QED BY <1>1, <1>4, <1>5, <1>7, TransferBounds
  DEF TransferIInv, TransferTyped, FileSound, PartialSound, RangeSound, KnownSound, BodySound, EndSound, Working

LEMMA ProbeSound == ASSUME TransferIInv, Probe PROVE TransferIInv'
<1>1. xfer \in Calls /\ xfer.pc = "probe" /\ xfer.kind = "chunked" /\ FileSound'
  BY TransferBounds, FileKept DEF Probe, TransferIInv, RangeSound, Calls
<1>2. CASE Transfer([xfer EXCEPT !.attempt = @ + 1])
  <2>1. xfer' \in Calls /\ xfer'.pc = "probe" /\ xfer'.kind = "chunked" /\ xfer'.validator = xfer.validator
    BY <1>1, <1>2 DEF Transfer, Calls
  <2>2. KeepSound' BY <2>1 DEF KeepSound
  <2> QED BY <1>1, <2>1, <2>2, TransferBounds DEF TransferIInv, TransferTyped, FileSound, PartialSound, RangeSound,
                                  KnownSound, BodySound, EndSound, Working, Probe
<1>3. CASE Transfer(NoCall) BY <1>1, <1>3, ReturnedSound DEF Transfer, Probe
<1>4. ASSUME NEW v \in {remote, Unknown}, NEW n \in {Blocks, Unknown},
             Transfer([xfer EXCEPT !.pc = "open", !.validator = v, !.total = n, !.attempt = 1,
                                   !.keep = @ /\ v # Unknown])
      PROVE  TransferIInv'
  <2> DEFINE kept == xfer.keep /\ v # Unknown
  <2>1. xfer' = [xfer EXCEPT !.pc = "open", !.validator = v, !.total = n, !.attempt = 1, !.keep = kept]
    BY <1>1, <1>4 DEF Transfer, Calls
  <2>2. kept \in BOOLEAN /\ v \in Nat /\ n \in {0, Blocks} BY TransferBounds DEF Unknown
  <2> HIDE DEF kept
  <2>3. xfer' \in Calls /\ xfer'.pc = "open" /\ xfer'.kind = "chunked" /\ xfer'.validator = v
    BY <1>1, <2>1, <2>2 DEF Calls, TransferPlaces
  <2>4. KeepSound' BY <2>3 DEF KeepSound
  <2>5. remote' = remote /\ v <= remote BY TransferBounds DEF Probe, TransferIInv, Unknown
  <2> QED BY <1>1, <2>3, <2>4, <2>5, TransferBounds
    DEF TransferIInv, TransferTyped, FileSound, PartialSound, RangeSound, KnownSound, BodySound, EndSound, Working
<1> QED BY <1>2, <1>3, <1>4 DEF Probe

(* What is taken up is of one version, whether it is still the one of the    *)
(* server or not; and a checkpoint of everything is of everything.           *)
LEMMA OpenPartialSound == ASSUME TransferIInv, OpenPartial PROVE TransferIInv'
<1> PICK restored \in BOOLEAN :
       LET n == Smaller(saved.bytes, Bytes)
           same == /\ saved.validator = xfer.validator
                   /\ saved.total > 0 /\ xfer.total > 0 => saved.total = xfer.total IN
       /\ restored => xfer.keep /\ saved # NoCheckpoint
       /\ IF restored /\ (xfer.kind = "stream" \/ same)
          THEN Cut(n) /\ UNCHANGED saved
          ELSE Restart
       /\ IF xfer.kind = "chunked" THEN Transfer([xfer EXCEPT !.pc = "chunk"])
          ELSE IF ~restored THEN Transfer([xfer EXCEPT !.pc = "request"])
          ELSE Transfer([xfer EXCEPT !.pc = IF CompletePartial(n) THEN "publish" ELSE "request",
                                     !.validator = saved.validator, !.total = saved.total])
  BY DEF OpenPartial
<1> DEFINE n == Smaller(saved.bytes, Bytes)
           same == /\ saved.validator = xfer.validator
                   /\ saved.total > 0 /\ xfer.total > 0 => saved.total = xfer.total
           place == IF CompletePartial(n) THEN "publish" ELSE "request"
<1>1. /\ xfer \in Calls /\ xfer.pc = "open" /\ remote \in Nat /\ remote > 0 /\ saved \in Checkpoints
      /\ remote' = remote
  BY TransferBounds DEF OpenPartial
<1>2. n \in 0 .. Len(partial) /\ 0 \in 0 .. Len(partial)
  BY <1>1, TransferBounds DEF Smaller, Checkpoints, Bytes
<1>3. restored => saved # NoCheckpoint /\ saved.validator # Unknown /\ OneVersion(partial, saved.validator, remote)
  BY DEF TransferIInv, SavedSound
<1>4. xfer.validator <= remote /\ (xfer.kind = "stream" /\ xfer.keep => xfer.resume)
  BY DEF TransferIInv, KeepSound, KnownSound
<1>5. CASE restored /\ (xfer.kind = "stream" \/ same)
  <2>1. Cut(n) /\ UNCHANGED saved BY <1>5
  <2>2. FileSound' /\ Len(partial') = n BY <1>1, <1>2, <2>1, CutSound
  <2>3. OneVersion(partial', saved.validator, remote)
    BY <1>1, <1>2, <1>3, <1>5, <2>1, PrefixOne DEF Cut, TransferIInv, TransferTyped
  <2>4. CASE xfer.kind = "chunked"
    <3>1. xfer' = [xfer EXCEPT !.pc = "chunk"] BY <2>4 DEF Transfer
    <3>2. xfer' \in Calls /\ xfer'.pc = "chunk" /\ xfer'.kind = "chunked" /\ xfer'.validator = xfer.validator
      BY <1>1, <2>4, <3>1 DEF Calls, TransferPlaces
    <3>3. xfer.validator = saved.validator BY <1>5, <2>4
    <3>4. KeepSound' BY <3>2 DEF KeepSound
    <3> QED BY <1>1, <1>3, <1>4, <1>5, <2>2, <2>3, <3>2, <3>3, <3>4
      DEF TransferIInv, TransferTyped, FileSound, PartialSound, RangeSound, KnownSound, BodySound, EndSound, Bytes, Working, Unvalidated
  <2>5. CASE xfer.kind = "stream"
    <3>1. xfer' = [xfer EXCEPT !.pc = place, !.validator = saved.validator, !.total = saved.total]
      BY <1>5, <2>5 DEF Transfer
    <3>2. place \in {"publish", "request"} /\ saved.validator \in Nat /\ saved.total \in {0, Blocks}
      BY <1>1 DEF Checkpoints
    <3>3. place = "publish" => n = Blocks BY <3>2, <1>2 DEF CompletePartial
    <3>4. restored => xfer.keep OBVIOUS
    <3> HIDE DEF place, n
    <3>5. /\ xfer' \in Calls /\ xfer'.pc = place /\ xfer'.kind = "stream" /\ xfer'.validator = saved.validator
          /\ xfer'.resume = xfer.resume
      BY <1>1, <2>5, <3>1, <3>2 DEF Calls, TransferPlaces
    <3>6. xfer.resume /\ xfer'.keep = xfer.keep /\ saved.validator <= remote
      BY <1>1, <1>3, <1>4, <1>5, <2>5, <3>1, <3>4, ValidatorBounded DEF Calls, Checkpoints
    <3>7. KeepSound' BY <3>5, <3>6, Zenon DEF KeepSound
    <3>8. PartialSound' BY <1>1, <2>3, <3>5 DEF PartialSound, Unvalidated
    <3>9. RangeSound' BY <1>3, <1>5, <2>2, <3>2, <3>5, <3>6 DEF RangeSound, Bytes
    <3>10. EndSound' BY <2>2, <3>2, <3>3, <3>5 DEF EndSound, Bytes
    <3>11. BodySound' BY <3>2, <3>5 DEF BodySound
    <3> QED BY <1>1, <2>2, <3>5, <3>6, <3>7, <3>8, <3>9, <3>10, <3>11 DEF TransferIInv, TransferTyped, FileSound, KnownSound
  <2> QED BY <2>4, <2>5, <1>1 DEF Calls
<1>6. CASE ~(restored /\ (xfer.kind = "stream" \/ same))
  <2>1. Restart BY <1>6
  <2>2. FileSound' /\ Len(partial') = 0 /\ saved' = NoCheckpoint BY <1>1, <1>2, <2>1, CutSound DEF Restart
  <2> DEFINE p == IF xfer.kind = "chunked" THEN "chunk" ELSE "request"
  <2>3. xfer' = [xfer EXCEPT !.pc = p] BY <1>1, <1>6 DEF Transfer, Calls
  <2>4. p \in {"chunk", "request"} /\ (p = "chunk" <=> xfer.kind = "chunked") OBVIOUS
  <2> HIDE DEF p
  <2>5. xfer' \in Calls /\ xfer'.pc = p /\ xfer'.kind = xfer.kind /\ xfer'.validator = xfer.validator
    BY <1>1, <2>3, <2>4 DEF Calls, TransferPlaces
  <2>6. xfer.validator <= remote /\ xfer'.keep = xfer.keep /\ xfer'.resume = xfer.resume
    BY <1>1, <1>4, <2>3 DEF Calls
  <2>7. OneVersion(partial', xfer.validator, remote) BY <1>1, <2>2, <2>6, EmptyOne, CallFields
  <2>8. KeepSound' BY <1>4, <2>5, <2>6, Zenon DEF KeepSound
  <2> QED BY <1>1, <1>4, <2>2, <2>4, <2>5, <2>6, <2>7, <2>8, CallFields
    DEF TransferIInv, TransferTyped, FileSound, PartialSound, RangeSound, KnownSound, BodySound, EndSound, Bytes, Working, Unvalidated
<1> QED BY <1>5, <1>6

(* A request: from the end of what is there, if that can be validated.       *)
LEMMA NextRangeSound == ASSUME TransferIInv, NextRange PROVE TransferIInv'
<1>1. xfer \in Calls /\ FileSound' /\ remote' = remote /\ partial' = partial /\ saved' = saved
  BY TransferBounds, FileKept DEF NextRange, Ranged
<1>2. KeepSound /\ KnownSound /\ PartialSound /\ RangeSound /\ Len(partial) \in Nat BY TransferBounds DEF TransferIInv
<1>3. CASE /\ xfer.pc = "request"
           /\ Transfer([xfer EXCEPT !.pc = "sent", !.until = Blocks,
                                    !.start = IF xfer.resume /\ xfer.validator # Unknown THEN Bytes ELSE 0])
  <2> DEFINE from == IF xfer.resume /\ xfer.validator # Unknown THEN Bytes ELSE 0
  <2>1. xfer.kind = "stream" BY <1>1, <1>2, <1>3, CallFields DEF RangeSound
  <2>2. from = Bytes BY <1>2, <1>3, <2>1 DEF RangeSound, Bytes
  <2>3. xfer' = [xfer EXCEPT !.pc = "sent", !.until = Blocks, !.start = from] BY <1>3 DEF Transfer
  <2> HIDE DEF from
  <2>4. /\ xfer' \in Calls /\ xfer'.pc = "sent" /\ xfer'.kind = xfer.kind /\ xfer'.resume = xfer.resume
        /\ xfer'.keep = xfer.keep /\ xfer'.validator = xfer.validator /\ xfer'.start = from /\ xfer'.until = Blocks
    BY <1>1, <1>2, <2>2, <2>3, TransferBounds DEF Calls, TransferPlaces, Bytes
  <2>5. KeepSound' BY <1>2, <2>4, Zenon DEF KeepSound
  <2>6. PartialSound' BY <1>1, <1>2, <1>3, <2>4 DEF PartialSound, Working, Unvalidated
  <2>7. RangeSound' BY <1>1, <1>2, <1>3, <2>1, <2>2, <2>4 DEF RangeSound, Bytes
  <2> QED BY <1>1, <1>2, <2>4, <2>5, <2>6, <2>7
    DEF TransferIInv, TransferTyped, FileSound, KnownSound, BodySound, EndSound
<1>4. CASE /\ xfer.pc = "chunk"
           /\ xfer.total = Unknown \/ Bytes < xfer.total
           /\ Transfer([xfer EXCEPT !.pc = "sent", !.start = Bytes, !.attempt = 1,
                         !.until = IF xfer.total = Unknown THEN Bytes + ChunkBlocks
                                   ELSE Smaller(Bytes + ChunkBlocks, xfer.total)])
  <2> DEFINE end == IF xfer.total = Unknown THEN Bytes + ChunkBlocks ELSE Smaller(Bytes + ChunkBlocks, xfer.total)
  <2>1. xfer.kind = "chunked" BY <1>1, <1>2, <1>4, CallFields DEF RangeSound
  <2>2. end \in Nat /\ (xfer.total = Unknown => end = Bytes + ChunkBlocks)
    BY <1>1, <1>2, CallFields, TransferBounds DEF Smaller, Bytes, Unknown
  <2>3. xfer' = [xfer EXCEPT !.pc = "sent", !.start = Bytes, !.attempt = 1, !.until = end] BY <1>4 DEF Transfer
  <2> HIDE DEF end
  <2>4. /\ xfer' \in Calls /\ xfer'.pc = "sent" /\ xfer'.kind = "chunked" /\ xfer'.total = xfer.total
        /\ xfer'.validator = xfer.validator /\ xfer'.start = Bytes /\ xfer'.until = end
    BY <1>1, <1>2, <2>1, <2>2, <2>3 DEF Calls, TransferPlaces, Bytes
  <2>5. KeepSound' BY <2>4 DEF KeepSound
  <2>6. PartialSound' BY <1>1, <1>2, <1>4, <2>1, <2>4 DEF PartialSound, Working, Unvalidated
  <2>7. RangeSound' BY <1>1, <1>2, <1>4, <2>1, <2>2, <2>4, TransferBounds DEF RangeSound, Bytes
  <2> QED BY <1>1, <1>2, <2>4, <2>5, <2>6, <2>7
    DEF TransferIInv, TransferTyped, FileSound, KnownSound, BodySound, EndSound
<1>5. CASE /\ xfer.pc = "chunk" /\ ~(xfer.total = Unknown \/ Bytes < xfer.total)
           /\ Transfer([xfer EXCEPT !.pc = "finish"])
  <2>1. xfer.kind = "chunked" BY <1>1, <1>2, <1>5, CallFields DEF RangeSound
  <2>2. xfer' = [xfer EXCEPT !.pc = "finish"] BY <1>5 DEF Transfer
  <2>3. /\ xfer' \in Calls /\ xfer'.pc = "finish" /\ xfer'.kind = "chunked" /\ xfer'.total = xfer.total
        /\ xfer'.validator = xfer.validator
    BY <1>1, <2>1, <2>2 DEF Calls, TransferPlaces
  <2>5. KeepSound' BY <2>3 DEF KeepSound
  <2>6. PartialSound' BY <1>1, <1>2, <1>5, <2>1, <2>3 DEF PartialSound, Working, Unvalidated
  <2> QED BY <1>1, <1>2, <1>5, <2>3, <2>5, <2>6
    DEF TransferIInv, TransferTyped, FileSound, KnownSound, BodySound, EndSound, RangeSound
<1> QED BY <1>3, <1>4, <1>5 DEF NextRange, Ranged

(* The same request once more.                                               *)
LEMMA AgainFields ==
  ASSUME xfer \in Calls
  PROVE  /\ Again \in Calls /\ Again.kind = xfer.kind /\ Again.resume = xfer.resume /\ Again.keep = xfer.keep
         /\ Again.validator = xfer.validator /\ Again.total = xfer.total /\ Again.start = xfer.start
         /\ Again.until = xfer.until
         /\ (xfer.kind = "stream" => Again.pc = "request") /\ (xfer.kind = "chunked" => Again.pc = "sent")
<1> DEFINE place == IF xfer.kind = "stream" THEN "request" ELSE "sent"
<1>1. /\ place \in {"request", "sent"} /\ (xfer.kind = "stream" => place = "request")
      /\ (xfer.kind = "chunked" => place = "sent") OBVIOUS
<1>2. Again = [xfer EXCEPT !.pc = place, !.attempt = xfer.attempt + 1] BY DEF Again
<1> HIDE DEF place
<1>3. xfer.attempt + 1 \in Nat BY CallFields
<1>4. /\ Again \in Calls /\ Again.pc = place /\ Again.kind = xfer.kind /\ Again.resume = xfer.resume
      /\ Again.keep = xfer.keep /\ Again.validator = xfer.validator /\ Again.total = xfer.total
      /\ Again.start = xfer.start /\ Again.until = xfer.until
  BY <1>1, <1>2, <1>3 DEF Calls, TransferPlaces
<1> QED BY <1>1, <1>4

(* It finds the file as it needs it: a stream can validate what there is, a  *)
(* chunk has its start.                                                      *)
LEMMA AgainSound ==
  ASSUME TransferIInv, xfer.pc \in {"sent", "body"}, xfer' = Again, FileSound', UNCHANGED remote,
         ~Unvalidated => OneVersion(partial', xfer.validator, remote),
         Unvalidated => saved' = NoCheckpoint,
         xfer.kind = "stream" => Len(partial') = 0 \/ (xfer.resume /\ xfer.validator # Unknown),
         xfer.kind = "chunked" => Len(partial') = xfer.start
  PROVE  TransferIInv'
<1>1. xfer \in Calls /\ KeepSound /\ KnownSound /\ RangeSound BY TransferBounds DEF TransferIInv
<1>2. /\ xfer' \in Calls /\ xfer'.kind = xfer.kind /\ xfer'.resume = xfer.resume /\ xfer'.keep = xfer.keep
      /\ xfer'.validator = xfer.validator /\ xfer'.total = xfer.total /\ xfer'.start = xfer.start
      /\ xfer'.until = xfer.until
      /\ (xfer.kind = "stream" => xfer'.pc = "request") /\ (xfer.kind = "chunked" => xfer'.pc = "sent")
  BY <1>1, AgainFields
<1>3. KeepSound' BY <1>1, <1>2, Zenon DEF KeepSound
<1>4. PartialSound' BY <1>2 DEF PartialSound, Unvalidated
<1>5. CASE xfer.kind = "stream"
  <2>1. RangeSound' BY <1>2, <1>5 DEF RangeSound, Bytes
  <2> QED BY <1>1, <1>2, <1>3, <1>4, <1>5, <2>1
    DEF TransferIInv, TransferTyped, FileSound, KnownSound, BodySound, EndSound
<1>6. CASE xfer.kind = "chunked"
  <2>1. RangeSound' BY <1>1, <1>2, <1>6 DEF RangeSound, Bytes
  <2> QED BY <1>1, <1>2, <1>3, <1>4, <1>6, <2>1
    DEF TransferIInv, TransferTyped, FileSound, KnownSound, BodySound, EndSound
<1> QED BY <1>1, <1>5, <1>6, CallFields

LEMMA RestartSound ==
  ASSUME TransferIInv, Restart, UNCHANGED remote
  PROVE  /\ FileSound' /\ Len(partial') = 0 /\ saved' = NoCheckpoint
         /\ OneVersion(partial', xfer.validator, remote)
<1>1. 0 \in 0 .. Len(partial) /\ KnownSound /\ xfer.validator \in Nat /\ remote \in Nat \ {0}
  BY TransferBounds, CallFields DEF TransferIInv
<1>2. FileSound' /\ Len(partial') = 0 /\ saved' = NoCheckpoint BY <1>1, CutSound DEF Restart
<1> QED BY <1>1, <1>2, EmptyOne DEF KnownSound

LEMMA RequestFailsSound == ASSUME TransferIInv, RequestFails PROVE TransferIInv'
<1>1. xfer.pc = "sent" /\ remote' = remote /\ xfer \in Calls /\ Working
  BY TransferBounds DEF RequestFails, Working
<1>2. PartialSound /\ RangeSound BY DEF TransferIInv
<1>3. CASE Return BY <1>1, <1>3, ReturnSound
<1>4. CASE ReturnSaved BY <1>1, <1>4, ReturnSavedSound
<1>5. CASE Transfer(Again) /\ Restart /\ xfer.kind = "stream"
  <2>1. xfer' = Again BY <1>5 DEF Transfer
  <2>2. FileSound' /\ Len(partial') = 0 /\ saved' = NoCheckpoint /\ OneVersion(partial', xfer.validator, remote)
    BY <1>1, <1>5, RestartSound
  <2> QED BY <1>1, <1>5, <2>1, <2>2, AgainSound
<1>6. CASE /\ Transfer(Again) /\ UNCHANGED <<partial, synced, saved>>
  <2>1. xfer' = Again /\ partial' = partial /\ saved' = saved BY <1>6 DEF Transfer
  <2>2. FileSound' BY <1>1, <1>6, FileKept
  <2>3. xfer.kind = "stream" => Len(partial) = 0 \/ (xfer.resume /\ xfer.validator # Unknown)
    BY <1>1, <1>2, TransferBounds DEF RangeSound, Bytes
  <2>4. Len(partial) = xfer.start BY <1>1, <1>2 DEF RangeSound, Bytes
  <2> QED BY <1>1, <1>2, <2>1, <2>2, <2>3, <2>4, AgainSound DEF PartialSound
<1> QED BY <1>3, <1>4, <1>5, <1>6 DEF RequestFails

(* The version of a checkpoint is one the server has, or had.                *)
LEMMA SavedKnown == ASSUME TransferIInv PROVE saved.validator \in Nat /\ saved.validator <= remote
<1>1. saved \in Checkpoints /\ remote \in Nat BY TransferBounds
<1>2. saved.validator \in Nat BY <1>1 DEF Checkpoints
<1>3. CASE saved = NoCheckpoint BY <1>1, <1>3, NoCheckpointType
<1>4. CASE OneVersion(partial, saved.validator, remote) BY <1>1, <1>2, <1>4, ValidatorBounded
<1> QED BY <1>2, <1>3, <1>4 DEF TransferIInv, SavedSound

(* A call whose response has come.                                           *)
Responded(of, v, len, entire, from, all) ==
  [xfer EXCEPT !.pc = "body", !.body = of, !.length = len, !.validator = v, !.full = entire, !.start = from,
               !.total = all]

IsResponse(x, of, v, len, entire, from, all) ==
  /\ x \in Calls /\ x.pc = "body" /\ x.body = of /\ x.length = len /\ x.validator = v /\ x.full = entire
  /\ x.start = from /\ x.total = all /\ x.kind = xfer.kind /\ x.resume = xfer.resume
  /\ x.keep = xfer.keep /\ x.until = xfer.until

LEMMA RespondedFields ==
  ASSUME xfer \in Calls, NEW of \in Nat, NEW v \in Nat, NEW len \in Int, NEW entire \in BOOLEAN, NEW from \in Nat,
         NEW all \in {0, Blocks}
  PROVE  IsResponse(Responded(of, v, len, entire, from, all), of, v, len, entire, from, all)
<1> DEFINE y == [xfer EXCEPT !.pc = "body", !.body = of, !.length = len, !.validator = v]
<1>1. /\ y \in Calls /\ y.pc = "body" /\ y.body = of /\ y.length = len /\ y.validator = v /\ y.kind = xfer.kind
      /\ y.resume = xfer.resume /\ y.keep = xfer.keep /\ y.until = xfer.until
  BY DEF Calls, TransferPlaces
<1>2. Responded(of, v, len, entire, from, all) = [y EXCEPT !.full = entire, !.start = from, !.total = all]
  BY DEF Responded
<1> HIDE DEF y
<1> QED BY <1>1, <1>2, ZenonT(60) DEF Calls, IsResponse

(* It is of the version the server has, and so is all that stays.            *)
GoodResponse(v, len, entire, from, all) ==
  /\ v \in Nat /\ len \in Int /\ entire \in BOOLEAN /\ from \in Nat /\ all \in {0, Blocks}
  /\ xfer' = Responded(remote, v, len, entire, from, all)
  /\ v <= remote /\ (xfer.kind = "chunked" => v = xfer.validator)
  /\ from <= Len(partial') /\ from <= xfer.start /\ (entire => from = 0)
  /\ xfer.kind = "stream" => (all = Unknown => len = Unknown)
  /\ xfer.kind = "chunked" =>
       /\ all = Unknown => xfer.total = Unknown
       /\ len = 0 \/ len = (IF entire THEN Blocks ELSE Smaller(xfer.until, Blocks)) - from

LEMMA ResponseSound ==
  ASSUME TransferIInv, xfer.pc = "sent", FileSound', UNCHANGED remote,
         NEW v, NEW len, NEW entire, NEW from, NEW all, GoodResponse(v, len, entire, from, all),
         ~Unvalidated => \A i \in 1 .. Len(partial') : partial'[i] = remote,
         Unvalidated => saved' = NoCheckpoint, saved'.validator <= remote
  PROVE  TransferIInv'
<1>1. xfer \in Calls /\ KeepSound /\ RangeSound /\ remote \in Nat /\ remote > 0 BY TransferBounds DEF TransferIInv
<1> /\ v \in Nat /\ len \in Int /\ entire \in BOOLEAN /\ from \in Nat /\ all \in {0, Blocks}
    /\ xfer' = Responded(remote, v, len, entire, from, all)
  BY Zenon DEF GoodResponse
<1> /\ v <= remote /\ (xfer.kind = "chunked" => v = xfer.validator)
    /\ from <= Len(partial') /\ from <= xfer.start /\ (entire => from = 0)
    /\ xfer.kind = "stream" => (all = Unknown => len = Unknown)
    /\ xfer.kind = "chunked" =>
         /\ all = Unknown => xfer.total = Unknown
         /\ len = 0 \/ len = (IF entire THEN Blocks ELSE Smaller(xfer.until, Blocks)) - from
  BY Zenon DEF GoodResponse
<1>2. /\ xfer' \in Calls /\ xfer'.pc = "body" /\ xfer'.body = remote /\ xfer'.length = len /\ xfer'.validator = v
      /\ xfer'.full = entire /\ xfer'.start = from /\ xfer'.total = all /\ xfer'.kind = xfer.kind
      /\ xfer'.resume = xfer.resume /\ xfer'.keep = xfer.keep /\ xfer'.until = xfer.until
  <2> DEFINE x == Responded(remote, v, len, entire, from, all)
  <2>1. xfer \in Calls /\ remote \in Nat /\ v \in Nat /\ len \in Int /\ entire \in BOOLEAN /\ from \in Nat
        /\ all \in {0, Blocks}
    BY <1>1
  <2>2. IsResponse(x, remote, v, len, entire, from, all) BY <2>1, RespondedFields, Zenon
  <2>3. xfer' = x OBVIOUS
  <2> HIDE DEF x
  <2> QED BY <2>2, <2>3, Zenon DEF IsResponse
<1>3. xfer.kind \in {"stream", "chunked"} /\ xfer.until \in Nat /\ xfer.start \in Nat /\ xfer.total \in {0, Blocks}
  BY <1>1, CallFields
<1>4. Unvalidated' <=> Unvalidated BY <1>2, <1>3 DEF Unvalidated
<1>5. KeepSound' BY <1>1, <1>2, Zenon DEF KeepSound
<1>6. PartialSound'
  <2>1. remote \in 1 .. remote /\ (v = remote \/ v < remote) BY <1>1
  <2>2. ~Unvalidated => OneVersion(partial', v, remote) BY <1>1, <2>1, SameOne
  <2> QED BY <1>2, <1>4, <2>2 DEF PartialSound
<1>7. RangeSound'
  <2>1. IF xfer.kind = "stream" THEN xfer.until = Blocks ELSE xfer.total = Unknown => xfer.until >= xfer.start + ChunkBlocks
    BY <1>1 DEF RangeSound
  <2>2. xfer.kind # "stream" /\ all = Unknown => xfer.until >= from + ChunkBlocks
    BY <1>3, <2>1, TransferBounds
  <2> QED BY <1>2, <1>3, <2>1, <2>2 DEF RangeSound
<1>8. BodySound'
  <2>1. saved'.validator \in Nat BY DEF FileSound, Checkpoints
  <2>2. remote \in 1 .. remote /\ (saved'.validator = remote \/ saved'.validator < remote) /\ (v = remote \/ v < remote)
    BY <1>1, <2>1
  <2>3. entire => from = 0 OBVIOUS
  <2>4. (xfer'.full => xfer'.start = 0) BY <1>2, <2>3, Zenon
  <2>5. (IF xfer'.full THEN Blocks ELSE Smaller(xfer'.until, Blocks)) - xfer'.start
        = (IF entire THEN Blocks ELSE Smaller(xfer.until, Blocks)) - from
    <3>1. CASE entire BY <1>2, <3>1
    <3>2. CASE ~entire BY <1>2, <3>2
    <3> QED BY <3>1, <3>2
  <2>6. IF xfer'.kind = "stream" THEN xfer'.total = Unknown => xfer'.length = Unknown
        ELSE xfer'.length = 0 \/ xfer'.length = (IF xfer'.full THEN Blocks ELSE Smaller(xfer'.until, Blocks)) - xfer'.start
    <3>1. CASE xfer.kind = "stream" BY <1>2, <3>1
    <3>2. CASE xfer.kind = "chunked" BY <1>2, <2>5, <3>2
    <3> QED BY <1>3, <3>1, <3>2
  <2> QED BY <1>2, <1>4, <2>2, <2>4, <2>6 DEF BodySound, Bytes
<1> QED BY <1>1, <1>2, <1>5, <1>6, <1>7, <1>8 DEF TransferIInv, TransferTyped, FileSound, KnownSound, EndSound

(* A part: of the version of what is there, or the first.                    *)
LEMMA PartSound == ASSUME TransferIInv, Partial PROVE TransferIInv'
<1> PICK v \in {remote, Unknown}, n \in {Blocks, Unknown} :
       Transfer([Response(v, n) EXCEPT !.full = FALSE,
                   !.total = IF xfer.kind = "stream" THEN n ELSE @,
                   !.length = IF n = Unknown THEN Unknown
                              ELSE Smaller(xfer.until, Blocks) - xfer.start])
  BY DEF Partial
<1> DEFINE len == IF n = Unknown THEN Unknown ELSE Smaller(xfer.until, Blocks) - xfer.start
           all == IF xfer.kind = "stream" THEN n ELSE xfer.total
           val == IF xfer.kind = "stream" /\ v # Unknown THEN v ELSE xfer.validator
<1>1. /\ xfer \in Calls /\ xfer.pc = "sent" /\ (xfer.start > 0 \/ xfer.kind = "chunked")
      /\ xfer.validator \in {Unknown, remote} /\ xfer.start < Blocks
      /\ remote' = remote /\ partial' = partial /\ saved' = saved /\ FileSound'
  BY TransferBounds, FileKept DEF Partial, Partially, IfRange
<1>2. /\ KeepSound /\ KnownSound /\ PartialSound /\ RangeSound /\ Len(partial) \in Nat
      /\ remote \in Nat /\ remote > 0 /\ saved.validator \in Nat /\ saved.validator <= remote
  BY TransferBounds, SavedKnown DEF TransferIInv
<1>3. xfer' = Responded(remote, val, len, FALSE, xfer.start, all)
  BY <1>1 DEF Transfer, Response, Calls, Responded
<1>4. v \in Nat /\ n \in {0, Blocks} /\ v <= remote /\ xfer.until \in Nat /\ xfer.start \in Nat
      /\ xfer.total \in {0, Blocks} /\ Blocks \in Nat /\ Blocks > 0
  BY <1>1, <1>2, CallFields, TransferBounds DEF Unknown
<1>5. /\ len \in Int /\ all \in {0, Blocks} /\ val \in {0, remote} /\ val \in Nat
      /\ (xfer.kind = "chunked" => val = xfer.validator)
  BY <1>1, <1>2, <1>4 DEF Smaller, Unknown
<1>6. xfer.kind = "stream" /\ n = Unknown => len = 0 /\ all = 0 BY DEF Unknown
<1>7. len = 0 \/ len = Smaller(xfer.until, Blocks) - xfer.start BY DEF Unknown
<1>8. xfer.kind = "stream" /\ n # Unknown => all # 0 BY <1>4 DEF Unknown
<1>9. xfer.kind = "chunked" => all = xfer.total OBVIOUS
<1>10. ~Unvalidated => xfer.validator = remote
  BY <1>1, <1>2, CallFields DEF RangeSound, Bytes, Unvalidated
<1>11. ~Unvalidated => \A i \in 1 .. Len(partial') : partial'[i] = remote
  BY <1>1, <1>2, <1>10, ConfirmedOne DEF PartialSound, Working
<1>12. (Unvalidated => saved' = NoCheckpoint) /\ val <= remote /\ saved'.validator <= remote
  BY <1>1, <1>2, <1>5 DEF PartialSound, Working
<1>13. xfer.start <= Len(partial') BY <1>1, <1>2 DEF RangeSound, Bytes
<1>14. xfer.kind = "stream" => (all = Unknown => len = Unknown) BY <1>6, <1>8 DEF Unknown
<1>15. xfer.start <= xfer.start /\ (FALSE => xfer.start = 0) /\ (IF FALSE THEN Blocks ELSE Smaller(xfer.until, Blocks)) = Smaller(xfer.until, Blocks)
  BY <1>4
<1> HIDE DEF len, all, val
<1>16. GoodResponse(val, len, FALSE, xfer.start, all)
  BY <1>1, <1>3, <1>4, <1>5, <1>7, <1>9, <1>12, <1>13, <1>14, <1>15 DEF GoodResponse
<1> QED BY <1>1, <1>11, <1>12, <1>16, ResponseSound, Zenon

(* Everything: what was there goes, if there was anything.                   *)
LEMMA WholeSound == ASSUME TransferIInv, Whole PROVE TransferIInv'
<1> PICK v \in {remote, Unknown}, n \in {Blocks, Unknown} :
       IF xfer.kind = "chunked" /\ v # Unknown /\ xfer.validator \notin {Unknown, v}
       THEN Return
       ELSE /\ Transfer([Response(v, n) EXCEPT !.full = TRUE, !.start = 0,
                           !.total = IF xfer.kind = "stream" \/ (xfer.start > 0 /\ n > 0) THEN n ELSE @])
            /\ FromTheStart
  BY DEF Whole
<1>1. xfer \in Calls /\ xfer.pc = "sent" /\ remote' = remote BY TransferBounds DEF Whole
<1>2. CASE Return BY <1>1, <1>2, ReturnSound
<1>3. CASE /\ Transfer([Response(v, n) EXCEPT !.full = TRUE, !.start = 0,
                           !.total = IF xfer.kind = "stream" \/ (xfer.start > 0 /\ n > 0) THEN n ELSE @])
           /\ FromTheStart
  <2> DEFINE all == IF xfer.kind = "stream" \/ (xfer.start > 0 /\ n > 0) THEN n ELSE xfer.total
             val == IF xfer.kind = "stream" /\ v # Unknown THEN v ELSE xfer.validator
  <2>1. /\ KnownSound /\ PartialSound /\ RangeSound /\ Len(partial) \in Nat
        /\ remote \in Nat /\ remote > 0 /\ saved.validator \in Nat /\ saved.validator <= remote
    BY TransferBounds, SavedKnown DEF TransferIInv
  <2>2. xfer' = Responded(remote, val, n, TRUE, 0, all)
    BY <1>1, <1>3 DEF Transfer, Response, Calls, Responded
  <2>3. v \in Nat /\ n \in {0, Blocks} /\ v <= remote /\ xfer.until \in Nat /\ xfer.start \in Nat
        /\ xfer.total \in {0, Blocks} /\ Blocks \in Nat /\ Blocks > 0 /\ xfer.validator \in Nat
    BY <1>1, <2>1, CallFields, TransferBounds DEF Unknown
  <2>4. /\ n \in Int /\ all \in {0, Blocks} /\ val \in Nat /\ val <= remote
        /\ (xfer.kind = "chunked" => val = xfer.validator)
    BY <2>1, <2>3 DEF KnownSound
  <2>5. xfer.kind = "stream" => (all = Unknown => n = Unknown) OBVIOUS
  <2>6. xfer.kind = "chunked" => (all = Unknown => xfer.total = Unknown) /\ (n = 0 \/ n = Blocks - 0)
    BY <2>3 DEF Unknown
  <2>7. /\ FileSound' /\ Len(partial') = 0 /\ saved' \in {saved, NoCheckpoint}
    <3>1. xfer.start = Len(partial) BY <1>1, <2>1 DEF RangeSound, Bytes
    <3>2. CASE xfer.start = 0 /\ UNCHANGED <<partial, synced, saved>> BY <1>1, <3>1, <3>2, FileKept
    <3>3. CASE Cut(0) /\ UNCHANGED saved BY <1>1, <2>1, <3>3, CutSound
    <3>4. CASE Restart BY <1>1, <3>4, RestartSound
    <3> QED BY <1>3, <3>2, <3>3, <3>4 DEF FromTheStart
  <2>8. saved'.validator <= remote BY <2>1, <2>7, NoCheckpointType
  <2>9. Unvalidated => saved' = NoCheckpoint BY <1>1, <2>1, <2>7 DEF PartialSound, Working
  <2>10. \A i \in 1 .. Len(partial') : partial'[i] = remote BY <2>7
  <2>11. 0 <= Len(partial') /\ 0 <= xfer.start /\ (IF TRUE THEN Blocks ELSE Smaller(xfer.until, Blocks)) - 0 = Blocks - 0
    BY <2>3, <2>7
  <2> HIDE DEF all, val
  <2>12. GoodResponse(val, n, TRUE, 0, all) BY <2>2, <2>3, <2>4, <2>5, <2>6, <2>11 DEF GoodResponse
  <2> QED BY <1>1, <2>7, <2>8, <2>9, <2>10, <2>12, ResponseSound, Zenon
<1> QED BY <1>2, <1>3

LEMMA ReadSound == ASSUME TransferIInv, Read PROVE TransferIInv'
<1>1. /\ xfer.pc = "body" /\ partial' = Append(partial, xfer.body) /\ remote' = remote /\ xfer' = xfer
      /\ Checkpoint \/ UNCHANGED <<synced, saved>>
  BY DEF Read
<1>2. /\ xfer \in Calls /\ KeepSound /\ KnownSound /\ PartialSound /\ RangeSound /\ BodySound
      /\ Len(partial) \in Nat /\ partial \in Seq(Nat) /\ remote \in Nat /\ synced \in 0 .. Len(partial)
      /\ saved \in Checkpoints
  BY TransferBounds DEF TransferIInv, TransferTyped
<1>3. /\ xfer.body \in 1 .. remote /\ xfer.start <= Len(partial) /\ xfer.start \in Nat
      /\ saved.validator = xfer.body \/ saved.validator < remote
      /\ xfer.validator = xfer.body \/ xfer.validator < remote
      /\ ~Unvalidated => \A i \in 1 .. Len(partial) : partial[i] = xfer.body
  BY <1>1, <1>2, CallFields DEF BodySound, Bytes
<1>4. /\ partial' \in Seq(Nat) /\ Len(partial') = Len(partial) + 1
      /\ ~Unvalidated => \A i \in 1 .. Len(partial') : partial'[i] = xfer.body
  BY <1>1, <1>2, <1>3, AppendOne
<1>5. ~Unvalidated => /\ OneVersion(partial', xfer.validator, remote)
                      /\ OneVersion(partial', saved.validator, remote)
  BY <1>2, <1>3, <1>4, SameOne
<1>6. Unvalidated => saved = NoCheckpoint /\ xfer.validator = Unknown
  BY <1>1, <1>2 DEF PartialSound, Working, Unvalidated
<1>7. FileSound' /\ (saved' = saved \/ (xfer.validator # Unknown /\ saved'.validator = xfer.validator))
  <2>1. CASE Checkpoint
    <3>1. FileSound' BY <1>1, <1>2, <1>4, <1>5, <1>6, <2>1, CheckpointSound
    <3> QED BY <2>1, <3>1 DEF Checkpoint
  <2>2. CASE UNCHANGED <<synced, saved>>
    <3>1. synced' \in 0 .. Len(partial') /\ saved' = saved /\ saved' \in Checkpoints BY <1>2, <1>4, <2>2
    <3>2. SavedSound' BY <1>1, <1>5, <1>6, <3>1 DEF SavedSound, TransferIInv
    <3> QED BY <1>4, <3>1, <3>2 DEF FileSound
  <2> QED BY <1>1, <2>1, <2>2
<1>8. PartialSound' BY <1>1, <1>5, <1>6, <1>7 DEF PartialSound, Unvalidated
<1>9. BodySound'
  <2>1. saved'.validator = xfer.body \/ saved'.validator < remote BY <1>3, <1>7
  <2>2. xfer.start <= Len(partial') BY <1>2, <1>3, <1>4
  <2>3. Unvalidated' <=> Unvalidated BY <1>1 DEF Unvalidated
  <2> QED BY <1>1, <1>2, <1>3, <1>4, <2>1, <2>2, <2>3 DEF BodySound, Bytes
<1>10. RangeSound' BY <1>1, <1>2 DEF RangeSound
<1> QED BY <1>1, <1>2, <1>7, <1>8, <1>9, <1>10
  DEF TransferIInv, TransferTyped, FileSound, KeepSound, KnownSound, EndSound

(* The end of a body: of the stream if it is the end of the resource, and a  *)
(* chunk that is the last one is the end of it too.                          *)
LEMMA BodyEndsSound == ASSUME TransferIInv, BodyEnds PROVE TransferIInv'
<1> DEFINE done == xfer.full \/ (xfer.total = Unknown /\ Bytes - xfer.start < ChunkBlocks)
           place == IF xfer.kind = "stream" THEN "publish" ELSE IF done THEN "finish" ELSE "chunk"
<1>1. /\ xfer.pc = "body" /\ (Rest = 0 \/ xfer.length > 0) /\ Expected /\ Len(partial) > xfer.start
      /\ remote' = remote /\ partial' = partial /\ (Checkpoint \/ UNCHANGED <<synced, saved>>)
      /\ Transfer([xfer EXCEPT !.pc = place])
  BY Zenon DEF BodyEnds, BodyOver, Bytes
<1>2. /\ xfer \in Calls /\ KeepSound /\ KnownSound /\ PartialSound /\ RangeSound /\ BodySound /\ SavedSound
      /\ Len(partial) \in Nat /\ partial \in Seq(Nat) /\ synced \in 0 .. Len(partial)
  BY TransferBounds DEF TransferIInv, TransferTyped
<1>3. /\ xfer.kind \in {"stream", "chunked"} /\ xfer.until \in Nat /\ xfer.start \in Nat /\ xfer.total \in {0, Blocks}
      /\ xfer.length \in Int /\ Blocks \in Nat /\ Blocks > 0 /\ ChunkBlocks \in Nat /\ ChunkBlocks > 0
  BY <1>2, CallFields, TransferBounds
<1>4. xfer' = [xfer EXCEPT !.pc = place] BY <1>1 DEF Transfer
<1>5. place \in {"publish", "finish", "chunk"} /\ (xfer.kind = "stream" <=> place = "publish") OBVIOUS
<1>6. place = "finish" => done OBVIOUS
<1> HIDE DEF place
<1>7. /\ xfer' \in Calls /\ xfer'.pc = place /\ xfer'.kind = xfer.kind /\ xfer'.keep = xfer.keep
      /\ xfer'.resume = xfer.resume /\ xfer'.validator = xfer.validator /\ xfer'.total = xfer.total
  BY <1>2, <1>4, <1>5 DEF Calls, TransferPlaces
<1>8. FileSound' /\ (saved' = saved \/ xfer.validator # Unknown)
  <2>1. CASE Checkpoint
    <3>1. xfer.validator # Unknown => OneVersion(partial', xfer.validator, remote)
      BY <1>1, <1>2 DEF PartialSound, Working, Unvalidated
    <3>2. FileSound' BY <1>1, <1>2, <2>1, <3>1, CheckpointSound DEF SavedSound
    <3> QED BY <2>1, <3>2 DEF Checkpoint
  <2>2. CASE UNCHANGED <<synced, saved>> BY <1>1, <2>2, FileKept
  <2> QED BY <1>1, <2>1, <2>2
<1>9. xfer.kind = "stream" => Len(partial) = Blocks
  <2> HAVE xfer.kind = "stream"
  <2>1. xfer.until = Blocks /\ (xfer.total = Unknown => xfer.length = Unknown) BY <1>1, <1>2 DEF RangeSound, BodySound
  <2>2. Rest = Blocks - Len(partial) BY <1>3, <2>1 DEF Rest, Bytes, Smaller
  <2>3. xfer.total = Unknown \/ Len(partial) = xfer.total BY <1>1 DEF Expected, Bytes
  <2> QED BY <1>1, <1>2, <1>3, <2>1, <2>2, <2>3 DEF Unknown
<1>10. place = "finish" /\ xfer.total = Unknown => Len(partial) = Blocks
  <2> HAVE place = "finish" /\ xfer.total = Unknown
  <2> DEFINE size == IF xfer.full THEN Blocks ELSE Smaller(xfer.until, Blocks)
  <2>1. xfer.kind = "chunked" BY <1>3, <1>5
  <2>2. /\ xfer.until >= xfer.start + ChunkBlocks
        /\ xfer.length = 0 \/ xfer.length = size - xfer.start
        /\ Rest = size - Len(partial) /\ size \in Nat
    BY <1>1, <1>2, <1>3, <2>1 DEF RangeSound, BodySound, Rest, Bytes, Smaller
  <2>3. xfer.length > 0 => Len(partial) - xfer.start = xfer.length BY <1>1, <2>1 DEF Expected, Bytes
  <2>4. Len(partial) = size
    <3> HIDE DEF size
    <3> QED BY <1>1, <1>2, <1>3, <2>2, <2>3, SMTT(30)
  <2>5. CASE xfer.full BY <2>4, <2>5
  <2>6. CASE ~xfer.full
    <3>1. Len(partial) - xfer.start < ChunkBlocks BY <1>6, <2>6 DEF Bytes
    <3>2. Len(partial) = Smaller(xfer.until, Blocks) BY <2>4, <2>6
    <3> QED BY <1>2, <1>3, <2>2, <3>1, <3>2 DEF Smaller
  <2> QED BY <2>5, <2>6
<1>11. KeepSound' BY <1>2, <1>7, Zenon DEF KeepSound
<1>12. PartialSound' BY <1>1, <1>2, <1>7, <1>8 DEF PartialSound, Working, Unvalidated
<1>13. RangeSound' BY <1>3, <1>5, <1>7 DEF RangeSound
<1>14. BodySound' BY <1>5, <1>7 DEF BodySound
<1>15. EndSound' BY <1>1, <1>5, <1>7, <1>9, <1>10 DEF EndSound, Bytes
<1> QED BY <1>1, <1>2, <1>7, <1>8, <1>11, <1>12, <1>13, <1>14, <1>15
  DEF TransferIInv, TransferTyped, FileSound, KnownSound

LEMMA BodyFailsSound == ASSUME TransferIInv, BodyFails PROVE TransferIInv'
<1>1. /\ xfer.pc = "body" /\ remote' = remote /\ Working /\ xfer \in Calls
      /\ xfer.kind \in {"stream", "chunked"} /\ xfer.start \in Nat
  BY TransferBounds, CallFields DEF BodyFails, Working
<1>2. /\ KeepSound /\ KnownSound /\ PartialSound /\ RangeSound /\ BodySound /\ SavedSound
      /\ Len(partial) \in Nat /\ partial \in Seq(Nat) /\ synced \in 0 .. Len(partial)
  BY TransferBounds DEF TransferIInv, TransferTyped
<1>3. CASE xfer.kind = "stream"
  <2>1. ~Unvalidated BY <1>3 DEF Unvalidated
  <2>2. CASE ReturnSaved BY <1>1, <2>2, ReturnSavedSound
  <2>3. CASE Transfer(Again) /\ Restart
    <3>1. FileSound' /\ Len(partial') = 0 /\ OneVersion(partial', xfer.validator, remote) BY <1>1, <2>3, RestartSound
    <3> QED BY <1>1, <1>3, <2>1, <2>3, <3>1, AgainSound DEF Transfer
  <2>4. CASE Transfer(Again) /\ xfer.resume /\ xfer.validator # Unknown /\ UNCHANGED partial /\ Checkpoint
    <3>1. OneVersion(partial', xfer.validator, remote) BY <1>1, <1>2, <2>1, <2>4 DEF PartialSound
    <3>2. FileSound' BY <1>1, <1>2, <2>4, <3>1, CheckpointSound DEF SavedSound
    <3> QED BY <1>1, <1>3, <2>1, <2>4, <3>1, <3>2, AgainSound DEF Transfer
  <2> QED BY <1>3, <2>2, <2>3, <2>4, Zenon DEF BodyFails
<1>4. CASE xfer.kind = "chunked"
  <2>1. xfer.start \in 0 .. Len(partial) BY <1>1, <1>2 DEF BodySound, Bytes
  <2>2. /\ Cut(xfer.start) /\ saved' = saved
        /\ Transfer(Again) \/ Transfer([xfer EXCEPT !.pc = "giveup"])
    <3>1. xfer.kind # "stream" BY <1>4
    <3> QED BY <3>1, Zenon DEF BodyFails, Cut
  <2>3. FileSound' /\ Len(partial') = xfer.start BY <1>1, <2>1, <2>2, CutSound
  <2>4. ~Unvalidated => OneVersion(partial', xfer.validator, remote)
    BY <1>1, <1>2, <2>1, <2>2, PrefixOne, TransferBounds DEF PartialSound, Cut
  <2>5. Unvalidated => saved' = NoCheckpoint BY <1>1, <1>2, <2>2 DEF PartialSound
  <2>6. CASE Transfer(Again) BY <1>1, <1>4, <2>3, <2>4, <2>5, <2>6, AgainSound DEF Transfer
  <2>7. CASE Transfer([xfer EXCEPT !.pc = "giveup"])
    <3>1. xfer' = [xfer EXCEPT !.pc = "giveup"] BY <2>7 DEF Transfer
    <3>2. xfer' \in Calls /\ xfer'.pc = "giveup" /\ xfer'.kind = "chunked" /\ xfer'.validator = xfer.validator
      BY <1>1, <1>4, <3>1 DEF Calls, TransferPlaces
    <3>3. KeepSound' BY <3>2 DEF KeepSound
    <3>4. PartialSound' BY <1>1, <1>4, <2>4, <2>5, <3>2 DEF PartialSound, Unvalidated
    <3> QED BY <1>1, <1>2, <2>3, <3>2, <3>3, <3>4
      DEF TransferIInv, TransferTyped, FileSound, KnownSound, RangeSound, BodySound, EndSound
  <2> QED BY <2>2, <2>6, <2>7
<1> QED BY <1>1, <1>3, <1>4

LEMMA GiveUpSound == ASSUME TransferIInv, GiveUp PROVE TransferIInv'
BY ReturnSavedSound DEF GiveUp, Working

LEMMA CancelSound == ASSUME TransferIInv, CancelTransfer PROVE TransferIInv'
BY ReturnSound DEF CancelTransfer

LEMMA FinishSound == ASSUME TransferIInv, Finish PROVE TransferIInv'
<1>1. xfer.pc = "finish" /\ remote' = remote /\ xfer \in Calls BY TransferBounds DEF Finish
<1>2. CASE Return BY <1>1, <1>2, ReturnSound
<1>3. CASE /\ Bytes # 0 /\ xfer.total \in {Unknown, Bytes}
           /\ Transfer([xfer EXCEPT !.pc = "publish"]) /\ UNCHANGED <<partial, synced, saved>>
  <2>1. KeepSound /\ KnownSound /\ PartialSound /\ RangeSound /\ EndSound BY DEF TransferIInv
  <2>2. xfer' = [xfer EXCEPT !.pc = "publish"] /\ partial' = partial /\ saved' = saved BY <1>3 DEF Transfer
  <2>3. /\ xfer' \in Calls /\ xfer'.pc = "publish" /\ xfer'.kind = xfer.kind /\ xfer'.keep = xfer.keep
        /\ xfer'.resume = xfer.resume /\ xfer'.validator = xfer.validator /\ xfer'.total = xfer.total
    BY <1>1, <2>2 DEF Calls, TransferPlaces
  <2>4. FileSound' BY <1>1, <1>3, FileKept
  <2>5. Bytes = Blocks
    <3>1. xfer.total \in {0, Blocks} BY <1>1, CallFields
    <3>2. CASE xfer.total = Unknown BY <1>1, <2>1, <3>2 DEF EndSound
    <3>3. CASE xfer.total = Bytes BY <1>3, <3>1, <3>3
    <3> QED BY <1>3, <3>2, <3>3
  <2>6. KeepSound' BY <2>1, <2>3, Zenon DEF KeepSound
  <2>7. PartialSound' BY <1>1, <2>1, <2>2, <2>3 DEF PartialSound, Working, Unvalidated
  <2>8. RangeSound' BY <2>3 DEF RangeSound
  <2> QED BY <1>1, <2>1, <2>2, <2>3, <2>4, <2>5, <2>6, <2>7, <2>8
    DEF TransferIInv, TransferTyped, FileSound, KnownSound, BodySound, EndSound, Bytes
<1> QED BY <1>2, <1>3, Zenon DEF Finish

LEMMA PublishFileSound == ASSUME TransferIInv, PublishFile PROVE TransferIInv'
<1>1. /\ remote' = remote /\ partial' = <<>> /\ synced' = 0 /\ saved' = saved
      /\ xfer' = [xfer EXCEPT !.pc = "renamed"]
  BY DEF PublishFile, Transfer
<1>2. /\ xfer \in Calls /\ KeepSound /\ KnownSound /\ RangeSound /\ remote \in Nat \ {0} /\ saved \in Checkpoints
      /\ saved.validator \in Nat /\ saved.validator <= remote
  BY TransferBounds, SavedKnown DEF TransferIInv
<1>3. /\ xfer' \in Calls /\ xfer'.pc = "renamed" /\ xfer'.kind = xfer.kind /\ xfer'.keep = xfer.keep
      /\ xfer'.resume = xfer.resume /\ xfer'.validator = xfer.validator
  BY <1>1, <1>2 DEF Calls, TransferPlaces
<1>4. partial' \in Seq(Nat) /\ Len(partial') = 0 BY <1>1
<1>5. SavedSound' BY <1>1, <1>2, <1>4, EmptyOne DEF SavedSound, TransferIInv
<1>6. KeepSound' BY <1>2, <1>3, Zenon DEF KeepSound
<1> QED BY <1>1, <1>2, <1>3, <1>4, <1>5, <1>6
  DEF TransferIInv, TransferTyped, KnownSound, PartialSound, Working, RangeSound, BodySound, EndSound

LEMMA RemoveCheckpointSound == ASSUME TransferIInv, RemoveCheckpoint PROVE TransferIInv'
<1>1. /\ remote' = remote /\ partial' = partial /\ synced' = synced /\ saved' = NoCheckpoint /\ xfer' = NoCall
  BY DEF RemoveCheckpoint, Transfer
<1>2. FileSound' BY <1>1, NoCheckpointType DEF FileSound, SavedSound, TransferIInv, TransferTyped
<1> QED BY <1>1, <1>2, ReturnedSound

(* What was the version of the server is one it will not confirm again.      *)
LEMMA ResourceChangesSound == ASSUME TransferIInv, ResourceChanges PROVE TransferIInv'
<1>1. /\ remote < MaxVersion /\ remote' = remote + 1 /\ partial' = partial /\ synced' = synced
      /\ saved' = saved /\ xfer' = xfer
  BY DEF ResourceChanges
<1>2. /\ xfer \in Calls /\ remote \in Nat \ {0} /\ saved \in Checkpoints /\ Len(partial) \in Nat
      /\ saved.validator \in Nat /\ saved.validator <= remote /\ xfer.validator \in Nat /\ xfer.validator <= remote
      /\ MaxVersion \in Nat
  BY TransferBounds, SavedKnown, CallFields, TransferAssumption DEF TransferIInv, KnownSound
<1>3. SavedSound' BY <1>1, <1>2, LaterOne DEF SavedSound, TransferIInv
<1>4. PartialSound' BY <1>1, <1>2, LaterOne DEF PartialSound, Working, Unvalidated, TransferIInv
<1>5. BodySound' 
  <2>1. xfer.pc = "body" => /\ xfer.body \in 1 .. remote'
                            /\ saved.validator < remote' /\ xfer.validator < remote'
    BY <1>1, <1>2 DEF TransferIInv, BodySound
  <2> QED BY <1>1, <2>1 DEF TransferIInv, BodySound, Unvalidated, Bytes
<1>6. RangeSound' /\ KeepSound' /\ EndSound' BY <1>1 DEF TransferIInv, RangeSound, KeepSound, EndSound, Bytes
<1>7. KnownSound' BY <1>1, <1>2 DEF KnownSound
<1>8. TransferTyped' BY <1>1, <1>2 DEF TransferIInv, TransferTyped
<1> QED BY <1>3, <1>4, <1>5, <1>6, <1>7, <1>8 DEF TransferIInv

LEMMA LosePowerSound == ASSUME TransferIInv, LosePower PROVE TransferIInv'
<1>1. PICK n \in synced .. Bytes : partial' = SubSeq(partial, 1, n) /\ synced' = n BY DEF LosePower
<1>2. remote' = remote /\ saved' = saved /\ xfer' = NoCall BY DEF LosePower, Transfer
<1>3. partial \in Seq(Nat) /\ synced \in 0 .. Len(partial) /\ remote \in Nat /\ saved \in Checkpoints
  BY DEF TransferIInv, TransferTyped
<1>4. n \in 0 .. Len(partial) BY <1>3 DEF Bytes
<1>5. partial' \in Seq(Nat) /\ Len(partial') = n BY <1>1, <1>3, <1>4, PrefixFacts
<1>6. SavedSound' BY <1>1, <1>2, <1>3, <1>4, PrefixOne DEF TransferIInv, SavedSound
<1>7. FileSound' BY <1>1, <1>2, <1>3, <1>4, <1>5, <1>6 DEF FileSound
<1> QED BY <1>2, <1>7, ReturnedSound

LEMMA TransferInitially == TransferInit => TransferIInv
<1> HAVE TransferInit
<1>1. /\ remote = 1 /\ partial = <<>> /\ synced = 0 /\ saved = NoCheckpoint /\ xfer = NoCall
  BY DEF TransferInit
<1>2. /\ NoCall \in Calls /\ NoCall.pc = "idle" /\ NoCall.kind = "stream" /\ NoCall.keep = FALSE /\ NoCall.validator = 0
  BY DEF NoCall, Calls, TransferPlaces, Unknown
<1>3. KeepSound BY <1>1, <1>2 DEF KeepSound
<1>4. TransferTyped BY <1>1, <1>2, NoCheckpointType, TransferAssumption DEF TransferTyped
<1> QED BY <1>1, <1>2, <1>3, <1>4
  DEF TransferIInv, SavedSound, PartialSound, Working, RangeSound, KnownSound, BodySound, EndSound

LEMMA TransferStep == TransferIInv /\ [TransferNext]_transferVars => TransferIInv'
<1> HAVE TransferIInv /\ [TransferNext]_transferVars
<1>1. CASE UNCHANGED transferVars
  BY <1>1 DEF transferVars, TransferIInv, TransferTyped, SavedSound, PartialSound, RangeSound, KeepSound, KnownSound,
              BodySound, EndSound, Working, Unvalidated, Bytes
<1>2. CASE TransferNext
  BY <1>2, BeginSound, ProbeSound, OpenPartialSound, NextRangeSound, RequestFailsSound, PartSound, WholeSound,
     ReadSound, BodyEndsSound, BodyFailsSound, GiveUpSound, FinishSound, PublishFileSound, RemoveCheckpointSound,
     CancelSound, ResourceChangesSound, LosePowerSound
  DEF TransferNext
<1> QED BY <1>1, <1>2

(* Only publish() touches the published file, and its file is of one version *)
(* and complete.                                                             *)
LEMMA OnlyPublish == ASSUME TransferNext, target' # target PROVE PublishFile
BY Zenon DEF TransferNext, Begin, Probe, OpenPartial, NextRange, RequestFails, Partial, Whole, Read, BodyEnds, BodyFails,
   GiveUp, Finish, RemoveCheckpoint, CancelTransfer, ResourceChanges, LosePower

(* A file is published whole and of one version of the resource, however     *)
(* often the transfer was resumed, began again, was lost or the resource     *)
(* replaced (publish() after DownloadFile::open, stream and chunks), except  *)
(* in chunks without a validator.                                            *)
THEOREM TransferPublishesWhole == TransferSpec => PublishedWhole
<1> DEFINE ItIsWhole == target' # target =>
             \/ \E v \in 1 .. MaxVersion : target' = [i \in 1 .. Blocks |-> v]
             \/ xfer.kind = "chunked" /\ xfer.validator = Unknown
<1>1. TransferInit => TransferIInv BY TransferInitially
<1>2. TransferIInv /\ [TransferNext]_transferVars => TransferIInv' BY TransferStep
<1>3. TransferIInv /\ [TransferNext]_transferVars => [ItIsWhole]_transferVars
  <2> SUFFICES ASSUME TransferIInv, TransferNext, target' # target, ~Unvalidated
               PROVE  \E v \in 1 .. MaxVersion : target' = [i \in 1 .. Blocks |-> v]
    BY DEF Unvalidated, transferVars
  <2>1. xfer.pc = "publish" /\ target' = partial BY OnlyPublish DEF PublishFile
  <2>2. partial \in Seq(Nat) /\ remote \in 1 .. MaxVersion /\ Len(partial) = Blocks
        /\ OneVersion(partial, xfer.validator, remote)
    BY <2>1 DEF TransferIInv, TransferTyped, PartialSound, Working, EndSound, Bytes
  <2>3. PICK v \in 1 .. remote : \A i \in 1 .. Blocks : partial[i] = v BY <2>2 DEF OneVersion
  <2>4. partial = [i \in 1 .. Blocks |-> partial[i]] BY <2>2
  <2>5. v \in 1 .. MaxVersion BY <2>2, TransferAssumption
  <2> QED BY <2>1, <2>3, <2>4, <2>5
<1> QED BY <1>1, <1>2, <1>3, PTL DEF TransferSpec, PublishedWhole
=============================================================================
