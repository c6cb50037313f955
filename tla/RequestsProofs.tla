--------------------------- MODULE RequestsProofs ---------------------------
(***************************************************************************)
(* Proofs about what bounds the life of a request, for all values of the    *)
(* constants: its cancellation (CancellationRegistry), the time its lookups *)
(* may take (ResolutionBudget), the requests it shares with others          *)
(* (Resolver, MetadataLookup), and the number of requests to a resolver     *)
(* (the rate limiter in Resolver); and about the frames and the volume of   *)
(* the USB output (UsbAudio), whose worker is asked in the same way.        *)
(***************************************************************************)
EXTENDS CancellationRegistry, MCLookups, UsbAudio, FiniteSetTheorems, SequenceTheorems, NaturalsInduction,
        WellFoundedInduction, TLAPS

(***************************************************************************)
(* Cancellation.  CancelIInv is inductive; the invariants of the module are  *)
(* its conjuncts, and CancelIsFinal follows from it step by step.            *)
(***************************************************************************)

(* The holders of an id are a finite set, so they can be counted. *)
LEMMA HoldersFinite ==
  ASSUME NEW id \in RequestIds
  PROVE  IsFiniteSet(Holders(id))
<1>1. Holders(id) \subseteq Leases BY DEF Holders
<1> QED BY <1>1, FS_Subset, RegistryAssumption

(* Creating a lease for i adds it to the holders of i and of no other id. *)
LEMMA CreateHolders ==
  ASSUME CancelTypeOK, NEW l \in Leases, NEW i \in RequestIds \cup {EmptyId}, NEW f,
         lease[l] = "none", Create(l, i, f)
  PROVE  \A j \in RequestIds :
           /\ l \notin Holders(j)
           /\ Holders(j)' = IF i = j THEN Holders(j) \cup {l} ELSE Holders(j)
BY DEF CancelTypeOK, Create, Holders

(* A released lease leaves the holders of its id and of no other. *)
LEMMA LeaveHolders ==
  ASSUME CancelTypeOK, NEW l \in Leases, lease[l] = "live",
         \A k \in Leases : k # l => lease'[k] = lease[k] /\ leaseId'[k] = leaseId[k],
         lease'[l] # "live"
  PROVE  \A j \in RequestIds :
           Holders(j)' = IF leaseId[l] = j THEN Holders(j) \ {l} ELSE Holders(j)
BY DEF CancelTypeOK, Holders

(* Adding and removing one lease changes the count by one. *)
LEMMA CountHolders ==
  ASSUME NEW id \in RequestIds, NEW l
  PROVE  /\ Cardinality(Holders(id)) \in Nat
         /\ l \notin Holders(id) =>
              Cardinality(Holders(id) \cup {l}) = Cardinality(Holders(id)) + 1
         /\ l \in Holders(id) =>
              /\ Cardinality(Holders(id) \ {l}) = Cardinality(Holders(id)) - 1
              /\ Cardinality(Holders(id)) > 0
              /\ Cardinality(Holders(id)) = 1 => Holders(id) \ {l} = {}
<1>1. IsFiniteSet(Holders(id)) BY HoldersFinite
<1>2. Cardinality(Holders(id)) \in Nat BY <1>1, FS_CardinalityType
<1>3. l \notin Holders(id) =>
        Cardinality(Holders(id) \cup {l}) = Cardinality(Holders(id)) + 1
  BY <1>1, FS_AddElement
<1>4. ASSUME l \in Holders(id)
      PROVE  /\ Cardinality(Holders(id) \ {l}) = Cardinality(Holders(id)) - 1
             /\ Cardinality(Holders(id)) > 0
             /\ Cardinality(Holders(id)) = 1 => Holders(id) \ {l} = {}
  <2>1. IsFiniteSet(Holders(id) \ {l}) BY <1>1, FS_RemoveElement
  <2>2. Cardinality(Holders(id) \ {l}) = Cardinality(Holders(id)) - 1
    BY <1>1, <1>4, FS_RemoveElement
  <2>3. Cardinality(Holders(id) \ {l}) \in Nat BY <2>1, FS_CardinalityType
  <2>4. Cardinality(Holders(id) \ {l}) = 0 => Holders(id) \ {l} = {}
    BY <2>1, FS_EmptySet
  <2> QED BY <1>2, <2>2, <2>3, <2>4
<1> QED BY <1>2, <1>3, <1>4

LEMMA InitIInv == CancelInit => CancelIInv
<1> SUFFICES ASSUME CancelInit PROVE CancelIInv OBVIOUS
<1>1. CancelTypeOK BY RegistryAssumption DEF CancelInit, CancelTypeOK, WaiterState
<1>2. CountsHolders
  <2>1. \A id \in RequestIds : Holders(id) = {} BY DEF CancelInit, Holders
  <2> QED BY <2>1, FS_EmptySet DEF CancelInit, CountsHolders
<1>3. /\ CellsOwned /\ HoldersShareEntry /\ FlagsNotAliased
      /\ UntrackedNeverCancelled /\ IdleEntryIsSentinel
  BY DEF CancelInit, CellsOwned, HoldersShareEntry, FlagsNotAliased, UntrackedNeverCancelled,
         IdleEntryIsSentinel, Present, Holders
<1> QED BY <1>1, <1>2, <1>3 DEF CancelIInv

(* Giving back the reference of a live lease that goes away: the common    *)
(* part of release() and of dropping a live lease.                         *)
LEMMA GiveBackIInv ==
  ASSUME CancelIInv, NEW l \in Leases, lease[l] = "live", GiveBack(leaseId[l]),
         UNCHANGED <<registryClosed, cancelled>>, CancelTypeOK', CellsOwned',
         \A k \in Leases : k # l => /\ lease'[k] = lease[k]
                                    /\ leaseId'[k] = leaseId[k]
                                    /\ leaseFlag'[k] = leaseFlag[k],
         \/ lease'[l] = "none"
         \/ lease'[l] = "released" /\ leaseId'[l] = leaseId[l] /\ leaseFlag'[l] = leaseFlag[l]
  PROVE  CancelIInv'
<1>1. \A j \in RequestIds :
        Holders(j)' = IF leaseId[l] = j THEN Holders(j) \ {l} ELSE Holders(j)
  BY LeaveHolders DEF CancelIInv
<1>2. l \in Holders(leaseId[l]) BY DEF Holders
<1>3. CASE leaseId[l] \notin RequestIds \/ registryClosed
  <2>1. UNCHANGED <<entryFlag, references>>
    BY <1>3 DEF GiveBack, CancelIInv, CellsOwned
  <2>2. CountsHolders' BY <1>1, <1>3, <2>1 DEF CountsHolders, CancelIInv
  <2>3. HoldersShareEntry'
    BY <1>1, <1>3, <2>1 DEF HoldersShareEntry, CancelIInv, Present, Holders
  <2>4. FlagsNotAliased' BY <2>1 DEF FlagsNotAliased, CancelIInv, Present
  <2>5. UntrackedNeverCancelled' BY DEF UntrackedNeverCancelled, CancelIInv
  <2>6. IdleEntryIsSentinel' BY <2>1 DEF IdleEntryIsSentinel, CancelIInv, Present
  <2> QED BY <2>2, <2>3, <2>4, <2>5, <2>6 DEF CancelIInv
<1>4. CASE leaseId[l] \in RequestIds /\ ~registryClosed
  <2> DEFINE id == leaseId[l]
  <2>1. /\ references[id] = Cardinality(Holders(id))
        /\ Present(id)
    BY <1>2, <1>4 DEF CancelIInv, CountsHolders, HoldersShareEntry
  <2>2. /\ references' = [references EXCEPT ![id] = @ - 1]
        /\ entryFlag' = [entryFlag EXCEPT ![id] = IF references[id] = 1 THEN NoFlag ELSE @]
    BY <1>4, <2>1 DEF GiveBack
  <2>3. /\ Cardinality(Holders(id)) \in Nat
        /\ Cardinality(Holders(id) \ {l}) = Cardinality(Holders(id)) - 1
        /\ Cardinality(Holders(id)) > 0
        /\ Cardinality(Holders(id)) = 1 => Holders(id) \ {l} = {}
    BY <1>2, <1>4, CountHolders
  <2> HIDE DEF id
  <2>t. /\ references \in [RequestIds -> Nat] /\ entryFlag \in [RequestIds -> Flags \cup {NoFlag}] /\ id \in RequestIds
    BY <1>4 DEF CancelIInv, CancelTypeOK, id
  <2>h. \A j \in RequestIds : Holders(j)' = IF id = j THEN Holders(j) \ {l} ELSE Holders(j)
    BY <1>1 DEF id
  <2>e. \A j \in RequestIds : entryFlag'[j] = entryFlag[j] \/ entryFlag'[j] = NoFlag
    BY <2>2, <2>t
  <2>4. CountsHolders'
    <3> SUFFICES ASSUME NEW j \in RequestIds PROVE references'[j] = Cardinality(Holders(j)')
      BY DEF CountsHolders, Holders
    <3>1. CASE j = id
      <4>1. references'[j] = Cardinality(Holders(id)) - 1 BY <2>1, <2>2, <2>t, <3>1
      <4>2. Holders(j)' = Holders(id) \ {l} BY <2>h, <3>1
      <4> QED BY <4>1, <4>2, <2>3
    <3>2. CASE j # id
      <4>1. references'[j] = references[j] BY <2>2, <2>t, <3>2
      <4>2. Holders(j)' = Holders(j) BY <2>h, <3>2
      <4> QED BY <1>4, <4>1, <4>2 DEF CancelIInv, CountsHolders
    <3> QED BY <3>1, <3>2
  <2>5. HoldersShareEntry'
    <3> SUFFICES ASSUME NEW j \in RequestIds, NEW k \in Holders(j)'
                 PROVE  Present(j)' /\ leaseFlag'[k] = entryFlag'[j]
      BY DEF HoldersShareEntry
    <3>1. k \in Holders(j) /\ k # l /\ k \in Leases BY <2>h, <1>1 DEF Holders
    <3>2. Present(j) /\ leaseFlag[k] = entryFlag[j]
      BY <1>4, <3>1 DEF CancelIInv, HoldersShareEntry
    <3>3. entryFlag'[j] = entryFlag[j]
      BY <2>1, <2>2, <2>3, <2>t, <3>1
    <3> QED BY <3>1, <3>2, <3>3 DEF Present
  <2>6. FlagsNotAliased'
    <3>1. \A k \in Leases : lease'[k] # "none" => /\ leaseFlag'[k] = leaseFlag[k]
                                                  /\ leaseId'[k] = leaseId[k]
                                                  /\ lease[k] # "none"
                                                  /\ leaseFlag[k] # NoFlag
      BY DEF CancelIInv, CellsOwned
    <3> QED BY <2>e, <3>1 DEF FlagsNotAliased, CancelIInv, Present
  <2>7. UntrackedNeverCancelled' BY DEF UntrackedNeverCancelled, CancelIInv
  <2>8. IdleEntryIsSentinel'
    <3> SUFFICES ASSUME NEW j \in RequestIds, Present(j)', references'[j] = 0
                 PROVE  entryFlag'[j] \in cancelled'
      BY DEF IdleEntryIsSentinel
    <3>1. entryFlag'[j] = entryFlag[j] /\ Present(j) BY <2>e DEF Present
    <3>2. j # id BY <2>1, <2>2, <2>3, <2>t DEF Present
    <3>3. references[j] = 0 BY <2>2, <2>t, <3>2
    <3> QED BY <3>1, <3>3 DEF CancelIInv, IdleEntryIsSentinel
  <2> QED BY <2>4, <2>5, <2>6, <2>7, <2>8 DEF CancelIInv
<1> QED BY <1>3, <1>4

(* Creating a lease with a fresh or the entry's own cell. *)
LEMMA AcquireIInv ==
  ASSUME CancelIInv, NEW l \in Leases, NEW id \in RequestIds, Acquire(l, id)
  PROVE  CancelIInv'
<1>1. PICK f \in Flags :
        /\ EntryOrDefault(id, f)
        /\ entryFlag' = [entryFlag EXCEPT ![id] = f]
        /\ cancelled' = IF Present(id) THEN cancelled ELSE cancelled \ {f}
        /\ Create(l, id, f)
  BY DEF Acquire
<1>2. /\ lease[l] = "none" /\ ~registryClosed /\ registryClosed' = registryClosed /\ waiter' = waiter
      /\ references' = [references EXCEPT ![id] = @ + 1] /\ notifying' = notifying
  BY DEF Acquire
<1>3. \A j \in RequestIds :
        /\ l \notin Holders(j)
        /\ Holders(j)' = IF id = j THEN Holders(j) \cup {l} ELSE Holders(j)
  BY <1>1, <1>2, CreateHolders DEF CancelIInv
<1>4. /\ \A j \in RequestIds : j # id => entryFlag'[j] = entryFlag[j] /\ entryFlag[j] # f
      /\ entryFlag'[id] = f /\ f # NoFlag
      /\ Present(id) => entryFlag[id] = f
  BY <1>1, RegistryAssumption
     DEF EntryOrDefault, Unreferenced, CancelIInv, CancelTypeOK, FlagsNotAliased, Present
<1>5. \A k \in Leases : k # l => /\ lease'[k] = lease[k]
                                 /\ leaseId'[k] = leaseId[k]
                                 /\ leaseFlag'[k] = leaseFlag[k]
                                 /\ ~Present(id) => leaseFlag[k] # f
  BY <1>1 DEF Create, CancelIInv, CancelTypeOK, EntryOrDefault, Unreferenced
<1>6. lease'[l] = "live" /\ leaseId'[l] = id /\ leaseFlag'[l] = f
  BY <1>1 DEF Create, CancelIInv, CancelTypeOK
<1>7. CancelTypeOK' BY <1>1, <1>2 DEF CancelIInv, CancelTypeOK, Create
<1>8. CellsOwned' BY <1>2, <1>4, <1>5, <1>6 DEF CancelIInv, CellsOwned
<1>9. CountsHolders'
  <2> SUFFICES ASSUME NEW j \in RequestIds PROVE references'[j] = Cardinality(Holders(j)')
    BY DEF CountsHolders, Holders
  <2>1. references[j] = Cardinality(Holders(j)) BY <1>2 DEF CancelIInv, CountsHolders
  <2>2. references'[j] = IF j = id THEN references[j] + 1 ELSE references[j]
    BY <1>2 DEF CancelIInv, CancelTypeOK
  <2> QED BY <1>3, <2>1, <2>2, CountHolders
<1>10. HoldersShareEntry'
  <2> SUFFICES ASSUME NEW j \in RequestIds, NEW k \in Holders(j)'
               PROVE  Present(j)' /\ leaseFlag'[k] = entryFlag'[j]
    BY DEF HoldersShareEntry
  <2>1. CASE k = l BY <1>4, <1>6, <2>1 DEF Holders, Present
  <2>2. CASE k # l
    <3>1. k \in Leases /\ k \in Holders(j) BY <1>5, <2>2 DEF Holders
    <3>2. Present(j) /\ leaseFlag[k] = entryFlag[j]
      BY <1>2, <3>1 DEF CancelIInv, HoldersShareEntry
    <3> QED BY <1>4, <1>5, <2>2, <3>1, <3>2 DEF Present
  <2> QED BY <2>1, <2>2
<1>11. FlagsNotAliased'
  <2>1. \A i, j \in RequestIds : Present(i)' /\ entryFlag'[i] = entryFlag'[j] => i = j
    BY <1>4 DEF CancelIInv, FlagsNotAliased, Present
  <2>2. ASSUME NEW k \in Leases, lease'[k] # "none", leaseId'[k] = EmptyId, NEW j \in RequestIds
        PROVE  entryFlag'[j] # leaseFlag'[k]
    <3>1. k # l BY <1>6, <2>2, RegistryAssumption
    <3>2. entryFlag[j] # leaseFlag[k] BY <1>5, <2>2, <3>1 DEF CancelIInv, FlagsNotAliased
    <3> QED BY <1>4, <1>5, <3>1, <3>2
  <2> QED BY <2>1, <2>2 DEF FlagsNotAliased
<1>12. UntrackedNeverCancelled'
  BY <1>1, <1>5, <1>6, RegistryAssumption DEF CancelIInv, UntrackedNeverCancelled
<1>13. IdleEntryIsSentinel'
  <2> SUFFICES ASSUME NEW j \in RequestIds, Present(j)', references'[j] = 0
               PROVE  entryFlag'[j] \in cancelled'
    BY DEF IdleEntryIsSentinel
  <2>1. j # id /\ references[j] = 0 BY <1>2 DEF CancelIInv, CancelTypeOK
  <2>2. entryFlag[j] \in cancelled
    BY <1>4, <2>1 DEF CancelIInv, IdleEntryIsSentinel, Present
  <2> QED BY <1>1, <1>4, <2>1, <2>2
<1> QED BY <1>7, <1>8, <1>9, <1>10, <1>11, <1>12, <1>13 DEF CancelIInv

LEMMA AcquireUntrackedIInv ==
  ASSUME CancelIInv, NEW l \in Leases, AcquireUntracked(l)
  PROVE  CancelIInv'
<1>1. PICK f \in Flags :
        Unreferenced(f) /\ cancelled' = cancelled \ {f} /\ Create(l, EmptyId, f)
  BY DEF AcquireUntracked
<1>2. /\ lease[l] = "none"
      /\ UNCHANGED <<registryClosed, entryFlag, references, waiter, notifying>>
  BY DEF AcquireUntracked
<1>3. \A j \in RequestIds : Holders(j)' = Holders(j)
  BY <1>1, <1>2, CreateHolders, RegistryAssumption DEF CancelIInv
<1>4. /\ \A k \in Leases : k # l => /\ lease'[k] = lease[k]
                                    /\ leaseId'[k] = leaseId[k]
                                    /\ leaseFlag'[k] = leaseFlag[k]
      /\ lease'[l] = "live" /\ leaseId'[l] = EmptyId /\ leaseFlag'[l] = f
      /\ f # NoFlag
  BY <1>1, RegistryAssumption DEF Create, CancelIInv, CancelTypeOK
<1>5. CancelTypeOK' BY <1>1, <1>2 DEF CancelIInv, CancelTypeOK, Create
<1>6. CellsOwned' BY <1>2, <1>4 DEF CancelIInv, CellsOwned, Present
<1>7. CountsHolders' BY <1>2, <1>3 DEF CancelIInv, CountsHolders
<1>8. HoldersShareEntry'
  BY <1>2, <1>3, <1>4, RegistryAssumption DEF CancelIInv, HoldersShareEntry, Present, Holders
<1>9. FlagsNotAliased'
  BY <1>1, <1>2, <1>4 DEF CancelIInv, FlagsNotAliased, Present, Unreferenced
<1>10. UntrackedNeverCancelled' BY <1>1, <1>4 DEF CancelIInv, UntrackedNeverCancelled
<1>11. IdleEntryIsSentinel'
  BY <1>1, <1>2 DEF CancelIInv, IdleEntryIsSentinel, Present, Unreferenced
<1> QED BY <1>5, <1>6, <1>7, <1>8, <1>9, <1>10, <1>11 DEF CancelIInv

LEMMA CancelStepIInv ==
  ASSUME CancelIInv, NEW c \in Callers, NEW id \in RequestIds, Cancel(c, id)
  PROVE  CancelIInv'
<1>1. PICK f \in Flags :
        /\ EntryOrDefault(id, f)
        /\ entryFlag' = [entryFlag EXCEPT ![id] = f]
        /\ cancelled' = cancelled \cup {f}
  BY DEF Cancel
<1>2. ~registryClosed /\ UNCHANGED <<registryClosed, references, lease, leaseId, leaseFlag, waiter>>
  BY DEF Cancel, leases
<1>3. /\ \A j \in RequestIds : j # id => entryFlag'[j] = entryFlag[j] /\ entryFlag[j] # f
      /\ entryFlag'[id] = f /\ f # NoFlag
      /\ Present(id) => entryFlag[id] = f
      /\ ~Present(id) => Unreferenced(f)
  BY <1>1, RegistryAssumption
     DEF EntryOrDefault, Unreferenced, CancelIInv, CancelTypeOK, FlagsNotAliased, Present
<1>4. \A j \in RequestIds : Holders(j)' = Holders(j) BY <1>2 DEF Holders
<1>5. CancelTypeOK' BY <1>1, <1>2 DEF CancelIInv, CancelTypeOK, Cancel, StartNotify
<1>6. CellsOwned' BY <1>2 DEF CancelIInv, CellsOwned
<1>7. CountsHolders' BY <1>2, <1>4 DEF CancelIInv, CountsHolders
<1>8. HoldersShareEntry'
  BY <1>2, <1>3, <1>4 DEF CancelIInv, HoldersShareEntry, Present
<1>9. \A l \in Leases : lease[l] # "none" /\ leaseId[l] = EmptyId => leaseFlag[l] # f
  BY <1>3 DEF CancelIInv, FlagsNotAliased, Unreferenced
<1>10. FlagsNotAliased' BY <1>2, <1>3, <1>9 DEF CancelIInv, FlagsNotAliased, Present
<1>11. UntrackedNeverCancelled' BY <1>1, <1>2, <1>9 DEF CancelIInv, UntrackedNeverCancelled
<1>12. IdleEntryIsSentinel' BY <1>1, <1>2, <1>3 DEF CancelIInv, IdleEntryIsSentinel, Present
<1> QED BY <1>5, <1>6, <1>7, <1>8, <1>10, <1>11, <1>12 DEF CancelIInv

LEMMA CancelActiveIInv ==
  ASSUME CancelIInv, NEW c \in Callers, CancelActive(c)
  PROVE  CancelIInv'
<1>1. /\ ~registryClosed
      /\ cancelled' = cancelled \cup {entryFlag[id] : id \in {i \in RequestIds : references[i] > 0}}
      /\ UNCHANGED <<registryClosed, entryFlag, references, lease, leaseId, leaseFlag, waiter>>
  BY DEF CancelActive, leases
<1>2. \A i \in RequestIds : references[i] > 0 => entryFlag[i] \in Flags
  <2> SUFFICES ASSUME NEW i \in RequestIds, references[i] > 0 PROVE entryFlag[i] \in Flags
    OBVIOUS
  <2>1. Cardinality(Holders(i)) > 0 BY <1>1 DEF CancelIInv, CountsHolders
  <2>2. Holders(i) # {} BY <2>1, FS_EmptySet
  <2> QED BY <1>1, <2>2 DEF CancelIInv, HoldersShareEntry, CancelTypeOK, Present
<1>3. CancelTypeOK' BY <1>1, <1>2 DEF CancelIInv, CancelTypeOK, CancelActive, StartNotify
<1>4. \A j \in RequestIds : Holders(j)' = Holders(j) BY <1>1 DEF Holders
<1>5. CellsOwned' BY <1>1 DEF CancelIInv, CellsOwned, Present
<1>6. CountsHolders' BY <1>1, <1>4 DEF CancelIInv, CountsHolders
<1>7. HoldersShareEntry' BY <1>1, <1>4 DEF CancelIInv, HoldersShareEntry, Present
<1>8. FlagsNotAliased' BY <1>1 DEF CancelIInv, FlagsNotAliased, Present
<1>9. UntrackedNeverCancelled'
  BY <1>1 DEF CancelIInv, FlagsNotAliased, UntrackedNeverCancelled
<1>10. IdleEntryIsSentinel' BY <1>1 DEF CancelIInv, IdleEntryIsSentinel, Present
<1> QED BY <1>3, <1>5, <1>6, <1>7, <1>8, <1>9, <1>10 DEF CancelIInv

LEMMA ResetIfIdleIInv ==
  ASSUME CancelIInv, NEW id \in RequestIds, ResetIfIdle(id)
  PROVE  CancelIInv'
<1>1. /\ ~registryClosed /\ references[id] = 0
      /\ entryFlag' = [entryFlag EXCEPT ![id] = NoFlag]
      /\ UNCHANGED <<registryClosed, references, cancelled, lease, leaseId, leaseFlag, waiter, notifying>>
  BY DEF ResetIfIdle, leases
<1>2. /\ entryFlag'[id] = NoFlag
      /\ \A j \in RequestIds : j # id => entryFlag'[j] = entryFlag[j]
  BY <1>1 DEF CancelIInv, CancelTypeOK
<1>3. Holders(id) = {}
  <2>1. Cardinality(Holders(id)) = 0 BY <1>1 DEF CancelIInv, CountsHolders
  <2> QED BY <2>1, HoldersFinite, FS_EmptySet
<1>4. \A j \in RequestIds : Holders(j)' = Holders(j) BY <1>1 DEF Holders
<1>5. CancelTypeOK' BY <1>1 DEF CancelIInv, CancelTypeOK
<1>6. CellsOwned' BY <1>1 DEF CancelIInv, CellsOwned
<1>7. CountsHolders' BY <1>1, <1>4 DEF CancelIInv, CountsHolders
<1>8. HoldersShareEntry'
  BY <1>1, <1>2, <1>3, <1>4 DEF CancelIInv, HoldersShareEntry, Present
<1>9. FlagsNotAliased'
  BY <1>1, <1>2 DEF CancelIInv, FlagsNotAliased, Present, CellsOwned
<1>10. UntrackedNeverCancelled' BY <1>1 DEF CancelIInv, UntrackedNeverCancelled
<1>11. IdleEntryIsSentinel' BY <1>1, <1>2 DEF CancelIInv, IdleEntryIsSentinel, Present
<1> QED BY <1>5, <1>6, <1>7, <1>8, <1>9, <1>10, <1>11 DEF CancelIInv

LEMMA ShutdownIInv ==
  ASSUME CancelIInv, NEW c \in Callers, ShutdownCancellation(c)
  PROVE  CancelIInv'
<1>1. /\ registryClosed' = TRUE
      /\ \A id \in RequestIds : entryFlag'[id] = NoFlag
      /\ UNCHANGED <<cancelled, lease, leaseId, leaseFlag, waiter>>
  BY DEF ShutdownCancellation, leases
<1>2. CancelTypeOK' BY <1>1 DEF CancelIInv, CancelTypeOK, ShutdownCancellation, StartNotify
<1>3. CellsOwned' BY <1>1 DEF CancelIInv, CellsOwned, Present
<1>4. CountsHolders' /\ HoldersShareEntry' BY <1>1 DEF CountsHolders, HoldersShareEntry
<1>5. FlagsNotAliased' BY <1>1 DEF CancelIInv, FlagsNotAliased, Present, CellsOwned
<1>6. UntrackedNeverCancelled' BY <1>1 DEF CancelIInv, UntrackedNeverCancelled
<1>7. IdleEntryIsSentinel' BY <1>1 DEF IdleEntryIsSentinel, Present
<1> QED BY <1>2, <1>3, <1>4, <1>5, <1>6, <1>7 DEF CancelIInv

LEMMA LeaveIInv ==
  ASSUME CancelIInv, NEW c \in Callers, NEW l \in Leases, Release(c, l) \/ DropLive(c, l)
  PROVE  CancelIInv'
<1>1. /\ lease[l] = "live" /\ GiveBack(leaseId[l]) /\ UNCHANGED <<registryClosed, cancelled, waiter>>
      /\ notifying' = notifying \cup {c}
  BY DEF Release, DropLive, StartNotify
<1>2. /\ \A k \in Leases : k # l => /\ lease'[k] = lease[k]
                                    /\ leaseId'[k] = leaseId[k]
                                    /\ leaseFlag'[k] = leaseFlag[k]
      /\ \/ lease'[l] = "none" /\ leaseFlag'[l] = NoFlag
         \/ lease'[l] = "released" /\ leaseId'[l] = leaseId[l] /\ leaseFlag'[l] = leaseFlag[l]
      /\ lease' \in [Leases -> {"none", "live", "released"}]
      /\ leaseId' \in [Leases -> RequestIds \cup {EmptyId}]
      /\ leaseFlag' \in [Leases -> Flags \cup {NoFlag}]
  BY DEF Release, DropLive, CancelIInv, CancelTypeOK
<1>3. references' \in [RequestIds -> Nat] /\ entryFlag' \in [RequestIds -> Flags \cup {NoFlag}]
  <2>1. CASE leaseId[l] \in RequestIds /\ Present(leaseId[l])
    <3>1. ~registryClosed BY <2>1 DEF CancelIInv, CellsOwned
    <3>2. l \in Holders(leaseId[l]) BY <1>1 DEF Holders
    <3>3. references[leaseId[l]] > 0
      BY <2>1, <3>1, <3>2, CountHolders DEF CancelIInv, CountsHolders
    <3> QED BY <1>1, <2>1, <3>3 DEF GiveBack, CancelIInv, CancelTypeOK
  <2>2. CASE ~(leaseId[l] \in RequestIds /\ Present(leaseId[l]))
    BY <1>1, <2>2 DEF GiveBack, CancelIInv, CancelTypeOK
  <2> QED BY <2>1, <2>2
<1>4. CancelTypeOK' BY <1>1, <1>2, <1>3 DEF CancelIInv, CancelTypeOK
<1>5. CellsOwned'
  <2>1. \A id \in RequestIds : ~Present(id) => ~Present(id)'
    BY <1>1 DEF GiveBack, Present, CancelIInv, CancelTypeOK
  <2> QED BY <1>1, <1>2, <2>1 DEF CancelIInv, CellsOwned
<1> QED BY <1>1, <1>2, <1>4, <1>5, GiveBackIInv

LEMMA DropReleasedIInv ==
  ASSUME CancelIInv, NEW l \in Leases, DropReleased(l)
  PROVE  CancelIInv'
<1>1. UNCHANGED <<registryClosed, entryFlag, references, cancelled, waiter, notifying>>
  BY DEF DropReleased, registry
<1>2. /\ lease[l] = "released"
      /\ \A k \in Leases : k # l => /\ lease'[k] = lease[k]
                                    /\ leaseId'[k] = leaseId[k]
                                    /\ leaseFlag'[k] = leaseFlag[k]
      /\ lease'[l] = "none" /\ leaseFlag'[l] = NoFlag
  BY DEF DropReleased, CancelIInv, CancelTypeOK
<1>3. \A j \in RequestIds : Holders(j)' = Holders(j) BY <1>2 DEF Holders
<1>4. CancelTypeOK' BY <1>1 DEF CancelIInv, CancelTypeOK, DropReleased
<1>5. CellsOwned' BY <1>1, <1>2 DEF CancelIInv, CellsOwned, Present
<1>6. CountsHolders' BY <1>1, <1>3 DEF CancelIInv, CountsHolders
<1>7. HoldersShareEntry' BY <1>1, <1>2, <1>3 DEF CancelIInv, HoldersShareEntry, Present, Holders
<1>8. FlagsNotAliased' BY <1>1, <1>2 DEF CancelIInv, FlagsNotAliased, Present
<1>9. UntrackedNeverCancelled' BY <1>1, <1>2 DEF CancelIInv, UntrackedNeverCancelled
<1>10. IdleEntryIsSentinel' BY <1>1 DEF CancelIInv, IdleEntryIsSentinel, Present
<1> QED BY <1>4, <1>5, <1>6, <1>7, <1>8, <1>9, <1>10 DEF CancelIInv

(* The steps of the waiters and of notify() touch neither the registry nor *)
(* the leases.                                                             *)
LEMMA FrameIInv ==
  ASSUME CancelIInv, UNCHANGED <<registry, leases>>,
         waiter' \in [Leases -> WaiterState], notifying' \in SUBSET Callers
  PROVE  CancelIInv'
<1>1. \A j \in RequestIds : Holders(j)' = Holders(j) BY DEF Holders, leases
<1>2. CancelTypeOK' BY DEF CancelIInv, CancelTypeOK, registry, leases
<1>3. CountsHolders' BY <1>1 DEF CancelIInv, CountsHolders, registry, leases
<1>4. HoldersShareEntry' BY <1>1 DEF CancelIInv, HoldersShareEntry, Present, registry, leases
<1>5. /\ CellsOwned' /\ FlagsNotAliased' /\ UntrackedNeverCancelled'
      /\ IdleEntryIsSentinel'
  BY DEF CancelIInv, CellsOwned, FlagsNotAliased, UntrackedNeverCancelled,
         IdleEntryIsSentinel, Present, registry, leases
<1> QED BY <1>2, <1>3, <1>4, <1>5 DEF CancelIInv

LEMMA NextIInv == CancelIInv /\ [CancelNext]_cancelVars => CancelIInv'
<1> SUFFICES ASSUME CancelIInv, [CancelNext]_cancelVars PROVE CancelIInv' OBVIOUS
<1>w. waiter \in [Leases -> WaiterState] /\ notifying \in SUBSET Callers
  BY DEF CancelIInv, CancelTypeOK
<1>1. ASSUME NEW l \in Leases, NEW id \in RequestIds, Acquire(l, id) PROVE CancelIInv'
  BY <1>1, AcquireIInv
<1>2. ASSUME NEW l \in Leases, AcquireUntracked(l) PROVE CancelIInv'
  BY <1>2, AcquireUntrackedIInv
<1>3. ASSUME NEW l \in Leases, DropReleased(l) PROVE CancelIInv'
  BY <1>3, DropReleasedIInv
<1>4. ASSUME NEW l \in Leases, WaitBegin(l) \/ WaitCheck(l) \/ WaitTimeout(l) PROVE CancelIInv'
  <2>1. UNCHANGED <<registry, leases, notifying>>
    BY <1>4 DEF WaitBegin, WaitCheck, WaitTimeout
  <2>2. waiter' \in [Leases -> WaiterState]
    BY <1>w, <1>4 DEF WaitBegin, WaitCheck, WaitTimeout, WaiterState
  <2> QED BY <1>w, <2>1, <2>2, FrameIInv
<1>5. ASSUME NEW id \in RequestIds, ResetIfIdle(id) PROVE CancelIInv'
  BY <1>5, ResetIfIdleIInv
<1>6. ASSUME NEW c \in Callers, NEW id \in RequestIds, Cancel(c, id) PROVE CancelIInv'
  BY <1>6, CancelStepIInv
<1>7. ASSUME NEW c \in Callers, CancelActive(c) PROVE CancelIInv'
  BY <1>7, CancelActiveIInv
<1>8. ASSUME NEW c \in Callers, ShutdownCancellation(c) PROVE CancelIInv'
  BY <1>8, ShutdownIInv
<1>9. ASSUME NEW c \in Callers, NEW l \in Leases, Release(c, l) \/ DropLive(c, l)
      PROVE  CancelIInv'
  BY <1>9, LeaveIInv
<1>10. ASSUME NEW c \in Callers, Notify(c) PROVE CancelIInv'
  <2>1. UNCHANGED <<registry, leases>> /\ notifying' \in SUBSET Callers
    BY <1>w, <1>10 DEF Notify
  <2>2. waiter' \in [Leases -> WaiterState] BY <1>w, <1>10 DEF Notify, WaiterState
  <2> QED BY <2>1, <2>2, FrameIInv
<1>11. CASE UNCHANGED cancelVars
  BY <1>w, <1>11, FrameIInv DEF cancelVars, registry, leases
<1> QED BY <1>1, <1>2, <1>3, <1>4, <1>5, <1>6, <1>7, <1>8, <1>9, <1>10, <1>11 DEF CancelNext

(* CancelIInv holds in every reachable state. *)
THEOREM Invariance == CancelSpec => []CancelIInv
BY InitIInv, NextIInv, PTL DEF CancelSpec

(* Type correctness of the registry and its leases. *)
THEOREM TypeCorrect == CancelSpec => []CancelTypeOK
<1>1. CancelIInv => CancelTypeOK BY DEF CancelIInv
<1> QED BY <1>1, Invariance, PTL

(* The reference count of an id is the number of its live leases, so the   *)
(* decrement in release() never underflows.                                *)
THEOREM ReferencesExact == CancelSpec => []CountsHolders
<1>1. CancelIInv => CountsHolders BY DEF CancelIInv
<1> QED BY <1>1, Invariance, PTL

(* cancel(id) reaches every live lease of id, through any history of       *)
(* releases, resets and retries.                                           *)
THEOREM CancelReachesHolders == CancelSpec => []HoldersShareEntry
<1>1. CancelIInv => HoldersShareEntry BY DEF CancelIInv
<1> QED BY <1>1, Invariance, PTL

(* No cancel ever reaches a request with the empty id. *)
THEOREM UntrackedSafe == CancelSpec => []UntrackedNeverCancelled
<1>1. CancelIInv => UntrackedNeverCancelled BY DEF CancelIInv
<1> QED BY <1>1, Invariance, PTL

(* An entry without holders is always a cancellation sentinel. *)
THEOREM SentinelsOnly == CancelSpec => []IdleEntryIsSentinel
<1>1. CancelIInv => IdleEntryIsSentinel BY DEF CancelIInv
<1> QED BY <1>1, Invariance, PTL

(* A cancelled lease stays cancelled for as long as it exists: the only    *)
(* steps that clear a cell allocate it, and then no lease refers to it.    *)
THEOREM CancellationFinal == CancelSpec => CancelIsFinal
<1> DEFINE Step == \A l \in Leases :
       lease[l] # "none" /\ leaseFlag[l] \in cancelled /\ lease'[l] # "none"
         => leaseFlag'[l] \in cancelled'
<1>1. CancelIInv /\ [CancelNext]_cancelVars => [Step]_cancelVars
  <2> SUFFICES ASSUME CancelIInv, CancelNext, NEW k \in Leases, lease[k] # "none",
                      leaseFlag[k] \in cancelled, lease'[k] # "none"
               PROVE  leaseFlag'[k] \in cancelled'
    OBVIOUS
  <2>1. ASSUME NEW l \in Leases, NEW id \in RequestIds, Acquire(l, id)
        PROVE  leaseFlag'[k] \in cancelled'
    BY <2>1 DEF Acquire, Create, EntryOrDefault, Unreferenced, CancelIInv, CancelTypeOK
  <2>2. ASSUME NEW l \in Leases, AcquireUntracked(l) PROVE leaseFlag'[k] \in cancelled'
    BY <2>2 DEF AcquireUntracked, Create, Unreferenced, CancelIInv, CancelTypeOK
  <2>3. ASSUME NEW l \in Leases, DropReleased(l) PROVE leaseFlag'[k] \in cancelled'
    BY <2>3 DEF DropReleased, registry, CancelIInv, CancelTypeOK
  <2>4. ASSUME NEW l \in Leases, WaitBegin(l) \/ WaitCheck(l) \/ WaitTimeout(l)
        PROVE  leaseFlag'[k] \in cancelled'
    BY <2>4 DEF WaitBegin, WaitCheck, WaitTimeout, registry, leases
  <2>5. ASSUME NEW id \in RequestIds, ResetIfIdle(id) PROVE leaseFlag'[k] \in cancelled'
    BY <2>5 DEF ResetIfIdle, leases
  <2>6. ASSUME NEW c \in Callers, NEW id \in RequestIds, Cancel(c, id)
        PROVE  leaseFlag'[k] \in cancelled'
    BY <2>6 DEF Cancel, leases
  <2>7. ASSUME NEW c \in Callers, CancelActive(c) \/ ShutdownCancellation(c) \/ Notify(c)
        PROVE  leaseFlag'[k] \in cancelled'
    BY <2>7 DEF CancelActive, ShutdownCancellation, Notify, registry, leases
  <2>8. ASSUME NEW c \in Callers, NEW l \in Leases, Release(c, l) \/ DropLive(c, l)
        PROVE  leaseFlag'[k] \in cancelled'
    BY <2>8 DEF Release, DropLive, CancelIInv, CancelTypeOK
  <2> QED BY <2>1, <2>2, <2>3, <2>4, <2>5, <2>6, <2>7, <2>8 DEF CancelNext
<1> QED BY <1>1, Invariance, PTL DEF CancelSpec, CancelIsFinal

(***************************************************************************)
(* The budget.  TypeOK and BudgetExact together are inductive: the counters *)
(* say whether the current period counts.                                   *)
(***************************************************************************)

BudgetIInv == TypeOK /\ BudgetExact

(* The guards of a kind can be counted. *)
LEMMA HoldingCount ==
  ASSUME NEW kind
  PROVE  /\ IsFiniteSet(Holding(kind))
         /\ Cardinality(Holding(kind)) \in Nat
         /\ Cardinality(Holding(kind)) = 0 <=> Holding(kind) = {}
<1>1. Holding(kind) \subseteq Guards BY DEF Holding
<1>2. IsFiniteSet(Holding(kind)) BY <1>1, FS_Subset, BudgetAssumption
<1> QED BY <1>2, FS_CardinalityType, FS_EmptySet

(* The counters say whether time counts. *)
LEMMA CountersDecide ==
  ASSUME TypeOK
  PROVE  /\ Counts <=> (pauses = 0 \/ charges > 0)
         /\ pauses \in Nat /\ charges \in Nat
<1>1. /\ pauses \in Nat /\ charges \in Nat
      /\ pauses = 0 <=> Holding("pause") = {}
      /\ charges = 0 <=> Holding("charge") = {}
  BY HoldingCount DEF TypeOK
<1> QED BY <1>1 DEF Counts

(* What remains is a time between zero and what was settled last. *)
LEMMA RemainingType ==
  ASSUME TypeOK
  PROVE  Remaining \in 0 .. remaining /\ Remaining \in 0 .. Allowance
BY CountersDecide, BudgetAssumption DEF TypeOK, Remaining, Monus

(* Settling changes nothing, whatever the counters become. *)
LEMMA SettleKeeps ==
  ASSUME TypeOK, Settle, now' = now, pauses' \in Nat, charges' \in Nat
  PROVE  Remaining' = Remaining /\ remaining' \in 0 .. Allowance /\ started' \in 0 .. now'
<1>1. remaining' = Remaining /\ started' = now /\ now \in Nat BY DEF Settle, TypeOK
<1>2. Remaining \in 0 .. Allowance BY RemainingType
<1>3. Remaining' = IF pauses' = 0 \/ charges' > 0
                   THEN Monus(remaining', now' - started') ELSE remaining'
  BY DEF Remaining, Monus
<1>4. Monus(remaining', now' - started') = remaining' BY <1>1, <1>2, BudgetAssumption DEF Monus
<1> QED BY <1>1, <1>2, <1>3, <1>4

LEMMA BudgetInitIInv == Init => BudgetIInv
<1> SUFFICES ASSUME Init PROVE BudgetIInv OBVIOUS
<1>1. Holding("pause") = {} /\ Holding("charge") = {} BY DEF Init, Holding
<1>2. TypeOK BY <1>1, FS_EmptySet, BudgetAssumption DEF Init, TypeOK
<1>3. BudgetExact BY BudgetAssumption DEF Init, BudgetExact, Remaining, Monus
<1> QED BY <1>2, <1>3 DEF BudgetIInv

(* A guard enters one set and leaves no other. *)
LEMMA BudgetEnterIInv ==
  ASSUME BudgetIInv, NEW g \in Guards, NEW kind \in {"pause", "charge"}, Enter(g, kind)
  PROVE  BudgetIInv' /\ Remaining' = Remaining
<1>1. TypeOK BY DEF BudgetIInv
<1>2. \A k \in {"pause", "charge"} :
        /\ g \notin Holding(k)
        /\ Holding(k)' = IF k = kind THEN Holding(k) \cup {g} ELSE Holding(k)
  BY <1>1 DEF Enter, Holding, TypeOK
<1>3. \A k \in {"pause", "charge"} :
        Cardinality(Holding(k)') = IF k = kind THEN Cardinality(Holding(k)) + 1
                                               ELSE Cardinality(Holding(k))
  BY <1>2, HoldingCount, FS_AddElement
<1>4. pauses' = Cardinality(Holding("pause")') /\ charges' = Cardinality(Holding("charge")')
  BY <1>1, <1>3 DEF Enter, TypeOK
<1>5. pauses' \in Nat /\ charges' \in Nat BY <1>1, CountersDecide DEF Enter
<1>6. Remaining' = Remaining /\ remaining' \in 0 .. Allowance /\ started' \in 0 .. now'
  BY <1>1, <1>5, SettleKeeps DEF Enter
<1>7. TypeOK' BY <1>1, <1>4, <1>6 DEF Enter, TypeOK
<1>8. BudgetExact' BY <1>6 DEF BudgetIInv, BudgetExact, Enter, Monus
<1> QED BY <1>6, <1>7, <1>8 DEF BudgetIInv

LEMMA BudgetLeaveIInv ==
  ASSUME BudgetIInv, NEW g \in Guards, Leave(g)
  PROVE  BudgetIInv' /\ Remaining' = Remaining
<1>1. TypeOK BY DEF BudgetIInv
<1>2. \A k \in {"pause", "charge"} :
        Holding(k)' = IF k = guard[g] THEN Holding(k) \ {g} ELSE Holding(k)
  BY <1>1 DEF Leave, Holding, TypeOK
<1>3. \A k \in {"pause", "charge"} : k = guard[g] => g \in Holding(k) BY DEF Holding
<1>4. \A k \in {"pause", "charge"} :
        Cardinality(Holding(k)') = IF k = guard[g] THEN Cardinality(Holding(k)) - 1
                                                   ELSE Cardinality(Holding(k))
  BY <1>2, <1>3, HoldingCount, FS_RemoveElement
<1>5. pauses' = Cardinality(Holding("pause")') /\ charges' = Cardinality(Holding("charge")')
  BY <1>1, <1>4 DEF Leave, TypeOK
<1>6. pauses' \in Nat /\ charges' \in Nat
  <2>1. /\ IsFiniteSet(Holding("pause")') /\ IsFiniteSet(Holding("charge")')
    BY <1>2, HoldingCount, FS_Subset
  <2> QED BY <2>1, <1>5, FS_CardinalityType
<1>7. Remaining' = Remaining /\ remaining' \in 0 .. Allowance /\ started' \in 0 .. now'
  BY <1>1, <1>6, SettleKeeps DEF Leave
<1>8. TypeOK' BY <1>1, <1>5, <1>7 DEF Leave, TypeOK
<1>9. BudgetExact' BY <1>7 DEF BudgetIInv, BudgetExact, Leave, Monus
<1> QED BY <1>7, <1>8, <1>9 DEF BudgetIInv

(* A tick is charged exactly when the counters say so. *)
LEMMA BudgetTickIInv ==
  ASSUME BudgetIInv, Tick
  PROVE  BudgetIInv' /\ Remaining' <= Remaining
<1>1. TypeOK /\ BudgetExact BY DEF BudgetIInv
<1>2. Holding("pause")' = Holding("pause") /\ Holding("charge")' = Holding("charge")
  BY DEF Tick, Holding
<1>3. TypeOK' BY <1>1, <1>2, BudgetAssumption DEF Tick, TypeOK
<1>4. /\ Counts <=> (pauses = 0 \/ charges > 0)
      /\ pauses \in Nat /\ charges \in Nat
  BY <1>1, CountersDecide
<1>5. /\ remaining \in Nat /\ now \in Nat /\ started \in 0 .. now /\ used \in Nat
      /\ Allowance \in Nat /\ now' = now + 1
      /\ UNCHANGED <<remaining, started, pauses, charges>>
  BY <1>1, BudgetAssumption DEF Tick, TypeOK
<1>6. CASE Counts
  <2>1. used' = used + 1 /\ (pauses = 0 \/ charges > 0) BY <1>4, <1>6 DEF Tick
  <2>2. Monus(remaining, now - started) = Monus(Allowance, used)
    BY <1>1, <2>1 DEF BudgetExact, Remaining
  <2>3. Monus(remaining, now + 1 - started) = Monus(Allowance, used + 1)
    BY <1>5, <2>2 DEF Monus
  <2>4. Remaining' = Monus(remaining, now + 1 - started) BY <1>5, <2>1 DEF Remaining, Monus
  <2>5. BudgetExact' BY <2>1, <2>3, <2>4 DEF BudgetExact, Monus
  <2>6. Remaining' <= Remaining BY <1>5, <2>1, <2>4 DEF Remaining, Monus
  <2> QED BY <1>3, <2>5, <2>6 DEF BudgetIInv
<1>7. CASE ~Counts
  <2>1. used' = used /\ ~(pauses = 0 \/ charges > 0) BY <1>4, <1>7 DEF Tick
  <2>2. Remaining' = Remaining BY <1>5, <2>1 DEF Remaining
  <2>3. BudgetExact' BY <1>1, <2>1, <2>2 DEF BudgetExact, Monus
  <2>4. Remaining \in Nat BY <1>1, RemainingType, <1>5
  <2> QED BY <1>3, <2>2, <2>3, <2>4 DEF BudgetIInv
<1> QED BY <1>6, <1>7

LEMMA BudgetNextIInv == BudgetIInv /\ [Next]_vars => BudgetIInv' /\ Remaining' <= Remaining
<1> SUFFICES ASSUME BudgetIInv, [Next]_vars PROVE BudgetIInv' /\ Remaining' <= Remaining OBVIOUS
<1>0. Remaining \in Nat BY RemainingType, BudgetAssumption DEF BudgetIInv
<1>1. CASE Tick BY <1>1, BudgetTickIInv
<1>2. ASSUME NEW g \in Guards, Leave(g) PROVE BudgetIInv' /\ Remaining' <= Remaining
  BY <1>0, <1>2, BudgetLeaveIInv
<1>3. ASSUME NEW g \in Guards, NEW kind \in {"pause", "charge"}, Enter(g, kind)
      PROVE  BudgetIInv' /\ Remaining' <= Remaining
  BY <1>0, <1>3, BudgetEnterIInv
<1>4. CASE UNCHANGED vars
  <2>1. Remaining' = Remaining BY <1>4 DEF vars, Remaining, Monus
  <2>2. Holding("pause")' = Holding("pause") /\ Holding("charge")' = Holding("charge")
    BY <1>4 DEF vars, Holding
  <2>3. TypeOK' BY <1>4, <2>2 DEF vars, BudgetIInv, TypeOK
  <2>4. BudgetExact' BY <1>4, <2>1 DEF vars, BudgetIInv, BudgetExact, Monus
  <2> QED BY <1>0, <2>1, <2>3, <2>4 DEF BudgetIInv
<1> QED BY <1>1, <1>2, <1>3, <1>4 DEF Next

(* BudgetIInv holds in every reachable state. *)
THEOREM BudgetInvariance == Spec => []BudgetIInv
BY BudgetInitIInv, BudgetNextIInv, PTL DEF Spec

(* The counters of the budget are its guards, so no drop goes below zero.   *)
THEOREM BudgetTyped == Spec => []TypeOK
<1>1. BudgetIInv => TypeOK BY DEF BudgetIInv
<1> QED BY <1>1, BudgetInvariance, PTL

(* remaining() is the allowance less the time that counted.                 *)
THEOREM BudgetIsExact == Spec => []BudgetExact
<1>1. BudgetIInv => BudgetExact BY DEF BudgetIInv
<1> QED BY <1>1, BudgetInvariance, PTL

(* An exhausted budget stays exhausted: what remains never grows.           *)
THEOREM ExhaustionTerminal == Spec => NeverRefilled
<1>1. BudgetIInv /\ [Next]_vars => [Remaining' <= Remaining]_vars BY BudgetNextIInv
<1>2. NeverRefilled <=> [][Remaining' <= Remaining]_vars BY DEF NeverRefilled
<1> QED BY <1>1, <1>2, BudgetInvariance, PTL DEF Spec
-----------------------------------------------------------------------------
(***************************************************************************)
(* The rate limiter.  Its queue is the end of the list of all requests that *)
(* were let through, and the requests before it have left the window.       *)
(***************************************************************************)

RateIInv ==
  /\ clock \in Nat /\ timestamps \in Seq(Nat) /\ admitted \in Seq(Nat)
  /\ Len(timestamps) <= Len(admitted)
  /\ \A i \in 1 .. Len(timestamps) :
       timestamps[i] = admitted[Len(admitted) - Len(timestamps) + i]
  /\ \A i \in 1 .. Len(admitted) : admitted[i] <= clock
  /\ \A i \in 1 .. Len(admitted) - Len(timestamps) : Expired(admitted[i])
  /\ WindowRespected

LEMMA RateInitIInv == RateInit => RateIInv
BY RateAssumption DEF RateInit, RateIInv, WindowRespected, Expired

(* What is left of the queue is still the end of the list.                  *)
LEMMA PoppedRest ==
  ASSUME RateIInv, NEW n \in 0 .. Len(timestamps), Popped(n), NEW recent,
         recent = SubSeq(timestamps, n + 1, Len(timestamps))
  PROVE  /\ recent \in Seq(Nat) /\ Len(recent) = Len(timestamps) - n
         /\ Len(recent) \in Nat /\ Len(admitted) \in Nat /\ Len(recent) <= Len(admitted)
         /\ \A i \in 1 .. Len(recent) : recent[i] = admitted[Len(admitted) - Len(recent) + i]
         /\ \A i \in 1 .. Len(admitted) - Len(recent) : Expired(admitted[i])
<1>1. /\ timestamps \in Seq(Nat) /\ Len(timestamps) \in Nat
      /\ admitted \in Seq(Nat) /\ Len(admitted) \in Nat /\ Len(timestamps) <= Len(admitted)
  BY LenProperties DEF RateIInv
<1>2. /\ recent \in Seq(Nat) /\ Len(recent) = Len(timestamps) - n
      /\ \A i \in 1 .. Len(recent) : recent[i] = timestamps[n + i]
  <2>1. ASSUME NEW i \in n + 1 .. Len(timestamps) PROVE timestamps[i] \in Nat
    <3>1. i \in 1 .. Len(timestamps) BY <1>1
    <3> QED BY <1>1, <3>1, ElementOfSeq
  <2>2. n + 1 \in 1 .. Len(timestamps) + 1 /\ Len(timestamps) \in n + 1 - 1 .. Len(timestamps)
    BY <1>1
  <2> QED BY <1>1, <2>1, <2>2, SubSeqProperties
<1>3. ASSUME NEW i \in 1 .. Len(recent)
      PROVE  recent[i] = admitted[Len(admitted) - Len(recent) + i]
  <2>1. n + i \in 1 .. Len(timestamps) BY <1>1, <1>2
  <2>2. recent[i] = timestamps[n + i] BY <1>2
  <2>3. timestamps[n + i] = admitted[Len(admitted) - Len(timestamps) + (n + i)]
    BY <2>1 DEF RateIInv
  <2>4. Len(admitted) - Len(timestamps) + (n + i) = Len(admitted) - Len(recent) + i
    BY <1>1, <1>2
  <2> QED BY <2>2, <2>3, <2>4
<1>4. ASSUME NEW i \in 1 .. Len(admitted) - Len(recent) PROVE Expired(admitted[i])
  <2>1. CASE i <= Len(admitted) - Len(timestamps) BY <1>1, <2>1 DEF RateIInv
  <2>2. CASE i > Len(admitted) - Len(timestamps)
    <3> DEFINE j == i - (Len(admitted) - Len(timestamps))
    <3>1. j \in 1 .. n /\ j \in 1 .. Len(timestamps) /\ i = Len(admitted) - Len(timestamps) + j
      <4>1. \A a, b, c \in Nat : \A k \in 0 .. b : \A x \in 1 .. a - c :
              c = b - k /\ x > a - b =>
                x - (a - b) \in 1 .. k /\ x - (a - b) \in 1 .. b /\ x = a - b + (x - (a - b))
        OBVIOUS
      <4>2. Len(recent) \in Nat BY <1>2, LenProperties
      <4> QED BY <1>1, <1>2, <2>2, <4>1, <4>2, SMTT(30)
    <3>2. timestamps[j] = admitted[i] BY <3>1 DEF RateIInv
    <3> QED BY <3>1, <3>2 DEF Popped
  <2> QED BY <1>1, <2>1, <2>2
<1>5. Len(recent) \in Nat /\ Len(recent) <= Len(admitted) BY <1>1, <1>2
<1> QED BY <1>1, <1>2, <1>3, <1>4, <1>5

LEMMA WaitTurnIInv ==
  ASSUME RateIInv, NEW t \in Requesters, WaitTurn(t)
  PROVE  RateIInv'
<1>1. PICK n \in 0 .. Len(timestamps) :
        /\ Popped(n)
        /\ LET recent == SubSeq(timestamps, n + 1, Len(timestamps)) IN
           IF Len(recent) < Maximum
           THEN timestamps' = Append(recent, clock) /\ admitted' = Append(admitted, clock)
           ELSE timestamps' = recent /\ admitted' = admitted
  BY DEF WaitTurn
<1>2. PICK recent : recent = SubSeq(timestamps, n + 1, Len(timestamps)) OBVIOUS
<1>3. /\ recent \in Seq(Nat) /\ Len(recent) \in Nat /\ Len(admitted) \in Nat
      /\ Len(recent) <= Len(admitted)
      /\ \A i \in 1 .. Len(recent) : recent[i] = admitted[Len(admitted) - Len(recent) + i]
      /\ \A i \in 1 .. Len(admitted) - Len(recent) : Expired(admitted[i])
  BY <1>1, <1>2, PoppedRest, ZenonT(60)
<1>4. clock' = clock /\ clock \in Nat /\ admitted \in Seq(Nat) BY DEF WaitTurn, RateIInv
<1>5. CASE Len(recent) >= Maximum
  <2>1. timestamps' = recent /\ admitted' = admitted
    BY <1>1, <1>2, <1>3, <1>5, RateAssumption
  <2> QED BY <1>3, <1>4, <2>1 DEF RateIInv, Expired, WindowRespected
<1>6. CASE Len(recent) < Maximum
  <2>1. timestamps' = Append(recent, clock) /\ admitted' = Append(admitted, clock)
    BY <1>1, <1>2, <1>6
  <2>2. /\ timestamps' \in Seq(Nat) /\ Len(timestamps') = Len(recent) + 1
        /\ timestamps'[Len(recent) + 1] = clock
        /\ \A i \in 1 .. Len(recent) : timestamps'[i] = recent[i]
    BY <1>3, <1>4, <2>1, AppendProperties
  <2>3. /\ admitted' \in Seq(Nat) /\ Len(admitted') = Len(admitted) + 1
        /\ admitted'[Len(admitted) + 1] = clock
        /\ \A i \in 1 .. Len(admitted) : admitted'[i] = admitted[i]
    BY <1>4, <2>1, AppendProperties
  <2>4. ASSUME NEW i \in 1 .. Len(timestamps')
        PROVE  timestamps'[i] = admitted'[Len(admitted') - Len(timestamps') + i]
    <3>1. Len(admitted') - Len(timestamps') + i = Len(admitted) - Len(recent) + i
      BY <1>3, <2>2, <2>3
    <3>2. CASE i = Len(recent) + 1
      <4>1. Len(admitted) - Len(recent) + i = Len(admitted) + 1 BY <1>3, <3>2
      <4> QED BY <2>2, <2>3, <3>1, <3>2, <4>1
    <3>3. CASE i \in 1 .. Len(recent)
      <4>1. Len(admitted) - Len(recent) + i \in 1 .. Len(admitted) BY <1>3, <3>3
      <4> QED BY <1>3, <2>2, <2>3, <3>1, <3>3, <4>1
    <3>4. i = Len(recent) + 1 \/ i \in 1 .. Len(recent) BY <1>3, <2>2
    <3> QED BY <3>2, <3>3, <3>4
  <2>5. ASSUME NEW i \in 1 .. Len(admitted') PROVE admitted'[i] <= clock'
    <3>1. i = Len(admitted) + 1 \/ i \in 1 .. Len(admitted) BY <1>3, <2>3
    <3>2. CASE i \in 1 .. Len(admitted) BY <1>4, <2>3, <3>2 DEF RateIInv
    <3> QED BY <1>4, <2>3, <3>1, <3>2
  <2>6. ASSUME NEW i \in 1 .. Len(admitted') - Len(timestamps')
        PROVE  clock' - admitted'[i] >= Window
    <3>1. i \in 1 .. Len(admitted) /\ i \in 1 .. Len(admitted) - Len(recent)
      BY <1>3, <2>2, <2>3, SMTT(30)
    <3> QED BY <1>3, <1>4, <2>3, <3>1 DEF Expired
  <2>7. ASSUME NEW i \in 1 .. Len(admitted'), i + Maximum <= Len(admitted')
        PROVE  admitted'[i + Maximum] - admitted'[i] >= Window
    <3>0. /\ Maximum \in Nat /\ Maximum >= 1 /\ i \in Nat /\ i >= 1
          /\ i + Maximum <= Len(admitted) + 1 /\ Len(admitted) \in Nat
      BY <1>3, <2>3, <2>7, RateAssumption
    <3>1. /\ i \in 1 .. Len(admitted)
          /\ (i + Maximum = Len(admitted) + 1) \/ (i + Maximum \in 1 .. Len(admitted))
      BY <3>0
    <3>2. CASE i + Maximum \in 1 .. Len(admitted)
      <4>1. i + Maximum <= Len(admitted) BY <1>3, <3>2
      <4>2. admitted[i + Maximum] - admitted[i] >= Window
        BY <3>1, <4>1 DEF RateIInv, WindowRespected
      <4> QED BY <2>3, <3>1, <3>2, <4>2
    <3>3. CASE i + Maximum = Len(admitted) + 1
      <4>1. i \in 1 .. Len(admitted) - Len(recent)
        BY <1>3, <1>6, <3>1, <3>3, RateAssumption
      <4>2. clock - admitted[i] >= Window BY <1>3, <4>1 DEF Expired
      <4>3. admitted'[i + Maximum] = clock /\ admitted'[i] = admitted[i] BY <2>3, <3>1, <3>3
      <4> QED BY <4>2, <4>3
    <3> QED BY <3>1, <3>2, <3>3
  <2> QED BY <1>3, <1>4, <2>2, <2>3, <2>4, <2>5, <2>6, <2>7 DEF RateIInv, Expired, WindowRespected
<1> QED BY <1>3, <1>5, <1>6, RateAssumption

LEMMA RateNextIInv == RateIInv /\ [RateNext]_rateVars => RateIInv'
<1> SUFFICES ASSUME RateIInv, [RateNext]_rateVars PROVE RateIInv'
  OBVIOUS
<1>1. ASSUME RateTick PROVE RateIInv'
  <2>1. clock' = clock + 1 /\ clock \in Nat /\ UNCHANGED <<timestamps, admitted>>
    BY <1>1 DEF RateTick, RateIInv
  <2>2. /\ Len(admitted) \in Nat /\ Len(timestamps) \in Nat
        /\ \A i \in 1 .. Len(admitted) : admitted[i] \in Nat
    BY LenProperties, ElementOfSeq DEF RateIInv
  <2> QED BY <2>1, <2>2, RateAssumption DEF RateIInv, Expired, WindowRespected
<1>2. ASSUME NEW t \in Requesters, GiveUpTurn(t) PROVE RateIInv'
  BY <1>2 DEF GiveUpTurn, RateIInv, Expired, WindowRespected
<1>3. ASSUME UNCHANGED rateVars PROVE RateIInv'
  BY <1>3 DEF rateVars, RateIInv, Expired, WindowRespected
<1> QED BY <1>1, <1>2, <1>3, WaitTurnIInv DEF RateNext

(* However the threads interleave in wait(), and however late they wake up: *)
(* no window of that length sees more requests than the maximum.            *)
THEOREM RateIsLimited == RateSpec => []WindowRespected
<1>1. RateIInv => WindowRespected BY DEF RateIInv
<1> QED BY RateInitIInv, RateNextIInv, <1>1, PTL DEF RateSpec

-----------------------------------------------------------------------------
(***************************************************************************)
(* The shared lookups: who owns a flight of Deezer is the only one that    *)
(* makes its request, a worker of MusicBrainz gives up only when nobody    *)
(* waits for it, and what the availability cache keeps is of its           *)
(* generation.                                                             *)
(***************************************************************************)

(* Deezer's flight belongs to the caller that asks, looks again, stores and  *)
(* ends it; MusicBrainz' worker gives up only when nobody waits.             *)
OwnerPlaces == {"own", "request", "store", "stored"}
AskerFlights == Askers \cup Workers \cup {"none"}
AskPlaces == {"idle", "claim", "own", "request", "store", "stored", "answer", "shared", "again", "end", "mb"}
WorkStates == {"idle", "run", "check", "finish", "done"}
MetaResults == {"none", "ok", "failed", "cancelled", "policy"}
AskerRecord == [pc : AskPlaces, f : AskerFlights, attempt : Nat, result : MetaResults, cancelled : BOOLEAN]
WorkerRecord == [state : WorkStates, attempt : Nat, result : MetaResults]
MetaTyped ==
  /\ asker \in [Askers -> AskerRecord] /\ worker \in [Workers -> WorkerRecord]
  /\ kept \in BOOLEAN /\ mbOpen \in BOOLEAN
  /\ owner \in Askers \cup {"none"} /\ current \in Workers \cup {"none"}
OwnersOnly == \A t \in Askers : asker[t].pc \in OwnerPlaces => owner = t
RequestsNeeded == \A t \in Askers : asker[t].pc = "request" => ~kept
GivenUpAlone == \A w \in Workers : worker[w].result = "cancelled" /\ mbOpen => Waiting(w) = {}
WaitsForWorker == \A t \in Askers : asker[t].pc = "mb" => asker[t].f \in Workers
MetaIInv == MetaTyped /\ WaitsForWorker /\ OwnersOnly /\ RequestsNeeded /\ GivenUpAlone /\ CancelsAlone

LEMMA FlightNames == Askers \subseteq AskerFlights /\ Workers \subseteq AskerFlights /\ "none" \in AskerFlights
BY DEF AskerFlights

LEMMA MetaFields ==
  ASSUME MetaTyped, NEW t \in Askers
  PROVE  /\ asker[t].pc \in AskPlaces /\ asker[t] \in AskerRecord /\ asker[t].f \in AskerFlights /\ asker[t].attempt \in Nat
         /\ asker[t].result \in MetaResults /\ asker[t].cancelled \in BOOLEAN
BY DEF MetaTyped, AskerRecord, AskPlaces

LEMMA SilentRecord == Silent \in AskerRecord /\ Silent.pc = "idle" /\ Silent.result = "none"
BY FlightNames DEF Silent, AskerRecord, AskPlaces, MetaResults

(* One asker moves, and neither starts nor ends a wait for a worker.         *)
LEMMA AskerMoves ==
  ASSUME MetaIInv, NEW t \in Askers, NEW a \in AskerRecord, Say(t, a),
         (asker[t].pc # "mb" /\ a.pc # "mb") \/ (asker[t].pc = "mb" /\ a.pc = "mb" /\ a.f = asker[t].f),
         a.pc \in OwnerPlaces => owner' = t,
         \A u \in Askers : u # t /\ asker[u].pc \in OwnerPlaces => owner' = u,
         a.pc = "request" => ~kept',
         \A u \in Askers : u # t /\ asker[u].pc = "request" => ~kept',
         a.pc = "end" => a.result # "cancelled",
         kept' \in BOOLEAN, owner' \in Askers \cup {"none"}, UNCHANGED <<current, worker, mbOpen>>
  PROVE  MetaIInv'
<1>1. asker' \in [Askers -> AskerRecord] /\ asker'[t] = a /\ \A u \in Askers : u # t => asker'[u] = asker[u]
  BY DEF MetaIInv, MetaTyped, Say
<1>2. \A w \in Workers : Waiting(w)' = Waiting(w) BY <1>1 DEF Waiting
<1>3. MetaTyped' BY <1>1 DEF MetaIInv, MetaTyped
<1>4. OwnersOnly' BY <1>1 DEF OwnersOnly
<1>5. RequestsNeeded' BY <1>1 DEF RequestsNeeded
<1>6. GivenUpAlone' BY <1>2 DEF MetaIInv, GivenUpAlone
<1>7. CancelsAlone' BY <1>1 DEF MetaIInv, CancelsAlone
<1>8. WaitsForWorker' BY <1>1 DEF MetaIInv, WaitsForWorker
<1> QED BY <1>3, <1>4, <1>5, <1>6, <1>7, <1>8 DEF MetaIInv

(* The same where the flight and the cache stay as they are.                 *)
LEMMA AskerMovesAlone ==
  ASSUME MetaIInv, NEW t \in Askers, NEW a \in AskerRecord, Say(t, a), UNCHANGED <<kept, owner, deezerRest>>,
         (asker[t].pc # "mb" /\ a.pc # "mb") \/ (asker[t].pc = "mb" /\ a.pc = "mb" /\ a.f = asker[t].f),
         a.pc \in OwnerPlaces => owner = t, a.pc = "request" => ~kept, a.pc = "end" => a.result # "cancelled"
  PROVE  MetaIInv'
BY AskerMoves DEF deezerRest, MetaIInv, MetaTyped, OwnersOnly, RequestsNeeded

LEMMA CancelAskerSound == ASSUME MetaIInv, NEW t \in Askers, CancelAsker(t) PROVE MetaIInv'
<1> DEFINE a == [asker[t] EXCEPT !.cancelled = TRUE]
<1>1. MetaTyped /\ OwnersOnly /\ RequestsNeeded /\ CancelsAlone BY DEF MetaIInv
<1>2. Say(t, a) /\ UNCHANGED <<kept, owner, deezerRest>> BY DEF CancelAsker, deezerRest
<1>3. a \in AskerRecord /\ a.pc = asker[t].pc /\ a.f = asker[t].f /\ a.result = asker[t].result
  BY <1>1, FlightNames DEF MetaTyped, AskerRecord, AskPlaces
<1> HIDE DEF a
<1> QED BY <1>1, <1>2, <1>3, AskerMovesAlone DEF OwnersOnly, RequestsNeeded, CancelsAlone

LEMMA SilentMoves ==
  ASSUME MetaIInv, NEW t \in Askers, Say(t, Silent), asker[t].pc # "mb", UNCHANGED <<kept, owner, deezerRest>>
  PROVE  MetaIInv'
BY SilentRecord, AskerMovesAlone DEF OwnerPlaces

LEMMA AskSound == ASSUME MetaIInv, NEW t \in Askers, Ask(t) PROVE MetaIInv'
<1>1. MetaTyped /\ asker[t].pc # "mb" /\ UNCHANGED <<kept, owner, deezerRest>> BY DEF MetaIInv, Ask
<1>2. CASE Say(t, Silent) BY <1>1, <1>2, SilentMoves
<1>3. CASE Say(t, [asker[t] EXCEPT !.pc = "claim"])
  <2> DEFINE a == [asker[t] EXCEPT !.pc = "claim"]
  <2>1. a \in AskerRecord /\ a.pc = "claim" BY <1>1, FlightNames DEF MetaTyped, AskerRecord, AskPlaces
  <2> HIDE DEF a
  <2>2. Say(t, a) BY <1>3 DEF a
  <2> QED BY <1>1, <2>1, <2>2, AskerMovesAlone DEF OwnerPlaces
<1> QED BY <1>2, <1>3 DEF Ask

LEMMA ClaimSound == ASSUME MetaIInv, NEW t \in Askers, Claim(t) PROVE MetaIInv'
<1>1. MetaTyped /\ OwnersOnly /\ RequestsNeeded /\ asker[t].pc = "claim" /\ kept' = kept /\ UNCHANGED deezerRest
  BY DEF MetaIInv, Claim
<1>2. CASE Say(t, Silent) /\ UNCHANGED owner BY <1>1, <1>2, SilentMoves
<1>3. CASE owner # "none" /\ Say(t, [asker[t] EXCEPT !.pc = "shared", !.f = owner]) /\ UNCHANGED owner
  <2> DEFINE a == [asker[t] EXCEPT !.pc = "shared", !.f = owner]
  <2>1. a \in AskerRecord /\ a.pc = "shared" BY <1>1, FlightNames DEF MetaTyped, AskerRecord, AskPlaces
  <2>2. Say(t, a) BY <1>3
  <2> HIDE DEF a
  <2> QED BY <1>1, <1>3, <2>1, <2>2, AskerMovesAlone DEF OwnerPlaces
<1>4. CASE owner = "none" /\ owner' = t /\ Say(t, [asker[t] EXCEPT !.pc = "own", !.f = t])
  <2> DEFINE a == [asker[t] EXCEPT !.pc = "own", !.f = t]
  <2>1. a \in AskerRecord /\ a.pc = "own" BY <1>1, FlightNames DEF MetaTyped, AskerRecord, AskPlaces
  <2>2. Say(t, a) BY <1>4
  <2>3. \A u \in Askers : asker[u].pc \notin OwnerPlaces BY <1>1, <1>4, MetadataAssumption DEF OwnersOnly
  <2>4. \A u \in Askers : asker[u].pc # "request" BY <2>3 DEF OwnerPlaces
  <2> HIDE DEF a
  <2> QED BY <1>1, <1>4, <2>1, <2>2, <2>3, <2>4, AskerMoves DEF deezerRest, MetaTyped
<1> QED BY <1>2, <1>3, <1>4 DEF Claim

LEMMA OwnSound == ASSUME MetaIInv, NEW t \in Askers, Own(t) PROVE MetaIInv'
<1>1. /\ MetaTyped /\ OwnersOnly /\ asker[t].pc = "own" /\ UNCHANGED <<kept, owner, deezerRest>>
  BY DEF MetaIInv, Own
<1>2. owner = t BY <1>1 DEF OwnersOnly, OwnerPlaces
<1> DEFINE place == IF kept THEN "store" ELSE "request"
           r == IF kept THEN "ok" ELSE "none"
           a == [asker[t] EXCEPT !.pc = place, !.result = r]
<1>3. place \in {"store", "request"} /\ r \in MetaResults /\ (place = "request" => ~kept) BY DEF MetaResults
<1>4. Say(t, a) BY DEF Own
<1> HIDE DEF place, r
<1>5. a \in AskerRecord /\ a.pc = place BY <1>1, <1>3 DEF MetaTyped, AskerRecord, AskPlaces
<1> HIDE DEF a
<1> QED BY <1>1, <1>2, <1>3, <1>4, <1>5, AskerMovesAlone

LEMMA GetJsonSound == ASSUME MetaIInv, NEW t \in Askers, GetJson(t) PROVE MetaIInv'
<1>1. /\ MetaTyped /\ OwnersOnly /\ RequestsNeeded /\ asker[t].pc = "request" /\ UNCHANGED <<kept, owner, deezerRest>>
  BY DEF MetaIInv, GetJson
<1>2. owner = t /\ ~kept BY <1>1 DEF OwnersOnly, OwnerPlaces, RequestsNeeded
<1>3. ASSUME NEW r \in MetaResults, Say(t, [asker[t] EXCEPT !.pc = "store", !.result = r]) PROVE MetaIInv'
  <2> DEFINE a == [asker[t] EXCEPT !.pc = "store", !.result = r]
  <2>1. a \in AskerRecord /\ a.pc = "store" BY <1>1, FlightNames DEF MetaTyped, AskerRecord, AskPlaces
  <2>2. Say(t, a) BY <1>3
  <2> HIDE DEF a
  <2> QED BY <1>1, <1>2, <2>1, <2>2, AskerMovesAlone
<1>4. CASE Say(t, [asker[t] EXCEPT !.attempt = @ + 1])
  <2> DEFINE a == [asker[t] EXCEPT !.attempt = @ + 1]
  <2>1. a \in AskerRecord /\ a.pc = "request" BY <1>1, FlightNames DEF MetaTyped, AskerRecord, AskPlaces
  <2>2. Say(t, a) BY <1>4
  <2> HIDE DEF a
  <2> QED BY <1>1, <1>2, <2>1, <2>2, AskerMovesAlone
<1>5. \A r \in {"ok", "failed", "cancelled"} : r \in MetaResults BY DEF MetaResults
<1> QED BY <1>3, <1>4, <1>5, Zenon DEF GetJson

LEMMA StoreValueSound == ASSUME MetaIInv, NEW t \in Askers, StoreValue(t) PROVE MetaIInv'
<1> DEFINE r == IF asker[t].result = "ok" /\ asker[t].cancelled THEN "cancelled" ELSE asker[t].result
           a == [asker[t] EXCEPT !.pc = "stored", !.result = r]
<1>1. /\ MetaTyped /\ OwnersOnly /\ RequestsNeeded /\ asker[t].pc = "store" /\ owner' = owner /\ UNCHANGED deezerRest
      /\ kept' = (kept \/ r = "ok") /\ Say(t, a)
  BY Zenon DEF MetaIInv, StoreValue
<1>2. r \in MetaResults /\ kept' \in BOOLEAN BY <1>1, MetaFields DEF MetaResults
<1>3. owner = t BY <1>1 DEF OwnersOnly, OwnerPlaces
<1>4. \A u \in Askers : u # t => asker[u].pc \notin OwnerPlaces BY <1>1, <1>3 DEF OwnersOnly
<1>5. \A u \in Askers : u # t => asker[u].pc # "request" BY <1>4 DEF OwnerPlaces
<1> HIDE DEF r
<1>6. a \in AskerRecord /\ a.pc = "stored" BY <1>1, <1>2, FlightNames DEF MetaTyped, AskerRecord, AskPlaces
<1> HIDE DEF a
<1> QED BY <1>1, <1>2, <1>3, <1>4, <1>5, <1>6, AskerMoves DEF deezerRest, MetaTyped

LEMMA UnclaimSound == ASSUME MetaIInv, NEW t \in Askers, Unclaim(t) PROVE MetaIInv'
<1> DEFINE a == [asker[t] EXCEPT !.pc = "answer"]
<1>1. /\ MetaTyped /\ OwnersOnly /\ RequestsNeeded /\ asker[t].pc = "stored" /\ owner' = "none"
      /\ UNCHANGED deezerRest /\ kept' = kept /\ Say(t, a)
  BY DEF MetaIInv, Unclaim
<1>2. owner = t BY <1>1 DEF OwnersOnly, OwnerPlaces
<1>3. \A u \in Askers : u # t => asker[u].pc \notin OwnerPlaces BY <1>1, <1>2 DEF OwnersOnly
<1>4. \A u \in Askers : u # t => asker[u].pc # "request" BY <1>3 DEF OwnerPlaces
<1>5. a \in AskerRecord /\ a.pc = "answer" BY <1>1, FlightNames DEF MetaTyped, AskerRecord, AskPlaces
<1> HIDE DEF a
<1> QED BY <1>1, <1>2, <1>3, <1>4, <1>5, AskerMoves DEF deezerRest, MetaTyped, OwnerPlaces

(* Every waiter gets the result.                                             *)
LEMMA TellSound == ASSUME MetaIInv, NEW t \in Askers, Tell(t) PROVE MetaIInv'
<1>1. /\ MetaTyped /\ OwnersOnly /\ RequestsNeeded /\ CancelsAlone /\ GivenUpAlone /\ asker[t].pc = "answer"
      /\ UNCHANGED <<kept, owner, deezerRest>>
  BY DEF MetaIInv, Tell
<1> DEFINE told(u) == IF u = t THEN Silent
                      ELSE IF asker[u].pc = "shared" /\ asker[u].f = t /\ asker[u].result = "none"
                      THEN [asker[u] EXCEPT !.result = asker[t].result] ELSE asker[u]
<1>2. asker' = [u \in Askers |-> told(u)] BY DEF Tell
<1>3. \A u \in Askers : told(u) \in AskerRecord /\ (u # t => told(u).pc = asker[u].pc /\ told(u).f = asker[u].f)
                        /\ (u = t => told(u).pc = "idle") /\ (u # t /\ asker[u].pc = "end" => told(u) = asker[u])
  <2> TAKE u \in Askers
  <2>1. CASE u = t BY <2>1, SilentRecord
  <2>2. CASE u # t /\ asker[u].pc = "shared" /\ asker[u].f = t /\ asker[u].result = "none"
    <3>1. told(u) = [asker[u] EXCEPT !.result = asker[t].result] BY <2>2
    <3> QED BY <1>1, <2>2, <3>1 DEF MetaTyped, AskerRecord, AskPlaces
  <2>3. CASE u # t /\ ~(asker[u].pc = "shared" /\ asker[u].f = t /\ asker[u].result = "none")
    <3>1. told(u) = asker[u] BY <2>3
    <3> QED BY <1>1, <2>3, <3>1 DEF MetaTyped
  <2> QED BY <2>1, <2>2, <2>3
<1>4. asker' \in [Askers -> AskerRecord] /\ \A u \in Askers : asker'[u] = told(u) BY <1>2, <1>3
<1> HIDE DEF told
<1>5. \A u \in Askers : (asker'[u].pc = asker[u].pc \/ (u = t /\ asker'[u].pc = "idle"))
                        /\ (u # t => asker'[u].f = asker[u].f)
                        /\ (asker'[u].pc = "end" => asker'[u] = asker[u])
  BY <1>1, <1>3, <1>4
<1>6. \A w \in Workers : Waiting(w)' = Waiting(w) BY <1>1, <1>5 DEF Waiting
<1>7. MetaTyped' BY <1>1, <1>4 DEF MetaTyped, deezerRest
<1>8. OwnersOnly' /\ RequestsNeeded' BY <1>1, <1>5 DEF OwnersOnly, OwnerPlaces, RequestsNeeded
<1>9. GivenUpAlone' BY <1>1, <1>6 DEF GivenUpAlone, deezerRest
<1>10. CancelsAlone' BY <1>1, <1>5 DEF CancelsAlone
<1>11. WaitsForWorker' BY <1>1, <1>5 DEF WaitsForWorker, MetaIInv
<1> QED BY <1>7, <1>8, <1>9, <1>10, <1>11 DEF MetaIInv

LEMMA ToldSound == ASSUME MetaIInv, NEW t \in Askers, Told(t) PROVE MetaIInv'
<1>1. MetaTyped /\ asker[t].pc = "shared" /\ UNCHANGED <<kept, owner, deezerRest>> BY DEF MetaIInv, Told
<1>2. CASE Say(t, Silent) BY <1>1, <1>2, SilentMoves
<1>3. CASE Say(t, [Silent EXCEPT !.pc = "again"])
  <2> DEFINE a == [Silent EXCEPT !.pc = "again"]
  <2>1. a \in AskerRecord /\ a.pc = "again" BY FlightNames DEF Silent, AskerRecord, AskPlaces, MetaResults
  <2>2. Say(t, a) BY <1>3
  <2> HIDE DEF a
  <2> QED BY <1>1, <2>1, <2>2, AskerMovesAlone DEF OwnerPlaces
<1>4. CASE Hear(asker[t].result) /\ Say(t, [Silent EXCEPT !.result = asker[t].result, !.pc = "end"])
  <2> DEFINE a == [Silent EXCEPT !.result = asker[t].result, !.pc = "end"]
  <2>1. asker[t].result \in MetaResults BY <1>1, MetaFields
  <2>2. a \in AskerRecord /\ a.pc = "end" /\ a.result = asker[t].result BY <2>1, FlightNames DEF Silent, AskerRecord, AskPlaces, MetaResults
  <2>3. Say(t, a) BY <1>4
  <2> HIDE DEF a
  <2> QED BY <1>1, <1>4, <2>2, <2>3, AskerMovesAlone DEF OwnerPlaces, Hear
<1> QED BY <1>2, <1>3, <1>4, Zenon DEF Told

LEMMA UseSound == ASSUME MetaIInv, NEW t \in Askers, Use(t) PROVE MetaIInv'
BY SilentMoves DEF Use

LEMMA CleanupSound == ASSUME MetaIInv, Cleanup PROVE MetaIInv'
<1>1. kept' = FALSE /\ UNCHANGED <<owner, asker, found, current, worker, mbOpen>> BY DEF Cleanup, deezerRest
<1> QED BY <1>1 DEF MetaIInv, MetaTyped, OwnersOnly, RequestsNeeded, GivenUpAlone, CancelsAlone, WaitsForWorker, Waiting

LEMMA SpareRecord == Spare \in WorkerRecord /\ Spare.state = "idle" /\ Spare.result = "none"
BY DEF Spare, WorkerRecord, WorkStates, MetaResults

(* A caller begins to wait for a worker that was not given up.               *)
LEMMA WaitBegins ==
  ASSUME MetaIInv, NEW t \in Askers, asker[t].pc = "idle", NEW w \in Workers, NEW x \in WorkerRecord,
         Say(t, [Silent EXCEPT !.pc = "mb", !.f = w]), worker' = [worker EXCEPT ![w] = x], x.result # "cancelled",
         current' \in Workers \cup {"none"}, UNCHANGED <<mbOpen, mbRest>>
  PROVE  MetaIInv'
<1> DEFINE a == [Silent EXCEPT !.pc = "mb", !.f = w]
<1>1. a \in AskerRecord /\ a.pc = "mb" /\ a.f = w BY FlightNames DEF Silent, AskerRecord, AskPlaces, MetaResults
<1>2. Say(t, a) OBVIOUS
<1> HIDE DEF a
<1>3. asker' \in [Askers -> AskerRecord] /\ asker'[t] = a /\ \A u \in Askers : u # t => asker'[u] = asker[u]
  BY <1>1, <1>2 DEF MetaIInv, MetaTyped, Say
<1>4. worker' \in [Workers -> WorkerRecord] /\ worker'[w] = x /\ \A v \in Workers : v # w => worker'[v] = worker[v]
  BY DEF MetaIInv, MetaTyped
<1>5. \A v \in Workers : v # w => Waiting(v)' = Waiting(v) BY <1>1, <1>3 DEF Waiting
<1>6. MetaTyped' BY <1>3, <1>4 DEF MetaIInv, MetaTyped, mbRest
<1>7. WaitsForWorker' BY <1>1, <1>3 DEF MetaIInv, WaitsForWorker
<1>8. OwnersOnly' BY <1>1, <1>3 DEF MetaIInv, OwnersOnly, OwnerPlaces, mbRest
<1>9. RequestsNeeded' BY <1>1, <1>3 DEF MetaIInv, RequestsNeeded, mbRest
<1>10. GivenUpAlone' BY <1>4, <1>5 DEF MetaIInv, GivenUpAlone
<1>11. CancelsAlone' BY <1>1, <1>3 DEF MetaIInv, CancelsAlone
<1> QED BY <1>6, <1>7, <1>8, <1>9, <1>10, <1>11 DEF MetaIInv

LEMMA SnapshotSound == ASSUME MetaIInv, NEW t \in Askers, Snapshot(t) PROVE MetaIInv'
<1>1. /\ MetaTyped /\ GivenUpAlone /\ asker[t].pc = "idle" /\ mbOpen /\ UNCHANGED <<mbOpen, mbRest>>
  BY DEF MetaIInv, Snapshot
<1>2. CASE UNCHANGED <<asker, found, current, worker>>
  BY <1>1, <1>2 DEF MetaIInv, MetaTyped, OwnersOnly, RequestsNeeded, GivenUpAlone, CancelsAlone, WaitsForWorker, Waiting, mbRest
<1>3. CASE /\ current # "none" /\ Joins(current) /\ Say(t, [Silent EXCEPT !.pc = "mb", !.f = current])
           /\ UNCHANGED <<current, worker>>
  <2>1. current \in Workers /\ worker[current] \in WorkerRecord /\ worker' = [worker EXCEPT ![current] = worker[current]]
    BY <1>1, <1>3 DEF MetaTyped
  <2>2. worker[current].result # "cancelled" BY <1>1, <1>3, <2>1 DEF GivenUpAlone, Joins
  <2> QED BY <1>1, <1>3, <2>1, <2>2, WaitBegins
<1>4. ASSUME NEW w \in Workers, NEW x \in {[Spare EXCEPT !.state = "run"], [Spare EXCEPT !.state = "done", !.result = "failed"]},
             worker' = [worker EXCEPT ![w] = x], current' \in {w, "none"}, Say(t, [Silent EXCEPT !.pc = "mb", !.f = w])
      PROVE  MetaIInv'
  <2> DEFINE new == [Spare EXCEPT !.state = "run"]
             none == [Spare EXCEPT !.state = "done", !.result = "failed"]
  <2>1. new \in WorkerRecord /\ new.result = "none" BY DEF Spare, WorkerRecord, WorkStates, MetaResults
  <2>2. none \in WorkerRecord /\ none.result = "failed" BY DEF Spare, WorkerRecord, WorkStates, MetaResults
  <2>3. x = new \/ x = none OBVIOUS
  <2> HIDE DEF new, none
  <2>4. x \in WorkerRecord /\ x.result # "cancelled" BY <2>1, <2>2, <2>3
  <2> QED BY <1>1, <1>4, <2>4, WaitBegins
<1>5. CASE \E w \in Workers :
             /\ worker[w].state = "idle"
             /\ \/ current' = w /\ worker' = [worker EXCEPT ![w] = [Spare EXCEPT !.state = "run"]]
                \/ current' = "none" /\ worker' = [worker EXCEPT ![w] = [Spare EXCEPT !.state = "done", !.result = "failed"]]
             /\ Say(t, [Silent EXCEPT !.pc = "mb", !.f = w])
  <2> PICK w \in Workers :
             /\ \/ current' = w /\ worker' = [worker EXCEPT ![w] = [Spare EXCEPT !.state = "run"]]
                \/ current' = "none" /\ worker' = [worker EXCEPT ![w] = [Spare EXCEPT !.state = "done", !.result = "failed"]]
             /\ Say(t, [Silent EXCEPT !.pc = "mb", !.f = w])
    BY <1>5
  <2> QED BY <1>4
<1> QED BY <1>2, <1>3, <1>5, Zenon DEF Snapshot

(* A worker moves; it gives up only when nobody waits or the client closed.  *)
LEMMA WorkerMoves ==
  ASSUME MetaIInv, NEW w \in Workers, NEW x \in WorkerRecord, worker' = [worker EXCEPT ![w] = x],
         x.result = "cancelled" => Stopped(w) \/ worker[w].result = "cancelled",
         current' \in Workers \cup {"none"}, UNCHANGED <<asker, mbOpen, mbRest>>
  PROVE  MetaIInv'
<1>1. worker' \in [Workers -> WorkerRecord] /\ worker'[w] = x /\ \A v \in Workers : v # w => worker'[v] = worker[v]
  BY DEF MetaIInv, MetaTyped
<1>2. \A v \in Workers : Waiting(v)' = Waiting(v) BY DEF Waiting
<1>3. GivenUpAlone' BY <1>1, <1>2 DEF MetaIInv, GivenUpAlone, Stopped
<1> QED BY <1>1, <1>3 DEF MetaIInv, MetaTyped, WaitsForWorker, OwnersOnly, RequestsNeeded, CancelsAlone, mbRest

LEMMA WorkerFields ==
  ASSUME MetaTyped, NEW w \in Workers
  PROVE  worker[w] \in WorkerRecord /\ worker[w].state \in WorkStates /\ worker[w].attempt \in Nat
         /\ worker[w].result \in MetaResults
BY DEF MetaTyped, WorkerRecord

LEMMA WorkerFetchesSound == ASSUME MetaIInv, NEW w \in Workers, WorkerFetches(w) PROVE MetaIInv'
<1> DEFINE ends(r) == [worker[w] EXCEPT !.state = "check", !.attempt = 0, !.result = r]
           more == [worker[w] EXCEPT !.attempt = @ + 1]
<1>1. MetaTyped /\ UNCHANGED <<asker, mbOpen, mbRest>> /\ current' \in Workers \cup {"none"}
  BY DEF MetaIInv, MetaTyped, WorkerFetches
<1>2. ASSUME NEW r \in {"policy", "cancelled", "ok", "failed"}, r = "cancelled" => Stopped(w),
             worker' = [worker EXCEPT ![w] = ends(r)]
      PROVE  MetaIInv'
  <2>1. ends(r) \in WorkerRecord /\ ends(r).result = r
    BY <1>1, WorkerFields DEF WorkerRecord, WorkStates, MetaResults
  <2> HIDE DEF ends
  <2> QED BY <1>1, <1>2, <2>1, WorkerMoves
<1>3. CASE worker' = [worker EXCEPT ![w] = more]
  <2>1. more \in WorkerRecord /\ more.result = worker[w].result BY <1>1, WorkerFields DEF WorkerRecord
  <2> HIDE DEF more
  <2> QED BY <1>1, <1>3, <2>1, WorkerMoves
<1>4. \/ worker' = [worker EXCEPT ![w] = more]
      \/ \E r \in {"policy", "cancelled", "ok", "failed"} :
           (r = "cancelled" => Stopped(w)) /\ worker' = [worker EXCEPT ![w] = ends(r)]
  <2> HIDE DEF ends, more
  <2>1. PICK x \in {ends("policy")} \cup (IF Stopped(w) THEN {ends("cancelled")} ELSE {ends("ok"), ends("failed")})
                   \cup (IF ~Stopped(w) /\ worker[w].attempt < Attempts - 1 THEN {more} ELSE {}) :
          worker' = [worker EXCEPT ![w] = x]
    BY DEF WorkerFetches, ends, more
  <2>2. \/ x = more \/ x = ends("policy") \/ x = ends("ok") \/ x = ends("failed")
        \/ x = ends("cancelled") /\ Stopped(w)
    OBVIOUS
  <2> QED BY <2>1, <2>2
<1> QED BY <1>2, <1>3, <1>4

LEMMA WorkerRechecksSound == ASSUME MetaIInv, NEW w \in Workers, WorkerRechecks(w) PROVE MetaIInv'
<1> DEFINE r == IF Stopped(w) THEN "cancelled" ELSE worker[w].result
           x == [worker[w] EXCEPT !.state = "finish", !.result = r]
<1>1. MetaTyped /\ UNCHANGED <<asker, mbOpen, mbRest>> /\ current' \in Workers \cup {"none"}
  BY DEF MetaIInv, MetaTyped, WorkerRechecks
<1>2. worker' = [worker EXCEPT ![w] = x] BY <1>1 DEF WorkerRechecks, MetaTyped
<1>3. r \in MetaResults /\ (r = "cancelled" => Stopped(w) \/ worker[w].result = "cancelled")
  BY <1>1, WorkerFields DEF MetaResults
<1> HIDE DEF r
<1>4. x \in WorkerRecord /\ x.result = r BY <1>1, <1>3, WorkerFields DEF WorkerRecord, WorkStates
<1> HIDE DEF x
<1> QED BY <1>1, <1>2, <1>3, <1>4, WorkerMoves

LEMMA WorkerFinishesSound == ASSUME MetaIInv, NEW w \in Workers, WorkerFinishes(w) PROVE MetaIInv'
<1>1. MetaTyped /\ UNCHANGED <<asker, mbOpen, mbRest>> BY DEF MetaIInv, WorkerFinishes
<1>2. current' \in Workers \cup {"none"} BY <1>1 DEF WorkerFinishes, MetaTyped
<1>3. worker' = [worker EXCEPT ![w] = IF Waiting(w) = {} THEN Spare ELSE [worker[w] EXCEPT !.state = "done"]]
  BY DEF WorkerFinishes
<1>4. CASE Waiting(w) = {} BY <1>1, <1>2, <1>3, <1>4, SpareRecord, WorkerMoves
<1>5. CASE Waiting(w) # {}
  <2> DEFINE x == [worker[w] EXCEPT !.state = "done"]
  <2>1. x \in WorkerRecord /\ x.result = worker[w].result BY <1>1, WorkerFields DEF WorkerRecord, WorkStates
  <2>2. worker' = [worker EXCEPT ![w] = x] BY <1>3, <1>5
  <2> HIDE DEF x
  <2> QED BY <1>1, <1>2, <2>1, <2>2, WorkerMoves
<1> QED BY <1>4, <1>5

LEMMA SnapshotReturnsSound == ASSUME MetaIInv, NEW t \in Askers, SnapshotReturns(t) PROVE MetaIInv'
<1> DEFINE w == asker[t].f
<1>1. /\ MetaTyped /\ GivenUpAlone /\ asker[t].pc = "mb" /\ UNCHANGED <<mbOpen, mbRest>> /\ current' = current
      /\ w \in Workers
  BY DEF MetaIInv, SnapshotReturns, WaitsForWorker
<1>2. worker' = [worker EXCEPT ![w] = Spare] \/ worker' = worker BY DEF SnapshotReturns
<1>3. worker' \in [Workers -> WorkerRecord] /\ \A v \in Workers : worker'[v].result \in {worker[v].result, "none"}
  BY <1>1, <1>2, SpareRecord DEF MetaTyped
<1>4. PICK a \in AskerRecord : Say(t, a) /\ a.pc \in {"idle", "end"} /\ (a.pc = "end" => a.result # "cancelled")
  <2>1. CASE asker[t].cancelled \/ ~mbOpen
    <3>1. Say(t, Silent) BY <2>1, Zenon DEF SnapshotReturns
    <3> QED BY <3>1, SilentRecord
  <2>2. CASE ~(asker[t].cancelled \/ ~mbOpen)
    <3> DEFINE a == [Silent EXCEPT !.pc = "end", !.result = worker[w].result]
    <3>1. Say(t, a) BY <2>2, Zenon DEF SnapshotReturns
    <3>2. t \in Waiting(w) BY <1>1 DEF Waiting
    <3>3. worker[w].result # "cancelled" /\ worker[w].result \in MetaResults
      BY <1>1, <2>2, <3>2, WorkerFields DEF GivenUpAlone
    <3>4. a \in AskerRecord /\ a.pc = "end" /\ a.result = worker[w].result
      BY <3>3, FlightNames DEF Silent, AskerRecord, AskPlaces
    <3> QED BY <3>1, <3>3, <3>4
  <2> QED BY <2>1, <2>2
<1>5. asker' \in [Askers -> AskerRecord] /\ asker'[t] = a /\ \A u \in Askers : u # t => asker'[u] = asker[u]
  BY <1>1, <1>4 DEF MetaTyped, Say
<1> HIDE DEF w
<1>6. \A v \in Workers : Waiting(v)' \subseteq Waiting(v) BY <1>4, <1>5 DEF Waiting
<1>7. MetaTyped' BY <1>1, <1>3, <1>5 DEF MetaTyped, mbRest
<1>8. GivenUpAlone' BY <1>1, <1>3, <1>6 DEF GivenUpAlone
<1>9. WaitsForWorker' BY <1>4, <1>5 DEF WaitsForWorker, MetaIInv
<1>10. OwnersOnly' /\ RequestsNeeded' BY <1>1, <1>4, <1>5 DEF MetaIInv, OwnersOnly, OwnerPlaces, RequestsNeeded, mbRest
<1>11. CancelsAlone' BY <1>4, <1>5 DEF MetaIInv, CancelsAlone
<1> QED BY <1>7, <1>8, <1>9, <1>10, <1>11 DEF MetaIInv

LEMMA ShutdownSound == ASSUME MetaIInv, ShutdownMusicBrainz PROVE MetaIInv'
<1>1. (mbOpen' = FALSE \/ UNCHANGED mbOpen) /\ UNCHANGED <<asker, current, worker, kept, owner>>
  BY Zenon DEF ShutdownMusicBrainz, mbRest
<1>2. mbOpen' \in BOOLEAN BY <1>1, Zenon DEF MetaIInv, MetaTyped
<1>3. MetaTyped' BY <1>1, <1>2 DEF MetaIInv, MetaTyped
<1>4. \A w \in Workers : Waiting(w)' = Waiting(w) BY <1>1 DEF Waiting
<1>5. mbOpen' => mbOpen BY <1>1, Zenon
<1>6. GivenUpAlone' BY <1>1, <1>4, <1>5 DEF MetaIInv, GivenUpAlone
<1>7. OwnersOnly' /\ CancelsAlone' /\ WaitsForWorker' BY <1>1 DEF MetaIInv, OwnersOnly, CancelsAlone, WaitsForWorker
<1>8. kept' = kept BY DEF ShutdownMusicBrainz, mbRest
<1>9. RequestsNeeded' BY <1>1, <1>8 DEF MetaIInv, RequestsNeeded
<1> QED BY <1>3, <1>6, <1>7, <1>9 DEF MetaIInv

(* What the availability cache keeps is current at every step.               *)
AvailTyped == available \in [Regions -> [result : {"none", "ok", "failed"}, born : Nat]] /\ cleared \in Nat
LookIInv == AvailTyped /\ CachedIsCurrent

LEMMA EntriesReset ==
  ASSUME LookIInv, NEW last \in Nat, cleared' = last, available' = [r \in Regions |-> NoEntry]
  PROVE  LookIInv'
BY DEF LookIInv, AvailTyped, CachedIsCurrent, NoEntry

LEMMA EntryKept == ASSUME LookIInv, UNCHANGED <<cleared, available>> PROVE LookIInv'
BY DEF LookIInv, AvailTyped, CachedIsCurrent

LEMMA LookupStep == ASSUME LookIInv, LookupNext PROVE LookIInv'
<1>1. ASSUME NEW t \in LookupCallers, Lookup(t) PROVE LookIInv'
  <2>1. cleared' = cleared /\ (UNCHANGED available \/ available' = [available EXCEPT ![region] = NoEntry])
    BY <1>1, Zenon DEF Lookup
  <2>2. CASE available' = [available EXCEPT ![region] = NoEntry]
    BY <2>1, <2>2 DEF LookIInv, AvailTyped, CachedIsCurrent, NoEntry
  <2> QED BY <2>1, <2>2, EntryKept
<1>2. ASSUME NEW f \in Flights, Finish(f) PROVE LookIInv'
  <2>1. cleared' = cleared BY <1>2 DEF Finish
  <2>2. CASE Cache(flight[f])
    <3> DEFINE x == flight[f]
    <3>1. available' = [available EXCEPT ![x.key] = [result |-> x.result, born |-> x.gen]]
      BY <1>2, <2>2 DEF Finish
    <3>2. x.gen = cleared /\ x.result \in {"ok", "failed"} BY <2>2 DEF Cache
    <3> HIDE DEF x
    <3> QED BY <2>1, <3>1, <3>2 DEF LookIInv, AvailTyped, CachedIsCurrent
  <2>3. CASE ~Cache(flight[f]) BY <1>2, <2>1, <2>3, EntryKept DEF Finish
  <2> QED BY <2>2, <2>3
<1>3. CASE ClearCache BY <1>3, EntriesReset DEF ClearCache, LookIInv, AvailTyped
<1>4. CASE DrainLookups BY <1>4, EntriesReset DEF DrainLookups, LookIInv, AvailTyped
<1>5. CASE CloseLookups BY <1>5, EntryKept DEF CloseLookups
<1>6. ASSUME NEW r \in Regions, SetRegion(r) PROVE LookIInv' BY <1>6, EntryKept DEF SetRegion
<1>7. ASSUME NEW t \in LookupCallers, Join(t) \/ Answered(t) \/ CancelLookup(t) PROVE LookIInv'
  BY <1>7, EntryKept DEF Join, Answered, CancelLookup
<1>8. ASSUME NEW f \in Flights, Fetch(f) \/ Fetched(f) \/ Resolve(f) \/ Recheck(f) PROVE LookIInv'
  <2>1. UNCHANGED <<cleared, available>> BY <1>8, Zenon DEF Fetch, Fetched, Resolve, Recheck
  <2> QED BY <2>1, EntryKept
<1> QED BY <1>1, <1>2, <1>3, <1>4, <1>5, <1>6, <1>7, <1>8 DEF LookupNext

LEMMA MetaStep == ASSUME MetaIInv, DeezerNext \/ MusicBrainzNext PROVE MetaIInv'
<1>1. CASE DeezerNext
  BY <1>1, CancelAskerSound, AskSound, ClaimSound, OwnSound, GetJsonSound, StoreValueSound, UnclaimSound, TellSound,
     ToldSound, UseSound, CleanupSound DEF DeezerNext
<1>2. CASE MusicBrainzNext
  BY <1>2, CancelAskerSound, SnapshotSound, SnapshotReturnsSound, UseSound, WorkerFetchesSound, WorkerRechecksSound,
     WorkerFinishesSound, ShutdownSound DEF MusicBrainzNext
<1> QED BY <1>1, <1>2

LEMMA MetaKept == ASSUME MetaIInv, UNCHANGED metaVars PROVE MetaIInv'
BY DEF MetaIInv, MetaTyped, OwnersOnly, RequestsNeeded, GivenUpAlone, CancelsAlone, WaitsForWorker, Waiting, metaVars

LEMMA LookupsInitially == LookupsInit => LookIInv /\ MetaIInv
<1> HAVE LookupsInit
<1>1. LookIInv BY DEF LookupsInit, LookupInit, LookIInv, AvailTyped, CachedIsCurrent, NoEntry
<1>2. /\ kept = FALSE /\ owner = "none" /\ asker = [t \in Askers |-> Silent] /\ current = "none" /\ mbOpen = TRUE
      /\ worker = [w \in Workers |-> Spare]
  BY DEF LookupsInit, MetaInit
<1>3. MetaIInv BY <1>2, SilentRecord, SpareRecord
  DEF MetaIInv, MetaTyped, OwnersOnly, OwnerPlaces, RequestsNeeded, GivenUpAlone, CancelsAlone, WaitsForWorker
<1> QED BY <1>1, <1>3

(* However callers, workers and changes of the caches interleave: what the   *)
(* availability cache answers is of its generation (availability/cache.rs),  *)
(* Deezer is not asked for what is there nor twice at a time (coalesced()),  *)
(* and who gets a result is not told that he was cancelled (musicbrainz.rs). *)
THEOREM LookupsShareSoundly == LookupsSpec => []LookupsSound
<1>1. LookupsInit => LookIInv /\ MetaIInv BY LookupsInitially
<1>2. LookIInv /\ MetaIInv /\ [LookupsNext]_lookupsVars => (LookIInv /\ MetaIInv)'
  <2> SUFFICES ASSUME LookIInv, MetaIInv, [LookupsNext]_lookupsVars PROVE (LookIInv /\ MetaIInv)'
    OBVIOUS
  <2>1. LookupNext \/ UNCHANGED lookupVars
    BY Zenon DEF LookupsNext, lookupsVars
  <2>2. DeezerNext \/ MusicBrainzNext \/ UNCHANGED metaVars
    BY Zenon DEF LookupsNext, lookupsVars
  <2>3. LookIInv' BY <2>1, LookupStep, EntryKept DEF lookupVars
  <2>4. MetaIInv' BY <2>2, MetaStep, MetaKept
  <2> QED BY <2>3, <2>4
<1>3. LookIInv /\ MetaIInv => LookupsSound
  <2> SUFFICES ASSUME LookIInv, MetaIInv PROVE LookupsSound OBVIOUS
  <2>1. NoSecondRequest BY DEF MetaIInv, NoSecondRequest, RequestsNeeded, OwnersOnly, OwnerPlaces
  <2> QED BY <2>1 DEF LookupsSound, LookIInv, MetaIInv
<1> QED BY <1>1, <1>2, <1>3, PTL DEF LookupsSpec

-----------------------------------------------------------------------------
(***************************************************************************)
(* The USB output. UsbInv is inductive; what the user hears is exact       *)
(* because every transfer carries the frames it was given, in the order of *)
(* the writes, and because a worker that leaves answers for nobody who has *)
(* gone.                                                                   *)
(***************************************************************************)

Music == {<<>>} \cup {<<n>> : n \in Nat}
UsbFlags == [playing: BOOLEAN, closed: BOOLEAN, failed: BOOLEAN, frames: Nat, flush: Nat, flushed: Nat]
Transfers == [pending: BOOLEAN, submitted: BOOLEAN, ok: BOOLEAN, music: Music]
VolumeRequests == [caller: VolumeCallers, late: BOOLEAN]
WorkerPcs == {"loop", "volume", "flush", "drain", "play", "failed", "exit", "ended"}
UsbTyped ==
  /\ bytes \in Seq(Nat)
  /\ flags \in UsbFlags
  /\ requests \in Seq(VolumeRequests)
  /\ usbWorker \in [pc: WorkerPcs, request: VolumeCallers \cup {Nobody}]
  /\ slot \in [Slots -> Transfers]
  /\ player \in [pc: {"ready", "flushing"}, flush: Nat, done: Nat]
  /\ volumeCaller \in [VolumeCallers -> {"idle", "waiting", "answered", "gone"}]
  /\ accepted \in Nat

(* Frames that wait or are in a transfer are newer than the last flush the    *)
(* worker has done, and no flush returns before the worker has done it.      *)
FramesNew ==
  /\ player.done <= flags.flushed /\ flags.flushed <= flags.flush /\ player.flush <= flags.flush
  /\ \A n \in DOMAIN bytes : flags.flushed <= bytes[n]
  /\ \A s \in Slots : slot[s].music # <<>> => Head(slot[s].music) >= flags.flushed
TransfersCarry == \A s \in Slots : slot[s].music # <<>> => slot[s].submitted
(* A request that is not late has somebody who waits for it.                 *)
RequestsAwaited == \A n \in DOMAIN requests : ~requests[n].late => volumeCaller[requests[n].caller] # "gone"
WorkerGone ==
  /\ closer = "closed" => usbWorker.pc = "ended"
  /\ usbWorker.pc = "ended" => NoPending

UsbInv == UsbTyped /\ FramesNew /\ TransfersCarry /\ RequestsAwaited /\ WorkerGone /\ applied = {} /\ PositionExact

LEMMA UsbInitInv == UsbInit => UsbInv
<1> SUFFICES ASSUME UsbInit PROVE UsbInv OBVIOUS
<1>1. slot = [s \in Slots |-> NoSlot] /\ NoSlot \in Transfers /\ NoSlot.music = <<>> /\ ~NoSlot.pending
  BY DEF UsbInit, NoSlot, Transfers, Music
<1>2. UsbTyped BY <1>1 DEF UsbInit, UsbTyped, UsbFlags, WorkerPcs
<1>3. {s \in Slots : slot[s].music # <<>>} = {} BY <1>1
<1>4. InTransfers = 0 BY <1>3, FS_EmptySet DEF InTransfers
<1>5. PositionExact BY <1>4 DEF UsbInit, PositionExact
<1> QED BY <1>1, <1>2, <1>5 DEF UsbInit, UsbInv, FramesNew, TransfersCarry, RequestsAwaited, WorkerGone

(* Steps that leave frames and transfers alone.                             *)
LEMMA FramesStay ==
  ASSUME UsbInv, UNCHANGED <<bytes, slot, accepted>>, UsbTyped',
         usbWorker'.pc \in {"failed", "exit", "ended"} \/ usbWorker.pc \notin {"failed", "exit", "ended"},
         flags'.frames = flags.frames, flags'.flush >= flags.flush, flags'.flushed = flags.flushed,
         player'.done <= flags.flushed, player'.flush <= flags'.flush,
         usbWorker.pc = "ended" => usbWorker'.pc = "ended", usbWorker'.pc = "ended" => usbWorker.pc = "ended",
         closer' = "closed" => usbWorker'.pc = "ended",
         RequestsAwaited', applied' = {}
  PROVE  UsbInv'
<1>1. FramesNew' BY DEF UsbInv, FramesNew, UsbTyped, UsbFlags
<1>2. TransfersCarry' /\ WorkerGone' BY DEF UsbInv, TransfersCarry, WorkerGone, NoPending
<1>3. PositionExact' BY DEF UsbInv, PositionExact, InTransfers
<1> QED BY <1>1, <1>2, <1>3 DEF UsbInv

(* What leaves the worker where it is.                                      *)
LEMMA WorkerStays ==
  ASSUME UsbInv, UNCHANGED <<bytes, slot, usbWorker, applied, accepted>>, UsbTyped', flags'.frames = flags.frames,
         flags'.flush >= flags.flush, flags'.flushed = flags.flushed, player'.done <= flags.flushed,
         player'.flush <= flags'.flush, closer' = "closed" => usbWorker.pc = "ended", RequestsAwaited'
  PROVE  UsbInv'
<1>1. applied' = {} BY DEF UsbInv
<1> QED BY <1>1, FramesStay

(* What only moves the worker on, before it ends.                           *)
LEMMA OutputWorkerMoves ==
  ASSUME UsbInv, UNCHANGED <<bytes, slot, player, closer, applied, accepted>>, UsbTyped', RequestsAwaited',
         flags'.frames = flags.frames, flags'.flush = flags.flush, flags'.flushed = flags.flushed,
         usbWorker.pc # "ended", usbWorker'.pc # "ended",
         usbWorker'.pc \in {"failed", "exit"} \/ usbWorker.pc \notin {"failed", "exit"}
  PROVE  UsbInv'
<1>1. /\ applied' = {} /\ closer # "closed" /\ player.done <= flags.flushed /\ player.flush <= flags.flush
      /\ flags.flush \in Nat
  BY DEF UsbInv, WorkerGone, FramesNew, UsbTyped, UsbFlags
<1>2. flags'.flush >= flags.flush BY <1>1
<1> QED BY <1>1, <1>2, FramesStay

LEMMA PlayerInv == ASSUME UsbInv, Start \/ Flush \/ FlushReturns PROVE UsbInv'
<1>1. UsbTyped /\ FramesNew /\ RequestsAwaited /\ WorkerGone BY DEF UsbInv
<1>2. flags \in UsbFlags /\ flags.flush \in Nat /\ flags.flushed \in Nat /\ player.flush \in Nat /\ player.done \in Nat
  BY <1>1 DEF UsbTyped, UsbFlags
<1>3. CASE Start
  <2>1. flags' = [flags EXCEPT !.playing = TRUE] /\ UNCHANGED player BY <1>3 DEF Start
  <2>2. flags' \in UsbFlags /\ flags'.frames = flags.frames /\ flags'.flush = flags.flush /\ flags'.flushed = flags.flushed
    BY <1>2, <2>1 DEF UsbFlags
  <2> QED BY <1>1, <1>2, <1>3, <2>1, <2>2, WorkerStays DEF Start, UsbTyped, FramesNew, RequestsAwaited, WorkerGone
<1>4. CASE Flush
  <2> DEFINE next == flags.flush + 1
  <2>1. flags' = [flags EXCEPT !.playing = FALSE, !.flush = next] /\ player' = [player EXCEPT !.pc = "flushing", !.flush = next]
    BY <1>4 DEF Flush
  <2>2. next \in Nat /\ next >= flags.flush BY <1>2
  <2> HIDE DEF next
  <2>3. /\ flags' \in UsbFlags /\ flags'.frames = flags.frames /\ flags'.flush = next /\ flags'.flushed = flags.flushed
        /\ player' \in [pc: {"ready", "flushing"}, flush: Nat, done: Nat] /\ player'.flush = next /\ player'.done = player.done
    BY <1>1, <1>2, <2>1, <2>2 DEF UsbFlags, UsbTyped
  <2> QED BY <1>1, <1>2, <1>4, <2>2, <2>3, WorkerStays DEF Flush, UsbTyped, FramesNew, RequestsAwaited, WorkerGone
<1>5. CASE FlushReturns
  <2>1. UNCHANGED flags BY <1>5 DEF FlushReturns
  <2>2. /\ player' \in [pc: {"ready", "flushing"}, flush: Nat, done: Nat]
        /\ player'.done <= flags.flushed /\ player'.flush = player.flush
    BY <1>1, <1>2, <1>5 DEF FlushReturns, UsbTyped, FramesNew
  <2> QED BY <1>1, <1>2, <1>5, <2>1, <2>2, WorkerStays DEF FlushReturns, UsbTyped, FramesNew, RequestsAwaited, WorkerGone
<1> QED BY <1>3, <1>4, <1>5

LEMMA RequestTyped ==
  ASSUME NEW q \in Seq(VolumeRequests), NEW n \in DOMAIN q
  PROVE  q[n].caller \in VolumeCallers /\ q[n].late \in BOOLEAN /\ q[n] \in VolumeRequests
<1>1. q[n] \in VolumeRequests OBVIOUS
<1> QED BY <1>1 DEF VolumeRequests

LEMMA CallersInv ==
  ASSUME UsbInv, RequestLate \/ (\E c \in VolumeCallers : SetVolume(c) \/ CallerLeaves(c)) PROVE UsbInv'
<1>1. UsbTyped /\ FramesNew /\ RequestsAwaited /\ WorkerGone BY DEF UsbInv
<1>2. CASE RequestLate
  <2>1. PICK n \in DOMAIN requests : requests' = [requests EXCEPT ![n].late = TRUE] BY <1>2 DEF RequestLate
  <2> DEFINE late == [requests[n] EXCEPT !.late = TRUE]
  <2>a. requests[n] \in VolumeRequests BY <1>1, RequestTyped DEF UsbTyped
  <2>b. late \in VolumeRequests /\ late.caller = requests[n].caller /\ late.late
    BY <2>a DEF VolumeRequests
  <2>c. requests' = [requests EXCEPT ![n] = late] BY <2>1
  <2> HIDE DEF late
  <2>2. requests' \in Seq(VolumeRequests) /\ DOMAIN requests' = DOMAIN requests
    BY <1>1, <2>b, <2>c DEF UsbTyped
  <2>3. \A m \in DOMAIN requests : requests'[m].caller = requests[m].caller /\ (~requests'[m].late => ~requests[m].late)
    <3> TAKE m \in DOMAIN requests
    <3>1. requests \in Seq(VolumeRequests) BY <1>1 DEF UsbTyped
    <3>2. requests'[m] = IF m = n THEN late ELSE requests[m] BY <2>c, <3>1
    <3> QED BY <2>b, <3>2
  <2>4. RequestsAwaited' BY <1>1, <1>2, <2>2, <2>3 DEF RequestLate, RequestsAwaited
  <2> QED BY <1>1, <1>2, <2>2, <2>4, WorkerStays DEF RequestLate, UsbTyped, UsbFlags, FramesNew, WorkerGone
<1>3. ASSUME NEW c \in VolumeCallers, SetVolume(c) PROVE UsbInv'
  <2>1. requests' = Append(requests, [caller |-> c, late |-> FALSE]) /\ volumeCaller' = [volumeCaller EXCEPT ![c] = "waiting"]
    BY <1>3 DEF SetVolume
  <2>a. [caller |-> c, late |-> FALSE] \in VolumeRequests BY DEF VolumeRequests
  <2>2. /\ requests' \in Seq(VolumeRequests)
        /\ volumeCaller' \in [VolumeCallers -> {"idle", "waiting", "answered", "gone"}]
    BY <1>1, <2>1, <2>a DEF UsbTyped
  <2>3. RequestsAwaited'
    <3> SUFFICES ASSUME NEW n \in DOMAIN requests', ~requests'[n].late PROVE volumeCaller'[requests'[n].caller] # "gone"
      BY DEF RequestsAwaited
    <3>1. CASE n \in DOMAIN requests
      <4>1. requests'[n] = requests[n] BY <1>1, <2>1, <3>1, AppendProperties DEF UsbTyped
      <4>2. requests[n].caller \in VolumeCallers BY <1>1, <3>1, RequestTyped DEF UsbTyped
      <4> QED BY <1>1, <2>1, <3>1, <4>1, <4>2 DEF RequestsAwaited, UsbTyped
    <3>2. CASE n \notin DOMAIN requests
      <4>1. requests'[n] = [caller |-> c, late |-> FALSE] BY <1>1, <2>1, <3>2 DEF UsbTyped
      <4> QED BY <1>1, <2>1, <4>1 DEF UsbTyped
    <3> QED BY <3>1, <3>2
  <2> QED BY <1>1, <1>3, <2>2, <2>3, WorkerStays DEF SetVolume, UsbTyped, UsbFlags, FramesNew, WorkerGone
<1>4. ASSUME NEW c \in VolumeCallers, CallerLeaves(c) PROVE UsbInv'
  <2>1. /\ volumeCaller' = [volumeCaller EXCEPT ![c] = "gone"] /\ UNCHANGED requests
        /\ \A n \in DOMAIN requests : requests[n].caller = c => requests[n].late
    BY <1>4 DEF CallerLeaves
  <2>2. volumeCaller' \in [VolumeCallers -> {"idle", "waiting", "answered", "gone"}] BY <1>1, <2>1 DEF UsbTyped
  <2>3. RequestsAwaited' BY <1>1, <2>1 DEF RequestsAwaited, UsbTyped
  <2> QED BY <1>1, <1>4, <2>2, <2>3, WorkerStays DEF CallerLeaves, UsbTyped, UsbFlags, FramesNew, WorkerGone
<1> QED BY <1>2, <1>3, <1>4

LEMMA CloserInv == ASSUME UsbInv, Close \/ Closed PROVE UsbInv'
<1>1. UsbTyped /\ FramesNew /\ RequestsAwaited /\ WorkerGone BY DEF UsbInv
<1>2. CASE Close
  <2>1. /\ flags' \in UsbFlags /\ flags'.frames = flags.frames /\ flags'.flush = flags.flush /\ flags'.flushed = flags.flushed
        /\ flags.flush \in Nat
    BY <1>1, <1>2 DEF Close, UsbTyped, UsbFlags
  <2> QED BY <1>1, <1>2, <2>1, WorkerStays DEF Close, UsbTyped, FramesNew, RequestsAwaited
<1>3. CASE Closed
  <2>1. flags.flush \in Nat BY <1>1 DEF UsbTyped, UsbFlags
  <2> QED BY <1>1, <1>3, <2>1, WorkerStays DEF Closed, UsbTyped, FramesNew, RequestsAwaited
<1> QED BY <1>2, <1>3

LEMMA TurnInv == ASSUME UsbInv, Turn PROVE UsbInv'
<1>1. UsbTyped /\ FramesNew /\ RequestsAwaited /\ WorkerGone /\ applied = {} BY DEF UsbInv
<1>2. usbWorker.pc = "loop" /\ UNCHANGED <<bytes, flags, slot, player, closer, accepted>> BY DEF Turn
<1>3. ASSUME UNCHANGED <<requests, volumeCaller, applied>>, NEW pc \in {"exit", "flush"}, Worker(pc) PROVE UsbInv'
  <2>1. usbWorker' \in [pc: WorkerPcs, request: VolumeCallers \cup {Nobody}] /\ usbWorker'.pc = pc
    BY <1>1, <1>3 DEF Worker, UsbTyped, WorkerPcs
  <2> QED BY <1>1, <1>2, <1>3, <2>1, OutputWorkerMoves DEF UsbTyped, RequestsAwaited
<1>4. ASSUME requests # <<>>, requests' = Tail(requests), NEW c, c = Head(requests).caller,
             IF Serves(Head(requests))
             THEN /\ usbWorker' = [pc |-> "volume", request |-> c]
                  /\ applied' = IF volumeCaller[c] = "gone" THEN applied \cup {c} ELSE applied
                  /\ UNCHANGED volumeCaller
             ELSE /\ Worker("flush") /\ UNCHANGED applied
                  /\ volumeCaller' = IF volumeCaller[c] = "waiting" THEN [volumeCaller EXCEPT ![c] = "answered"]
                                     ELSE volumeCaller
      PROVE  UsbInv'
  <2>1. /\ requests' \in Seq(VolumeRequests) /\ Len(requests') = Len(requests) - 1
        /\ \A n \in DOMAIN requests' : n + 1 \in DOMAIN requests /\ requests'[n] = requests[n + 1]
        /\ Head(requests) = requests[1] /\ 1 \in DOMAIN requests
    BY <1>1, <1>4 DEF UsbTyped
  <2>2. c \in VolumeCallers BY <1>1, <1>4, <2>1, RequestTyped DEF UsbTyped
  <2>3. Serves(Head(requests)) => volumeCaller[c] # "gone" BY <1>1, <1>4, <2>1 DEF Serves, RequestsAwaited
  <2>4. UNCHANGED applied BY <1>4, <2>3
  <2>5. /\ volumeCaller' \in [VolumeCallers -> {"idle", "waiting", "answered", "gone"}]
        /\ \A d \in VolumeCallers : volumeCaller'[d] = "gone" => volumeCaller[d] = "gone"
    BY <1>1, <1>4, <2>2 DEF UsbTyped
  <2>6. \A n \in DOMAIN requests' : requests'[n].caller \in VolumeCallers BY <2>1, RequestTyped
  <2>7. RequestsAwaited' BY <1>1, <2>1, <2>5, <2>6 DEF RequestsAwaited
  <2>8. /\ usbWorker' \in [pc: WorkerPcs, request: VolumeCallers \cup {Nobody}]
        /\ usbWorker'.pc \in {"volume", "flush"}
    BY <1>1, <1>4, <2>2 DEF Worker, UsbTyped, WorkerPcs
  <2> QED BY <1>1, <1>2, <2>1, <2>4, <2>5, <2>7, <2>8, OutputWorkerMoves DEF UsbTyped
<1> QED BY <1>3, <1>4 DEF Turn

LEMMA MovesInv == ASSUME UsbInv, EventsFail \/ ApplyVolume \/ TurnOn \/ Fail PROVE UsbInv'
<1>1. UsbTyped /\ FramesNew /\ RequestsAwaited BY DEF UsbInv
<1>2. CASE EventsFail \/ TurnOn
  <2>1. /\ usbWorker' \in [pc: WorkerPcs, request: VolumeCallers \cup {Nobody}] /\ usbWorker'.pc # "ended"
        /\ usbWorker.pc \in {"loop", "flush"}
    BY <1>1, <1>2 DEF EventsFail, TurnOn, Worker, UsbTyped, WorkerPcs
  <2> QED BY <1>1, <1>2, <2>1, OutputWorkerMoves DEF EventsFail, TurnOn, UsbTyped, RequestsAwaited
<1>3. CASE ApplyVolume
  <2>1. /\ usbWorker' \in [pc: WorkerPcs, request: VolumeCallers \cup {Nobody}] /\ usbWorker'.pc # "ended"
        /\ usbWorker.pc = "volume"
    BY <1>1, <1>3 DEF ApplyVolume, UsbTyped, WorkerPcs
  <2>2. /\ volumeCaller' \in [VolumeCallers -> {"idle", "waiting", "answered", "gone"}]
        /\ \A d \in VolumeCallers : volumeCaller'[d] = "gone" => volumeCaller[d] = "gone"
    BY <1>1, <1>3 DEF ApplyVolume, UsbTyped
  <2>3. \A n \in DOMAIN requests : requests[n].caller \in VolumeCallers BY <1>1, RequestTyped DEF UsbTyped
  <2>4. RequestsAwaited' BY <1>1, <1>3, <2>2, <2>3 DEF ApplyVolume, RequestsAwaited
  <2> QED BY <1>1, <1>3, <2>1, <2>2, <2>4, OutputWorkerMoves DEF ApplyVolume, UsbTyped
<1>4. CASE Fail
  <2>1. /\ usbWorker' \in [pc: WorkerPcs, request: VolumeCallers \cup {Nobody}] /\ usbWorker'.pc = "exit"
        /\ usbWorker.pc = "failed"
    BY <1>1, <1>4 DEF Fail, Worker, UsbTyped, WorkerPcs
  <2>2. flags' \in UsbFlags /\ flags'.frames = flags.frames /\ flags'.flush = flags.flush /\ flags'.flushed = flags.flushed
    BY <1>1, <1>4 DEF Fail, UsbTyped, UsbFlags
  <2> QED BY <1>1, <1>4, <2>1, <2>2, OutputWorkerMoves DEF Fail, UsbTyped, RequestsAwaited
<1> QED BY <1>2, <1>3, <1>4

LEMMA ExitInv == ASSUME UsbInv, Exit PROVE UsbInv'
<1>1. UsbTyped /\ usbWorker.pc = "exit" /\ NoPending BY DEF UsbInv, Exit
<1>2. usbWorker' \in [pc: WorkerPcs, request: VolumeCallers \cup {Nobody}] /\ usbWorker'.pc = "ended"
  BY <1>1 DEF Exit, Worker, UsbTyped, WorkerPcs
<1>3. UsbTyped' BY <1>1, <1>2 DEF Exit, UsbTyped
<1>4. FramesNew' /\ TransfersCarry' /\ RequestsAwaited' /\ PositionExact'
  BY <1>2 DEF Exit, UsbInv, FramesNew, TransfersCarry, RequestsAwaited, PositionExact
<1>5. WorkerGone' BY <1>1, <1>2 DEF Exit, WorkerGone, NoPending
<1> QED BY <1>3, <1>4, <1>5 DEF Exit, UsbInv

LEMMA WriteInv == ASSUME UsbInv, Write PROVE UsbInv'
<1>1. UsbTyped /\ FramesNew /\ flags.flush \in Nat /\ flags.flushed \in Nat BY DEF UsbInv, UsbTyped, UsbFlags
<1>2. bytes' = Append(bytes, flags.flush) /\ accepted' = accepted + 1 /\ UNCHANGED <<flags, slot, usbWorker>> BY DEF Write
<1>3. /\ bytes' \in Seq(Nat) /\ Len(bytes') = Len(bytes) + 1
      /\ \A n \in DOMAIN bytes' : IF n = Len(bytes) + 1 THEN bytes'[n] = flags.flush
                                  ELSE n \in DOMAIN bytes /\ bytes'[n] = bytes[n]
  BY <1>1, <1>2, AppendProperties DEF UsbTyped
<1>4. UsbTyped' BY <1>1, <1>2, <1>3 DEF Write, UsbTyped
<1>5. FramesNew'
  <2>1. \A n \in DOMAIN bytes' : flags'.flushed <= bytes'[n] BY <1>1, <1>2, <1>3 DEF FramesNew
  <2> QED BY <1>1, <1>2, <2>1 DEF Write, FramesNew
<1>6. InTransfers \in Nat /\ UNCHANGED InTransfers
  <2>1. {s \in Slots : slot[s].music # <<>>} \subseteq Slots OBVIOUS
  <2> QED BY <1>2, <2>1, FS_Subset, FS_CardinalityType, UsbAssumption DEF InTransfers
<1>7. PositionExact'
  <2>1. Len(bytes) \in Nat /\ accepted \in Nat /\ flags.frames \in Nat BY <1>1 DEF UsbTyped, UsbFlags
  <2> QED BY <1>2, <1>3, <1>6, <2>1 DEF UsbInv, PositionExact
<1> QED BY <1>4, <1>5, <1>7 DEF Write, UsbInv, TransfersCarry, RequestsAwaited, WorkerGone, NoPending

LEMMA CompleteInv == ASSUME UsbInv, NEW s \in Slots, Complete(s) PROVE UsbInv'
<1>1. UsbTyped /\ slot[s] \in Transfers BY DEF UsbInv, UsbTyped
<1>2. PICK ok \in BOOLEAN : slot' = [slot EXCEPT ![s].pending = FALSE, ![s].ok = ok] BY DEF Complete
<1> DEFINE x == [slot[s] EXCEPT !.pending = FALSE, !.ok = ok]
<1>3. x \in Transfers /\ x.music = slot[s].music /\ x.submitted = slot[s].submitted /\ ~x.pending BY <1>1 DEF Transfers
<1>4. slot' = [slot EXCEPT ![s] = x] BY <1>1, <1>2 DEF UsbTyped
<1> HIDE DEF x
<1>5. /\ slot' \in [Slots -> Transfers]
      /\ \A t \in Slots : /\ slot'[t].music = slot[t].music /\ slot'[t].submitted = slot[t].submitted
                          /\ slot'[t].pending => slot[t].pending
  BY <1>1, <1>3, <1>4 DEF UsbTyped
<1>6. UsbTyped' BY <1>1, <1>5 DEF Complete, UsbTyped
<1>7. FramesNew' /\ TransfersCarry' /\ WorkerGone' /\ RequestsAwaited' /\ applied' = {}
  BY <1>5 DEF Complete, UsbInv, FramesNew, TransfersCarry, WorkerGone, NoPending, RequestsAwaited
<1>8. {t \in Slots : slot'[t].music # <<>>} = {t \in Slots : slot[t].music # <<>>} BY <1>5
<1>9. PositionExact' BY <1>8 DEF Complete, UsbInv, PositionExact, InTransfers
<1> QED BY <1>6, <1>7, <1>9 DEF UsbInv

LEMMA DrainedInv == ASSUME UsbInv, Drained PROVE UsbInv'
<1>1. UsbTyped /\ FramesNew /\ flags \in UsbFlags /\ usbWorker.pc = "drain" BY DEF UsbInv, UsbTyped, Drained
<1>2. /\ flags' = [flags EXCEPT !.frames = 0, !.flushed = flags.flush] /\ bytes' = <<>> /\ accepted' = 0
      /\ slot' = [s \in Slots |-> Forgotten(s)]
  BY DEF Drained
<1>3. /\ flags' \in UsbFlags /\ flags'.frames = 0 /\ flags'.flushed = flags.flush /\ flags'.flush = flags.flush
      /\ flags.flush \in Nat /\ flags.flushed \in Nat
  BY <1>1, <1>2 DEF UsbFlags
<1>4. slot' \in [Slots -> Transfers] /\ (\A s \in Slots : slot'[s].music = <<>>)
  <2>1. ASSUME NEW s \in Slots PROVE Forgotten(s) \in Transfers /\ Forgotten(s).music = <<>>
    BY <1>1 DEF Forgotten, Transfers, UsbTyped, Music
  <2> QED BY <1>2, <2>1
<1>5. usbWorker' \in [pc: WorkerPcs, request: VolumeCallers \cup {Nobody}] /\ usbWorker'.pc \in {"play", "loop"}
  BY <1>1 DEF Drained, Worker, UsbTyped, WorkerPcs
<1>6. UsbTyped' BY <1>1, <1>2, <1>3, <1>4, <1>5 DEF Drained, UsbTyped
<1>7. player.done \in Nat BY <1>1 DEF UsbTyped
<1>8. FramesNew' BY <1>1, <1>2, <1>3, <1>4, <1>7 DEF Drained, FramesNew
<1>9. {s \in Slots : slot'[s].music # <<>>} = {} BY <1>4
<1>10. InTransfers' = 0 BY <1>9, FS_EmptySet DEF InTransfers
<1>11. PositionExact' BY <1>2, <1>3, <1>10 DEF PositionExact
<1> QED BY <1>1, <1>4, <1>5, <1>6, <1>8, <1>11 DEF Drained, UsbInv, TransfersCarry, RequestsAwaited, WorkerGone

(* Free transfers in turn.                                                  *)
LEMMA InTurn ==
  ASSUME NEW S, IsFiniteSet(S)
  PROVE  /\ Cardinality(S) \in Nat /\ DOMAIN SetToSeq(S) = 1 .. Cardinality(S) /\ Len(SetToSeq(S)) = Cardinality(S)
         /\ \A s \in S : \E n \in 1 .. Cardinality(S) : SetToSeq(S)[n] = s
         /\ \A n \in 1 .. Cardinality(S) : SetToSeq(S)[n] \in S
         /\ \A m, n \in 1 .. Cardinality(S) : SetToSeq(S)[m] = SetToSeq(S)[n] => m = n
<1> DEFINE c == Cardinality(S)
<1>1. c \in Nat /\ ExistsBijection(1 .. c, S) BY FS_CardinalityType
<1>2. PICK f : f \in Bijection(1 .. c, S) BY <1>1 DEF ExistsBijection
<1>3. f \in [1 .. c -> S] /\ IsInjective(f) BY <1>2 DEF Bijection, Injection, IsInjective
<1>4. SetToSeq(S) \in [1 .. c -> S] /\ IsInjective(SetToSeq(S)) BY <1>3 DEF SetToSeq
<1> DEFINE g == SetToSeq(S)
<1>5. g \in Injection(1 .. c, S) BY <1>4 DEF IsInjective, Injection
<1>6. IsFiniteSet(1 .. c) /\ Cardinality(1 .. c) = c BY <1>1, FS_Interval
<1>7. g \in Surjection(1 .. c, S) BY <1>5, <1>6, FS_Injection
<1>8. Len(g) = c BY <1>1, <1>4
<1>9. \A s \in S : \E n \in 1 .. c : g[n] = s BY <1>7 DEF Surjection
<1>10. \A n \in 1 .. c : g[n] \in S BY <1>4
<1>11. \A m, n \in 1 .. c : g[m] = g[n] => m = n BY <1>5 DEF Injection, IsInjective
<1>12. DOMAIN g = 1 .. c BY <1>4
<1> QED BY <1>1, <1>8, <1>9, <1>10, <1>11, <1>12

(* As many of them take a frame as there are frames.                        *)
LEMMA TakenInTurn ==
  ASSUME NEW S, IsFiniteSet(S), NEW l \in Nat, NEW T, T = {s \in S : (CHOOSE k \in DOMAIN SetToSeq(S) : SetToSeq(S)[k] = s) <= l}
  PROVE  IsFiniteSet(T) /\ Cardinality(T) = IF l <= Cardinality(S) THEN l ELSE Cardinality(S)
<1> DEFINE c == Cardinality(S)
           g == SetToSeq(S)
           m == IF l <= c THEN l ELSE c
           f == [k \in 1 .. m |-> g[k]]
<1>1. /\ c \in Nat /\ DOMAIN g = 1 .. c
      /\ \A s \in S : \E n \in 1 .. c : g[n] = s
      /\ \A n \in 1 .. c : g[n] \in S
      /\ \A j, n \in 1 .. c : g[j] = g[n] => j = n
  BY InTurn
<1>2. m \in Nat /\ m <= c /\ m <= l /\ (\A k \in 1 .. c : k <= l => k \in 1 .. m) BY <1>1
<1> HIDE DEF c, g, m
<1>3. \A s \in S : \A k \in 1 .. c : g[k] = s => (CHOOSE j \in DOMAIN g : g[j] = s) = k BY <1>1
<1>4. \A k \in 1 .. m : k \in 1 .. c /\ k <= l BY <1>1, <1>2
<1>5. f \in [1 .. m -> T]
  <2>1. \A k \in 1 .. m : g[k] \in T BY <1>1, <1>3, <1>4 DEF g
  <2> QED BY <2>1
<1>6. f \in Injection(1 .. m, T)
  <2>1. \A j, k \in 1 .. m : f[j] = f[k] => j = k BY <1>1, <1>4
  <2> QED BY <1>5, <2>1 DEF Injection, IsInjective
<1>7. \A s \in T : \E k \in 1 .. m : f[k] = s
  <2> SUFFICES ASSUME NEW s \in T PROVE \E k \in 1 .. m : g[k] = s OBVIOUS
  <2>1. s \in S /\ (CHOOSE j \in DOMAIN g : g[j] = s) <= l BY DEF g
  <2>2. PICK k \in 1 .. c : g[k] = s BY <1>1, <2>1
  <2>3. k <= l BY <1>3, <2>1, <2>2
  <2> QED BY <1>2, <2>2, <2>3
<1>8. f \in Bijection(1 .. m, T) BY <1>5, <1>6, <1>7 DEF Bijection, Surjection, Injection
<1>9. Cardinality(T) = m BY <1>2, <1>8, FS_CountingElements DEF ExistsBijection
<1>10. IsFiniteSet(T) BY <1>2, <1>8, FS_NatBijection DEF ExistsBijection
<1> QED BY <1>9, <1>10 DEF m, c

LEMMA RestOf ==
  ASSUME NEW q \in Seq(Nat), NEW n \in Nat, n < Len(q)
  PROVE  /\ SubSeq(q, n + 1, Len(q)) \in Seq(Nat) /\ Len(SubSeq(q, n + 1, Len(q))) = Len(q) - n
         /\ \A i \in 1 .. Len(q) - n : SubSeq(q, n + 1, Len(q))[i] = q[n + i]
BY SMTT(30)

LEMMA PlayInv == ASSUME UsbInv, Play PROVE UsbInv'
<1>1. UsbTyped /\ FramesNew /\ TransfersCarry /\ usbWorker.pc = "play" BY DEF UsbInv, Play
<1>2. usbWorker' \in [pc: WorkerPcs, request: VolumeCallers \cup {Nobody}] /\ usbWorker'.pc \in {"failed", "loop"}
  BY <1>1 DEF Play, Worker, UsbTyped, WorkerPcs
<1>3. CASE UNCHANGED <<bytes, flags, slot>>
  BY <1>1, <1>2, <1>3, OutputWorkerMoves DEF Play, UsbTyped, UsbInv, RequestsAwaited
<1> DEFINE order == SetToSeq(FreeSlots)
<1>o. order = SetToSeq(FreeSlots) OBVIOUS
<1> HIDE DEF order
<1>4. ASSUME order = SetToSeq(FreeSlots),
             flags' = [flags EXCEPT !.frames = @ + Cardinality({s \in FreeSlots : slot[s].submitted /\ slot[s].music # <<>>})],
             slot' = [s \in Slots |-> IF s \in FreeSlots
                        THEN Refilled(LET n == CHOOSE k \in DOMAIN order : order[k] = s
                                      IN IF n <= Len(bytes) THEN <<bytes[n]>> ELSE <<>>)
                        ELSE slot[s]],
             bytes' = IF Len(bytes) <= Len(order) THEN <<>> ELSE SubSeq(bytes, Len(order) + 1, Len(bytes))
      PROVE  UsbInv'
  <2> DEFINE place(s) == CHOOSE k \in DOMAIN order : order[k] = s
             n == Cardinality(FreeSlots)
             l == Len(bytes)
             pending == {s \in Slots \ FreeSlots : slot[s].music # <<>>}
             counted == {s \in FreeSlots : slot[s].submitted /\ slot[s].music # <<>>}
             taken == {s \in FreeSlots : place(s) <= l}
  <2>1. FreeSlots \subseteq Slots /\ IsFiniteSet(FreeSlots) /\ pending \subseteq Slots /\ counted \subseteq Slots
    BY FS_Subset, UsbAssumption DEF FreeSlots
  <2>2. /\ n \in Nat /\ DOMAIN order = 1 .. n /\ Len(order) = n
        /\ \A s \in FreeSlots : place(s) \in 1 .. n
    BY <1>4, <2>1, InTurn
  <2>3. l \in Nat /\ flags.frames \in Nat /\ accepted \in Nat /\ flags \in UsbFlags BY <1>1 DEF UsbTyped, UsbFlags
  <2>4. IsFiniteSet(taken) /\ Cardinality(taken) = IF l <= n THEN l ELSE n
    <3>1. taken = {s \in FreeSlots : (CHOOSE k \in DOMAIN SetToSeq(FreeSlots) : SetToSeq(FreeSlots)[k] = s) <= l} BY <1>4
    <3> HIDE DEF taken
    <3> QED BY <2>1, <2>3, <3>1, TakenInTurn, ZenonT(60)
  <2>5. IsFiniteSet(pending) /\ IsFiniteSet(counted) /\ Cardinality(pending) \in Nat /\ Cardinality(counted) \in Nat
    BY <2>1, FS_Subset, FS_CardinalityType, UsbAssumption
  <2> HIDE DEF n, l
  <2>6. /\ slot' \in [Slots -> Transfers]
        /\ \A s \in Slots : slot'[s] = IF s \notin FreeSlots THEN slot[s]
                                       ELSE Refilled(IF place(s) <= l THEN <<bytes[place(s)]>> ELSE <<>>)
        /\ \A s \in Slots : s \in FreeSlots /\ place(s) <= l => place(s) \in DOMAIN bytes /\ bytes[place(s)] \in Nat
    <3>1. \A s \in Slots : s \in FreeSlots /\ place(s) <= l => place(s) \in DOMAIN bytes /\ bytes[place(s)] \in Nat
      <4>1. DOMAIN bytes = 1 .. l /\ bytes \in Seq(Nat) BY <1>1 DEF UsbTyped, l
      <4> HIDE DEF place
      <4>2. \A s \in FreeSlots : place(s) \in Nat /\ 1 <= place(s) BY <2>2
      <4> QED BY <2>3, <4>1, <4>2
    <3>2. ASSUME NEW s \in FreeSlots PROVE (IF place(s) <= l THEN <<bytes[place(s)]>> ELSE <<>>) \in Music
      BY <2>1, <3>1 DEF Music
    <3>3. \A m \in Music : Refilled(m) \in Transfers BY DEF Refilled, Transfers
    <3>4. \A s \in Slots : slot'[s] = IF s \notin FreeSlots THEN slot[s]
                                       ELSE Refilled(IF place(s) <= l THEN <<bytes[place(s)]>> ELSE <<>>)
      BY <1>4 DEF l
    <3>a. slot' = [s \in Slots |-> slot'[s]] BY <1>4
    <3>b. \A s \in Slots : slot[s] \in Transfers BY <1>1 DEF UsbTyped
    <3>5. slot' \in [Slots -> Transfers]
      <4> HIDE DEF place
      <4>1. \A s \in Slots : slot'[s] \in Transfers BY <3>2, <3>3, <3>4, <3>b
      <4> QED BY <3>a, <4>1
    <3> QED BY <3>1, <3>4, <3>5
  <2>7. \A s \in FreeSlots : /\ place(s) <= l => slot'[s].music = <<bytes[place(s)]>>
                             /\ ~(place(s) <= l) => slot'[s].music = <<>>
                             /\ slot'[s].submitted
    BY <2>1, <2>6 DEF Refilled
  <2>8. /\ bytes' \in Seq(Nat) /\ Len(bytes') = IF l <= n THEN 0 ELSE l - n
        /\ \A i \in DOMAIN bytes' : \E j \in DOMAIN bytes : bytes'[i] = bytes[j]
    <3>1. CASE l <= n
      <4>1. bytes' = <<>> BY <1>4, <2>2, <3>1 DEF l
      <4> QED BY <3>1, <4>1
    <3>2. CASE ~(l <= n)
      <4>0. DOMAIN bytes = 1 .. l /\ bytes \in Seq(Nat) /\ Len(bytes) = l /\ n < l BY <1>1, <2>2, <2>3, <3>2 DEF UsbTyped, l
      <4>1. bytes' = SubSeq(bytes, n + 1, l)
        <5>1. ~(Len(bytes) <= Len(order)) BY <2>2, <3>2, <4>0
        <5>2. bytes' = SubSeq(bytes, Len(order) + 1, Len(bytes)) BY <1>4, <5>1
        <5> QED BY <2>2, <4>0, <5>2
      <4> HIDE DEF place
      <4>2. bytes' \in Seq(Nat) /\ Len(bytes') = l - n /\ \A i \in 1 .. l - n : bytes'[i] = bytes[n + i]
        BY <2>2, <2>3, <4>0, <4>1, RestOf
      <4>3. \A i \in 1 .. l - n : n + i \in DOMAIN bytes BY <2>2, <2>3, <4>0
      <4>4. DOMAIN bytes' = 1 .. l - n BY <4>2
      <4> QED BY <3>2, <4>2, <4>3, <4>4
    <3> QED BY <3>1, <3>2
  <2> DEFINE delivered == Cardinality(counted)
  <2>9. /\ flags' \in UsbFlags /\ flags'.frames = flags.frames + delivered /\ flags'.flush = flags.flush
        /\ flags'.flushed = flags.flushed
    <3>1. flags.frames + delivered \in Nat /\ flags' = [flags EXCEPT !.frames = flags.frames + delivered] BY <1>4, <2>3, <2>5
    <3> QED BY <2>3, <3>1 DEF UsbFlags
  <2> HIDE DEF delivered
  <2>10. UsbTyped' BY <1>1, <1>2, <2>6, <2>8, <2>9 DEF Play, UsbTyped
  <2>11. FramesNew'
    <3>1. \A i \in DOMAIN bytes' : flags.flushed <= bytes'[i] BY <1>1, <2>8 DEF FramesNew
    <3>2. ASSUME NEW s \in Slots, slot'[s].music # <<>> PROVE Head(slot'[s].music) >= flags.flushed
      <4>1. CASE s \notin FreeSlots BY <1>1, <2>6, <3>2, <4>1 DEF FramesNew
      <4>2. CASE s \in FreeSlots
        <5>1. slot'[s].music = <<bytes[place(s)]>> /\ place(s) \in DOMAIN bytes BY <2>6, <2>7, <3>2, <4>2
        <5>2. flags.flushed <= bytes[place(s)] /\ bytes[place(s)] \in Nat /\ flags.flushed \in Nat
          BY <1>1, <2>3, <5>1 DEF FramesNew, UsbTyped, UsbFlags
        <5> HIDE DEF place
        <5>3. Head(slot'[s].music) = bytes[place(s)] BY <5>1
        <5> QED BY <5>2, <5>3
      <4> QED BY <4>1, <4>2
    <3> QED BY <1>1, <2>9, <3>1, <3>2 DEF Play, FramesNew
  <2>12. TransfersCarry' BY <1>1, <2>6, <2>7 DEF TransfersCarry
  <2>13. {s \in Slots : slot'[s].music # <<>>} = pending \cup taken
    <3>1. \A s \in FreeSlots : slot'[s].music # <<>> <=> place(s) <= l BY <2>7
    <3> QED BY <2>1, <2>6, <3>1 DEF l
  <2>14. {s \in Slots : slot[s].music # <<>>} = pending \cup counted BY <1>1, <2>1 DEF TransfersCarry
  <2>15. pending \cap taken = {} /\ pending \cap counted = {} OBVIOUS
  <2>16. InTransfers' = Cardinality(pending) + Cardinality(taken) /\ InTransfers = Cardinality(pending) + delivered
    <3> HIDE DEF pending, counted, taken
    <3>1. Cardinality({}) = 0 BY FS_EmptySet
    <3>2. Cardinality(pending \cup taken) = Cardinality(pending) + Cardinality(taken) - Cardinality(pending \cap taken)
      BY <2>4, <2>5, FS_Union
    <3>3. Cardinality(pending \cup counted) = Cardinality(pending) + Cardinality(counted) - Cardinality(pending \cap counted)
      BY <2>5, FS_Union
    <3>4. Cardinality(taken) \in Nat BY <2>2, <2>3, <2>4
    <3>5. InTransfers' = Cardinality(pending \cup taken) BY <2>13 DEF InTransfers
    <3>6. InTransfers = Cardinality(pending \cup counted) BY <2>14 DEF InTransfers
    <3>7. Cardinality(pending \cap taken) = 0 /\ Cardinality(pending \cap counted) = 0 BY <2>15, <3>1
    <3> QED BY <2>5, <3>2, <3>3, <3>4, <3>5, <3>6, <3>7 DEF delivered
  <2>17. PositionExact'
    <3>1. accepted = l + InTransfers + flags.frames /\ accepted' = accepted BY <1>1 DEF UsbInv, PositionExact, Play, l
    <3>2. delivered \in Nat BY <2>5 DEF delivered
    <3> HIDE DEF taken, pending, counted
    <3>3. accepted' = Len(bytes') + InTransfers' + flags'.frames
      <4>1. Cardinality(taken) + Len(bytes') = l BY <2>2, <2>3, <2>4, <2>8
      <4>2. Len(bytes') \in Nat /\ Cardinality(taken) \in Nat BY <2>2, <2>3, <2>4, <2>8
      <4> DEFINE k == Cardinality(pending)
                 t == Cardinality(taken)
                 rest == Len(bytes')
                 earlier == flags.frames
      <4>3. k \in Nat /\ t \in Nat /\ rest \in Nat /\ earlier \in Nat /\ t + rest = l BY <2>3, <2>5, <4>1, <4>2
      <4>4. accepted' = l + (k + delivered) + earlier BY <2>16, <3>1
      <4>5. InTransfers' = k + t /\ flags'.frames = earlier + delivered BY <2>9, <2>16
      <4> HIDE DEF k, t, rest, earlier
      <4>6. accepted' = rest + (k + t) + (earlier + delivered) BY <2>3, <3>2, <4>3, <4>4
      <4> QED BY <4>5, <4>6 DEF rest
    <3> QED BY <3>3 DEF PositionExact
  <2> QED BY <1>1, <1>2, <2>10, <2>11, <2>12, <2>17 DEF Play, UsbInv, RequestsAwaited, WorkerGone
<1>5. ASSUME ~UNCHANGED <<bytes, flags, slot>> PROVE UsbInv'
  <2>1. /\ flags' = [flags EXCEPT !.frames = @ + Cardinality({s \in FreeSlots : slot[s].submitted /\ slot[s].music # <<>>})]
        /\ slot' = [s \in Slots |-> IF s \in FreeSlots
                      THEN Refilled(LET n == CHOOSE k \in DOMAIN order : order[k] = s
                                    IN IF n <= Len(bytes) THEN <<bytes[n]>> ELSE <<>>)
                      ELSE slot[s]]
        /\ bytes' = IF Len(bytes) <= Len(order) THEN <<>> ELSE SubSeq(bytes, Len(order) + 1, Len(bytes))
    BY <1>5 DEF Play, order
  <2> QED BY <1>4, <1>o, <2>1
<1> QED BY <1>3, <1>5

LEMMA UsbStep == ASSUME UsbInv, [UsbNext]_usbVars PROVE UsbInv'
<1>1. CASE UNCHANGED usbVars
  BY <1>1 DEF usbVars, UsbInv, UsbTyped, FramesNew, TransfersCarry, RequestsAwaited, WorkerGone, NoPending, PositionExact,
              InTransfers
<1>2. CASE UsbNext BY <1>2, WriteInv, PlayerInv, CallersInv, CloserInv, CompleteInv, TurnInv, MovesInv, DrainedInv, PlayInv,
                      ExitInv DEF UsbNext
<1> QED BY <1>1, <1>2

LEMMA UsbInvExact == ASSUME UsbInv PROVE OutputExact
<1>1. UsbTyped /\ FramesNew BY DEF UsbInv
<1>2. flags.flushed \in Nat /\ player.done \in Nat BY <1>1 DEF UsbTyped, UsbFlags
<1>3. \A n \in DOMAIN bytes : bytes[n] \in Nat BY <1>1 DEF UsbTyped
<1>4. ASSUME NEW s \in Slots, slot[s].music # <<>> PROVE Head(slot[s].music) \in Nat
  <2>1. slot[s].music \in Music BY <1>1 DEF UsbTyped, Transfers
  <2> QED BY <1>4, <2>1 DEF Music
<1>5. FlushForgets BY <1>1, <1>2, <1>3, <1>4 DEF FlushForgets, FramesNew
<1> QED BY <1>5 DEF UsbInv, OutputExact, NothingLate, WorkerGone

-----------------------------------------------------------------------------
(***************************************************************************)
(* The volume.  VolumeInv is inductive and contains NeverLouder.            *)
(***************************************************************************)

VolumeTyped ==
  /\ ranges \in [1 .. Channels -> Ranges]
  /\ device \in [1 .. Channels -> Levels] /\ before \in [1 .. Channels -> Levels] /\ target \in [1 .. Channels -> Levels]
  /\ at \in Nat /\ sets \in Nat /\ volumeState \in {"closed", "opening", "ready", "setting", "failed"}
(* What is asked for before the user asks is no louder than it was, and what  *)
(* has been set is no louder than what was asked for.                       *)
TargetsQuiet == sets = 0 => \A c \in 1 .. Channels : device[c] <= before[c] /\ target[c] <= before[c]
ChannelsSet ==
  /\ volumeState \in {"opening", "setting"} => \A c \in 1 .. Channels : c < at => device[c] <= target[c]
  /\ volumeState = "ready" => snapshot = Loudest /\ \A c \in 1 .. Channels : device[c] <= target[c]
VolumeInv == VolumeTyped /\ TargetsQuiet /\ ChannelsSet

LEMMA SmallestOf ==
  ASSUME NEW S, S \subseteq Nat, S # {}
  PROVE  \E m \in S : \A y \in S : m <= y
<1>1. PICK m \in S : \A y \in S : ~(<<y, m>> \in OpToRel(<, Nat)) BY NatLessThanWellFounded, WFMin
<1>2. \A y \in S : ~(y < m) BY <1>1 DEF OpToRel
<1> QED BY <1>2

LEMMA LevelsAre ==
  /\ 0 \in Levels /\ 1 \in Levels
  /\ \A x \in Levels : x \in Int /\ 32767 - x \in Nat /\ x + 32768 \in Nat
  /\ \A x \in Int : \A y, z \in Levels : y <= x /\ x <= z => x \in Levels
<1>1. 0 \in Levels /\ 1 \in Levels BY DEF Levels
<1>2. \A x \in Levels : x \in Int /\ 32767 - x \in Nat /\ x + 32768 \in Nat BY DEF Levels
<1>3. SUFFICES ASSUME NEW x \in Int, NEW y \in Levels, NEW z \in Levels, y <= x, x <= z PROVE x \in Levels
  BY <1>1, <1>2
<1>4. 32767 - z \in Nat /\ y + 32768 \in Nat /\ y \in Int /\ z \in Int BY <1>2
<1>5. 32767 - x >= 0 /\ x + 32768 >= 0 BY <1>3, <1>4
<1> QED BY <1>5 DEF Levels

LEMMA ExtremesOf ==
  ASSUME NEW S, S \subseteq Levels, S # {}
  PROVE  /\ Max(S) \in S /\ \A y \in S : y <= Max(S)
         /\ Min(S) \in S /\ \A y \in S : Min(S) <= y
<1> DEFINE above == {32767 - x : x \in S}
           below == {x + 32768 : x \in S}
<1>a. above \subseteq Nat /\ above # {} /\ below \subseteq Nat /\ below # {} BY LevelsAre
<1>1. PICK hi \in above : \A y \in above : hi <= y
  <2> HIDE DEF above, below
  <2>1. above \subseteq Nat /\ above # {} BY <1>a
  <2>2. \E m \in above : \A y \in above : m <= y BY <2>1, SmallestOf
  <2> QED BY <2>2
<1>2. PICK lo \in below : \A y \in below : lo <= y
  <2> HIDE DEF above, below
  <2>1. below \subseteq Nat /\ below # {} BY <1>a
  <2>2. \E m \in below : \A y \in below : m <= y BY <2>1, SmallestOf
  <2> QED BY <2>2
<1>3. PICK a \in S : hi = 32767 - a BY <1>1
<1>4. PICK b \in S : lo = b + 32768 BY <1>2
<1>5. \A y \in S : y \in Int BY LevelsAre
<1>6. \A y \in S : 32767 - a <= 32767 - y BY <1>1, <1>3
<1>7. \A y \in S : b + 32768 <= y + 32768 BY <1>2, <1>4
<1>8. \A y \in S : a >= y BY <1>5, <1>6
<1>9. \A y \in S : b <= y BY <1>5, <1>7
<1>10. Max(S) \in S /\ \A y \in S : Max(S) >= y BY <1>8 DEF Max
<1>11. Min(S) \in S /\ \A y \in S : Min(S) <= y BY <1>9 DEF Min
<1> QED BY <1>5, <1>10, <1>11

(* A step above the minimum that is not above the value (Range::floor).      *)
LEMMA FloorBelow ==
  ASSUME NEW r, NEW value \in Levels, r.min \in Levels, r.max \in Levels, r.step \in Levels, r.min <= r.max, r.step >= 0,
         r.min <= value
  PROVE  Floor(r, value) \in Levels /\ Floor(r, value) <= value
<1> DEFINE low == Min({value, r.max})
           v == Max({r.min, low})
           step == Max({r.step, 1})
<1>1. low \in {value, r.max} /\ low <= value /\ low <= r.max BY ExtremesOf
<1>2. low \in Levels BY <1>1
<1>3. v \in {r.min, low} /\ r.min <= v /\ low <= v BY <1>2, ExtremesOf
<1>4. 1 \in Levels BY LevelsAre
<1>5. step \in {r.step, 1} /\ 1 <= step BY <1>4, ExtremesOf
<1>6. r.min \in Int /\ v \in Int /\ step \in Nat /\ step > 0 /\ r.min <= v /\ v <= value
  <2> HIDE DEF low, v, step
  <2> QED BY <1>1, <1>2, <1>3, <1>5, LevelsAre
<1> DEFINE d == v - r.min
           q == d \div step
<1> HIDE DEF low, v, step
<1>7. d \in Nat BY <1>6
<1> HIDE DEF d
<1>8. q \in Nat /\ q * step <= d BY <1>6, <1>7
<1> HIDE DEF q
<1>9. q * step \in Nat BY <1>6, <1>8
<1>10. Floor(r, value) = r.min + q * step BY DEF Floor, low, v, step, d, q
<1>11. r.min + q * step <= v /\ r.min <= r.min + q * step BY <1>6, <1>8, <1>9 DEF d
<1>12. r.min + q * step \in Int BY <1>6, <1>9
<1> QED BY <1>6, <1>10, <1>11, <1>12, LevelsAre

LEMMA RangesTyped ==
  ASSUME VolumeInv, NEW c \in 1 .. Channels
  PROVE  /\ ranges[c] # {}
         /\ \A r \in ranges[c] : /\ r.min \in Levels /\ r.max \in Levels /\ r.step \in Levels
                                 /\ r.min <= r.max /\ r.step >= 0
<1>1. ranges[c] \in Ranges BY DEF VolumeInv, VolumeTyped
<1> QED BY <1>1, VolumeAssumption

LEMMA ValueBelow ==
  ASSUME VolumeInv, NEW c \in 1 .. Channels, Usable(c)
  PROVE  ValueFor(c) \in Levels /\ ValueFor(c) <= target[c]
<1>1. target[c] \in Levels BY DEF VolumeInv, VolumeTyped
<1>2. CASE target[c] = SilentValue
  BY <1>1, <1>2, LevelsAre DEF ValueFor
<1>3. CASE target[c] # SilentValue
  <2> DEFINE S == {Floor(r, target[c]) : r \in Fitting(c)}
  <2>1. \A r \in Fitting(c) : Floor(r, target[c]) \in Levels /\ Floor(r, target[c]) <= target[c]
    BY <1>1, RangesTyped, FloorBelow DEF Fitting
  <2>2. S \subseteq Levels /\ S # {} BY <1>3, <2>1 DEF Usable
  <2>3. Max(S) \in S BY <2>2, ExtremesOf
  <2>4. ValueFor(c) = Max(S) BY <1>3 DEF ValueFor
  <2> QED BY <2>1, <2>2, <2>3, <2>4
<1> QED BY <1>2, <1>3

LEMMA HighestLevel == ASSUME VolumeInv PROVE Highest \in Levels
<1> DEFINE best(c) == Max({r.max : r \in ranges[c]})
           S == {best(c) : c \in 1 .. Channels}
<1>1. ASSUME NEW c \in 1 .. Channels PROVE best(c) \in Levels
  <2>1. {r.max : r \in ranges[c]} \subseteq Levels /\ {r.max : r \in ranges[c]} # {} BY RangesTyped
  <2> QED BY <2>1, ExtremesOf
<1>2. 1 \in 1 .. Channels BY VolumeAssumption
<1>3. S \subseteq Levels /\ S # {} BY <1>1, <1>2
<1>4. Min(S) \in Levels BY <1>3, ExtremesOf
<1>5. 0 \in Levels BY LevelsAre
<1>6. Min({Min(S), 0}) \in {Min(S), 0} BY <1>4, <1>5, ExtremesOf
<1> QED BY <1>4, <1>5, <1>6 DEF Highest

LEMMA VolumeInitInv == VolumeInit => VolumeInv
<1> SUFFICES ASSUME VolumeInit PROVE VolumeInv OBVIOUS
<1>1. Values \cup {SilentValue} \subseteq Levels BY VolumeAssumption
<1>2. device \in [1 .. Channels -> Levels] /\ before = device /\ target = device BY <1>1 DEF VolumeInit
<1>3. \A c \in 1 .. Channels : device[c] \in Int BY <1>2, LevelsAre, SMTT(30)
<1> QED BY <1>2, <1>3 DEF VolumeInit, VolumeInv, VolumeTyped, TargetsQuiet, ChannelsSet

LEMMA VolumeStep == ASSUME VolumeInv, [VolumeNext]_volumeVars PROVE VolumeInv'
<1>1. VolumeTyped /\ TargetsQuiet /\ ChannelsSet BY DEF VolumeInv
<1>2. \A c \in 1 .. Channels : device[c] \in Levels /\ before[c] \in Levels /\ target[c] \in Levels BY <1>1 DEF VolumeTyped
<1>3. \A x \in Levels : x \in Int BY LevelsAre
<1>4. CASE UNCHANGED volumeVars
  BY <1>1, <1>4 DEF volumeVars, VolumeInv, VolumeTyped, TargetsQuiet, ChannelsSet, Loudest
<1>5. CASE OpenVolume
  <2>1. CASE target' = [c \in 1 .. Channels |-> Min({device[c], Startup})] /\ volumeState' = "opening" /\ at' = 1
    <3>1. ASSUME NEW c \in 1 .. Channels PROVE Min({device[c], Startup}) \in Levels /\ Min({device[c], Startup}) <= device[c]
      BY <1>2, VolumeAssumption, ExtremesOf
    <3>2. target' \in [1 .. Channels -> Levels] /\ \A c \in 1 .. Channels : target'[c] <= device[c] BY <2>1, <3>1
    <3>3. TargetsQuiet' BY <1>1, <1>2, <1>3, <1>5, <3>2 DEF OpenVolume, TargetsQuiet, VolumeTyped
    <3> QED BY <1>1, <1>5, <2>1, <3>2, <3>3 DEF OpenVolume, VolumeInv, VolumeTyped, ChannelsSet
  <2>2. CASE volumeState' = "failed" /\ UNCHANGED target /\ UNCHANGED at
    BY <1>1, <1>5, <2>2 DEF OpenVolume, VolumeInv, VolumeTyped, TargetsQuiet, ChannelsSet
  <2> QED BY <1>5, <2>1, <2>2 DEF OpenVolume
<1>6. CASE SetTo
  <2>1. PICK value \in Values \cup {SilentValue} : target' = [c \in 1 .. Channels |-> Min({value, Highest})]
    BY <1>6 DEF SetTo
  <2>2. value \in Levels BY VolumeAssumption
  <2>3. Min({value, Highest}) \in Levels BY <2>2, HighestLevel, ExtremesOf
  <2>4. target' \in [1 .. Channels -> Levels] BY <2>1, <2>3
  <2>5. sets' \in Nat /\ sets' # 0 BY <1>1, <1>6 DEF SetTo, VolumeTyped
  <2>6. TargetsQuiet' BY <2>5 DEF TargetsQuiet
  <2>7. volumeState' = "setting" /\ at' = 1 /\ device' = device /\ before' = before /\ ranges' = ranges BY <1>6 DEF SetTo, volumeVars
  <2>8. ChannelsSet' BY <2>7 DEF ChannelsSet
  <2>9. VolumeTyped' BY <1>1, <2>4, <2>5, <2>7 DEF VolumeTyped
  <2> QED BY <2>6, <2>8, <2>9 DEF VolumeInv
<1>7. CASE SetChannel
  <2>1. at \in 1 .. Channels \/ at = 0 BY <1>1, <1>7, VolumeAssumption DEF SetChannel, VolumeTyped
  <2>2. ASSUME Usable(at), device' = [device EXCEPT ![at] = ValueFor(at)]
        PROVE  /\ device' \in [1 .. Channels -> Levels]
               /\ \A c \in 1 .. Channels : IF c = at THEN device'[c] <= target[c] ELSE device'[c] = device[c]
    <3>1. CASE at \in 1 .. Channels
      <4>1. ValueFor(at) \in Levels /\ ValueFor(at) <= target[at] BY <2>2, <3>1, ValueBelow
      <4> QED BY <1>1, <2>2, <4>1 DEF VolumeTyped
    <3>2. CASE at \notin 1 .. Channels BY <1>1, <2>2, <3>2 DEF VolumeTyped
    <3> QED BY <3>1, <3>2
  <2>3. /\ device' \in [1 .. Channels -> Levels]
        /\ \A c \in 1 .. Channels : device'[c] = device[c] \/ device'[c] <= target[c]
    BY <1>1, <1>7, <2>2 DEF SetChannel, VolumeTyped
  <2>4. TargetsQuiet'
    <3>1. \A c \in 1 .. Channels : device'[c] \in Levels BY <2>3
    <3> QED BY <1>1, <1>2, <1>3, <1>7, <2>3, <3>1 DEF SetChannel, TargetsQuiet
  <2>5. CASE volumeState' = "failed" /\ UNCHANGED at
    BY <1>1, <1>7, <2>3, <2>4, <2>5 DEF SetChannel, VolumeInv, VolumeTyped, ChannelsSet
  <2>6. CASE Usable(at) /\ device' = [device EXCEPT ![at] = ValueFor(at)] /\ at' = at + 1 /\ UNCHANGED volumeState
    <3>1. \A c \in 1 .. Channels : c < at' => c < at \/ c = at BY <1>1, <2>6 DEF VolumeTyped
    <3>2. ChannelsSet' BY <1>1, <1>7, <2>2, <2>6, <3>1 DEF SetChannel, ChannelsSet
    <3> QED BY <1>1, <1>7, <2>3, <2>4, <2>6, <3>2 DEF SetChannel, VolumeInv, VolumeTyped
  <2> QED BY <1>7, <2>5, <2>6 DEF SetChannel
<1>8. CASE TargetsSet
  <2>1. \A c \in 1 .. Channels : c < at BY <1>1, <1>8, VolumeAssumption DEF TargetsSet, VolumeTyped
  <2> QED BY <1>1, <1>8, <2>1 DEF TargetsSet, VolumeInv, VolumeTyped, TargetsQuiet, ChannelsSet, Loudest
<1> QED BY <1>4, <1>5, <1>6, <1>7, <1>8 DEF VolumeNext

LEMMA VolumeInvQuiet == ASSUME VolumeInv PROVE NeverLouder
<1>1. ASSUME volumeState = "ready" PROVE Loudest <= Max({target[c] : c \in 1 .. Channels})
  <2> DEFINE D == {device[c] : c \in 1 .. Channels}
             T == {target[c] : c \in 1 .. Channels}
  <2>1. 1 \in 1 .. Channels BY VolumeAssumption
  <2>2. D \subseteq Levels /\ D # {} /\ T \subseteq Levels /\ T # {} BY <2>1 DEF VolumeInv, VolumeTyped
  <2>3. Max(D) \in D /\ (\A y \in T : y <= Max(T)) /\ Max(T) \in T BY <2>2, ExtremesOf
  <2>4. PICK c \in 1 .. Channels : Max(D) = device[c] BY <2>3
  <2>5. device[c] <= target[c] /\ target[c] <= Max(T) BY <1>1, <2>3 DEF VolumeInv, ChannelsSet
  <2>6. device[c] \in Levels /\ target[c] \in Levels /\ Max(T) \in Levels BY <2>2, <2>3
  <2> HIDE DEF D, T
  <2>7. Max(D) <= Max(T) BY <2>4, <2>5, <2>6, LevelsAre
  <2> QED BY <2>7 DEF Loudest, D, T
<1> QED BY <1>1 DEF VolumeInv, TargetsQuiet, ChannelsSet, NeverLouder

(* Frames are counted exactly until a transfer fails, no frame from before a  *)
(* flush comes after it, no volume is set for a caller that has left, no      *)
(* transfer is under way when close() returns; and no channel is louder than  *)
(* it was or than it was asked to be (Session::run, Output::flush,            *)
(* Volume::set_targets).                                                    *)
THEOREM UsbIsSound == UsbSpec /\ VolumeSpec => []UsbSound
<1>1. UsbSpec => []UsbInv BY UsbInitInv, UsbStep, PTL DEF UsbSpec
<1>2. VolumeSpec => []VolumeInv BY VolumeInitInv, VolumeStep, PTL DEF VolumeSpec
<1>3. UsbInv /\ VolumeInv => UsbSound BY UsbInvExact, VolumeInvQuiet DEF UsbSound
<1> QED BY <1>1, <1>2, <1>3, PTL
=============================================================================
