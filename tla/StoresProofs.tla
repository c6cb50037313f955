---------------------------- MODULE StoresProofs ----------------------------
(***************************************************************************)
(* Proofs about what extensions and downloads share, for all values of the  *)
(* constants: the graph of the calls they wait for (CallGraph), the index   *)
(* of the ISRCs of a directory (IsrcIndex), the data of an extension        *)
(* (ExtensionData), and the repository (ExtensionRepository).               *)
(***************************************************************************)
EXTENDS CallGraph, IsrcIndex, ExtensionData, ExtensionRepository, FiniteSetTheorems, TLAPS

(***************************************************************************)
(* The call graph.  The heart is that an accepted edge closes no cycle:     *)
(* when the search ends the visited nodes are closed under the edges, hold  *)
(* the target and not the caller, so a cycle through the new edge would have*)
(* a part among the visited nodes that was a cycle before.                  *)
(***************************************************************************)

LEMMA InitIInv == GraphInit => GraphIInv
<1> SUFFICES ASSUME GraphInit PROVE GraphIInv OBVIOUS
<1>1. GraphTypeOK BY GraphAssumption DEF GraphInit, GraphTypeOK, Ids
<1>2. LiveInv BY DEF GraphInit, LiveInv
<1>3. EdgesCountWaits
  <2>1. \A g \in Graphs : WaitPairs(g) = {} BY DEF GraphInit, WaitPairs
  <2>2. \A g \in Graphs : DOMAIN edges[g] = {} BY DEF GraphInit
  <2> QED BY <2>1, <2>2 DEF EdgesCountWaits
<1>4. \A g \in Graphs : SearchInv(g) BY DEF GraphInit, SearchInv
<1>5. NoCyclicWait BY DEF GraphInit, NoCyclicWait, Cyclic
<1> QED BY <1>1, <1>2, <1>3, <1>4, <1>5 DEF GraphIInv

(* What is said of the waits that exist is untouched by a step that leaves  *)
(* them alone, whatever it does to the request being searched for.          *)
LEMMA SameWaits ==
  ASSUME live' = live, \A w \in live : caller'[w] = caller[w] /\ target'[w] = target[w]
  PROVE  /\ LiveInv => LiveInv'
         /\ NoCyclicWait => NoCyclicWait'
         /\ \A g : WaitPairs(g)' = WaitPairs(g)
         /\ \A g, p : WaitsOn(g, p)' = WaitsOn(g, p)
         /\ \A g, C : Closed(g, C)' <=> Closed(g, C)
         /\ \A g, t, i : Reaches(g, t, i)' <=> Reaches(g, t, i)
<1>1. LiveInv => LiveInv' BY DEF LiveInv, Nodes, Ids
<1>2. NoCyclicWait => NoCyclicWait'
  <2>1. \A S : Cyclic(S)' <=> Cyclic(S) BY DEF Cyclic
  <2> QED BY <2>1 DEF NoCyclicWait, Nodes, Ids
<1>3. \A g : WaitPairs(g)' = WaitPairs(g) BY DEF WaitPairs, Edge
<1>4. \A g, p : WaitsOn(g, p)' = WaitsOn(g, p) BY DEF WaitsOn, Edge
<1>5. \A g, C : Closed(g, C)' <=> Closed(g, C) BY DEF Closed
<1>6. \A g, t, i : Reaches(g, t, i)' <=> Reaches(g, t, i)
  BY <1>5 DEF Reaches, Ids
<1> QED BY <1>1, <1>2, <1>3, <1>4, <1>5, <1>6

(* The same for one graph, when the step changes waits of another.          *)
LEMMA SameWaitsOf ==
  ASSUME NEW h,
         \A w : w \in live /\ caller[w][1] = h <=> w \in live' /\ caller'[w][1] = h,
         \A w \in live : caller'[w] = caller[w] /\ target'[w] = target[w]
  PROVE  /\ WaitPairs(h)' = WaitPairs(h)
         /\ \A p : WaitsOn(h, p)' = WaitsOn(h, p)
         /\ \A t, i : Reaches(h, t, i)' <=> Reaches(h, t, i)
<1>1. WaitPairs(h)' = WaitPairs(h) BY DEF WaitPairs, Edge
<1>2. \A p : WaitsOn(h, p)' = WaitsOn(h, p) BY DEF WaitsOn, Edge
<1>3. \A C : Closed(h, C)' <=> Closed(h, C) BY DEF Closed
<1>4. \A t, i : Reaches(h, t, i)' <=> Reaches(h, t, i) BY <1>3 DEF Reaches, Ids
<1> QED BY <1>1, <1>2, <1>4

LEMMA NodeIInv == ASSUME GraphIInv, NEW g \in Graphs, Node(g) PROVE GraphIInv'
<1>1. GraphTypeOK' BY GraphAssumption DEF GraphIInv, GraphTypeOK, Node, Ids
<1>2. LiveInv' /\ NoCyclicWait' BY SameWaits DEF Node, GraphIInv
<1>3. EdgesCountWaits' BY SameWaits DEF Node, GraphIInv, EdgesCountWaits
<1>4. \A h \in Graphs : SearchInv(h)' BY SameWaits DEF Node, GraphIInv, SearchInv, Ids
<1> QED BY <1>1, <1>2, <1>3, <1>4 DEF GraphIInv

LEMMA WaitForIInv ==
  ASSUME GraphIInv, NEW w \in Waits, NEW c \in Nodes, NEW t \in Nodes, WaitFor(w, c, t)
  PROVE  GraphIInv'
<1> USE GraphAssumption
<1> DEFINE g == c[1]
<1>0. /\ g \in Graphs /\ c[2] \in Ids /\ t[2] \in Ids /\ t[1] = g /\ w \notin live
      /\ c \in Graphs \X Nat /\ t \in Graphs \X Nat
  BY DEF WaitFor, Nodes, Ids
<1>1. GraphTypeOK' BY <1>0 DEF GraphIInv, GraphTypeOK, WaitFor
<1>2. live' = live /\ \A v \in live : caller'[v] = caller[v] /\ target'[v] = target[v]
  BY <1>0 DEF WaitFor, GraphIInv, GraphTypeOK
<1>3. LiveInv' /\ NoCyclicWait' BY <1>2, SameWaits DEF GraphIInv
<1>4. EdgesCountWaits' BY <1>2, SameWaits DEF WaitFor, GraphIInv, EdgesCountWaits
<1>5. ASSUME NEW h \in Graphs PROVE SearchInv(h)'
  <2>1. CASE h = g
    <3>1. /\ holder'[h] = w /\ caller'[w] = c /\ target'[w] = t
          /\ pending'[h] = {t[2]} /\ visited'[h] = {}
      BY <2>1, <1>0 DEF WaitFor, GraphIInv, GraphTypeOK
    <3>2. Reaches(h, t[2], t[2])' BY DEF Reaches
    <3> QED BY <2>1, <3>1, <3>2, <1>0, <1>2 DEF SearchInv, Ids
  <2>2. CASE h # g
    <3>1. /\ holder'[h] = holder[h] /\ pending'[h] = pending[h] /\ visited'[h] = visited[h]
          /\ edges' = edges /\ holder[h] # w
      BY <2>2 DEF WaitFor, GraphIInv, GraphTypeOK
    <3>2. holder[h] # Nobody =>
            caller'[holder[h]] = caller[holder[h]] /\ target'[holder[h]] = target[holder[h]]
      BY <3>1 DEF WaitFor, GraphIInv, GraphTypeOK
    <3>3. \A s, i : Reaches(h, s, i)' <=> Reaches(h, s, i) BY <1>2, SameWaits
    <3>4. SearchInv(h) BY DEF GraphIInv
    <3> QED BY <3>1, <3>2, <3>3, <3>4, <1>2 DEF SearchInv, Ids
  <2> QED BY <2>1, <2>2
<1> QED BY <1>1, <1>3, <1>4, <1>5 DEF GraphIInv

LEMMA RejectIInv == ASSUME GraphIInv, NEW g \in Graphs, Reject(g) PROVE GraphIInv'
<1>1. GraphTypeOK' BY DEF GraphIInv, GraphTypeOK, Reject, Ids
<1>2. LiveInv' /\ NoCyclicWait' BY SameWaits DEF Reject, GraphIInv
<1>3. EdgesCountWaits' BY SameWaits DEF Reject, GraphIInv, EdgesCountWaits
<1>4. ASSUME NEW h \in Graphs PROVE SearchInv(h)'
  <2>1. CASE h = g BY <2>1 DEF Reject, GraphIInv, GraphTypeOK, SearchInv
  <2>2. CASE h # g
    <3>1. /\ holder'[h] = holder[h] /\ pending'[h] = pending[h] /\ visited'[h] = visited[h]
          /\ UNCHANGED <<edges, live, caller, target>>
      BY <2>2 DEF Reject, GraphIInv, GraphTypeOK
    <3>2. \A s, i : Reaches(h, s, i)' <=> Reaches(h, s, i) BY <3>1, SameWaits
    <3>3. SearchInv(h) BY DEF GraphIInv
    <3> QED BY <3>1, <3>2, <3>3 DEF SearchInv, Ids
  <2> QED BY <2>1, <2>2
<1> QED BY <1>1, <1>2, <1>3, <1>4 DEF GraphIInv

(* A recorded edge is a wait that exists. *)
LEMMA EdgeIsWait ==
  ASSUME LiveInv, EdgesCountWaits, NEW g \in Graphs
  PROVE  \A i, j : (<<i, j>> \in DOMAIN edges[g])
           <=> (\E w \in live : caller[w] = <<g, i>> /\ target[w] = <<g, j>>)
<1>1. DOMAIN edges[g] = WaitPairs(g) BY DEF EdgesCountWaits
<1>2. \A w \in live : caller[w] = <<caller[w][1], caller[w][2]>>
                   /\ target[w] = <<caller[w][1], target[w][2]>>
  BY DEF LiveInv, Nodes
<1> QED BY <1>1, <1>2 DEF WaitPairs, Edge

LEMMA VisitIInv == ASSUME GraphIInv, NEW g \in Graphs, NEW i \in Ids, Visit(g, i) PROVE GraphIInv'
<1>1. GraphTypeOK' BY DEF GraphIInv, GraphTypeOK, Visit, Successors, Ids
<1>2. LiveInv' /\ NoCyclicWait' BY SameWaits DEF Visit, GraphIInv
<1>3. EdgesCountWaits' BY SameWaits DEF Visit, GraphIInv, EdgesCountWaits
<1>4. ASSUME NEW h \in Graphs PROVE SearchInv(h)'
  <2>1. CASE h # g
    <3>1. /\ holder'[h] = holder[h] /\ pending'[h] = pending[h] /\ visited'[h] = visited[h]
          /\ UNCHANGED <<edges, live, caller, target>>
      BY <2>1 DEF Visit, GraphIInv, GraphTypeOK
    <3>2. \A s, k : Reaches(h, s, k)' <=> Reaches(h, s, k) BY <3>1, SameWaits
    <3>3. SearchInv(h) BY DEF GraphIInv
    <3> QED BY <3>1, <3>2, <3>3 DEF SearchInv, Ids
  <2>2. CASE h = g
    <3>0. \A k, j : <<k, j>> \in DOMAIN edges[g] =>
            \E v \in live : caller[v] = <<g, k>> /\ target[v] = <<g, j>>
      BY EdgeIsWait DEF GraphIInv
    <3> DEFINE w == holder[g]  t == target[w][2]
               P == pending'[g]  V == visited'[g]
    <3>1. /\ w # Nobody /\ holder'[g] = w /\ w \notin live /\ i \in pending[g]
          /\ caller[w][1] = g /\ target[w][1] = g
          /\ caller[w][2] \in Ids /\ t \in Ids
          /\ caller[w][2] # i /\ caller[w][2] \notin visited[g]
          /\ t \in pending[g] \cup visited[g]
      BY DEF Visit, GraphIInv, SearchInv, CallerId
    <3>2. /\ V = visited[g] \cup {i}
          /\ P = (pending[g] \ {i}) \cup (IF i \in visited[g] THEN {} ELSE Successors(g, i))
      BY DEF Visit, GraphIInv, GraphTypeOK
    <3>3. /\ \A k, j \in Ids : <<k, j>> \in DOMAIN edges[g] /\ k \in visited[g]
                                => j \in pending[g] \cup visited[g]
          /\ \A k \in pending[g] \cup visited[g] : Reaches(g, t, k)
      BY <3>1 DEF GraphIInv, SearchInv
    <3>4. \A k, j \in Ids : <<k, j>> \in DOMAIN edges[g] /\ k \in V => j \in P \cup V
      BY <3>2, <3>3 DEF Successors
    <3>5. \A k \in P \cup V : Reaches(g, t, k)
      <4>1. Reaches(g, t, i) BY <3>1, <3>3
      <4>2. ASSUME NEW j \in Successors(g, i) PROVE Reaches(g, t, j)
        <5>1. PICK v \in live : caller[v] = <<g, i>> /\ target[v] = <<g, j>>
          BY <3>0 DEF Successors
        <5> QED BY <4>1, <5>1 DEF Reaches, Closed
      <4> QED BY <3>2, <3>3, <4>1, <4>2
    <3>6. \A k : Reaches(g, t, k)' <=> Reaches(g, t, k)
      <4>1. \A s, k : Reaches(g, s, k)' <=> Reaches(g, s, k) BY SameWaits DEF Visit
      <4>2. t' = t BY DEF Visit
      <4> QED BY <4>1, <4>2
    <3>7. UNCHANGED <<caller, target, edges, live, w>> BY DEF Visit
    <3>8. caller[w][2] \notin V /\ t \in P \cup V BY <3>1, <3>2
    <3> QED BY <2>2, <3>1, <3>4, <3>5, <3>6, <3>7, <3>8 DEF SearchInv, Ids
  <2> QED BY <2>1, <2>2
<1> QED BY <1>1, <1>2, <1>3, <1>4 DEF GraphIInv

(* The waits on one pair of ids can be counted. *)
LEMMA CountWaits ==
  ASSUME GraphTypeOK, NEW g, NEW p
  PROVE  /\ IsFiniteSet(WaitsOn(g, p))
         /\ Cardinality(WaitsOn(g, p)) \in Nat
         /\ WaitsOn(g, p) = {} <=> Cardinality(WaitsOn(g, p)) = 0
         /\ WaitsOn(g, p) = {} <=> p \notin WaitPairs(g)
         /\ \A w : w \notin WaitsOn(g, p) =>
              Cardinality(WaitsOn(g, p) \cup {w}) = Cardinality(WaitsOn(g, p)) + 1
         /\ \A w \in WaitsOn(g, p) :
              Cardinality(WaitsOn(g, p) \ {w}) = Cardinality(WaitsOn(g, p)) - 1
<1>1. WaitsOn(g, p) \subseteq Waits BY DEF WaitsOn, GraphTypeOK
<1>2. IsFiniteSet(WaitsOn(g, p)) BY <1>1, FS_Subset, GraphAssumption
<1>3. WaitsOn(g, p) = {} <=> p \notin WaitPairs(g) BY DEF WaitsOn, WaitPairs
<1>4. Cardinality(WaitsOn(g, p)) \in Nat BY <1>2, FS_CardinalityType
<1>5. WaitsOn(g, p) = {} <=> Cardinality(WaitsOn(g, p)) = 0 BY <1>2, FS_EmptySet
<1>6. \A w : w \notin WaitsOn(g, p) =>
        Cardinality(WaitsOn(g, p) \cup {w}) = Cardinality(WaitsOn(g, p)) + 1
  BY <1>2, FS_AddElement
<1>7. \A w \in WaitsOn(g, p) :
        Cardinality(WaitsOn(g, p) \ {w}) = Cardinality(WaitsOn(g, p)) - 1
  BY <1>2, FS_RemoveElement
<1> QED BY <1>2, <1>3, <1>4, <1>5, <1>6, <1>7

(* An accepted edge closes no cycle. *)
LEMMA AcceptAcyclic ==
  ASSUME GraphIInv, NEW g \in Graphs, Accept(g)
  PROVE  NoCyclicWait'
<1> DEFINE new == holder[g]  c == caller[new]  t == target[new]
           V == {<<g, i>> : i \in visited[g]}
<1>0. \A i, j : <<i, j>> \in DOMAIN edges[g] <=>
        \E v \in live : caller[v] = <<g, i>> /\ target[v] = <<g, j>>
  BY EdgeIsWait DEF GraphIInv
<1>1. /\ new \in Waits \ live /\ live' = live \cup {new} /\ pending[g] = {}
      /\ caller' = caller /\ target' = target
  BY DEF Accept, GraphIInv, GraphTypeOK, SearchInv
<1>2. /\ c[1] = g /\ t[1] = g /\ c[2] \notin visited[g] /\ t[2] \in visited[g]
      /\ \A i, j \in Ids : <<i, j>> \in DOMAIN edges[g] /\ i \in visited[g] => j \in visited[g]
  BY <1>1 DEF Accept, GraphIInv, SearchInv
<1>3. c \notin V /\ t \in V
  <2>1. t = <<g, t[2]>> BY <1>1, <1>2 DEF GraphIInv, GraphTypeOK, Nodes
  <2>2. c = <<g, c[2]>> BY <1>1, <1>2 DEF GraphIInv, GraphTypeOK, Nodes
  <2>3. t \in V BY <1>2, <2>1
  <2>4. ASSUME NEW i \in visited[g] PROVE c # <<g, i>>
    <3> HIDE DEF c
    <3> QED BY <1>2, <2>2
  <2> QED BY <2>3, <2>4
<1>4. \A w \in live : caller[w] \in V => target[w] \in V
  <2> SUFFICES ASSUME NEW w \in live, caller[w] \in V PROVE target[w] \in V OBVIOUS
  <2>1. PICK i \in visited[g] : caller[w] = <<g, i>> OBVIOUS
  <2>2. /\ target[w] = <<g, target[w][2]>> /\ target[w][2] \in Ids /\ i \in Ids
    BY <2>1 DEF GraphIInv, LiveInv, Nodes, GraphTypeOK
  <2>3. <<i, target[w][2]>> \in DOMAIN edges[g] BY <1>0, <2>1, <2>2
  <2> QED BY <1>2, <2>2, <2>3
<1> HIDE DEF V, c, t, new
<1>5. SUFFICES ASSUME NEW S \in SUBSET Nodes, Cyclic(S)', S # {} PROVE FALSE
  BY DEF NoCyclicWait, Nodes, Ids
<1>6. \A n \in S : \E w \in live \cup {new} : caller[w] = n /\ target[w] \in S
  BY <1>1, <1>5 DEF Cyclic
<1>7. CASE t \notin S
  <2>1. Cyclic(S) BY <1>6, <1>7 DEF Cyclic, t
  <2> QED BY <2>1, <1>5 DEF GraphIInv, NoCyclicWait
<1>8. CASE t \in S
  <2>1. Cyclic(S \cap V)
    <3> SUFFICES ASSUME NEW n \in S \cap V
                 PROVE  \E w \in live : caller[w] = n /\ target[w] \in S \cap V
      BY DEF Cyclic
    <3>1. PICK w \in live \cup {new} : caller[w] = n /\ target[w] \in S BY <1>6
    <3>2. w \in live BY <3>1, <1>3 DEF c
    <3> QED BY <3>1, <3>2, <1>4
  <2>2. t \in S \cap V BY <1>8, <1>3
  <2>3. S \cap V \in SUBSET Nodes OBVIOUS
  <2> QED BY <2>1, <2>2, <2>3 DEF GraphIInv, NoCyclicWait
<1> QED BY <1>7, <1>8

(* The search of another graph is not disturbed by a step that changes the  *)
(* waits of g only.                                                         *)
LEMMA OtherSearch ==
  ASSUME NEW g \in Graphs, NEW h \in Graphs, h # g, SearchInv(h),
         holder'[h] = holder[h], pending'[h] = pending[h], visited'[h] = visited[h],
         edges'[h] = edges[h], caller' = caller, target' = target,
         holder[h] \notin live',
         \A w : caller[w][1] # g => (w \in live <=> w \in live')
  PROVE  SearchInv(h)'
<1>1. \A s, i : Reaches(h, s, i)' <=> Reaches(h, s, i)
  BY SameWaitsOf
<1> QED BY <1>1 DEF SearchInv, Ids

LEMMA AcceptIInv == ASSUME GraphIInv, NEW g \in Graphs, Accept(g) PROVE GraphIInv'
<1> DEFINE new == holder[g]  p == Edge(new)
<1>1. /\ new \in Waits \ live /\ live' = live \cup {new}
      /\ caller' = caller /\ target' = target
      /\ caller[new][1] = g /\ target[new][1] = g
      /\ caller[new][2] \in Ids /\ target[new][2] \in Ids
  BY DEF Accept, GraphIInv, GraphTypeOK, SearchInv
<1>2. GraphTypeOK' BY <1>1 DEF GraphIInv, GraphTypeOK, Accept, Ids
<1>3. LiveInv'
  <2>1. caller[new] \in Nodes /\ target[new] \in Nodes BY <1>1 DEF GraphIInv, GraphTypeOK, Nodes
  <2> QED BY <1>1, <2>1 DEF GraphIInv, LiveInv, Nodes, Ids
<1>4. ASSUME NEW h \in Graphs PROVE SearchInv(h)'
  <2>1. CASE h = g BY <2>1 DEF Accept, GraphIInv, GraphTypeOK, SearchInv
  <2>2. CASE h # g
    <3>1. /\ holder'[h] = holder[h] /\ pending'[h] = pending[h] /\ visited'[h] = visited[h]
          /\ holder[h] \in Waits \cup {Nobody}
      BY <2>2 DEF Accept, GraphIInv, GraphTypeOK
    <3>2. edges'[h] = edges[h]
      <4>1. edges' = [edges EXCEPT ![g] = AddCount(@, Edge(holder[g]))] BY DEF Accept
      <4> QED BY <2>2, <4>1
    <3>3. SearchInv(h) BY DEF GraphIInv
    <3>4. holder[h] # new /\ holder[h] \notin live
      BY <1>1, <2>2, <3>3, <3>1, GraphAssumption DEF SearchInv, GraphIInv, GraphTypeOK
    <3> QED BY <1>1, <2>2, <3>1, <3>2, <3>3, <3>4, OtherSearch
  <2> QED BY <2>1, <2>2
<1>5. EdgesCountWaits'
  <2> SUFFICES ASSUME NEW h \in Graphs
               PROVE  /\ DOMAIN edges'[h] = WaitPairs(h)'
                      /\ \A q \in WaitPairs(h)' : edges'[h][q] = Cardinality(WaitsOn(h, q)')
    BY DEF EdgesCountWaits
  <2>0. /\ DOMAIN edges[h] = WaitPairs(h)
        /\ \A q \in WaitPairs(h) : edges[h][q] = Cardinality(WaitsOn(h, q))
    BY DEF GraphIInv, EdgesCountWaits
  <2>1. CASE h # g
    <3>1. edges'[h] = edges[h] BY <2>1 DEF Accept, GraphIInv, GraphTypeOK
    <3>2. WaitPairs(h)' = WaitPairs(h) /\ \A q : WaitsOn(h, q)' = WaitsOn(h, q)
      BY <1>1, <2>1, SameWaitsOf
    <3> QED BY <2>0, <3>1, <3>2
  <2>2. CASE h = g
    <3>1. edges'[g] = AddCount(edges[g], p) BY DEF Accept, GraphIInv, GraphTypeOK
    <3>2. WaitPairs(g)' = WaitPairs(g) \cup {p} BY <1>1 DEF WaitPairs, Edge
    <3>3. \A q : WaitsOn(g, q)' = IF q = p THEN WaitsOn(g, q) \cup {new} ELSE WaitsOn(g, q)
      BY <1>1 DEF WaitsOn, Edge
    <3>4. new \notin WaitsOn(g, p) BY <1>1 DEF WaitsOn
    <3>5. Cardinality(WaitsOn(g, p) \cup {new}) = Cardinality(WaitsOn(g, p)) + 1
      BY <3>4, CountWaits DEF GraphIInv
    <3>6. p \notin WaitPairs(g) => Cardinality(WaitsOn(g, p)) = 0
      BY CountWaits DEF GraphIInv
    <3> HIDE DEF p, new
    <3>7. DOMAIN edges'[g] = WaitPairs(g)' BY <2>0, <2>2, <3>1, <3>2 DEF AddCount
    <3>8. ASSUME NEW q \in WaitPairs(g)'
          PROVE  edges'[g][q] = Cardinality(WaitsOn(g, q)')
      <4>1. CASE q # p BY <4>1, <2>0, <2>2, <3>1, <3>2, <3>3 DEF AddCount
      <4>2. CASE q = p
        BY <4>2, <2>0, <2>2, <3>1, <3>2, <3>3, <3>5, <3>6 DEF AddCount
      <4> QED BY <4>1, <4>2
    <3> QED BY <2>2, <3>7, <3>8
  <2> QED BY <2>1, <2>2
<1> QED BY <1>2, <1>3, <1>4, <1>5, AcceptAcyclic DEF GraphIInv
LEMMA DropIInv == ASSUME GraphIInv, NEW w \in Waits, Drop(w) PROVE GraphIInv'
<1>0. PICK g \in Graphs : caller[w][1] = g BY DEF Drop, GraphIInv, LiveInv, Nodes
<1>p. PICK p : p = Edge(w) OBVIOUS
<1>1. /\ w \in live /\ live' = live \ {w} /\ caller[w][1] = g
      /\ caller' = caller /\ target' = target
      /\ UNCHANGED <<next, holder, pending, visited>>
      /\ holder[g] = Nobody
  BY <1>0 DEF Drop
<1>2. GraphTypeOK' BY <1>1 DEF GraphIInv, GraphTypeOK, Drop, Ids
<1>3. LiveInv' BY <1>1 DEF GraphIInv, LiveInv, Nodes, Ids
<1>4. NoCyclicWait'
  <2>1. \A S : Cyclic(S)' => Cyclic(S) BY <1>1 DEF Cyclic
  <2> QED BY <2>1 DEF GraphIInv, NoCyclicWait, Nodes, Ids
<1>5. ASSUME NEW h \in Graphs PROVE SearchInv(h)'
  <2>1. CASE h = g BY <1>1, <2>1 DEF SearchInv
  <2>2. CASE h # g
    <3>1. edges'[h] = edges[h] BY <1>0, <2>2 DEF Drop, GraphIInv, GraphTypeOK
    <3>2. CASE holder[h] = Nobody BY <1>1, <3>2 DEF SearchInv
    <3>3. CASE holder[h] # Nobody
      <4>1. SearchInv(h) /\ holder[h] \notin live BY <3>3 DEF GraphIInv, SearchInv
      <4> QED BY <1>1, <2>2, <3>1, <4>1, OtherSearch
    <3> QED BY <3>2, <3>3
  <2> QED BY <2>1, <2>2
<1>6. EdgesCountWaits'
  <2> SUFFICES ASSUME NEW h \in Graphs
               PROVE  /\ DOMAIN edges'[h] = WaitPairs(h)'
                      /\ \A q \in WaitPairs(h)' : edges'[h][q] = Cardinality(WaitsOn(h, q)')
    BY DEF EdgesCountWaits
  <2>0. /\ DOMAIN edges[h] = WaitPairs(h)
        /\ \A q \in WaitPairs(h) : edges[h][q] = Cardinality(WaitsOn(h, q))
    BY DEF GraphIInv, EdgesCountWaits
  <2>1. CASE h # g
    <3>1. edges'[h] = edges[h] BY <1>0, <2>1 DEF Drop, GraphIInv, GraphTypeOK
    <3>2. WaitPairs(h)' = WaitPairs(h) /\ \A q : WaitsOn(h, q)' = WaitsOn(h, q)
      BY <1>1, <2>1, SameWaitsOf
    <3> QED BY <2>0, <3>1, <3>2
  <2>2. CASE h = g
    <3>1. edges'[g] = DropCount(edges[g], p) BY <1>0, <1>p, <1>1 DEF Drop, GraphIInv, GraphTypeOK
    <3>2. \A q : WaitsOn(g, q)' = IF q = p THEN WaitsOn(g, q) \ {w} ELSE WaitsOn(g, q)
      BY <1>p, <1>1 DEF WaitsOn, Edge
    <3>3. w \in WaitsOn(g, p) /\ p \in WaitPairs(g) BY <1>p, <1>1 DEF WaitsOn, WaitPairs
    <3>4. /\ Cardinality(WaitsOn(g, p) \ {w}) = Cardinality(WaitsOn(g, p)) - 1
          /\ Cardinality(WaitsOn(g, p)) \in Nat
      BY <3>3, CountWaits DEF GraphIInv
    <3>5. \A q : q \in WaitPairs(g)' <=> WaitsOn(g, q)' # {} BY DEF WaitPairs, WaitsOn
    <3>6. \A q : q \in WaitPairs(g) <=> WaitsOn(g, q) # {} BY DEF WaitPairs, WaitsOn
    <3>7. WaitsOn(g, p) \ {w} = {} <=> Cardinality(WaitsOn(g, p)) = 1
      <4>1. IsFiniteSet(WaitsOn(g, p) \ {w}) BY CountWaits, FS_RemoveElement DEF GraphIInv
      <4> QED BY <3>4, <4>1, FS_EmptySet
    <3>8. DOMAIN edges'[g] = {q \in WaitPairs(g) : q # p \/ edges[g][q] > 1}
      BY <2>0, <2>2, <3>1 DEF DropCount
    <3>9. DOMAIN edges'[g] = WaitPairs(g)'
      <4>1. edges[g][p] = Cardinality(WaitsOn(g, p)) BY <2>0, <2>2, <3>3
      <4>2. p \in WaitPairs(g)' <=> Cardinality(WaitsOn(g, p)) # 1 BY <3>2, <3>5, <3>7
      <4>3. \A q : q # p => (q \in WaitPairs(g)' <=> q \in WaitPairs(g))
        BY <3>2, <3>5, <3>6
      <4>4. Cardinality(WaitsOn(g, p)) # 0
        BY <3>3, CountWaits DEF GraphIInv
      <4>5. \A q : q \in DOMAIN edges'[g] <=> q \in WaitPairs(g)'
        BY <3>8, <4>1, <4>2, <4>3, <4>4, <3>3, <3>4
      <4> QED BY <4>5
    <3>10. ASSUME NEW q \in WaitPairs(g)'
           PROVE  edges'[g][q] = Cardinality(WaitsOn(g, q)')
      <4>0. q \in DOMAIN edges'[g] BY <3>9
      <4>1. edges'[g][q] = IF q = p THEN edges[g][q] - 1 ELSE edges[g][q]
        BY <4>0, <3>1 DEF DropCount
      <4>2. q \in WaitPairs(g) BY <4>0, <3>8
      <4> QED BY <4>1, <4>2, <2>0, <2>2, <3>2, <3>4
    <3> QED BY <2>2, <3>9, <3>10
  <2> QED BY <2>1, <2>2
<1> QED BY <1>2, <1>3, <1>4, <1>5, <1>6 DEF GraphIInv

LEMMA NextIInv == GraphIInv /\ [GraphNext]_graphVars => GraphIInv'
<1> SUFFICES ASSUME GraphIInv, [GraphNext]_graphVars PROVE GraphIInv' OBVIOUS
<1>1. ASSUME NEW g \in Graphs, Node(g) PROVE GraphIInv' BY <1>1, NodeIInv
<1>2. ASSUME NEW g \in Graphs, Search(g) PROVE GraphIInv'
  BY <1>2, RejectIInv, AcceptIInv, VisitIInv DEF Search
<1>3. ASSUME NEW w \in Waits, Drop(w) PROVE GraphIInv' BY <1>3, DropIInv
<1>4. ASSUME NEW w \in Waits, NEW c \in Nodes, NEW t \in Nodes, WaitFor(w, c, t) PROVE GraphIInv'
  BY <1>4, WaitForIInv
<1>5. CASE UNCHANGED graphVars
  <2>1. GraphTypeOK' BY <1>5 DEF graphVars, GraphIInv, GraphTypeOK, Ids
  <2>2. LiveInv' /\ NoCyclicWait' BY <1>5, SameWaits DEF graphVars, GraphIInv
  <2>3. EdgesCountWaits' BY <1>5, SameWaits DEF graphVars, GraphIInv, EdgesCountWaits
  <2>4. ASSUME NEW g \in Graphs PROVE SearchInv(g)'
    <3>1. \A s, i : Reaches(g, s, i)' <=> Reaches(g, s, i) BY <1>5, SameWaits DEF graphVars
    <3>2. SearchInv(g) BY DEF GraphIInv
    <3> QED BY <1>5, <3>1, <3>2 DEF graphVars, SearchInv, Ids
  <2> QED BY <2>1, <2>2, <2>3, <2>4 DEF GraphIInv
<1> QED BY <1>1, <1>2, <1>3, <1>4, <1>5 DEF GraphNext

(* GraphIInv holds in every reachable state. *)
THEOREM Invariance == GraphSpec => []GraphIInv
BY InitIInv, NextIInv, PTL DEF GraphSpec

(* Ids, lock and search of every graph stay well formed. *)
THEOREM TypeCorrect == GraphSpec => []GraphTypeOK
<1>1. GraphIInv => GraphTypeOK BY DEF GraphIInv
<1> QED BY <1>1, Invariance, PTL

(* CallWait drops never meet a missing edge and leave none behind: the      *)
(* counts are the waits that exist.                                         *)
THEOREM CountsExact == GraphSpec => []EdgesCountWaits
<1>1. GraphIInv => EdgesCountWaits BY DEF GraphIInv
<1> QED BY <1>1, Invariance, PTL

(* wait_for() keeps the graph free of cycles: the nodes that wait are never *)
(* all waiting for each other.                                              *)
THEOREM DeadlockFree == GraphSpec => []NoCyclicWait
<1>1. GraphIInv => NoCyclicWait BY DEF GraphIInv
<1> QED BY <1>1, Invariance, PTL

(* wait_for() refuses a request only if the target waits for the caller.    *)
THEOREM RefusalsJustified == GraphSpec => RejectsOnlyCycles
<1> DEFINE A == \A g \in Graphs :
              holder[g] # Nobody /\ holder'[g] = Nobody /\ holder[g] \notin live'
                => Reaches(g, target[holder[g]][2], CallerId(g))
<1>1. GraphIInv /\ [GraphNext]_graphVars => [A]_graphVars
  <2> SUFFICES ASSUME GraphIInv, [GraphNext]_graphVars, NEW g \in Graphs,
                      holder[g] # Nobody, holder'[g] = Nobody, holder[g] \notin live'
               PROVE  Reaches(g, target[holder[g]][2], CallerId(g))
    OBVIOUS
  <2>1. Reject(g)
    <3>1. ASSUME NEW h \in Graphs, Search(h) PROVE Reject(g)
      <4>1. CASE Accept(h) BY <4>1 DEF Accept, GraphIInv, GraphTypeOK
      <4>2. CASE Reject(h) BY <4>2 DEF Reject, GraphIInv, GraphTypeOK
      <4>3. ASSUME NEW i \in Ids, Visit(h, i) PROVE FALSE BY <4>3 DEF Visit
      <4> QED BY <3>1, <4>1, <4>2, <4>3 DEF Search
    <3>2. ASSUME NEW w \in Waits, NEW c \in Nodes, NEW t \in Nodes, WaitFor(w, c, t)
          PROVE  FALSE
      BY <3>2, GraphAssumption DEF WaitFor, GraphIInv, GraphTypeOK
    <3>3. ASSUME NEW w \in Waits, Drop(w) PROVE FALSE BY <3>3 DEF Drop
    <3>4. ASSUME NEW h \in Graphs, Node(h) PROVE FALSE BY <3>4 DEF Node
    <3>5. CASE UNCHANGED graphVars BY <3>5 DEF graphVars
    <3> QED BY <3>1, <3>2, <3>3, <3>4, <3>5 DEF GraphNext
  <2> QED BY <2>1 DEF Reject, GraphIInv, SearchInv, CallerId
<1>2. RejectsOnlyCycles <=> [][A]_graphVars BY DEF RejectsOnlyCycles
<1> QED BY <1>1, <1>2, Invariance, PTL DEF GraphSpec
-----------------------------------------------------------------------------
(***************************************************************************)
(* The ISRC index.  A stamp is never given twice, so an entry is right if   *)
(* its stamp is that of the file and it was made from that content: this    *)
(* holds of the published index and of every index that is being built.     *)
(***************************************************************************)

File == [stamp : Nat, isrc : Isrcs \cup {"none"}]
IndexObject == [live : BOOLEAN, files : [Tracks -> File], byIsrc : [Isrcs -> Tracks \cup {"none"}]]
IsrcPC == {"idle", "wait", "list", "read", "use", "forget", "add", "insert"}
Task == [pc : IsrcPC, force : BOOLEAN, current : BOOLEAN, path : Tracks \cup {"none"},
         isrc : Isrcs \cup {"none"}, work : IndexObject,
         todo : SUBSET [path : Tracks, stamp : Nat]]

IsrcTyped ==
  /\ onDisk \in [Tracks -> File] /\ stamps \in [Tracks -> Nat]
  /\ published \in IndexObject /\ task \in [Indexers -> Task]

(* A file that is there has a stamp, the last one given.                    *)
StampsGiven ==
  \A p \in Tracks : onDisk[p] = Absent \/ (onDisk[p].stamp = stamps[p] /\ stamps[p] >= 1)

(* What an index says of a path was so when its stamp was the last.         *)
Truthful(files) ==
  \A p \in Tracks :
    \/ files[p] = Absent
    \/ /\ files[p].stamp >= 1 /\ files[p].stamp <= stamps[p]
       /\ files[p].stamp = onDisk[p].stamp => files[p].isrc = onDisk[p].isrc

(* Listed files had a stamp, and what add() was told is so.                 *)
TaskTruthful(t) ==
  /\ Truthful(task[t].work.files)
  /\ \A x \in task[t].todo : x.stamp >= 1 /\ x.stamp <= stamps[x.path]
  /\ task[t].pc \in {"add", "insert"} =>
       /\ task[t].path \in Tracks /\ task[t].isrc \in Isrcs
       /\ onDisk[task[t].path].isrc = task[t].isrc /\ onDisk[task[t].path] # Absent

IsrcIInv ==
  IsrcTyped /\ StampsGiven /\ Truthful(published.files) /\ \A t \in Indexers : TaskTruthful(t)

LEMMA EmptyObjects ==
  /\ Absent \in File /\ Absent.stamp = 0
  /\ EmptyIndex \in IndexObject /\ NoIndex \in IndexObject
  /\ EmptyIndex.files = [p \in Tracks |-> Absent] /\ NoIndex.files = [p \in Tracks |-> Absent]
  /\ Resting \in Task /\ Resting.work = EmptyIndex /\ Resting.todo = {} /\ Resting.pc = "idle"
<1>1. Absent \in File /\ Absent.stamp = 0 BY DEF Absent, File
<1>2. EmptyIndex \in IndexObject /\ EmptyIndex.files = [p \in Tracks |-> Absent]
  BY <1>1 DEF EmptyIndex, IndexObject
<1>3. NoIndex \in IndexObject /\ NoIndex.files = [p \in Tracks |-> Absent]
  BY <1>2 DEF NoIndex, IndexObject
<1>4. Resting \in Task /\ Resting.work = EmptyIndex /\ Resting.todo = {} /\ Resting.pc = "idle"
  BY <1>2 DEF Resting, Task, IsrcPC
<1> QED BY <1>1, <1>2, <1>3, <1>4

LEMMA IsrcInitIInv == IsrcInit => IsrcIInv
<1> SUFFICES ASSUME IsrcInit PROVE IsrcIInv OBVIOUS
<1>1. IsrcTyped BY EmptyObjects DEF IsrcInit, IsrcTyped
<1>2. StampsGiven BY DEF IsrcInit, StampsGiven
<1>3. Truthful(published.files) BY EmptyObjects DEF IsrcInit, Truthful
<1>4. ASSUME NEW t \in Indexers PROVE TaskTruthful(t)
  <2>1. task[t] = Resting BY DEF IsrcInit
  <2> QED BY <2>1, EmptyObjects DEF TaskTruthful, Truthful
<1> QED BY <1>1, <1>2, <1>3, <1>4 DEF IsrcIInv

(* A step that leaves the files alone, of one thread, which may publish.    *)
LEMMA TaskStep ==
  ASSUME IsrcIInv, NEW t \in Indexers, NEW x \in Task,
         UNCHANGED <<onDisk, stamps>>,
         published' \in IndexObject, Truthful(published'.files),
         task' \in [Indexers -> Task], task'[t] = x,
         \A u \in Indexers \ {t} : \E b \in BOOLEAN : task'[u] = [task[u] EXCEPT !.current = b],
         Truthful(x.work.files),
         \A y \in x.todo : y.stamp >= 1 /\ y.stamp <= stamps[y.path],
         x.pc \in {"add", "insert"} =>
           /\ x.path \in Tracks /\ x.isrc \in Isrcs
           /\ onDisk[x.path].isrc = x.isrc /\ onDisk[x.path] # Absent
  PROVE  IsrcIInv'
<1>1. IsrcTyped' BY DEF IsrcIInv, IsrcTyped
<1>2. StampsGiven' BY DEF IsrcIInv, StampsGiven
<1>3. Truthful(published.files)' BY DEF Truthful
<1>4. ASSUME NEW u \in Indexers PROVE TaskTruthful(u)'
  <2>1. CASE u = t BY <2>1 DEF TaskTruthful, Truthful
  <2>2. CASE u # t
    <3>1. task[u] \in Task BY DEF IsrcIInv, IsrcTyped
    <3>2. /\ task'[u].work = task[u].work /\ task'[u].todo = task[u].todo /\ task'[u].pc = task[u].pc
          /\ task'[u].path = task[u].path /\ task'[u].isrc = task[u].isrc
      BY <2>2, <3>1 DEF Task
    <3>3. TaskTruthful(u) BY DEF IsrcIInv
    <3> QED BY <3>2, <3>3 DEF TaskTruthful, Truthful
  <2> QED BY <2>1, <2>2
<1> QED BY <1>1, <1>2, <1>3, <1>4 DEF IsrcIInv

(* The same of a step that publishes nothing.                               *)
LEMMA OwnStep ==
  ASSUME IsrcIInv, NEW t \in Indexers, NEW x \in Task, Do(t, x),
         UNCHANGED <<onDisk, stamps, published>>,
         Truthful(x.work.files),
         \A y \in x.todo : y.stamp >= 1 /\ y.stamp <= stamps[y.path],
         x.pc \in {"add", "insert"} =>
           /\ x.path \in Tracks /\ x.isrc \in Isrcs
           /\ onDisk[x.path].isrc = x.isrc /\ onDisk[x.path] # Absent
  PROVE  IsrcIInv'
<1>1. task' = [task EXCEPT ![t] = x] /\ task \in [Indexers -> Task]
  BY DEF Do, IsrcIInv, IsrcTyped
<1>2. task' \in [Indexers -> Task] /\ task'[t] = x BY <1>1
<1>3. ASSUME NEW u \in Indexers \ {t}
      PROVE  \E b \in BOOLEAN : task'[u] = [task[u] EXCEPT !.current = b]
  <2>1. task[u] \in Task /\ task'[u] = task[u] BY <1>1
  <2>2. task[u] = [task[u] EXCEPT !.current = task[u].current] BY <2>1 DEF Task
  <2>3. task[u].current \in BOOLEAN BY <2>1 DEF Task
  <2> QED BY <2>1, <2>2, <2>3
<1>4. published' \in IndexObject /\ Truthful(published'.files)
  BY DEF IsrcIInv, IsrcTyped
<1> QED BY <1>2, <1>3, <1>4, TaskStep

LEMMA RestStep ==
  ASSUME IsrcIInv, NEW t \in Indexers, Do(t, Resting), UNCHANGED <<onDisk, stamps, published>>
  PROVE  IsrcIInv'
<1>1. Truthful(Resting.work.files) BY EmptyObjects DEF Truthful
<1> QED BY <1>1, EmptyObjects, OwnStep

(* A thread moves on with what it has.                                      *)
LEMMA MoveStep ==
  ASSUME IsrcIInv, NEW t \in Indexers, NEW x \in Task, Do(t, x),
         UNCHANGED <<onDisk, stamps, published>>,
         x.work = task[t].work, x.todo = task[t].todo,
         x.pc \in {"add", "insert"} =>
           x.path = task[t].path /\ x.isrc = task[t].isrc /\ task[t].pc \in {"add", "insert"}
  PROVE  IsrcIInv'
<1>1. TaskTruthful(t) BY DEF IsrcIInv
<1> QED BY <1>1, OwnStep DEF TaskTruthful

LEMMA UsersStep ==
  ASSUME IsrcIInv, NEW t \in Indexers, Index(t) \/ Await(t) \/ Find(t) \/ Add(t)
  PROVE  IsrcIInv'
<1>1. task[t] \in Task /\ published \in IndexObject BY DEF IsrcIInv, IsrcTyped
<1>2. Truthful(Resting.work.files) BY EmptyObjects DEF Truthful
<1>3. UNCHANGED <<onDisk, stamps, published>> BY DEF Index, Await, Find, Add
<1>7. ASSUME NEW x \in Task, x.pc \in {"use", "wait"}, x.work = EmptyIndex, x.todo = {}, Do(t, x)
      PROVE  IsrcIInv'
  BY <1>2, <1>3, <1>7, EmptyObjects, OwnStep
<1>8. CASE Index(t)
  <2>1. CASE Do(t, [Resting EXCEPT !.pc = "use", !.current = TRUE])
    <3> DEFINE x == [Resting EXCEPT !.pc = "use", !.current = TRUE]
    <3>1. x \in Task /\ x.pc = "use" /\ x.work = EmptyIndex /\ x.todo = {}
      BY EmptyObjects DEF Task, IsrcPC
    <3>2. Do(t, x) BY <2>1
    <3> HIDE DEF x
    <3> QED BY <1>7, <3>2, <3>1
  <2>2. ASSUME NEW force \in BOOLEAN, Do(t, [Resting EXCEPT !.pc = "wait", !.force = force])
        PROVE  IsrcIInv'
    <3> DEFINE x == [Resting EXCEPT !.pc = "wait", !.force = force]
    <3>1. x \in Task /\ x.pc = "wait" /\ x.work = EmptyIndex /\ x.todo = {}
      BY EmptyObjects DEF Task, IsrcPC
    <3>2. Do(t, x) BY <2>2
    <3> HIDE DEF x
    <3> QED BY <1>7, <3>2, <3>1
  <2> QED BY <1>8, <2>1, <2>2 DEF Index
<1>4. CASE Await(t)
  <2>1. CASE Do(t, Resting) BY <1>4, <2>1, RestStep DEF Await
  <2>2. CASE Do(t, [task[t] EXCEPT !.pc = "list"])
    <3> DEFINE x == [task[t] EXCEPT !.pc = "list"]
    <3>1. x \in Task /\ x.pc = "list" /\ x.work = task[t].work /\ x.todo = task[t].todo
      BY <1>1 DEF Task, IsrcPC
    <3>2. Do(t, x) BY <2>2
    <3> HIDE DEF x
    <3> QED BY <1>3, <3>2, <3>1, MoveStep
  <2>3. CASE Do(t, [Resting EXCEPT !.pc = "use", !.current = TRUE])
    <3> DEFINE x == [Resting EXCEPT !.pc = "use", !.current = TRUE]
    <3>1. x \in Task /\ x.pc = "use" /\ x.work = EmptyIndex /\ x.todo = {}
      BY EmptyObjects DEF Task, IsrcPC
    <3>2. Do(t, x) BY <2>3
    <3> HIDE DEF x
    <3> QED BY <1>7, <3>2, <3>1
  <2> QED BY <1>4, <2>1, <2>2, <2>3 DEF Await
<1>5. CASE Find(t)
  <2>1. CASE Do(t, Resting) BY <1>5, <2>1, RestStep DEF Find
  <2>2. ASSUME NEW i \in Isrcs, Do(t, [task[t] EXCEPT !.pc = "forget", !.isrc = i]) PROVE IsrcIInv'
    <3> DEFINE x == [task[t] EXCEPT !.pc = "forget", !.isrc = i]
    <3>1. x \in Task /\ x.pc = "forget" /\ x.work = task[t].work /\ x.todo = task[t].todo
      BY <1>1 DEF Task, IsrcPC
    <3>2. Do(t, x) BY <2>2
    <3> HIDE DEF x
    <3> QED BY <1>3, <3>2, <3>1, MoveStep
  <2> QED BY <1>5, <2>1, <2>2 DEF Find
<1>6. CASE Add(t)
  <2>1. CASE Do(t, Resting) BY <1>6, <2>1, RestStep DEF Add
  <2>2. CASE Do(t, [task[t] EXCEPT !.pc = "insert", !.current = TRUE])
    <3> DEFINE x == [task[t] EXCEPT !.pc = "insert", !.current = TRUE]
    <3>0. task[t].pc = "add" BY <1>6 DEF Add
    <3>1. /\ x \in Task /\ x.pc = "insert" /\ x.work = task[t].work /\ x.todo = task[t].todo
          /\ x.path = task[t].path /\ x.isrc = task[t].isrc
      BY <1>1 DEF Task, IsrcPC
    <3>2. Do(t, x) BY <2>2
    <3> HIDE DEF x
    <3> QED BY <1>3, <3>2, <3>0, <3>1, MoveStep
  <2> QED BY <1>6, <2>1, <2>2 DEF Add
<1> QED BY <1>4, <1>5, <1>6, <1>8

(* What a build takes over is as it is on the disk.                         *)
LEMMA KeptIsTrue ==
  ASSUME IsrcIInv, NEW p \in Tracks, Unchanged(p, published.files)
  PROVE  published.files[p] = onDisk[p]
<1>1. published.files[p] \in File /\ onDisk[p] \in File
  BY DEF IsrcIInv, IsrcTyped, IndexObject
<1>2. /\ published.files[p].stamp = onDisk[p].stamp
      /\ published.files[p].isrc = onDisk[p].isrc
  BY DEF IsrcIInv, Truthful, Unchanged
<1> QED BY <1>1, <1>2 DEF File

LEMMA ListStep ==
  ASSUME IsrcIInv, NEW t \in Indexers, List(t)
  PROVE  /\ IsrcIInv'
         /\ \A p \in Tracks : onDisk[p] # Absent =>
               \/ task'[t].work.files[p] = onDisk[p]
               \/ [path |-> p, stamp |-> onDisk[p].stamp] \in task'[t].todo
<1> DEFINE old == published.files
           there == {p \in Tracks : onDisk[p] # Absent}
           kept == {p \in there : Unchanged(p, old)}
           files == [p \in Tracks |-> IF p \in kept THEN old[p] ELSE Absent]
           todo == {[path |-> p, stamp |-> onDisk[p].stamp] : p \in there \ kept}
<1>1. /\ task[t] \in Task /\ old \in [Tracks -> File] /\ onDisk \in [Tracks -> File]
      /\ task \in [Indexers -> Task]
  BY DEF IsrcIInv, IsrcTyped, IndexObject
<1>2. PICK by \in [Isrcs -> Tracks \cup {"none"}] :
        Do(t, [task[t] EXCEPT !.pc = "read", !.work = [live |-> TRUE, files |-> files, byIsrc |-> by],
                             !.todo = todo])
  BY DEF List
<1> DEFINE x == [task[t] EXCEPT !.pc = "read", !.work = [live |-> TRUE, files |-> files, byIsrc |-> by],
                               !.todo = todo]
<1>3. files \in [Tracks -> File] BY <1>1, EmptyObjects
<1>4. todo \in SUBSET [path : Tracks, stamp : Nat] BY <1>1 DEF File
<1>5. \A p \in Tracks : p \in kept => files[p] = onDisk[p] BY KeptIsTrue
<1>6. Truthful(files)
  <2> SUFFICES ASSUME NEW p \in Tracks, files[p] # Absent
               PROVE  /\ files[p].stamp >= 1 /\ files[p].stamp <= stamps[p]
                      /\ files[p].stamp = onDisk[p].stamp => files[p].isrc = onDisk[p].isrc
    BY DEF Truthful
  <2>1. p \in kept BY DEF files
  <2>2. onDisk[p].stamp = stamps[p] /\ stamps[p] >= 1 /\ stamps[p] \in Nat
    BY <2>1 DEF IsrcIInv, StampsGiven, IsrcTyped
  <2> QED BY <1>5, <2>1, <2>2
<1>7. ASSUME NEW y \in todo PROVE y.stamp >= 1 /\ y.stamp <= stamps[y.path]
  <2>1. PICK p \in there \ kept : y = [path |-> p, stamp |-> onDisk[p].stamp] OBVIOUS
  <2>2. onDisk[p].stamp = stamps[p] /\ stamps[p] >= 1 /\ stamps[p] \in Nat
    BY <2>1 DEF IsrcIInv, StampsGiven, IsrcTyped
  <2> QED BY <2>1, <2>2
<1>8. \A p \in Tracks : onDisk[p] # Absent =>
        files[p] = onDisk[p] \/ [path |-> p, stamp |-> onDisk[p].stamp] \in todo
  BY <1>5
<1> HIDE DEF files, todo, old, kept, there
<1>9. /\ x \in Task /\ x.pc = "read" /\ x.work.files = files /\ x.todo = todo
  BY <1>1, <1>3, <1>4 DEF Task, IsrcPC, IndexObject
<1>10. UNCHANGED <<onDisk, stamps, published>> /\ Do(t, x) BY <1>2 DEF List
<1> HIDE DEF x
<1>11. task'[t] = x BY <1>1, <1>10 DEF Do
<1>12. IsrcIInv' BY <1>6, <1>7, <1>9, <1>10, OwnStep
<1> QED BY <1>8, <1>9, <1>11, <1>12

LEMMA ReadStep ==
  ASSUME IsrcIInv, NEW t \in Indexers, Read(t)
  PROVE  IsrcIInv'
<1>1. task[t] \in Task /\ onDisk \in [Tracks -> File] /\ TaskTruthful(t)
  BY DEF IsrcIInv, IsrcTyped
<1>2. CASE Do(t, Resting) BY <1>2, RestStep DEF Read
<1>3. ASSUME NEW y \in task[t].todo, onDisk[y.path] # Absent,
             Do(t, [task[t] EXCEPT !.todo = @ \ {y},
                      !.work.files[y.path] = [stamp |-> y.stamp, isrc |-> onDisk[y.path].isrc],
                      !.work.byIsrc[onDisk[y.path].isrc] = y.path])
      PROVE  IsrcIInv'
  <2> DEFINE x == [task[t] EXCEPT !.todo = @ \ {y},
                      !.work.files[y.path] = [stamp |-> y.stamp, isrc |-> onDisk[y.path].isrc],
                      !.work.byIsrc[onDisk[y.path].isrc] = y.path]
             files == [task[t].work.files EXCEPT
                         ![y.path] = [stamp |-> y.stamp, isrc |-> onDisk[y.path].isrc]]
  <2>1. y \in [path : Tracks, stamp : Nat] /\ task[t].work \in IndexObject BY <1>1 DEF Task
  <2>2. files \in [Tracks -> File] BY <1>1, <2>1 DEF IndexObject, File
  <2>3. Truthful(files)
    <3> SUFFICES ASSUME NEW p \in Tracks, files[p] # Absent
                 PROVE  /\ files[p].stamp >= 1 /\ files[p].stamp <= stamps[p]
                        /\ files[p].stamp = onDisk[p].stamp => files[p].isrc = onDisk[p].isrc
      BY DEF Truthful
    <3>1. CASE p = y.path
      <4>1. files[p] = [stamp |-> y.stamp, isrc |-> onDisk[p].isrc]
        BY <2>1, <3>1 DEF IndexObject
      <4>2. y.stamp >= 1 /\ y.stamp <= stamps[p] BY <1>1, <3>1 DEF TaskTruthful
      <4> QED BY <4>1, <4>2
    <3>2. CASE p # y.path
      <4>1. files[p] = task[t].work.files[p] BY <2>1, <3>2 DEF IndexObject
      <4> QED BY <1>1, <4>1 DEF TaskTruthful, Truthful
    <3> QED BY <3>1, <3>2
  <2>4. x.pc = task[t].pc /\ x.todo = task[t].todo \ {y} /\ x.work.files = files
    BY <1>1, <2>1 DEF Task, IndexObject
  <2>5. x.work.byIsrc \in [Isrcs -> Tracks \cup {"none"}] /\ x.work.live \in BOOLEAN
    BY <1>1, <2>1 DEF Task, IndexObject
  <2>6. x \in Task BY <1>1, <2>1, <2>2 DEF Task, IndexObject
  <2>7. task[t].pc = "read" BY DEF Read
  <2>8. \A z \in x.todo : z.stamp >= 1 /\ z.stamp <= stamps[z.path] BY <1>1, <2>4 DEF TaskTruthful
  <2>9. Do(t, x) /\ UNCHANGED <<onDisk, stamps, published>> BY <1>3 DEF Read
  <2> HIDE DEF x, files
  <2> QED BY <2>3, <2>4, <2>6, <2>7, <2>8, <2>9, OwnStep
<1> QED BY <1>2, <1>3 DEF Read

LEMMA PublishStep ==
  ASSUME IsrcIInv, NEW t \in Indexers, Complete(t) \/ Forget(t) \/ Insert(t)
  PROVE  IsrcIInv'
<1>1. /\ task[t] \in Task /\ published \in IndexObject /\ task \in [Indexers -> Task]
      /\ TaskTruthful(t) /\ Truthful(published.files)
      /\ onDisk \in [Tracks -> File] /\ stamps \in [Tracks -> Nat] /\ StampsGiven
  BY DEF IsrcIInv, IsrcTyped
<1>2. Truthful(Resting.work.files) BY EmptyObjects DEF Truthful
<1>3. CASE Complete(t)
  <2> DEFINE x == [Resting EXCEPT !.pc = "use", !.current = TRUE]
  <2>1. x \in Task /\ x.pc = "use" /\ x.work = EmptyIndex /\ x.todo = {}
    BY EmptyObjects DEF Task, IsrcPC
  <2>2. task' = [Superseded EXCEPT ![t] = x] BY <1>3 DEF Complete
  <2> HIDE DEF x
  <2>3. \A u \in Indexers : [task[u] EXCEPT !.current = FALSE] \in Task BY <1>1 DEF Task
  <2>4. /\ task' \in [Indexers -> Task] /\ task'[t] = x
        /\ \A u \in Indexers \ {t} : task'[u] = [task[u] EXCEPT !.current = FALSE]
    BY <2>1, <2>2, <2>3 DEF Superseded
  <2>5. published' \in IndexObject /\ Truthful(published'.files) /\ UNCHANGED <<onDisk, stamps>>
    BY <1>1, <1>3 DEF Complete, Task, TaskTruthful
  <2> QED BY <1>2, <2>1, <2>4, <2>5, EmptyObjects, TaskStep
<1>4. ASSUME Forget(t) \/ Insert(t),
             published' \in IndexObject, Truthful(published'.files)
      PROVE  IsrcIInv'
  <2>1. task' = [task EXCEPT ![t] = Resting] /\ UNCHANGED <<onDisk, stamps>>
    BY <1>4 DEF Forget, Insert, Do
  <2>2. task' \in [Indexers -> Task] /\ task'[t] = Resting BY <1>1, <2>1, EmptyObjects
  <2>3. ASSUME NEW u \in Indexers \ {t}
        PROVE  \E b \in BOOLEAN : task'[u] = [task[u] EXCEPT !.current = b]
    <3>1. task[u] \in Task /\ task'[u] = task[u] BY <1>1, <2>1
    <3>2. task[u] = [task[u] EXCEPT !.current = task[u].current] BY <3>1 DEF Task
    <3>3. task[u].current \in BOOLEAN BY <3>1 DEF Task
    <3> QED BY <3>1, <3>2, <3>3
  <2> QED BY <1>2, <1>4, <2>1, <2>2, <2>3, EmptyObjects, TaskStep
<1>5. CASE Forget(t)
  <2>1. CASE published' = published BY <1>1, <1>4, <1>5, <2>1
  <2>2. CASE published' = [published EXCEPT !.byIsrc[task[t].isrc] = "none"]
    <3>1. published' \in IndexObject /\ published'.files = published.files
      BY <1>1, <2>2 DEF IndexObject
    <3> QED BY <1>1, <1>4, <1>5, <3>1
  <2> QED BY <1>5, <2>1, <2>2 DEF Forget
<1>6. CASE Insert(t)
  <2> DEFINE p == task[t].path
             entry == IF onDisk[p] = Absent THEN published.files[p]
                      ELSE [stamp |-> onDisk[p].stamp, isrc |-> task[t].isrc]
  <2>1. CASE published' = published BY <1>1, <1>4, <1>6, <2>1
  <2>2. CASE published' = [published EXCEPT !.byIsrc[task[t].isrc] = p, !.files[p] = entry]
    <3>1. p \in Tracks /\ task[t].isrc \in Isrcs /\ onDisk[p].isrc = task[t].isrc /\ onDisk[p] # Absent
      BY <1>1, <1>6 DEF Insert, TaskTruthful
    <3>2. entry \in File /\ entry = [stamp |-> onDisk[p].stamp, isrc |-> task[t].isrc]
      BY <1>1, <3>1 DEF IndexObject, File
    <3>3. entry.stamp = stamps[p] /\ entry.stamp >= 1 /\ entry.isrc = onDisk[p].isrc
      BY <1>1, <3>1, <3>2 DEF StampsGiven
    <3> HIDE DEF entry, p
    <3>4. /\ published' \in IndexObject
          /\ published'.files = [published.files EXCEPT ![p] = entry]
      BY <1>1, <2>2, <3>1, <3>2 DEF IndexObject
    <3>5. Truthful(published'.files)
      <4> SUFFICES ASSUME NEW q \in Tracks, published'.files[q] # Absent
                   PROVE  /\ published'.files[q].stamp >= 1 /\ published'.files[q].stamp <= stamps[q]
                          /\ published'.files[q].stamp = onDisk[q].stamp
                               => published'.files[q].isrc = onDisk[q].isrc
        BY DEF Truthful
      <4>1. published.files \in [Tracks -> File] BY <1>1 DEF IndexObject
      <4>2. CASE q = p BY <1>1, <3>1, <3>3, <3>4, <4>1, <4>2
      <4>3. CASE q # p
        <5>1. published'.files[q] = published.files[q] BY <3>4, <4>1, <4>3
        <5> QED BY <1>1, <5>1 DEF Truthful
      <4> QED BY <4>2, <4>3
    <3> QED BY <1>4, <1>6, <3>4, <3>5
  <2> QED BY <1>6, <2>1, <2>2 DEF Insert
<1> QED BY <1>3, <1>5, <1>6

(* A file gets a stamp that nobody knows yet, or none.                      *)
LEMMA FileStep ==
  ASSUME IsrcIInv, NEW p \in Tracks, NEW f \in File,
         \/ f = Absent /\ stamps' = stamps
         \/ f.stamp = stamps[p] + 1 /\ stamps' = [stamps EXCEPT ![p] = @ + 1],
         onDisk' = [onDisk EXCEPT ![p] = f], published' = published
  PROVE  /\ StampsGiven' /\ stamps' \in [Tracks -> Nat] /\ onDisk' \in [Tracks -> File]
         /\ \A files \in [Tracks -> File] : Truthful(files) =>
              \A q \in Tracks :
                \/ files[q] = Absent
                \/ /\ files[q].stamp >= 1 /\ files[q].stamp <= stamps'[q]
                   /\ files[q].stamp = onDisk'[q].stamp => files[q].isrc = onDisk'[q].isrc
         /\ \A q \in Tracks : stamps'[q] >= stamps[q]
<1>1. stamps \in [Tracks -> Nat] /\ onDisk \in [Tracks -> File] /\ StampsGiven
  BY DEF IsrcIInv, IsrcTyped
<1>2. /\ stamps' \in [Tracks -> Nat] /\ onDisk' \in [Tracks -> File]
      /\ onDisk'[p] = f /\ \A q \in Tracks \ {p} : onDisk'[q] = onDisk[q] /\ stamps'[q] = stamps[q]
      /\ (f = Absent /\ stamps'[p] = stamps[p]) \/ (f.stamp = stamps[p] + 1 /\ stamps'[p] = stamps[p] + 1)
  BY <1>1
<1>3. StampsGiven' BY <1>1, <1>2 DEF StampsGiven
<1>4. \A q \in Tracks : stamps'[q] >= stamps[q] BY <1>1, <1>2
<1>5. ASSUME NEW files \in [Tracks -> File], Truthful(files), NEW q \in Tracks, files[q] # Absent
      PROVE  /\ files[q].stamp >= 1 /\ files[q].stamp <= stamps'[q]
             /\ files[q].stamp = onDisk'[q].stamp => files[q].isrc = onDisk'[q].isrc
  <2>1. /\ files[q].stamp >= 1 /\ files[q].stamp <= stamps[q] /\ files[q].stamp \in Nat
        /\ files[q].stamp = onDisk[q].stamp => files[q].isrc = onDisk[q].isrc
    BY <1>5 DEF Truthful, File
  <2>2. CASE q # p BY <1>2, <2>1, <2>2
  <2>3. CASE q = p BY <1>1, <1>2, <2>1, <2>3, EmptyObjects
  <2> QED BY <2>2, <2>3
<1> QED BY <1>2, <1>3, <1>4, <1>5

(* Nobody who is between download and add() has that path.                  *)
LEMMA FilesChange ==
  ASSUME IsrcIInv, NEW p \in Tracks, NEW f \in File,
         \/ f = Absent /\ stamps' = stamps
         \/ f.stamp = stamps[p] + 1 /\ stamps' = [stamps EXCEPT ![p] = @ + 1],
         onDisk' = [onDisk EXCEPT ![p] = f], published' = published,
         \A u \in Indexers : task[u].path # p,
         task' \in [Indexers -> Task],
         \A u \in Indexers :
           \/ task'[u] = task[u]
           \/ /\ task'[u].work = EmptyIndex /\ task'[u].todo = {}
              /\ task'[u].path = p /\ task'[u].isrc \in Isrcs
              /\ task'[u].isrc = f.isrc /\ f # Absent
  PROVE  IsrcIInv'
<1>1. /\ task \in [Indexers -> Task] /\ published \in IndexObject
      /\ stamps \in [Tracks -> Nat] /\ onDisk \in [Tracks -> File]
  BY DEF IsrcIInv, IsrcTyped
<1>2. /\ StampsGiven' /\ stamps' \in [Tracks -> Nat] /\ onDisk' \in [Tracks -> File]
      /\ \A q \in Tracks : stamps'[q] >= stamps[q]
  BY FileStep
<1>3. ASSUME NEW files \in [Tracks -> File], Truthful(files)
      PROVE  \A q \in Tracks :
               \/ files[q] = Absent
               \/ /\ files[q].stamp >= 1 /\ files[q].stamp <= stamps'[q]
                  /\ files[q].stamp = onDisk'[q].stamp => files[q].isrc = onDisk'[q].isrc
  BY <1>3, FileStep
<1>4. Truthful(published.files)'
  <2>1. published.files \in [Tracks -> File] /\ Truthful(published.files)
    BY <1>1 DEF IndexObject, IsrcIInv
  <2> QED BY <1>3, <2>1 DEF Truthful
<1>5. ASSUME NEW u \in Indexers PROVE TaskTruthful(u)'
  <2>1. task'[u].work.files \in [Tracks -> File] BY DEF Task, IndexObject
  <2>2. CASE task'[u] # task[u]
    <3>1. Truthful(task[u].work.files)' BY <2>2, EmptyObjects DEF Truthful
    <3>2. onDisk'[p] = f BY <1>1
    <3> QED BY <2>2, <3>1, <3>2 DEF TaskTruthful
  <2>3. CASE task'[u] = task[u]
    <3>1. task'[u] = task[u] /\ TaskTruthful(u) BY <2>3 DEF IsrcIInv
    <3>2. Truthful(task[u].work.files)' BY <1>3, <2>1, <3>1 DEF TaskTruthful, Truthful
    <3>3. \A x \in task'[u].todo : x.stamp >= 1 /\ x.stamp <= stamps'[x.path]
      <4> TAKE x \in task'[u].todo
      <4>1. x \in [path : Tracks, stamp : Nat] BY DEF Task
      <4>2. x.stamp >= 1 /\ x.stamp <= stamps[x.path] BY <3>1 DEF TaskTruthful
      <4>3. stamps'[x.path] >= stamps[x.path] /\ stamps'[x.path] \in Nat /\ stamps[x.path] \in Nat
        BY <1>1, <1>2, <4>1
      <4> QED BY <4>1, <4>2, <4>3
    <3>4. task'[u].pc \in {"add", "insert"} =>
            /\ task'[u].path \in Tracks /\ task'[u].isrc \in Isrcs
            /\ onDisk'[task'[u].path].isrc = task'[u].isrc /\ onDisk'[task'[u].path] # Absent
      BY <1>1, <3>1 DEF TaskTruthful
    <3> QED BY <3>2, <3>3, <3>4 DEF TaskTruthful
  <2> QED BY <2>2, <2>3
<1> QED BY <1>1, <1>2, <1>4, <1>5 DEF IsrcIInv, IsrcTyped

LEMMA DownloadStep ==
  ASSUME IsrcIInv, NEW t \in Indexers, NEW p \in Tracks, NEW i \in Isrcs, Download(t, p, i)
  PROVE  IsrcIInv'
<1> DEFINE f == [stamp |-> stamps[p] + 1, isrc |-> i]
           x == [Resting EXCEPT !.pc = "add", !.path = p, !.isrc = i]
<1>1. stamps \in [Tracks -> Nat] /\ task \in [Indexers -> Task] BY DEF IsrcIInv, IsrcTyped
<1>2. f \in File /\ f.stamp = stamps[p] + 1 /\ f.isrc = i /\ f # Absent
  BY <1>1, EmptyObjects DEF File
<1>3. x \in Task /\ x.work = EmptyIndex /\ x.todo = {} /\ x.path = p /\ x.isrc = i
  BY EmptyObjects DEF Task, IsrcPC
<1>4. /\ onDisk' = [onDisk EXCEPT ![p] = f] /\ stamps' = [stamps EXCEPT ![p] = @ + 1]
      /\ task' = [task EXCEPT ![t] = x] /\ published' = published
      /\ \A u \in Indexers : task[u].path # p
  BY DEF Download, Do
<1> HIDE DEF f, x
<1>5. task' \in [Indexers -> Task] /\ task'[t] = x /\ \A u \in Indexers \ {t} : task'[u] = task[u]
  BY <1>1, <1>3, <1>4
<1>6. \A u \in Indexers :
        \/ task'[u] = task[u]
        \/ /\ task'[u].work = EmptyIndex /\ task'[u].todo = {}
           /\ task'[u].path = p /\ task'[u].isrc \in Isrcs
           /\ task'[u].isrc = f.isrc /\ f # Absent
  BY <1>2, <1>3, <1>5
<1>7. task' \in [Indexers -> Task] BY <1>5
<1>8. f.stamp = stamps[p] + 1 /\ stamps' = [stamps EXCEPT ![p] = @ + 1] BY <1>2, <1>4
<1>9. published' = published /\ onDisk' = [onDisk EXCEPT ![p] = f] /\ f \in File BY <1>2, <1>4
<1>10. \A u \in Indexers : task[u].path # p BY <1>4
<1> QED BY ONLY <1>6, <1>7, <1>8, <1>9, <1>10, FilesChange, IsrcIInv, ZenonT(60)

LEMMA TouchStep ==
  ASSUME IsrcIInv, NEW p \in Tracks, NEW i \in Isrcs, Touch(p, i)
  PROVE  IsrcIInv'
<1>1. stamps \in [Tracks -> Nat] /\ task \in [Indexers -> Task] BY DEF IsrcIInv, IsrcTyped
<1>2. /\ published' = published /\ task' = task /\ \A u \in Indexers : task[u].path # p
  BY DEF Touch
<1>4. CASE onDisk' = [onDisk EXCEPT ![p] = Absent] /\ stamps' = stamps
  BY <1>1, <1>2, <1>4, EmptyObjects, FilesChange
<1>5. CASE /\ stamps' = [stamps EXCEPT ![p] = @ + 1]
           /\ onDisk' = [onDisk EXCEPT ![p] = [stamp |-> stamps[p] + 1, isrc |-> i]]
  <2> DEFINE f == [stamp |-> stamps[p] + 1, isrc |-> i]
  <2>1. f \in File /\ f.stamp = stamps[p] + 1 BY <1>1 DEF File
  <2>2. onDisk' = [onDisk EXCEPT ![p] = f] BY <1>5
  <2> HIDE DEF f
  <2> QED BY <1>1, <1>2, <1>5, <2>1, <2>2, FilesChange
<1> QED BY <1>4, <1>5 DEF Touch

LEMMA InvalidateStep ==
  ASSUME IsrcIInv, Invalidate
  PROVE  IsrcIInv'
<1>1. /\ task \in [Indexers -> Task] /\ published' = NoIndex /\ task' = Superseded
      /\ UNCHANGED <<onDisk, stamps>>
  BY DEF IsrcIInv, IsrcTyped, Invalidate
<1>2. \A u \in Indexers :
        /\ task'[u] \in Task
        /\ task'[u].work = task[u].work /\ task'[u].todo = task[u].todo /\ task'[u].pc = task[u].pc
        /\ task'[u].path = task[u].path /\ task'[u].isrc = task[u].isrc
  BY <1>1 DEF Superseded, Task
<1>3. task' \in [Indexers -> Task] BY <1>1, <1>2 DEF Superseded
<1>4. Truthful(published.files)' BY <1>1, EmptyObjects DEF Truthful
<1>5. ASSUME NEW u \in Indexers PROVE TaskTruthful(u)'
  <2>1. TaskTruthful(u) BY DEF IsrcIInv
  <2> QED BY <1>1, <1>2, <2>1 DEF TaskTruthful, Truthful
<1> QED BY <1>1, <1>3, <1>4, <1>5, EmptyObjects DEF IsrcIInv, IsrcTyped, StampsGiven

LEMMA IsrcNextIInv == IsrcIInv /\ [IsrcNext]_isrcVars => IsrcIInv'
<1> SUFFICES ASSUME IsrcIInv, [IsrcNext]_isrcVars PROVE IsrcIInv'
  OBVIOUS
<1>1. ASSUME UNCHANGED isrcVars PROVE IsrcIInv'
  BY <1>1 DEF isrcVars, IsrcIInv, IsrcTyped, StampsGiven, TaskTruthful, Truthful
<1> QED BY <1>1, UsersStep, ListStep, ReadStep, PublishStep, DownloadStep, TouchStep, InvalidateStep
    DEF IsrcNext

(* What the index knows of a file that has not changed since is right, and  *)
(* a build takes nothing over that has changed.                             *)
THEOREM IndexIsTruthful == IsrcSpec => IndexTruthful
<1> DEFINE Relists == \A t \in Indexers : task[t].pc = "list" /\ task'[t].pc = "read" =>
                        \A p \in Tracks : onDisk[p] # Absent =>
                          \/ task'[t].work.files[p] = onDisk[p]
                          \/ [path |-> p, stamp |-> onDisk[p].stamp] \in task'[t].todo
<1>1. IsrcIInv => IsrcTruthful
  BY DEF IsrcIInv, Truthful, IsrcTruthful
<1>2. IsrcIInv /\ [IsrcNext]_isrcVars => [Relists]_isrcVars
  <2> SUFFICES ASSUME IsrcIInv, IsrcNext, NEW t \in Indexers,
                      task[t].pc = "list", task'[t].pc = "read"
               PROVE  \A p \in Tracks : onDisk[p] # Absent =>
                        \/ task'[t].work.files[p] = onDisk[p]
                        \/ [path |-> p, stamp |-> onDisk[p].stamp] \in task'[t].todo
    OBVIOUS
  <2>1. List(t)
    <3>1. task \in [Indexers -> Task] BY DEF IsrcIInv, IsrcTyped
    <3>2. ASSUME NEW u \in Indexers,
                 \/ Index(u) \/ Await(u) \/ Read(u) \/ Find(u) \/ Forget(u) \/ Add(u) \/ Insert(u)
                 \/ \E p \in Tracks, i \in Isrcs : Download(u, p, i)
          PROVE  FALSE
      <4>1. u # t BY <3>2 DEF Index, Await, Read, Find, Forget, Add, Insert, Download
      <4>2. \E x : task' = [task EXCEPT ![u] = x]
        BY <3>2 DEF Index, Await, Read, Find, Forget, Add, Insert, Download, Do
      <4> QED BY <3>1, <4>1, <4>2
    <3>3. ASSUME NEW u \in Indexers, Complete(u) PROVE FALSE
      <4>1. u # t BY <3>3 DEF Complete
      <4>2. task'[t] = [task[t] EXCEPT !.current = FALSE] BY <3>1, <3>3, <4>1 DEF Complete, Superseded
      <4> QED BY <3>1, <4>2 DEF Task
    <3>4. ASSUME Invalidate PROVE FALSE
      <4>1. task'[t] = [task[t] EXCEPT !.current = FALSE] BY <3>4 DEF Invalidate, Superseded
      <4> QED BY <3>1, <4>1 DEF Task
    <3>5. ASSUME NEW p \in Tracks, NEW i \in Isrcs, Touch(p, i) PROVE FALSE
      BY <3>5 DEF Touch
    <3>6. ASSUME NEW u \in Indexers, List(u) PROVE u = t
      BY <3>1, <3>6 DEF List, Do
    <3> QED BY <3>2, <3>3, <3>4, <3>5, <3>6 DEF IsrcNext
  <2> QED BY <2>1, ListStep
<1> QED BY IsrcInitIInv, IsrcNextIInv, <1>1, <1>2, PTL DEF IsrcSpec, IndexTruthful, RelistsChanged
-----------------------------------------------------------------------------
(***************************************************************************)
(* The data of an extension.  A handle that is still open was opened since  *)
(* the directory was last removed, and is either the store's or held by the *)
(* thread that removes; whoever is inside the file's lock has an open one,  *)
(* so that a removal waits for it.                                          *)
(***************************************************************************)

Place == {"idle", "entered", "ready", "loading", "removing", "holding"} \cup Accessing
User == [pc : Place, h : 0 .. MaxHandles, then : {"", "all", "set", "load", "removeData", "vm"}]
SnapshotRecord == [loaded : BOOLEAN, identity : Nat, value : Nat]

DataTyped ==
  /\ folder \in [exists : BOOLEAN, legacy : Nat, enc : Nat, epoch : Nat, owner : Nat]
  /\ snapshot \in SnapshotRecord
  /\ opened \in 0 .. MaxHandles /\ store \in 0 .. opened
  /\ handle \in [Handles -> [epoch : Nat, closed : BOOLEAN]]
  /\ user \in [DataThreads -> User]
  /\ writes \in Nat

OpenHandles == {h \in 1 .. opened : ~handle[h].closed}
Removing(t) == user[t].pc = "removing"
InFile(t) == user[t].pc \in Accessing

HandlesCurrent ==
  \A h \in OpenHandles :
    /\ handle[h].epoch = folder.epoch
    /\ h = store \/ \E t \in DataThreads : Removing(t) /\ user[t].h = h

LocksHeld ==
  /\ \A t, u \in DataThreads : Removing(t) /\ Removing(u) => t = u
  /\ \A t, u \in DataThreads : InFile(t) /\ InFile(u) => t = u
  /\ (\E t \in DataThreads : Removing(t)) => store = 0

(* What a thread may rely on where it is.                                   *)
UserSound(t) ==
  /\ user[t].pc \in Accessing \cup {"ready", "holding"} => user[t].h \in 1 .. opened
  /\ InFile(t) => user[t].h \in OpenHandles
  /\ user[t].pc = "migrate" => folder.legacy # 0
  /\ user[t].pc = "tidy" => folder.enc # 0

DataIInv ==
  /\ DataTyped
  /\ HandlesCurrent
  /\ LocksHeld
  /\ \A t \in DataThreads : UserSound(t)
  /\ snapshot.value = snapshot.identity
  /\ DataSafe

LEMMA UserTypes == Away \in User /\ Away.pc = "idle" /\ MaxHandles \in Nat
BY DataAssumption DEF Away, User, Place

LEMMA DataInitIInv == DataInit => DataIInv
<1> SUFFICES ASSUME DataInit PROVE DataIInv OBVIOUS
<1>1. user \in [DataThreads -> User] /\ \A t \in DataThreads : user[t].pc = "idle"
  BY UserTypes DEF DataInit
<1>2. DataTyped
  <2>1. 0 \in 0 .. MaxHandles /\ 0 \in 0 .. opened BY DataAssumption DEF DataInit
  <2> QED BY <1>1, <2>1 DEF DataInit, DataTyped, SnapshotRecord, Empty
<1>3. HandlesCurrent /\ LocksHeld BY <1>1 DEF DataInit, HandlesCurrent, LocksHeld, OpenHandles, Removing,
                                               InFile, Accessing
<1>4. \A t \in DataThreads : UserSound(t) BY <1>1 DEF UserSound, InFile, Accessing
<1>5. DataSafe
  BY DEF DataInit, Empty, DataSafe, NoStaleHandleWrites, SettingsSurvive, NothingOutlivesShutdown
<1> QED BY <1>2, <1>3, <1>4, <1>5 DEF DataIInv, DataInit, Empty

(* A thread that moves on and does not begin to remove, while the handles   *)
(* and the store stay; the file may be written through an open handle, and  *)
(* never loses both of its forms.                                           *)
LEMMA WalkStep ==
  ASSUME DataIInv, NEW t \in DataThreads, NEW v \in User, Step(t, v),
         UNCHANGED <<store, handle, opened>>,
         folder' \in [exists : BOOLEAN, legacy : Nat, enc : Nat, epoch : Nat, owner : Nat],
         folder'.epoch = folder.epoch,
         folder' = folder \/ InFile(t),
         folder'.enc # 0 => folder'.owner = folder'.epoch,
         folder'.epoch = 0 => folder'.legacy # 0 \/ folder'.enc # 0,
         snapshot' \in SnapshotRecord, snapshot'.value = snapshot'.identity,
         writes' \in Nat, env' = env, running' = running \/ env = "open",
         ~Removing(t), v.pc # "removing",
         v.pc \in Accessing => InFile(t) \/ FileFree,
         v.pc \in Accessing \cup {"ready", "holding"} => v.h \in 1 .. opened,
         v.pc \in Accessing => v.h \in OpenHandles,
         v.pc = "migrate" => folder'.legacy # 0,
         v.pc = "tidy" => folder'.enc # 0
  PROVE  DataIInv'
<1>1. user' = [user EXCEPT ![t] = v] /\ user'[t] = v
      /\ \A u \in DataThreads \ {t} : user'[u] = user[u]
  BY DEF Step, DataIInv, DataTyped
<1>2. DataTyped' BY <1>1 DEF DataIInv, DataTyped
<1>3. OpenHandles' = OpenHandles BY DEF OpenHandles
<1>4. \A u \in DataThreads : /\ Removing(u)' <=> Removing(u)
                             /\ Removing(u) => user'[u] = user[u]
  BY <1>1 DEF Removing
<1>5. HandlesCurrent'
  <2> SUFFICES ASSUME NEW h \in OpenHandles
               PROVE  /\ handle'[h].epoch = folder'.epoch
                      /\ h = store' \/ \E u \in DataThreads : Removing(u)' /\ user'[u].h = h
    BY <1>3 DEF HandlesCurrent
  <2> QED BY <1>4 DEF DataIInv, HandlesCurrent
<1>6. LocksHeld'
  <2>1. \A u \in DataThreads \ {t} : InFile(u)' <=> InFile(u) BY <1>1 DEF InFile
  <2>2. InFile(t)' => InFile(t) \/ FileFree BY <1>1 DEF InFile
  <2>3. FileFree => \A u \in DataThreads : ~InFile(u) BY DEF FileFree, InFile
  <2> QED BY <1>4, <2>1, <2>2, <2>3 DEF DataIInv, LocksHeld
<1>7. ASSUME NEW u \in DataThreads PROVE UserSound(u)'
  <2>1. CASE u = t BY <1>1, <1>3, <2>1 DEF UserSound, InFile
  <2>2. CASE u # t
    <3>1. UserSound(u) /\ user'[u] = user[u] /\ (InFile(u)' <=> InFile(u))
      BY <1>1, <2>2 DEF DataIInv, InFile
    <3>2. InFile(u) => folder' = folder BY <2>2 DEF DataIInv, LocksHeld
    <3>3. user[u].pc \in {"migrate", "tidy"} => InFile(u) BY DEF InFile, Accessing
    <3> QED BY <1>3, <3>1, <3>2, <3>3 DEF UserSound
  <2> QED BY <2>1, <2>2
<1>8. DataSafe'
  BY DEF DataIInv, DataSafe, NoStaleHandleWrites, SettingsSurvive, NothingOutlivesShutdown
<1> QED BY <1>2, <1>5, <1>6, <1>7, <1>8 DEF DataIInv

(* The most frequent case: only the thread moves, or the snapshot too.      *)
LEMMA QuietStep ==
  ASSUME DataIInv, NEW t \in DataThreads, NEW v \in User, Step(t, v),
         UNCHANGED <<folder, store, handle, opened, env, running, writes>>,
         snapshot' \in SnapshotRecord, snapshot'.value = snapshot'.identity,
         ~Removing(t), v.pc # "removing",
         v.pc \in Accessing => InFile(t) \/ FileFree,
         v.pc \in Accessing \cup {"ready", "holding"} => v.h \in 1 .. opened,
         v.pc \in Accessing => v.h \in OpenHandles,
         v.pc = "migrate" => folder.legacy # 0,
         v.pc = "tidy" => folder.enc # 0
  PROVE  DataIInv'
<1>1. folder' \in [exists : BOOLEAN, legacy : Nat, enc : Nat, epoch : Nat, owner : Nat] /\ writes' \in Nat
  BY DEF DataIInv, DataTyped
<1>2. /\ folder'.enc # 0 => folder'.owner = folder'.epoch
      /\ folder'.epoch = 0 => folder'.legacy # 0 \/ folder'.enc # 0
  BY DEF DataIInv, DataSafe, NoStaleHandleWrites, SettingsSurvive
<1> QED BY <1>1, <1>2, WalkStep

LEMMA AfterType ==
  ASSUME DataIInv, NEW t \in DataThreads, InFile(t)
  PROVE  /\ AfterRefresh(t) \in User
         /\ AfterRefresh(t).pc \in {"write", "loading", "idle"}
         /\ AfterRefresh(t).pc = "write" => AfterRefresh(t).h = user[t].h
<1>1. user[t] \in User BY DEF DataIInv, DataTyped
<1>2. CASE user[t].then \in {"set", "vm"}
  <2>1. AfterRefresh(t) = [user[t] EXCEPT !.pc = "write"] BY <1>2 DEF AfterRefresh
  <2>2. "write" \in Place BY DEF Place, Accessing
  <2> QED BY <1>1, <2>1, <2>2 DEF User
<1>3. CASE user[t].then = "load"
  <2>1. AfterRefresh(t) = [user[t] EXCEPT !.pc = "loading"] BY <1>3 DEF AfterRefresh
  <2>2. "loading" \in Place BY DEF Place, Accessing
  <2> QED BY <1>1, <2>1, <2>2 DEF User
<1>4. CASE user[t].then \notin {"set", "vm", "load"}
  <2>1. AfterRefresh(t) = Away BY <1>4 DEF AfterRefresh
  <2> QED BY <2>1, UserTypes
<1> QED BY <1>2, <1>3, <1>4

LEMMA StoreStep ==
  ASSUME DataIInv, NEW t \in DataThreads, Store(t)
  PROVE  DataIInv'
<1>1. /\ user[t].pc = "entered" /\ user[t] \in User /\ ~Removing(t)
      /\ UNCHANGED <<snapshot, env, running, writes>> /\ snapshot \in SnapshotRecord
      /\ snapshot.value = snapshot.identity /\ store \in 0 .. opened /\ opened \in 0 .. MaxHandles
  BY DEF Store, DataIInv, DataTyped, Removing
<1>2. CASE store # 0 /\ UNCHANGED <<folder, store, handle, opened>>
           /\ Step(t, [user[t] EXCEPT !.pc = "ready", !.h = store])
  <2> DEFINE v == [user[t] EXCEPT !.pc = "ready", !.h = store]
  <2>1. Step(t, v) /\ v \in User /\ v.pc = "ready" /\ v.h \in 1 .. opened
    <3>1. store \in 1 .. opened /\ store \in 0 .. MaxHandles /\ "ready" \in Place
      BY <1>1, <1>2, DataAssumption DEF Place
    <3>2. /\ v \in User /\ v.pc = "ready" /\ v.h = store BY <1>1, <3>1 DEF User
    <3> HIDE DEF v
    <3> QED BY <1>2, <3>1, <3>2 DEF v
  <2>2. v.pc \notin Accessing BY <2>1 DEF Accessing
  <2> HIDE DEF v
  <2> QED BY <1>1, <1>2, <2>1, <2>2, QuietStep
<1>3. CASE /\ store = 0 /\ opened < MaxHandles /\ StateFree
           /\ folder' = [folder EXCEPT !.exists = TRUE]
           /\ opened' = opened + 1 /\ store' = opened + 1
           /\ handle' = [handle EXCEPT ![opened + 1] = [epoch |-> folder.epoch, closed |-> FALSE]]
           /\ Step(t, [user[t] EXCEPT !.pc = "ready", !.h = opened + 1])
  <2> DEFINE v == [user[t] EXCEPT !.pc = "ready", !.h = opened + 1]
  <2>1. Step(t, v) /\ v \in User /\ v.pc = "ready" /\ v.h = opened + 1
    <3>1. opened + 1 \in 0 .. MaxHandles /\ "ready" \in Place BY <1>1, <1>3, DataAssumption DEF Place
    <3>2. /\ v \in User /\ v.pc = "ready" /\ v.h = opened + 1 BY <1>1, <3>1 DEF User
    <3>3. Step(t, v) BY <1>3
    <3> QED BY <3>2, <3>3
  <2> HIDE DEF v
  <2>2. user' = [user EXCEPT ![t] = v] /\ user'[t] = v
        /\ \A u \in DataThreads \ {t} : user'[u] = user[u]
    BY <2>1 DEF Step, DataIInv, DataTyped
  <2>3. /\ handle' \in [Handles -> [epoch : Nat, closed : BOOLEAN]]
        /\ opened' \in 0 .. MaxHandles /\ store' \in 0 .. opened' /\ opened + 1 \in Handles
        /\ handle'[opened + 1] = [epoch |-> folder.epoch, closed |-> FALSE]
        /\ \A h \in 1 .. opened : handle'[h] = handle[h]
    BY <1>1, <1>3, DataAssumption DEF DataIInv, DataTyped, Handles
  <2>4. /\ folder' \in [exists : BOOLEAN, legacy : Nat, enc : Nat, epoch : Nat, owner : Nat]
        /\ folder'.epoch = folder.epoch /\ folder'.enc = folder.enc
        /\ folder'.legacy = folder.legacy /\ folder'.owner = folder.owner
    BY <1>3 DEF DataIInv, DataTyped
  <2>5. DataTyped' BY <1>1, <2>1, <2>2, <2>3, <2>4 DEF DataIInv, DataTyped
  <2>6. \A u \in DataThreads : ~Removing(u) BY <1>3 DEF StateFree, Removing
  <2>7. OpenHandles = {} BY <1>1, <1>3, <2>6 DEF DataIInv, HandlesCurrent, OpenHandles
  <2>8. OpenHandles' = {opened + 1}
    <3>1. \A h \in 1 .. opened' : h \in 1 .. opened \/ h = opened + 1 BY <1>1, <1>3
    <3>2. \A h \in 1 .. opened : handle'[h].closed BY <2>3, <2>7 DEF OpenHandles
    <3>3. opened + 1 \in 1 .. opened' BY <1>1, <1>3
    <3> QED BY <2>3, <3>1, <3>2, <3>3 DEF OpenHandles
  <2>9. HandlesCurrent' BY <1>3, <2>3, <2>4, <2>8 DEF HandlesCurrent
  <2>10. \A u \in DataThreads : ~InFile(u) BY <2>7 DEF DataIInv, UserSound
  <2>11. \A u \in DataThreads : ~Removing(u)' /\ ~InFile(u)'
    BY <2>1, <2>2, <2>6, <2>10 DEF Removing, InFile, Accessing
  <2>12. LocksHeld' BY <2>11 DEF LocksHeld
  <2>13. ASSUME NEW u \in DataThreads PROVE UserSound(u)'
    <3>1. user'[u].pc \notin Accessing BY <2>11 DEF InFile
    <3>2. user'[u].pc \in {"ready", "holding"} => user'[u].h \in 1 .. opened'
      <4>1. CASE u = t BY <1>1, <1>3, <2>1, <2>2, <4>1
      <4>2. CASE u # t
        <5>1. user[u].pc \in {"ready", "holding"} => user[u].h \in 1 .. opened
          BY DEF DataIInv, UserSound
        <5>2. \A h \in 1 .. opened : h \in 1 .. opened' BY <1>1, <1>3
        <5> QED BY <2>2, <4>2, <5>1, <5>2
      <4> QED BY <4>1, <4>2
    <3> QED BY <3>1, <3>2, <2>11 DEF UserSound, Accessing
  <2>14. DataSafe'
    BY <1>1, <2>4 DEF DataIInv, DataSafe, NoStaleHandleWrites, SettingsSurvive, NothingOutlivesShutdown
  <2> QED BY <1>1, <2>5, <2>9, <2>12, <2>13, <2>14 DEF DataIInv
<1> QED BY <1>2, <1>3 DEF Store

LEMMA AccessStep ==
  ASSUME DataIInv, NEW t \in DataThreads, Enter(t) \/ Access(t) \/ UseAgain(t)
  PROVE  DataIInv'
<1>1. /\ user[t] \in User /\ UserSound(t) /\ ~Removing(t)
      /\ UNCHANGED <<folder, snapshot, store, handle, opened, env, running, writes>>
      /\ snapshot \in SnapshotRecord /\ snapshot.value = snapshot.identity
  BY DEF Enter, Access, UseAgain, DataIInv, DataTyped, Removing
<1>2. PICK v \in User :
        /\ Step(t, v) /\ v.pc # "removing"
        /\ v.pc \in Accessing => FileFree /\ v.pc = "read" /\ v.h \in OpenHandles
        /\ v.pc \in Accessing \cup {"ready", "holding"} => v.h \in 1 .. opened
  <2>1. CASE Enter(t)
    <3>1. PICK then \in {"all", "set", "load", "removeData"} :
            Step(t, [Away EXCEPT !.pc = "entered", !.then = then])
      BY <2>1 DEF Enter
    <3> DEFINE v == [Away EXCEPT !.pc = "entered", !.then = then]
    <3>2. v \in User /\ v.pc = "entered" BY UserTypes DEF Away, User, Place
    <3>3. Step(t, v) BY <3>1
    <3> HIDE DEF v
    <3> QED BY <3>2, <3>3 DEF Accessing
  <2>2. CASE Access(t) /\ ~handle[user[t].h].closed
    <3> DEFINE v == [user[t] EXCEPT !.pc = "read"]
    <3>1. v \in User /\ v.pc = "read" /\ v.h = user[t].h BY <1>1 DEF User, Place, Accessing
    <3>2. Step(t, v) /\ FileFree BY <2>2 DEF Access, At
    <3>3. user[t].h \in OpenHandles BY <1>1, <2>2 DEF Access, UserSound, OpenHandles
    <3> HIDE DEF v
    <3> QED BY <3>1, <3>2, <3>3 DEF OpenHandles
  <2>3. CASE Step(t, Away) BY <2>3, UserTypes DEF Accessing
  <2>4. CASE UseAgain(t)
    <3> DEFINE v == [user[t] EXCEPT !.pc = "ready", !.then = "vm"]
    <3>1. v \in User /\ v.pc = "ready" /\ v.h = user[t].h BY <1>1 DEF User, Place
    <3>2. Step(t, v) /\ user[t].h \in 1 .. opened BY <1>1, <2>4 DEF UseAgain, UserSound
    <3> HIDE DEF v
    <3> QED BY <3>1, <3>2 DEF Accessing
  <2> QED BY <2>1, <2>2, <2>3, <2>4 DEF Access
<1> QED BY <1>1, <1>2, QuietStep DEF Accessing

LEMMA DataRefreshStep ==
  ASSUME DataIInv, NEW t \in DataThreads, Refresh(t)
  PROVE  DataIInv'
<1>1. /\ user[t] \in User /\ UserSound(t) /\ InFile(t) /\ user[t].h \in OpenHandles
      /\ UNCHANGED <<folder, store, handle, opened, env, running, writes>>
      /\ ~Removing(t) /\ user[t].h \in 1 .. opened
  BY DEF Refresh, DataIInv, DataTyped, Removing, InFile, Accessing, UserSound, OpenHandles
<1>2. snapshot' \in SnapshotRecord /\ snapshot'.value = snapshot'.identity
  <2>1. folder.enc \in Nat BY DEF DataIInv, DataTyped
  <2>2. CASE snapshot' = [loaded |-> TRUE, identity |-> folder.enc, value |-> folder.enc]
    BY <2>1, <2>2 DEF SnapshotRecord
  <2>3. CASE UNCHANGED snapshot BY <2>3 DEF DataIInv, DataTyped
  <2> QED BY <2>2, <2>3 DEF Refresh
<1>3. PICK v \in User :
        /\ Step(t, v) /\ v.pc \in {"write", "loading", "idle", "migrate"}
        /\ v.pc \in {"write", "migrate"} => v.h = user[t].h
        /\ v.pc = "migrate" => folder.legacy # 0
  <2>1. CASE Step(t, AfterRefresh(t)) BY <1>1, <2>1, AfterType
  <2>2. CASE At(t, "migrate") /\ folder.legacy # 0
    <3> DEFINE v == [user[t] EXCEPT !.pc = "migrate"]
    <3>1. v \in User /\ v.pc = "migrate" /\ v.h = user[t].h BY <1>1 DEF User, Place, Accessing
    <3>2. Step(t, v) BY <2>2 DEF At
    <3> HIDE DEF v
    <3> QED BY <2>2, <3>1, <3>2
  <2>3. CASE Step(t, Away) BY <2>3, UserTypes
  <2> QED BY <2>1, <2>2, <2>3 DEF Refresh
<1> QED BY <1>1, <1>2, <1>3, QuietStep DEF Accessing

LEMMA LoadedStep ==
  ASSUME DataIInv, NEW t \in DataThreads, Loaded(t)
  PROVE  DataIInv'
<1>1. /\ UNCHANGED <<folder, snapshot, store, handle, opened, env, writes>> /\ Step(t, Away)
      /\ ~Removing(t) /\ (running' = running \/ env = "open")
  BY DEF Loaded, Removing
<1>2. /\ folder' \in [exists : BOOLEAN, legacy : Nat, enc : Nat, epoch : Nat, owner : Nat]
      /\ folder'.enc # 0 => folder'.owner = folder'.epoch
      /\ folder'.epoch = 0 => folder'.legacy # 0 \/ folder'.enc # 0
      /\ snapshot' \in SnapshotRecord /\ snapshot'.value = snapshot'.identity /\ writes' \in Nat
  BY <1>1 DEF DataIInv, DataTyped, DataSafe, NoStaleHandleWrites, SettingsSurvive
<1> QED BY <1>1, <1>2, UserTypes, WalkStep DEF Accessing

(* The steps that change the file: through an open handle, so that its      *)
(* owner is of the present.                                                 *)
LEMMA WritingStep ==
  ASSUME DataIInv, NEW t \in DataThreads, Migrate(t) \/ Tidy(t) \/ Write(t)
  PROVE  DataIInv'
<1> DEFINE F == [exists : BOOLEAN, legacy : Nat, enc : Nat, epoch : Nat, owner : Nat]
           e == handle[user[t].h].epoch
<1>1. /\ user[t] \in User /\ UserSound(t) /\ InFile(t) /\ user[t].h \in OpenHandles
      /\ UNCHANGED <<store, handle, opened, env, running>> /\ user[t].h \in 1 .. opened
      /\ ~Removing(t) /\ folder \in F /\ writes \in Nat
      /\ snapshot \in SnapshotRecord /\ snapshot.value = snapshot.identity
      /\ e = folder.epoch
      /\ folder.enc # 0 => folder.owner = folder.epoch
      /\ folder.epoch = 0 => folder.legacy # 0 \/ folder.enc # 0
  BY DEF Migrate, Tidy, Write, DataIInv, DataTyped, Removing, InFile, Accessing, UserSound, OpenHandles,
         HandlesCurrent, DataSafe, NoStaleHandleWrites, SettingsSurvive
<1> HIDE DEF e
<1>2. ASSUME NEW v \in User, Step(t, v), v.pc \in {"write", "loading", "idle", "holding", "tidy"},
             v.pc \in {"write", "holding", "tidy"} => v.h = user[t].h,
             v.pc = "tidy" => folder'.enc # 0,
             folder' \in F, folder'.epoch = folder.epoch,
             folder'.enc # 0 => folder'.owner = folder'.epoch,
             folder'.epoch = 0 => folder'.legacy # 0 \/ folder'.enc # 0,
             snapshot' \in SnapshotRecord, snapshot'.value = snapshot'.identity, writes' \in Nat
      PROVE  DataIInv'
  BY <1>1, <1>2, WalkStep DEF Accessing
<1>3. CASE Migrate(t)
  <2>1. UNCHANGED <<snapshot, writes>> /\ folder.legacy # 0 BY <1>1, <1>3 DEF Migrate, UserSound
  <2>2. CASE folder' = [folder EXCEPT !.enc = folder.legacy, !.owner = e] /\ At(t, "tidy")
    <3> DEFINE v == [user[t] EXCEPT !.pc = "tidy"]
    <3>1. v \in User /\ v.pc = "tidy" /\ v.h = user[t].h BY <1>1 DEF User, Place, Accessing
    <3>2. Step(t, v) BY <2>2 DEF At
    <3>3. /\ folder' \in F /\ folder'.epoch = folder.epoch /\ folder'.enc # 0
          /\ folder'.owner = folder.epoch
      BY <1>1, <2>1, <2>2
    <3> HIDE DEF v, F
    <3> QED BY <1>1, <1>2, <2>1, <3>1, <3>2, <3>3
  <2>3. CASE Step(t, Away) /\ UNCHANGED folder BY <1>1, <1>2, <2>1, <2>3, UserTypes
  <2> QED BY <1>3, <2>2, <2>3 DEF Migrate, e
<1>4. CASE Tidy(t)
  <2>1. writes' = writes /\ folder.enc # 0 BY <1>1, <1>4 DEF Tidy, UserSound
  <2>2. CASE /\ folder' = [folder EXCEPT !.legacy = 0]
             /\ snapshot' = [loaded |-> TRUE, identity |-> folder.enc, value |-> folder.enc]
             /\ Step(t, AfterRefresh(t))
    <3>1. /\ folder' \in F /\ folder'.epoch = folder.epoch /\ folder'.enc # 0
          /\ folder'.owner = folder.epoch
          /\ snapshot' \in SnapshotRecord /\ snapshot'.value = snapshot'.identity
      BY <1>1, <2>1, <2>2 DEF SnapshotRecord
    <3> HIDE DEF F
    <3> QED BY <1>1, <1>2, <2>1, <2>2, <3>1, AfterType
  <2>3. CASE Step(t, Away) /\ UNCHANGED <<folder, snapshot>> BY <1>1, <1>2, <2>1, <2>3, UserTypes
  <2> QED BY <1>4, <2>2, <2>3 DEF Tidy
<1>5. CASE Write(t)
  <2>1. /\ folder' \in F /\ folder'.epoch = folder.epoch
        /\ folder'.enc # 0 => folder'.owner = folder'.epoch
        /\ folder'.epoch = 0 => folder'.legacy # 0 \/ folder'.enc # 0
        /\ snapshot' \in SnapshotRecord /\ snapshot'.value = snapshot'.identity /\ writes' \in Nat
    <3>1. CASE UNCHANGED <<folder, snapshot, writes>> BY <1>1, <3>1
    <3>2. CASE /\ writes' = writes + 1
               /\ folder' = [folder EXCEPT !.enc = writes + 2, !.owner = e]
               /\ snapshot' = [loaded |-> TRUE, identity |-> writes + 2, value |-> writes + 2]
      <4>1. writes + 2 \in Nat /\ writes + 2 # 0 /\ writes + 1 \in Nat BY <1>1
      <4> QED BY <1>1, <3>2, <4>1 DEF SnapshotRecord
    <3> QED BY <1>5, <3>1, <3>2 DEF Write, e
  <2>2. CASE Step(t, Away) BY <1>2, <2>1, <2>2, UserTypes
  <2>3. CASE Step(t, [Away EXCEPT !.pc = "holding", !.h = user[t].h, !.then = "vm"])
    <3> DEFINE v == [Away EXCEPT !.pc = "holding", !.h = user[t].h, !.then = "vm"]
    <3>1. v \in User /\ v.pc = "holding" /\ v.h = user[t].h BY <1>1, UserTypes DEF Away, User, Place
    <3>2. Step(t, v) BY <2>3
    <3> HIDE DEF v, F
    <3> QED BY <1>2, <2>1, <3>1, <3>2
  <2> QED BY <1>5, <2>2, <2>3 DEF Write
<1> QED BY <1>3, <1>4, <1>5

LEMMA RemoveStep ==
  ASSUME DataIInv, NEW t \in DataThreads, RemoveData(t)
  PROVE  DataIInv'
<1>1. /\ user[t].pc = "entered" /\ StateFree /\ store' = 0 /\ user[t] \in User
      /\ UNCHANGED <<folder, snapshot, handle, opened, env, running, writes>>
      /\ store \in 0 .. opened /\ opened \in 0 .. MaxHandles /\ store \in 0 .. MaxHandles
      /\ 0 \in 0 .. opened
  BY UserTypes DEF RemoveData, DataIInv, DataTyped
<1> DEFINE v == [user[t] EXCEPT !.pc = "removing", !.h = store]
<1>2. v \in User /\ v.pc = "removing" /\ v.h = store BY <1>1 DEF User, Place
<1>3. Step(t, v) BY DEF RemoveData
<1> HIDE DEF v
<1>4. user' = [user EXCEPT ![t] = v] /\ user'[t] = v
      /\ \A u \in DataThreads \ {t} : user'[u] = user[u]
  BY <1>3 DEF Step, DataIInv, DataTyped
<1>5. DataTyped' BY <1>1, <1>2, <1>4 DEF DataIInv, DataTyped
<1>6. \A u \in DataThreads : ~Removing(u) BY <1>1 DEF StateFree, Removing
<1>7. \A u \in DataThreads : (Removing(u)' <=> u = t) /\ (InFile(u)' <=> InFile(u))
  BY <1>1, <1>2, <1>4, <1>6 DEF Removing, InFile, Accessing
<1>8. OpenHandles' = OpenHandles BY <1>1 DEF OpenHandles
<1>9. HandlesCurrent'
  <2> SUFFICES ASSUME NEW h \in OpenHandles
               PROVE  handle[h].epoch = folder.epoch /\ Removing(t)' /\ user'[t].h = h
    BY <1>1, <1>8 DEF HandlesCurrent
  <2> QED BY <1>2, <1>4, <1>6, <1>7 DEF DataIInv, HandlesCurrent
<1>10. LocksHeld' BY <1>1, <1>7 DEF DataIInv, LocksHeld
<1>11. ASSUME NEW u \in DataThreads PROVE UserSound(u)'
  <2>1. CASE u = t BY <1>2, <1>4, <2>1 DEF UserSound, InFile, Accessing
  <2>2. CASE u # t BY <1>1, <1>4, <1>8, <2>2 DEF DataIInv, UserSound, InFile
  <2> QED BY <2>1, <2>2
<1>12. DataSafe'
  BY <1>1 DEF DataIInv, DataSafe, NoStaleHandleWrites, SettingsSurvive, NothingOutlivesShutdown
<1> QED BY <1>1, <1>5, <1>9, <1>10, <1>11, <1>12 DEF DataIInv

(* No handle is left open when the directory goes, and nobody is inside.    *)
LEMMA DeleteStep ==
  ASSUME DataIInv, NEW t \in DataThreads, DeleteData(t)
  PROVE  DataIInv'
<1> DEFINE F == [exists : BOOLEAN, legacy : Nat, enc : Nat, epoch : Nat, owner : Nat]
<1>1. /\ Removing(t) /\ store = 0 /\ Step(t, Away) /\ folder \in F /\ user[t] \in User
      /\ UNCHANGED <<snapshot, store, opened, env, running, writes>>
      /\ handle \in [Handles -> [epoch : Nat, closed : BOOLEAN]]
      /\ opened \in 0 .. MaxHandles /\ opened' = opened
  BY DEF DeleteData, DataIInv, DataTyped, Removing, LocksHeld
<1>2. user' = [user EXCEPT ![t] = Away] /\ user'[t] = Away
      /\ \A u \in DataThreads \ {t} : user'[u] = user[u]
  BY <1>1 DEF Step, DataIInv, DataTyped
<1>3. \A h \in OpenHandles : h = user[t].h /\ h # 0
  <2>1. \A u \in DataThreads : Removing(u) => u = t BY <1>1 DEF DataIInv, LocksHeld
  <2>2. \A h \in OpenHandles : h # 0 BY <1>1, UserTypes DEF OpenHandles
  <2> QED BY <1>1, <2>1, <2>2 DEF DataIInv, HandlesCurrent
<1>4. \A u \in DataThreads : ~InFile(u)
  BY <1>3 DEF DeleteData, DataIInv, UserSound, InFile
<1>5. OpenHandles' = {}
  <2>1. ASSUME NEW h \in 1 .. opened PROVE handle'[h].closed
    <3>1. h \in Handles BY <1>1, UserTypes DEF Handles
    <3>2. CASE h \in OpenHandles BY <1>1, <1>3, <3>1, <3>2 DEF DeleteData
    <3>3. CASE h \notin OpenHandles BY <1>1, <3>1, <3>3 DEF DeleteData, OpenHandles
    <3> QED BY <3>2, <3>3
  <2> QED BY <1>1, <2>1 DEF OpenHandles
<1>6. folder' = folder \/ (folder' \in F /\ folder'.enc = 0 /\ folder'.epoch # 0)
  <2>1. folder.epoch \in Nat BY <1>1
  <2>2. ASSUME NEW left \in BOOLEAN,
               folder' = [exists |-> left, legacy |-> 0, enc |-> 0, epoch |-> folder.epoch + 1, owner |-> 0]
        PROVE  folder' \in F /\ folder'.enc = 0 /\ folder'.epoch # 0
    BY <2>1, <2>2
  <2> HIDE DEF F
  <2> QED BY <2>2 DEF DeleteData
<1>7. handle' \in [Handles -> [epoch : Nat, closed : BOOLEAN]] BY <1>1 DEF DeleteData
<1>8. DataTyped'
  <2>1. folder' \in F BY <1>1, <1>6
  <2> QED BY <1>1, <1>2, <1>7, <2>1, UserTypes DEF DataIInv, DataTyped
<1>9. \A u \in DataThreads : ~Removing(u)' /\ ~InFile(u)'
  BY <1>1, <1>2, <1>4, UserTypes DEF Removing, InFile, Accessing, DataIInv, LocksHeld
<1>10. HandlesCurrent' /\ LocksHeld' BY <1>5, <1>9 DEF HandlesCurrent, LocksHeld
<1>11. ASSUME NEW u \in DataThreads PROVE UserSound(u)'
  <2>1. user'[u].pc \in {"ready", "holding"} => user'[u].h \in 1 .. opened
    BY <1>2, UserTypes DEF DataIInv, UserSound
  <2> QED BY <1>1, <1>9, <2>1 DEF UserSound, InFile, Accessing
<1>12. DataSafe'
  BY <1>1, <1>6 DEF DataIInv, DataSafe, NoStaleHandleWrites, SettingsSurvive, NothingOutlivesShutdown
<1> QED BY <1>1, <1>8, <1>10, <1>11, <1>12 DEF DataIInv

LEMMA EnvironmentStep ==
  ASSUME DataIInv, CloseEnvironment \/ StopRuntimes \/ EnvironmentClosed
  PROVE  DataIInv'
<1>1. UNCHANGED <<folder, snapshot, store, handle, opened, writes>>
  BY DEF CloseEnvironment, StopRuntimes, EnvironmentClosed
<1>2. /\ user' \in [DataThreads -> User]
      /\ \A t \in DataThreads : user'[t] = user[t] \/ (user'[t] = Away /\ ~Removing(t))
  BY UserTypes DEF CloseEnvironment, StopRuntimes, EnvironmentClosed, DataIInv, DataTyped, Removing
<1>3. env' \in {"joined", "closed"} => running' = {}
  BY DEF CloseEnvironment, StopRuntimes, EnvironmentClosed, DataIInv, DataSafe, NothingOutlivesShutdown
<1>4. DataTyped' BY <1>1, <1>2 DEF DataIInv, DataTyped
<1>5. OpenHandles' = OpenHandles BY <1>1 DEF OpenHandles
<1>6. \A u \in DataThreads : /\ (Removing(u)' <=> Removing(u)) /\ (Removing(u) => user'[u] = user[u])
                             /\ (InFile(u)' => InFile(u) /\ user'[u] = user[u])
  BY <1>2, UserTypes DEF Removing, InFile, Accessing
<1>7. HandlesCurrent'
  <2> SUFFICES ASSUME NEW h \in OpenHandles
               PROVE  /\ handle[h].epoch = folder.epoch
                      /\ h = store \/ \E u \in DataThreads : Removing(u)' /\ user'[u].h = h
    BY <1>1, <1>5 DEF HandlesCurrent
  <2> QED BY <1>6 DEF DataIInv, HandlesCurrent
<1>8. LocksHeld' BY <1>1, <1>6 DEF DataIInv, LocksHeld
<1>9. ASSUME NEW u \in DataThreads PROVE UserSound(u)'
  BY <1>1, <1>2, <1>5, UserTypes DEF DataIInv, UserSound, InFile, Accessing
<1>10. DataSafe' BY <1>1, <1>3 DEF DataIInv, DataSafe, NoStaleHandleWrites, SettingsSurvive,
                                   NothingOutlivesShutdown
<1> QED BY <1>1, <1>4, <1>7, <1>8, <1>9, <1>10 DEF DataIInv

LEMMA CrashStep ==
  ASSUME DataIInv, DataCrash
  PROVE  DataIInv'
<1>1. user' = [t \in DataThreads |-> Away] BY DEF DataCrash
<1>2. DataTyped'
  BY <1>1, UserTypes DEF DataCrash, DataIInv, DataTyped, Empty, SnapshotRecord
<1>3. OpenHandles' = {} BY DEF DataCrash, OpenHandles
<1>4. \A t \in DataThreads : ~Removing(t)' /\ ~InFile(t)' /\ UserSound(t)'
  BY <1>1, UserTypes DEF Removing, InFile, UserSound, Accessing
<1>5. HandlesCurrent' /\ LocksHeld' BY <1>3, <1>4 DEF HandlesCurrent, LocksHeld
<1>6. DataSafe' /\ snapshot'.value = snapshot'.identity
  BY DEF DataCrash, Empty, DataIInv, DataSafe, NoStaleHandleWrites, SettingsSurvive, NothingOutlivesShutdown
<1> QED BY <1>2, <1>4, <1>5, <1>6 DEF DataIInv

LEMMA DataNextIInv == DataIInv /\ [DataNext]_dataVars => DataIInv'
<1> SUFFICES ASSUME DataIInv, [DataNext]_dataVars PROVE DataIInv' OBVIOUS
<1>1. CASE UNCHANGED dataVars
  BY <1>1 DEF dataVars, DataIInv, DataTyped, HandlesCurrent, LocksHeld, UserSound, Removing, InFile,
              OpenHandles, DataSafe, NoStaleHandleWrites, SettingsSurvive, NothingOutlivesShutdown
<1> QED BY <1>1, StoreStep, AccessStep, DataRefreshStep, LoadedStep, WritingStep, RemoveStep, DeleteStep,
           EnvironmentStep, CrashStep DEF DataNext

(* What is in the data directory was written through a handle opened since  *)
(* it was last removed, a migration loses no settings wherever it stops,    *)
(* and no runtime outlives shutdown(): any number of threads, handles,      *)
(* writes and crashes.                                                      *)
THEOREM DataIsSafe == DataSpec => []DataSafe
<1>1. DataIInv => DataSafe BY DEF DataIInv
<1> QED BY DataInitIInv, DataNextIInv, <1>1, PTL DEF DataSpec
-----------------------------------------------------------------------------
(***************************************************************************)
(* The repository.  The generation grows whenever the URL changes, so that  *)
(* whatever was noted in the current generation is of the current URL: the  *)
(* cache, the flight, its result, and the registry a download goes by.      *)
(***************************************************************************)

Urls == RegistryUrls \cup {NoUrl}
Results == Urls \cup {"failed"}
Visitor ==
  [pc : {"idle", "set", "fetch", "refresh", "follow", "landed", "package", "verified"},
   gen : Nat, url : Urls, cached : Urls, flight : RepoThreads \cup {"none"},
   download : BOOLEAN, began : Nat, result : Results]

RepoTyped ==
  /\ url \in Urls /\ registry \in Urls /\ changes \in 0 .. MaxChanges
  /\ leader \in [0 .. MaxChanges -> RepoThreads \cup {"none"}]
  /\ visitor \in [RepoThreads -> Visitor]

(* What a visitor holds, if nothing has changed since, is of the URL.       *)
Noted(t) ==
  LET v == visitor[t] IN
  /\ v.gen <= changes /\ v.began <= changes
  /\ v.pc \in {"refresh", "follow", "landed"} => v.began <= v.gen
  /\ v.pc = "refresh" => v.url # NoUrl
  /\ v.pc = "refresh" /\ v.gen = changes => v.url = url /\ v.cached \in {NoUrl, url}
  /\ v.pc = "landed" => v.result # "none" /\ (v.gen = changes => v.result \in {"failed", url})
  /\ v.pc = "follow" /\ v.gen = changes => v.result \in {"none", "failed", url}
  /\ v.pc = "package" /\ v.began = changes => v.result = url

(* A flight on the table is at work for its generation, and a follower that *)
(* has no result yet has it from a thread at work for its own.              *)
FlightsAtWork ==
  /\ \A g \in 0 .. MaxChanges : leader[g] # "none" =>
       visitor[leader[g]].pc \in {"refresh", "landed"} /\ visitor[leader[g]].gen = g
  /\ \A t \in RepoThreads : visitor[t].pc = "follow" /\ visitor[t].result = "none" =>
       /\ visitor[t].flight \in RepoThreads
       /\ visitor[visitor[t].flight].pc = "refresh"
       /\ visitor[visitor[t].flight].gen = visitor[t].gen

RepoIInv ==
  /\ RepoTyped
  /\ registry \in {NoUrl, url}
  /\ \A t \in RepoThreads : Noted(t)
  /\ FlightsAtWork

LEMMA RepoInitIInv == RepoInit => RepoIInv
BY RepositoryAssumption
   DEF RepoInit, RepoIInv, RepoTyped, Urls, Results, Visitor, OutOfRepository, NoUrl, Noted, FlightsAtWork

(* A visitor that moves on, and is no leader and no follower, ...           *)
LEMMA RepoMoveStep ==
  ASSUME RepoIInv, NEW t \in RepoThreads, NEW v \in Visitor, Move(t, v),
         UNCHANGED <<url, changes, registry>>,
         leader' \in [0 .. MaxChanges -> RepoThreads \cup {"none"}],
         visitor[t].pc # "refresh",
         \A g \in 0 .. MaxChanges : leader'[g] \in {leader[g], "none", t},
         \A g \in 0 .. MaxChanges : leader'[g] = t => v.pc \in {"refresh", "landed"} /\ v.gen = g,
         Noted(t)',
         v.pc = "follow" /\ v.result = "none" =>
           v.flight \in RepoThreads \ {t} /\ visitor[v.flight].pc = "refresh"
             /\ visitor[v.flight].gen = v.gen
  PROVE  RepoIInv'
<1>1. visitor' = [visitor EXCEPT ![t] = v] /\ visitor'[t] = v
      /\ \A u \in RepoThreads \ {t} : visitor'[u] = visitor[u]
  BY DEF Move, RepoIInv, RepoTyped
<1>2. RepoTyped' BY <1>1 DEF RepoIInv, RepoTyped
<1>3. \A u \in RepoThreads \ {t} : Noted(u)' BY <1>1 DEF RepoIInv, Noted
<1>4. FlightsAtWork'
  <2>1. ASSUME NEW g \in 0 .. MaxChanges, leader'[g] # "none"
        PROVE  visitor'[leader'[g]].pc \in {"refresh", "landed"} /\ visitor'[leader'[g]].gen = g
    <3>1. CASE leader'[g] = t BY <1>1, <3>1
    <3>2. CASE leader'[g] # t
      <4>1. leader'[g] = leader[g] BY <2>1, <3>2
      <4>2. leader[g] \in RepoThreads \ {t} BY <2>1, <3>2, <4>1 DEF RepoIInv, RepoTyped
      <4> QED BY <1>1, <2>1, <4>1, <4>2 DEF RepoIInv, FlightsAtWork
    <3> QED BY <3>1, <3>2
  <2>2. ASSUME NEW u \in RepoThreads, visitor'[u].pc = "follow", visitor'[u].result = "none"
        PROVE  /\ visitor'[u].flight \in RepoThreads
               /\ visitor'[visitor'[u].flight].pc = "refresh"
               /\ visitor'[visitor'[u].flight].gen = visitor'[u].gen
    <3>1. CASE u = t BY <1>1, <2>2, <3>1
    <3>2. CASE u # t
      <4>1. visitor'[u] = visitor[u] BY <1>1, <3>2
      <4>2. /\ visitor[u].flight \in RepoThreads /\ visitor[visitor[u].flight].pc = "refresh"
            /\ visitor[visitor[u].flight].gen = visitor[u].gen
        BY <2>2, <4>1 DEF RepoIInv, FlightsAtWork
      <4> QED BY <1>1, <4>1, <4>2
    <3> QED BY <3>1, <3>2
  <2> QED BY <2>1, <2>2 DEF FlightsAtWork
<1> QED BY <1>1, <1>2, <1>3, <1>4 DEF RepoIInv

(* ... one that leaves, ...                                                 *)
LEMMA LeaveStep ==
  ASSUME RepoIInv, NEW t \in RepoThreads, Move(t, OutOfRepository),
         UNCHANGED <<url, changes, registry, leader>>,
         visitor[t].pc \notin {"refresh", "landed"}
  PROVE  RepoIInv'
<1>1. OutOfRepository \in Visitor BY DEF OutOfRepository, Visitor, Urls, Results, NoUrl
<1>2. \A g \in 0 .. MaxChanges : leader[g] # t
  BY RepositoryAssumption DEF RepoIInv, FlightsAtWork
<1>3. visitor'[t] = OutOfRepository BY DEF Move, RepoIInv, RepoTyped
<1>4. Noted(t)' BY <1>3, RepositoryAssumption DEF RepoIInv, RepoTyped, Noted, OutOfRepository
<1>5. leader' \in [0 .. MaxChanges -> RepoThreads \cup {"none"}] BY DEF RepoIInv, RepoTyped
<1>6. OutOfRepository.pc = "idle" BY DEF OutOfRepository
<1> QED BY <1>1, <1>2, <1>4, <1>5, <1>6, RepoMoveStep

(* ... one that leaves with a registry that was fetched: unless the         *)
(* generation has changed since it began, it is that of the URL.            *)
LEMMA FetchedStep ==
  ASSUME RepoIInv, NEW t \in RepoThreads, NEW r \in Urls, Fetched(t, r),
         UNCHANGED <<url, changes, registry>>,
         visitor[t].pc # "refresh",
         leader' \in [0 .. MaxChanges -> RepoThreads \cup {"none"}],
         \A g \in 0 .. MaxChanges : leader'[g] \in {leader[g], "none"} /\ leader'[g] # t,
         r # NoUrl /\ visitor[t].began = changes => r = url
  PROVE  RepoIInv'
<1> DEFINE p == [OutOfRepository EXCEPT !.pc = "package", !.began = visitor[t].began, !.result = r,
                                        !.download = TRUE]
           v == IF visitor[t].download /\ r # NoUrl THEN p ELSE OutOfRepository
<1>1. Move(t, v) BY DEF Fetched
<1>2. p.pc = "package" /\ p.began = visitor[t].began /\ p.result = r /\ p.gen = 0
  BY DEF OutOfRepository
<1>3. visitor[t].began \in 0 .. changes BY DEF RepoIInv, RepoTyped, Visitor, Noted
<1>4. p \in Visitor /\ OutOfRepository \in Visitor
  BY <1>3 DEF OutOfRepository, Visitor, Urls, Results, NoUrl, RepoIInv, RepoTyped
<1>5. v \in Visitor /\ v.pc \in {"package", "idle"} BY <1>2, <1>4 DEF OutOfRepository
<1>6. visitor'[t] = v BY <1>1 DEF Move, RepoIInv, RepoTyped
<1>7. Noted(t)'
  <2>1. changes \in Nat BY DEF RepoIInv, RepoTyped
  <2>2. CASE v = p
    <3>1. r # NoUrl \/ v = OutOfRepository OBVIOUS
    <3>2. p # OutOfRepository BY <1>2 DEF OutOfRepository
    <3>3. r # NoUrl BY <2>2, <3>1, <3>2
    <3>4. visitor'[t] = p BY <1>6, <2>2
    <3>5. visitor[t].began = changes => r = url BY <3>3
    <3> HIDE DEF v, p
    <3>6. 0 <= changes BY <2>1
    <3>7. visitor'[t].pc = "package" /\ visitor'[t].gen = 0 /\ visitor'[t].began = visitor[t].began
          /\ visitor'[t].result = r BY <1>2, <3>4
    <3> QED BY <1>3, <2>1, <3>5, <3>6, <3>7 DEF Noted
  <2>3. CASE v = OutOfRepository
    <3>1. visitor'[t] = OutOfRepository BY <1>6, <2>3
    <3>2. changes' = changes /\ 0 <= changes BY <2>1
    <3> HIDE DEF v, p
    <3> QED BY <3>1, <3>2 DEF Noted, OutOfRepository
  <2> QED BY <2>2, <2>3
<1> HIDE DEF v, p
<1> QED BY <1>1, <1>5, <1>7, RepoMoveStep

(* A change of the URL, or a cleared cache: everything noted is old now.    *)
LEMMA ClearStep ==
  ASSUME RepoIInv, ClearLocked, url' \in Urls, visitor' \in [RepoThreads -> Visitor],
         \A t \in RepoThreads : visitor'[t] = visitor[t] \/
                                (visitor'[t] = OutOfRepository /\ visitor[t].pc = "set")
  PROVE  RepoIInv'
<1>1. changes \in Nat /\ changes' = changes + 1 /\ changes' \in 0 .. MaxChanges
  BY RepositoryAssumption DEF RepoIInv, RepoTyped, ClearLocked
<1>2. RepoTyped' BY <1>1 DEF ClearLocked, RepoTyped, Urls
<1>3. ASSUME NEW t \in RepoThreads PROVE Noted(t)'
  <2>1. visitor[t] \in Visitor /\ visitor'[t] \in Visitor BY DEF RepoIInv, RepoTyped
  <2>2. CASE visitor'[t] = visitor[t]
    <3>1. Noted(t) BY DEF RepoIInv
    <3>2. visitor[t].gen < changes' /\ visitor[t].began < changes' BY <1>1, <2>1, <3>1 DEF Noted, Visitor
    <3> QED BY <1>1, <2>1, <2>2, <3>1, <3>2 DEF Noted, Visitor
  <2>3. CASE visitor'[t] = OutOfRepository BY <1>1, <2>3 DEF Noted, OutOfRepository
  <2> QED BY <2>2, <2>3
<1>4. FlightsAtWork'
  <2>1. \A g \in 0 .. MaxChanges : leader'[g] = "none" BY DEF ClearLocked
  <2>2. ASSUME NEW u \in RepoThreads, visitor'[u].pc = "follow", visitor'[u].result = "none"
        PROVE  /\ visitor'[u].flight \in RepoThreads
               /\ visitor'[visitor'[u].flight].pc = "refresh"
               /\ visitor'[visitor'[u].flight].gen = visitor'[u].gen
    <3>1. visitor'[u] = visitor[u] BY <2>2 DEF OutOfRepository
    <3>2. /\ visitor[u].flight \in RepoThreads /\ visitor[visitor[u].flight].pc = "refresh"
          /\ visitor[visitor[u].flight].gen = visitor[u].gen
      BY <2>2, <3>1 DEF RepoIInv, FlightsAtWork
    <3> QED BY <3>1, <3>2
  <2> QED BY <2>1, <2>2 DEF FlightsAtWork
<1> QED BY <1>2, <1>3, <1>4 DEF RepoIInv, ClearLocked

LEMMA FetchStep ==
  ASSUME RepoIInv, NEW t \in RepoThreads, Fetch(t)
  PROVE  RepoIInv'
<1>1. UNCHANGED <<url, changes, registry>> /\ visitor[t].pc = "fetch" BY DEF Fetch
<1>2. \A g \in 0 .. MaxChanges : leader[g] # t
  BY <1>1, RepositoryAssumption DEF RepoIInv, FlightsAtWork
<1>3. /\ leader \in [0 .. MaxChanges -> RepoThreads \cup {"none"}] /\ visitor[t] \in Visitor
      /\ registry \in Urls /\ changes \in 0 .. MaxChanges /\ changes \in Nat /\ url \in Urls
      /\ registry \in {NoUrl, url} /\ visitor[t].began <= changes
  BY DEF RepoIInv, RepoTyped, Noted
<1>4. NoUrl \in Urls BY DEF Urls
<1>5. CASE Fetched(t, NoUrl) /\ UNCHANGED leader BY <1>1, <1>2, <1>3, <1>4, <1>5, FetchedStep
<1>6. CASE registry # NoUrl /\ Fetched(t, registry) /\ UNCHANGED leader
  BY <1>1, <1>2, <1>3, <1>6, FetchedStep
<1> DEFINE seen == [visitor[t] EXCEPT !.gen = changes, !.url = url, !.cached = registry]
<1>7. CASE url # NoUrl /\ leader[changes] = "none" /\ leader' = [leader EXCEPT ![changes] = t]
           /\ Move(t, [seen EXCEPT !.pc = "refresh", !.flight = t])
  <2> DEFINE v == [seen EXCEPT !.pc = "refresh", !.flight = t]
  <2>1. Move(t, v) BY <1>7
  <2>2. /\ v \in Visitor /\ v.pc = "refresh" /\ v.gen = changes /\ v.url = url
        /\ v.cached = registry /\ v.began = visitor[t].began
    BY <1>3 DEF Visitor
  <2> HIDE DEF v, seen
  <2>3. visitor'[t] = v BY <2>1 DEF Move, RepoIInv, RepoTyped
  <2>4. Noted(t)' BY <1>1, <1>3, <1>7, <2>2, <2>3 DEF Noted
  <2>5. leader' \in [0 .. MaxChanges -> RepoThreads \cup {"none"}] BY <1>3, <1>7
  <2>6. \A g \in 0 .. MaxChanges : leader'[g] = IF g = changes THEN t ELSE leader[g] BY <1>3, <1>7
  <2> QED BY <1>1, <1>2, <2>1, <2>2, <2>4, <2>5, <2>6, RepoMoveStep
<1>8. CASE leader[changes] # "none" /\ UNCHANGED leader
           /\ Move(t, [seen EXCEPT !.pc = "follow", !.flight = leader[changes],
                             !.result = IF visitor[leader[changes]].pc = "landed"
                                        THEN visitor[leader[changes]].result ELSE "none"])
  <2> DEFINE l == leader[changes]
             r == IF visitor[l].pc = "landed" THEN visitor[l].result ELSE "none"
             v == [seen EXCEPT !.pc = "follow", !.flight = l, !.result = r]
  <2>1. Move(t, v) BY <1>8
  <2>2. /\ l \in RepoThreads \ {t} /\ visitor[l].pc \in {"refresh", "landed"}
        /\ visitor[l].gen = changes /\ visitor[l] \in Visitor /\ Noted(l)
    BY <1>2, <1>3, <1>8 DEF RepoIInv, RepoTyped, FlightsAtWork
  <2>3. r \in Results /\ r \in {"none", "failed", url} /\ (r = "none" => visitor[l].pc = "refresh")
    BY <2>2 DEF Noted, Visitor, Results, Urls, NoUrl
  <2>4. /\ v \in Visitor /\ v.pc = "follow" /\ v.gen = changes /\ v.result = r
        /\ v.flight = l /\ v.began = visitor[t].began
    BY <1>3, <2>2, <2>3 DEF Visitor
  <2> HIDE DEF v, seen, r, l
  <2>5. visitor'[t] = v BY <2>1 DEF Move, RepoIInv, RepoTyped
  <2>6. Noted(t)' BY <1>1, <1>3, <2>3, <2>4, <2>5 DEF Noted
  <2> QED BY <1>1, <1>2, <1>3, <1>8, <2>1, <2>2, <2>3, <2>4, <2>6, RepoMoveStep
<1> QED BY <1>5, <1>6, <1>7, <1>8 DEF Fetch

LEMMA FollowStep ==
  ASSUME RepoIInv, NEW t \in RepoThreads, Follow(t)
  PROVE  RepoIInv'
<1>1. UNCHANGED <<url, changes, registry, leader>> /\ visitor[t].pc = "follow" BY DEF Follow
<1>2. \A g \in 0 .. MaxChanges : leader[g] # t
  BY <1>1, RepositoryAssumption DEF RepoIInv, FlightsAtWork
<1>3. /\ leader \in [0 .. MaxChanges -> RepoThreads \cup {"none"}] /\ visitor[t] \in Visitor
      /\ NoUrl \in Urls /\ Noted(t) /\ url \in Urls
  BY DEF RepoIInv, RepoTyped, Urls
<1>4. CASE Fetched(t, NoUrl) BY <1>1, <1>2, <1>3, <1>4, FetchedStep
<1>5. CASE /\ CheckGeneration(visitor[t].gen) /\ visitor[t].result # "none"
           /\ Fetched(t, visitor[t].result) /\ visitor[t].result # "failed"
  <2>1. visitor[t].result = url BY <1>1, <1>3, <1>5 DEF CheckGeneration, Noted
  <2> QED BY <1>1, <1>2, <1>3, <1>5, <2>1, FetchedStep
<1> QED BY <1>4, <1>5 DEF Follow

LEMMA CacheRefreshStep ==
  ASSUME RepoIInv, NEW t \in RepoThreads, RefreshRegistry(t)
  PROVE  RepoIInv'
<1>1. UNCHANGED <<url, changes, leader>> /\ visitor[t].pc = "refresh" BY DEF RefreshRegistry
<1>2. visitor[t] \in Visitor /\ Noted(t) /\ url \in Urls /\ registry \in Urls /\ changes \in Nat
  BY DEF RepoIInv, RepoTyped
<1>3. PICK r \in Results : Landed(t, r) /\ r # "none"
        /\ (visitor[t].gen = changes => r \in {"failed", url})
        /\ registry' \in {registry, url}
  <2>1. CASE Landed(t, "failed") /\ registry' = registry
    BY <2>1 DEF Results
  <2>2. CASE CheckGeneration(visitor[t].gen) /\ visitor[t].cached # NoUrl
             /\ Landed(t, visitor[t].cached) /\ registry' = registry
    BY <1>1, <1>2, <2>2 DEF CheckGeneration, Noted, Results, NoUrl
  <2>3. CASE CheckGeneration(visitor[t].gen) /\ visitor[t].url # NoUrl
             /\ Landed(t, visitor[t].url) /\ registry' = visitor[t].url
    BY <1>1, <1>2, <2>3 DEF CheckGeneration, Noted, Results, NoUrl
  <2>4. visitor[t].url # NoUrl BY <1>1, <1>2 DEF Noted
  <2>5. CASE CheckGeneration(visitor[t].gen) /\ registry' = registry
             /\ Landed(t, IF visitor[t].cached = NoUrl THEN "failed" ELSE visitor[t].cached)
    <3>1. CASE visitor[t].cached = NoUrl BY <2>1, <2>5, <3>1
    <3>2. CASE visitor[t].cached # NoUrl BY <2>2, <2>5, <3>2
    <3> QED BY <3>1, <3>2
  <2> QED BY <2>1, <2>3, <2>4, <2>5 DEF RefreshRegistry
<1> DEFINE waits(u) == visitor[u].pc = "follow" /\ visitor[u].flight = t /\ visitor[u].result = "none"
<1>4. /\ visitor' \in [RepoThreads -> Visitor]
      /\ visitor'[t] = [visitor[t] EXCEPT !.pc = "landed", !.result = r]
      /\ \A u \in RepoThreads \ {t} :
           visitor'[u] = IF waits(u) THEN [visitor[u] EXCEPT !.result = r] ELSE visitor[u]
  <2>1. visitor \in [RepoThreads -> Visitor] BY DEF RepoIInv, RepoTyped
  <2>2. \A u \in RepoThreads : /\ [visitor[u] EXCEPT !.result = r] \in Visitor
                               /\ [visitor[u] EXCEPT !.pc = "landed", !.result = r] \in Visitor
    BY <2>1 DEF Visitor
  <2>3. \A u \in RepoThreads : visitor'[u] =
          IF u = t THEN [visitor[t] EXCEPT !.pc = "landed", !.result = r]
          ELSE IF waits(u) THEN [visitor[u] EXCEPT !.result = r] ELSE visitor[u]
    BY <1>3 DEF Landed
  <2>4. visitor' = [u \in RepoThreads |-> visitor'[u]] BY <1>3 DEF Landed
  <2> HIDE DEF waits
  <2>5. \A u \in RepoThreads : visitor'[u] \in Visitor BY <2>1, <2>2, <2>3
  <2> QED BY <2>3, <2>4, <2>5
<1>5. RepoTyped' BY <1>1, <1>3, <1>4 DEF RepoIInv, RepoTyped
<1>6. registry' \in {NoUrl, url'} BY <1>1, <1>3 DEF RepoIInv
<1>7. Noted(t)' BY <1>1, <1>2, <1>3, <1>4 DEF Noted, Visitor
<1>8. ASSUME NEW u \in RepoThreads \ {t} PROVE Noted(u)'
  <2>1. visitor[u] \in Visitor /\ Noted(u) BY DEF RepoIInv, RepoTyped
  <2>2. CASE ~waits(u) BY <1>1, <1>4, <2>1, <2>2 DEF Noted
  <2>3. CASE waits(u)
    <3>1. visitor[u].gen = visitor[t].gen BY <2>3 DEF RepoIInv, FlightsAtWork
    <3>2. visitor'[u] = [visitor[u] EXCEPT !.result = r] BY <1>4, <2>3
    <3> QED BY <1>1, <1>3, <2>1, <2>3, <3>1, <3>2 DEF Noted, Visitor
  <2> QED BY <2>2, <2>3
<1>9. FlightsAtWork'
  <2>1. \A u \in RepoThreads : /\ visitor'[u].pc = IF u = t THEN "landed" ELSE visitor[u].pc
                               /\ visitor'[u].gen = visitor[u].gen
                               /\ visitor'[u].flight = visitor[u].flight
    <3>1. \A u \in RepoThreads : visitor[u] \in Visitor BY DEF RepoIInv, RepoTyped
    <3> SUFFICES ASSUME NEW u \in RepoThreads
                 PROVE  /\ visitor'[u].pc = IF u = t THEN "landed" ELSE visitor[u].pc
                        /\ visitor'[u].gen = visitor[u].gen
                        /\ visitor'[u].flight = visitor[u].flight
      OBVIOUS
    <3>2. CASE u = t BY <1>4, <3>1, <3>2 DEF Visitor
    <3>3. CASE u # t /\ waits(u) BY <1>4, <3>1, <3>3 DEF Visitor
    <3>4. CASE u # t /\ ~waits(u) BY <1>4, <3>1, <3>4 DEF Visitor
    <3> QED BY <3>2, <3>3, <3>4
  <2>2. ASSUME NEW g \in 0 .. MaxChanges, leader'[g] # "none"
        PROVE  visitor'[leader'[g]].pc \in {"refresh", "landed"} /\ visitor'[leader'[g]].gen = g
    <3>1. leader[g] \in RepoThreads BY <1>1, <2>2 DEF RepoIInv, RepoTyped
    <3> QED BY <1>1, <2>1, <2>2, <3>1 DEF RepoIInv, FlightsAtWork
  <2>3. ASSUME NEW u \in RepoThreads, visitor'[u].pc = "follow", visitor'[u].result = "none"
        PROVE  /\ visitor'[u].flight \in RepoThreads
               /\ visitor'[visitor'[u].flight].pc = "refresh"
               /\ visitor'[visitor'[u].flight].gen = visitor'[u].gen
    <3>1. u # t BY <2>1, <2>3
    <3>2. visitor[u] \in Visitor BY DEF RepoIInv, RepoTyped
    <3>3. ~waits(u) BY <1>3, <1>4, <2>3, <3>1, <3>2 DEF Visitor
    <3>4. visitor'[u] = visitor[u] BY <1>4, <3>1, <3>3
    <3>5. visitor[u].flight \in RepoThreads \ {t} /\ visitor[visitor[u].flight].pc = "refresh"
          /\ visitor[visitor[u].flight].gen = visitor[u].gen
      BY <2>3, <3>3, <3>4 DEF RepoIInv, FlightsAtWork
    <3> QED BY <2>1, <3>4, <3>5
  <2> QED BY <2>2, <2>3 DEF FlightsAtWork
<1> QED BY <1>5, <1>6, <1>7, <1>8, <1>9 DEF RepoIInv

LEMMA DepartStep ==
  ASSUME RepoIInv, NEW t \in RepoThreads, Depart(t)
  PROVE  RepoIInv'
<1>1. UNCHANGED <<url, changes, registry>> /\ visitor[t].pc = "landed" BY DEF Depart
<1>2. /\ leader \in [0 .. MaxChanges -> RepoThreads \cup {"none"}] /\ visitor[t] \in Visitor
      /\ NoUrl \in Urls /\ Noted(t) /\ url \in Urls
  BY DEF RepoIInv, RepoTyped, Urls
<1>3. \A g \in 0 .. MaxChanges : leader[g] = t => g = visitor[t].gen
  BY RepositoryAssumption DEF RepoIInv, FlightsAtWork
<1>4. /\ leader' \in [0 .. MaxChanges -> RepoThreads \cup {"none"}]
      /\ \A g \in 0 .. MaxChanges : leader'[g] \in {leader[g], "none"} /\ leader'[g] # t
  BY <1>2, <1>3, RepositoryAssumption DEF Depart
<1>5. CASE Fetched(t, NoUrl) BY <1>1, <1>2, <1>4, <1>5, FetchedStep
<1>6. CASE visitor[t].result # "failed" /\ Fetched(t, visitor[t].result)
  <2>1. visitor[t].result \in Urls BY <1>2, <1>6 DEF Visitor, Results
  <2>2. changes \in Nat BY DEF RepoIInv, RepoTyped
  <2>3. visitor[t].began = changes => visitor[t].result = url
    BY <1>1, <1>2, <1>6, <2>2 DEF Noted, Visitor
  <2> QED BY <1>1, <1>2, <1>4, <1>6, <2>1, <2>3, FetchedStep
<1> QED BY <1>5, <1>6 DEF Depart

LEMMA RepoNextIInv == RepoIInv /\ [RepoNext]_repoVars => RepoIInv'
<1> SUFFICES ASSUME RepoIInv, [RepoNext]_repoVars PROVE RepoIInv' OBVIOUS
<1>1. ASSUME NEW t \in RepoThreads, NEW v \in Visitor, Move(t, v), visitor[t].pc \notin {"refresh", "landed"},
             UNCHANGED <<url, changes, registry, leader>>,
             v.pc \in {"set", "fetch", "verified"}, v.gen = 0, v.began <= changes
      PROVE  RepoIInv'
  <2>1. \A g \in 0 .. MaxChanges : leader[g] # t
    BY <1>1, RepositoryAssumption DEF RepoIInv, FlightsAtWork
  <2>2. /\ leader \in [0 .. MaxChanges -> RepoThreads \cup {"none"}] /\ changes \in Nat
        /\ visitor'[t] = v
    BY <1>1 DEF RepoIInv, RepoTyped, Move
  <2>3. Noted(t)' BY <1>1, <2>2 DEF Noted
  <2> QED BY <1>1, <2>1, <2>2, <2>3, RepoMoveStep
<1>2. \A t \in RepoThreads : visitor[t] \in Visitor /\ Noted(t) BY DEF RepoIInv, RepoTyped
<1>3. changes \in Nat /\ url \in Urls BY DEF RepoIInv, RepoTyped
<1>4. ASSUME NEW t \in RepoThreads, NEW u \in RegistryUrls, BeginSet(t, u) PROVE RepoIInv'
  <2> DEFINE v == [OutOfRepository EXCEPT !.pc = "set", !.url = u]
  <2>1. v \in Visitor /\ v.pc = "set" /\ v.gen = 0 /\ v.began = 0
    BY DEF OutOfRepository, Visitor, Urls, Results, NoUrl
  <2>2. /\ Move(t, v) /\ UNCHANGED <<url, changes, registry, leader>> /\ visitor[t].pc = "idle"
    BY <1>4 DEF BeginSet
  <2> HIDE DEF v
  <2> QED BY <1>1, <1>3, <2>1, <2>2
<1>5. ASSUME NEW t \in RepoThreads, SetRegistryUrl(t) PROVE RepoIInv'
  <2>1. Move(t, OutOfRepository) /\ visitor[t].pc = "set" BY <1>5 DEF SetRegistryUrl
  <2>2. CASE UNCHANGED <<url, changes, registry, saved, leader>> BY <2>1, <2>2, LeaveStep
  <2>3. CASE url' = visitor[t].url /\ ClearLocked
    <3>1. OutOfRepository \in Visitor BY DEF OutOfRepository, Visitor, Urls, Results, NoUrl
    <3>2. /\ visitor' \in [RepoThreads -> Visitor]
          /\ \A u \in RepoThreads : visitor'[u] = visitor[u] \/
                                      (visitor'[u] = OutOfRepository /\ visitor[u].pc = "set")
      BY <2>1, <3>1 DEF Move, RepoIInv, RepoTyped
    <3>3. url' \in Urls BY <1>2, <2>3 DEF Visitor
    <3> QED BY <2>3, <3>2, <3>3, ClearStep
  <2> QED BY <1>5, <2>2, <2>3 DEF SetRegistryUrl
<1>6. ASSUME NEW t \in RepoThreads, BeginDownload(t) \/ BeginFetch(t) PROVE RepoIInv'
  <2>1. PICK v : /\ v \in {[OutOfRepository EXCEPT !.pc = "fetch", !.download = TRUE, !.began = changes],
                            [OutOfRepository EXCEPT !.pc = "fetch"]}
                 /\ Move(t, v)
    BY <1>6 DEF BeginDownload, BeginFetch
  <2>2. v \in Visitor /\ v.pc = "fetch" /\ v.gen = 0 /\ v.began <= changes
    <3>1. v.pc = "fetch" /\ v.gen = 0 /\ v.began \in {0, changes}
      BY <2>1 DEF OutOfRepository
    <3>2. v.began <= changes BY <1>3, <3>1
    <3>3. v = [pc |-> "fetch", gen |-> 0, url |-> NoUrl, cached |-> NoUrl, flight |-> "none",
               download |-> v.download, began |-> v.began, result |-> "none"]
          /\ v.download \in BOOLEAN
      BY <2>1 DEF OutOfRepository
    <3>4. v \in Visitor BY <1>3, <3>1, <3>3 DEF Visitor, Urls, Results, NoUrl
    <3> QED BY <3>1, <3>2, <3>4
  <2>3. UNCHANGED <<url, changes, registry, leader>> /\ visitor[t].pc = "idle"
    BY <1>6 DEF BeginDownload, BeginFetch
  <2> QED BY <1>1, <2>1, <2>2, <2>3
<1>7. ASSUME NEW t \in RepoThreads, Package(t) PROVE RepoIInv'
  <2>1. UNCHANGED <<url, changes, registry, leader>> /\ visitor[t].pc = "package" BY <1>7 DEF Package
  <2>2. CASE Move(t, OutOfRepository) BY <2>1, <2>2, LeaveStep
  <2>3. CASE Move(t, [visitor[t] EXCEPT !.pc = "verified", !.url = url])
    <3> DEFINE v == [visitor[t] EXCEPT !.pc = "verified", !.url = url]
    <3>1. v \in Visitor /\ v.pc = "verified" /\ v.gen <= changes /\ v.began <= changes
      BY <1>2, <1>3 DEF Visitor, Noted
    <3>2. Move(t, v) BY <2>3
    <3> HIDE DEF v
    <3>3. visitor'[t] = v /\ leader \in [0 .. MaxChanges -> RepoThreads \cup {"none"}]
      BY <3>2 DEF Move, RepoIInv, RepoTyped
    <3>4. \A g \in 0 .. MaxChanges : leader[g] # t
      BY <2>1, RepositoryAssumption DEF RepoIInv, FlightsAtWork
    <3>5. Noted(t)' BY <2>1, <3>1, <3>3 DEF Noted
    <3> QED BY <2>1, <3>1, <3>2, <3>3, <3>4, <3>5, RepoMoveStep
  <2> QED BY <1>7, <2>2, <2>3 DEF Package
<1>8. ASSUME NEW t \in RepoThreads, Publish(t) PROVE RepoIInv'
  BY <1>8, LeaveStep DEF Publish
<1>9. CASE ClearRegistry
  <2>1. url' \in Urls /\ ClearLocked /\ visitor' = visitor BY <1>3, <1>9 DEF ClearRegistry, Urls
  <2>2. visitor' \in [RepoThreads -> Visitor] BY <2>1 DEF RepoIInv, RepoTyped
  <2> QED BY <2>1, <2>2, ClearStep
<1>10. CASE UNCHANGED <<url, changes, registry, leader, visitor>>
  BY <1>10 DEF RepoIInv, RepoTyped, Noted, FlightsAtWork
<1>11. CASE CloseRepository BY <1>10, <1>11 DEF CloseRepository
<1>12. CASE UNCHANGED repoVars BY <1>10, <1>12 DEF repoVars
<1> QED BY <1>4, <1>5, <1>6, <1>7, <1>8, <1>9, <1>11, <1>12, FetchStep, FollowStep, CacheRefreshStep, DepartStep
        DEF RepoNext

(* What is cached, and what is put into the file, is of the URL that is     *)
(* configured then.                                                         *)
LEMMA CacheStep == RepoIInv /\ RepoIInv' /\ [RepoNext]_repoVars =>
  [registry' \in {NoUrl, url'} /\ (saved' \notin {saved, NoUrl} => saved' = url')]_repoVars
<1> SUFFICES ASSUME RepoIInv, RepoIInv', [RepoNext]_repoVars
             PROVE  registry' \in {NoUrl, url'} /\ (saved' \notin {saved, NoUrl} => saved' = url')
  OBVIOUS
<1>1. registry' \in {NoUrl, url'} BY DEF RepoIInv
<1>2. ASSUME NEW t \in RepoThreads, RefreshRegistry(t) PROVE saved' \notin {saved, NoUrl} => saved' = url'
  BY <1>2 DEF RefreshRegistry, CheckGeneration, RepoIInv, Noted
<1>3. ASSUME saved' \in {NoUrl, saved} PROVE saved' \notin {saved, NoUrl} => saved' = url' BY <1>3
<1>4. CASE UNCHANGED repoVars BY <1>1, <1>4 DEF repoVars
<1>5. CASE ClearRegistry BY <1>1, <1>5 DEF ClearRegistry, ClearLocked
<1>6. CASE CloseRepository BY <1>1, <1>6 DEF CloseRepository
<1>7. ASSUME NEW t \in RepoThreads,
             \/ \E u \in RegistryUrls : BeginSet(t, u)
             \/ SetRegistryUrl(t) \/ BeginDownload(t) \/ BeginFetch(t)
             \/ Fetch(t) \/ Follow(t) \/ Depart(t) \/ Package(t) \/ Publish(t)
      PROVE  saved' \in {NoUrl, saved}
  BY <1>7 DEF BeginSet, SetRegistryUrl, ClearLocked, BeginDownload, BeginFetch, Fetch, Follow, Depart,
              Package, Publish
<1> QED BY <1>1, <1>2, <1>3, <1>4, <1>5, <1>6, <1>7 DEF RepoNext

(* A package becomes verified only by Package, in the generation in which   *)
(* its download began.                                                      *)
LEMMA PackageStep == RepoIInv /\ [RepoNext]_repoVars =>
  [\A t \in RepoThreads : visitor[t].pc = "package" /\ visitor'[t].pc = "verified" =>
     visitor[t].result = url /\ visitor[t].began = changes]_repoVars
<1> SUFFICES ASSUME RepoIInv, RepoNext, NEW t \in RepoThreads,
                    visitor[t].pc = "package", visitor'[t].pc = "verified"
             PROVE  visitor[t].result = url /\ visitor[t].began = changes
  BY DEF repoVars
<1>1. Package(t) => visitor[t].began = changes
  BY DEF Package, DownloadCheck, CheckGeneration, Move, OutOfRepository, RepoIInv, RepoTyped
<1>2. ASSUME NEW u \in RepoThreads, NEW v, Move(u, v), v.pc # "verified" \/ u # t PROVE FALSE
  BY <1>2 DEF Move, RepoIInv, RepoTyped
<1>3. ASSUME NEW u \in RepoThreads, NEW r, Fetched(u, r) PROVE FALSE
  BY <1>2, <1>3 DEF Fetched, OutOfRepository
<1>4. ~UNCHANGED visitor OBVIOUS
<1>5. ASSUME NEW u \in RepoThreads,
             (\E x \in RegistryUrls : BeginSet(u, x)) \/ SetRegistryUrl(u) \/ BeginDownload(u) \/ BeginFetch(u)
               \/ Publish(u)
      PROVE  FALSE
  BY <1>5, <1>2 DEF BeginSet, SetRegistryUrl, BeginDownload, BeginFetch, Publish, OutOfRepository
<1>6. ASSUME NEW u \in RepoThreads, Fetch(u) PROVE FALSE
  BY <1>6, <1>2, <1>3 DEF Fetch
<1>7. ASSUME NEW u \in RepoThreads, Follow(u) \/ Depart(u) PROVE FALSE
  BY <1>7, <1>3 DEF Follow, Depart
<1>8. ASSUME NEW u \in RepoThreads, RefreshRegistry(u) PROVE FALSE
  <2>1. PICK r : Landed(u, r) BY <1>8 DEF RefreshRegistry
  <2>2. visitor[t] \in Visitor BY DEF RepoIInv, RepoTyped
  <2> QED BY <2>1, <2>2 DEF Landed, Visitor
<1>9. ASSUME NEW u \in RepoThreads, Package(u) PROVE u = t
  BY <1>9, <1>2 DEF Package
<1>10. Package(t)
  BY <1>4, <1>5, <1>6, <1>7, <1>8, <1>9 DEF RepoNext, ClearRegistry, CloseRepository
<1> QED BY <1>1, <1>10 DEF RepoIInv, Noted

(* Nothing of a registry outlives a change of its URL: neither in the cache *)
(* or the file (refresh, clear_locked), nor in a package that is handed out *)
(* (download).                                                              *)
THEOREM NothingOutlivesUrl == RepoSpec => RegistrySound
<1>1. RepoIInv /\ RepoIInv' /\ [RepoNext]_repoVars =>
        /\ [registry' \in {NoUrl, url'} /\ (saved' \notin {saved, NoUrl} => saved' = url')]_repoVars
        /\ [\A t \in RepoThreads : visitor[t].pc = "package" /\ visitor'[t].pc = "verified" =>
              visitor[t].result = url /\ visitor[t].began = changes]_repoVars
  BY CacheStep, PackageStep
<1> QED BY RepoInitIInv, RepoNextIInv, <1>1, PTL
        DEF RepoSpec, RegistrySound, RegistryOfUrl, PackageOfRegistry
=============================================================================
