----------------------------- MODULE CallGraph -----------------------------
(***************************************************************************)
(* The wait-for graph of rust_backend/crates/providers/src/lyrics/calls.rs. *)
(* Lyrics flights and extension VMs are nodes; a thread that works for one  *)
(* of them registers an edge (a CallWait) before it waits for another, and  *)
(* keeps it until the answer is there.  wait_for() refuses an edge that     *)
(* would close a cycle, because everyone on the cycle would wait for ever.  *)
(*                                                                          *)
(* Several graphs exist (one for each backend and one for each stand-alone  *)
(* VM) and number their nodes independently, so the id of a node means      *)
(* nothing in another graph.                                                *)
(*                                                                          *)
(* The search of wait_for() runs under the lock of the graph.  It is        *)
(* modelled step by step, holder[g] being the request whose thread has the  *)
(* lock of g; the stack `pending' is a set, because the order of the visits *)
(* and repeated entries make no difference.  The nested maps of counts are  *)
(* one map from pairs of ids: an absent pair is an absent entry, and a      *)
(* caller without pairs is a caller without an inner map.                   *)
(***************************************************************************)
EXTENDS Naturals, FiniteSets

CONSTANTS
  Graphs,     \* the CallGraph values of the process
  MaxNodes,   \* bound on the nodes of a graph (2^64 - 1 in the code)
  Waits,      \* the CallWait values
  Nobody      \* no request holds the lock

ASSUME GraphAssumption ==
  /\ MaxNodes \in Nat
  /\ IsFiniteSet(Waits)
  /\ Nobody \notin Waits

VARIABLES
  next,       \* [Graphs -> Nat]  State::next
  edges,      \* [Graphs -> map from pairs of ids to counts]  State::edges
  live,       \* the CallWait values that exist
  caller,     \* [Waits -> CallNode]  the caller of a request or CallWait
  target,     \* [Waits -> CallNode]
  holder,     \* [Graphs -> Waits or Nobody]  the wait_for() in progress
  pending,    \* [Graphs -> SUBSET Ids]  its stack
  visited     \* [Graphs -> SUBSET Ids]

graphVars == <<next, edges, live, caller, target, holder, pending, visited>>

Ids == 0 .. MaxNodes - 1

(* A CallNode: its graph and its id there. *)
Nodes == Graphs \X Ids

GraphInit ==
  /\ next = [g \in Graphs |-> 0]
  /\ edges = [g \in Graphs |-> [p \in {} |-> 0]]
  /\ live = {}
  /\ caller \in [Waits -> {<<g, 0>> : g \in Graphs}]
  /\ target = caller
  /\ holder = [g \in Graphs |-> Nobody]
  /\ pending = [g \in Graphs |-> {}]
  /\ visited = [g \in Graphs |-> {}]

CallerId(g) == caller[holder[g]][2]

Successors(g, i) == {j \in Ids : <<i, j>> \in DOMAIN edges[g]}

-----------------------------------------------------------------------------
(* Mutation: the caller's graph is not compared with the target's.                    *)
WaitForAnyGraph(w, c, t) ==
  /\ w \notin live
  /\ \A g \in Graphs : holder[g] # w
  /\ c[2] < next[c[1]] /\ t[2] < next[t[1]]
  /\ holder[c[1]] = Nobody
  /\ holder' = [holder EXCEPT ![c[1]] = w]
  /\ caller' = [caller EXCEPT ![w] = c]
  /\ target' = [target EXCEPT ![w] = t]
  /\ pending' = [pending EXCEPT ![c[1]] = {t[2]}]
  /\ visited' = [visited EXCEPT ![c[1]] = {}]
  /\ UNCHANGED <<next, edges, live>>

-----------------------------------------------------------------------------
(* CallGraph::node() takes the next id. *)
Node(g) ==
  /\ holder[g] = Nobody
  /\ next[g] < MaxNodes
  /\ next' = [next EXCEPT ![g] = @ + 1]
  /\ UNCHANGED <<edges, live, caller, target, holder, pending, visited>>

(* caller.wait_for(target), up to the start of the search.  A caller of     *)
(* another graph is refused.                                                *)
WaitFor(w, c, t) ==
  /\ w \notin live
  /\ \A g \in Graphs : holder[g] # w
  /\ c[2] < next[c[1]] /\ t[2] < next[t[1]]
  /\ c[1] = t[1]
  /\ holder[c[1]] = Nobody
  /\ holder' = [holder EXCEPT ![c[1]] = w]
  /\ caller' = [caller EXCEPT ![w] = c]
  /\ target' = [target EXCEPT ![w] = t]
  /\ pending' = [pending EXCEPT ![c[1]] = {t[2]}]
  /\ visited' = [visited EXCEPT ![c[1]] = {}]
  /\ UNCHANGED <<next, edges, live>>

(* The search pops the caller itself: the call would deadlock.              *)
Reject(g) ==
  /\ holder[g] # Nobody
  /\ CallerId(g) \in pending[g]
  /\ holder' = [holder EXCEPT ![g] = Nobody]
  /\ pending' = [pending EXCEPT ![g] = {}]
  /\ visited' = [visited EXCEPT ![g] = {}]
  /\ UNCHANGED <<next, edges, live, caller, target>>

(* The search pops another node and, the first time, pushes what it waits   *)
(* for.                                                                     *)
Visit(g, i) ==
  /\ holder[g] # Nobody
  /\ i \in pending[g]
  /\ i # CallerId(g)
  /\ visited' = [visited EXCEPT ![g] = @ \cup {i}]
  /\ pending' = [pending EXCEPT ![g] =
                   (@ \ {i}) \cup (IF i \in visited[g] THEN {} ELSE Successors(g, i))]
  /\ UNCHANGED <<next, edges, live, caller, target, holder>>

(* One more CallWait on the pair p of a map of counts, and one less.        *)
AddCount(f, p) ==
  [q \in DOMAIN f \cup {p} |->
     IF q # p THEN f[q] ELSE IF p \in DOMAIN f THEN f[p] + 1 ELSE 1]

DropCount(f, p) ==
  [q \in {r \in DOMAIN f : r # p \/ f[r] > 1} |-> IF q = p THEN f[q] - 1 ELSE f[q]]

Edge(w) == <<caller[w][2], target[w][2]>>

(* The search ended without meeting the caller: the edge is recorded and    *)
(* the CallWait returned.                                                   *)
Accept(g) ==
  /\ holder[g] # Nobody
  /\ pending[g] = {}
  /\ edges' = [edges EXCEPT ![g] = AddCount(@, Edge(holder[g]))]
  /\ live' = live \cup {holder[g]}
  /\ holder' = [holder EXCEPT ![g] = Nobody]
  /\ visited' = [visited EXCEPT ![g] = {}]
  /\ UNCHANGED <<next, caller, target, pending>>

(* Drop for CallWait.                                                       *)
Drop(w) ==
  LET g == caller[w][1] IN
    /\ w \in live
    /\ holder[g] = Nobody
    /\ edges' = [edges EXCEPT ![g] = DropCount(@, Edge(w))]
    /\ live' = live \ {w}
    /\ UNCHANGED <<next, caller, target, holder, pending, visited>>

Search(g) == Reject(g) \/ Accept(g) \/ \E i \in Ids : Visit(g, i)

GraphNext ==
  \/ \E g \in Graphs : Node(g) \/ Search(g)
  \/ \E w \in Waits :
       \/ Drop(w)
       \/ \E c, t \in Nodes : WaitFor(w, c, t)

GraphSpec == GraphInit /\ [][GraphNext]_graphVars

-----------------------------------------------------------------------------
(* State, lock and search are well formed.                                  *)
GraphTypeOK ==
  /\ next \in [Graphs -> 0 .. MaxNodes]
  /\ DOMAIN edges = Graphs
  /\ live \subseteq Waits
  /\ caller \in [Waits -> Graphs \X Nat]
  /\ target \in [Waits -> Graphs \X Nat]
  /\ holder \in [Graphs -> Waits \cup {Nobody}]
  /\ pending \in [Graphs -> SUBSET Ids]
  /\ visited \in [Graphs -> SUBSET Ids]

WaitPairs(g) == {Edge(w) : w \in {v \in live : caller[v][1] = g}}

WaitsOn(g, p) == {w \in live : caller[w][1] = g /\ Edge(w) = p}

(* The recorded counts are exactly the CallWaits that exist: an edge lasts  *)
(* until the last of several waiters leaves and not longer, and the drop of *)
(* a CallWait never meets a missing entry (the two expects in its code).    *)
EdgesCountWaits ==
  \A g \in Graphs :
    /\ DOMAIN edges[g] = WaitPairs(g)
    /\ \A p \in WaitPairs(g) : edges[g][p] = Cardinality(WaitsOn(g, p))

(* Every node of S waits for a node of S.                                   *)
Cyclic(S) == \A n \in S : \E w \in live : caller[w] = n /\ target[w] \in S

(* "recursive lyrics call would deadlock": among the nodes that wait there  *)
(* is always one that waits for nobody, whatever edges were granted,        *)
(* shared and dropped before.                                               *)
NoCyclicWait == \A S \in SUBSET Nodes : Cyclic(S) => S = {}

Closed(g, C) == \A w \in live : caller[w][1] = g /\ caller[w][2] \in C => target[w][2] \in C

(* The nodes the target waits for, directly or through others: the least    *)
(* set that holds it and is closed under the waits that exist.              *)
Reaches(g, t, i) == \A C \in SUBSET Ids : t \in C /\ Closed(g, C) => i \in C

(* wait_for() refuses nothing but a deadlock: when it rejects a request,    *)
(* the target does wait for the caller, by the CallWaits that exist.        *)
RejectsOnlyCycles ==
  [][\A g \in Graphs :
       holder[g] # Nobody /\ holder'[g] = Nobody /\ holder[g] \notin live'
         => Reaches(g, target[holder[g]][2], CallerId(g))]_graphVars

-----------------------------------------------------------------------------
(* What the search of g has established so far.                             *)
SearchInv(g) ==
  LET w == holder[g] IN
    w # Nobody =>
      /\ w \notin live
      /\ caller[w][1] = g /\ target[w][1] = g
      /\ caller[w][2] \in Ids /\ target[w][2] \in Ids
      /\ caller[w][2] \notin visited[g]
      /\ target[w][2] \in pending[g] \cup visited[g]
      /\ \A i, j \in Ids :
           <<i, j>> \in DOMAIN edges[g] /\ i \in visited[g]
             => j \in pending[g] \cup visited[g]
      /\ \A i \in pending[g] \cup visited[g] : Reaches(g, target[w][2], i)

(* A CallWait joins two nodes of one graph.                                 *)
LiveInv ==
  \A w \in live :
    /\ caller[w] \in Nodes /\ target[w] \in Nodes
    /\ caller[w][1] = target[w][1]

(* The inductive invariant.                                                 *)
GraphIInv ==
  /\ GraphTypeOK
  /\ LiveInv
  /\ EdgesCountWaits
  /\ \A g \in Graphs : SearchInv(g)
  /\ NoCyclicWait

=============================================================================
