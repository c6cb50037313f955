-------------------------- MODULE ResolutionBudget --------------------------
(***************************************************************************)
(* The resolver allowance of a download, rust_backend/crates/extensions/    *)
(* src/resolution.rs.  Time counts against the allowance unless native      *)
(* media reads pause it; a charge counts in spite of pauses.  The threads   *)
(* of a download enter and leave such periods independently, each with a    *)
(* guard, and the remaining time is computed lazily: settle() folds the     *)
(* time since `started' into `remaining' before the counters change.        *)
(***************************************************************************)
EXTENDS Integers, FiniteSets

CONSTANTS
  Allowance,   \* the time granted
  Guards,      \* BudgetGuard values
  MaxTime      \* bound on the clock

ASSUME BudgetAssumption ==
  Allowance \in Nat /\ MaxTime \in Nat /\ IsFiniteSet(Guards)

VARIABLES
  remaining,   \* State::remaining
  started,     \* State::started
  pauses,      \* State::pauses
  charges,     \* State::charges
  guard,       \* [Guards -> {"none", "pause", "charge"}]
  now,         \* Instant::now()
  used         \* the time that counted so far, tick by tick (not in the code)

vars == <<remaining, started, pauses, charges, guard, now, used>>

Init ==
  /\ remaining = Allowance /\ started = 0
  /\ pauses = 0 /\ charges = 0
  /\ guard = [g \in Guards |-> "none"]
  /\ now = 0 /\ used = 0

Monus(a, b) == IF a >= b THEN a - b ELSE 0

(* State::remaining(now)                                                    *)
Remaining ==
  IF pauses = 0 \/ charges > 0 THEN Monus(remaining, now - started) ELSE remaining

(* Mutation: the time is folded in and the period not restarted.            *)
SettleKeepStart == remaining' = Remaining /\ UNCHANGED started

(* State::settle(now)                                                       *)
Settle == remaining' = Remaining /\ started' = now

(* ResolutionBudget::enter(charge)                                          *)
Enter(g, kind) ==
  /\ guard[g] = "none"
  /\ Settle
  /\ charges' = IF kind = "charge" THEN charges + 1 ELSE charges
  /\ pauses' = IF kind = "pause" THEN pauses + 1 ELSE pauses
  /\ guard' = [guard EXCEPT ![g] = kind]
  /\ UNCHANGED <<now, used>>

(* Drop for BudgetGuard                                                     *)
Leave(g) ==
  /\ guard[g] # "none"
  /\ Settle
  /\ charges' = IF guard[g] = "charge" THEN charges - 1 ELSE charges
  /\ pauses' = IF guard[g] = "pause" THEN pauses - 1 ELSE pauses
  /\ guard' = [guard EXCEPT ![g] = "none"]
  /\ UNCHANGED <<now, used>>

(* What is meant by time that counts: somebody charges, or nobody pauses.   *)
Holding(kind) == {g \in Guards : guard[g] = kind}
Counts == Holding("charge") # {} \/ Holding("pause") = {}

(* Time passes.                                                             *)
Tick ==
  /\ now < MaxTime
  /\ now' = now + 1
  /\ used' = IF Counts THEN used + 1 ELSE used
  /\ UNCHANGED <<remaining, started, pauses, charges, guard>>

Next ==
  \/ Tick
  \/ \E g \in Guards : Leave(g) \/ \E kind \in {"pause", "charge"} : Enter(g, kind)

Spec == Init /\ [][Next]_vars

-----------------------------------------------------------------------------
(* Types, and the counters are the guards that exist, so none goes below    *)
(* zero.                                                                    *)
TypeOK ==
  /\ remaining \in 0 .. Allowance
  /\ now \in 0 .. MaxTime /\ started \in 0 .. now
  /\ used \in 0 .. now
  /\ guard \in [Guards -> {"none", "pause", "charge"}]
  /\ pauses = Cardinality(Holding("pause"))
  /\ charges = Cardinality(Holding("charge"))

(* The lazy computation is exact: whatever guards come and go, in whatever  *)
(* order and at whatever times, what remains is the allowance less the time *)
(* that counted.                                                            *)
BudgetExact == Remaining = Monus(Allowance, used)

(* "exhaustion is terminal": the budget is never refilled, so a call that   *)
(* was interrupted because it ran out stays interrupted.                    *)
NeverRefilled == [][Remaining' <= Remaining]_vars
=============================================================================
