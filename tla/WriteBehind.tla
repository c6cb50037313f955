---------------------------- MODULE WriteBehind ----------------------------
(***************************************************************************)
(* What a write-behind cache promises: versions are accepted at once and    *)
(* reach the disk later and in order, some of them skipped; a failed write  *)
(* is remembered until one succeeds; a crash loses what is not on the disk. *)
(***************************************************************************)
EXTENDS Naturals

VARIABLES
  latest,   \* the last version that was accepted
  durable,  \* the version that is on the disk
  failed    \* the last attempt failed

wbVars == <<latest, durable, failed>>

WBInit == latest = 0 /\ durable = 0 /\ failed = FALSE

Accept == latest' = latest + 1 /\ failed' \in {failed, TRUE} /\ UNCHANGED durable
Land ==
  /\ durable' \in (durable + 1) .. latest
  /\ failed' = FALSE
  /\ UNCHANGED latest
Fail == failed' = TRUE /\ UNCHANGED <<latest, durable>>
Lose == latest' = durable /\ failed' = FALSE /\ UNCHANGED durable

WBNext == Accept \/ Land \/ Fail \/ Lose
(* What never happens: the disk goes back, or gets what was not accepted.   *)
WBSafety == WBInit /\ [][WBNext]_wbVars
(* The last version accepted gets to the disk, unless writing fails.        *)
WBSpec == WBSafety /\ []<>(durable = latest \/ failed)
=============================================================================
