---------------------------- MODULE MCDownloads ----------------------------
(* How a file gets into the library: the operations of the backend, the      *)
(* plan of a download, and the transfer of a file as a stream, in chunks or  *)
(* in segments, and how the app learns of its progress.                      *)
EXTENDS ProgressRegistry, DownloadPlanner, ResumableTransfer, SegmentedTransfer, Backend, TLC

VARIABLE part   \* the component that runs; they do not interact

downloadsVars == <<vars, planVars, transferVars, segmentVars, backendVars, part>>
DownloadsInit ==
  /\ part \in {"plan", "transfer", "segments", "progress", "backend"}
  /\ Init /\ PlanInit /\ TransferInit /\ SegmentInit /\ BackendInit
  /\ part # "plan" => \A p \in Paths : library[p] = "none"
DownloadsNext ==
  /\ UNCHANGED part
  /\ \/ part = "plan" /\ PlanNext /\ UNCHANGED <<vars, transferVars, segmentVars, backendVars>>
     \/ part = "transfer" /\ TransferNext /\ UNCHANGED <<vars, planVars, segmentVars, backendVars>>
     \/ part = "segments" /\ SegmentNext /\ UNCHANGED <<vars, planVars, transferVars, backendVars>>
     \/ part = "progress" /\ Next /\ UNCHANGED <<planVars, transferVars, segmentVars, backendVars>>
     \/ part = "backend" /\ BackendNext /\ UNCHANGED <<vars, planVars, transferVars, segmentVars>>
DownloadsSpec == DownloadsInit /\ [][DownloadsNext]_downloadsVars

DownloadsSymmetry == Permutations(Requests) \cup Permutations(Paths)   \* Readers and Requests are one set, Ids and Paths another
=============================================================================
