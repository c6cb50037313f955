-------------------------- MODULE SegmentedTransfer --------------------------
(***************************************************************************)
(* The transfer of a file that comes in segments                            *)
(* (extensions/src/download/segments.rs): workers fetch them into files of  *)
(* their own, the calling thread appends these in order to a partial file   *)
(* with a checkpoint (segment_store.rs), and renames it when all are there. *)
(* Jobs and results go through channels bounded by the number of workers.   *)
(* The partial file is the sequence of its segments.                        *)
(***************************************************************************)
EXTENDS Naturals, Sequences, FiniteSets

CONSTANTS
  Segments,          \* number of segments
  Parallel,          \* max_parallel_segments
  MaxSegmentCalls,   \* bound on the calls
  MaxSegmentLosses   \* bound on the ends of the process

ASSUME SegmentAssumption ==
  /\ Segments \in Nat \ {0} /\ Parallel \in Nat \ {0}
  /\ MaxSegmentCalls \in Nat /\ MaxSegmentLosses \in Nat

VARIABLES
  assembled,  \* the partial file
  durable,    \* so many of its segments survive a loss of power
  mark,       \* next_index of the checkpoint file, 0 if there is none
  whole,      \* the published file
  coord,      \* the calling thread
  jobs,       \* indices sent to the workers
  results,    \* what workers have sent: the index, and if it succeeded
  fetcher,    \* worker -> what it does, and its index
  ready,      \* pending: fetched and not yet appended
  segmentCalls, segmentLosses

segmentVars == <<assembled, durable, mark, whole, coord, jobs, results, fetcher, ready,
                 segmentCalls, segmentLosses>>
files == <<assembled, durable, mark, whole>>

Fetchers == 1 .. Parallel
Lesser(m, n) == IF m < n THEN m ELSE n
NoTransfer == [pc |-> "idle", keep |-> FALSE, workers |-> 0, job |-> 1, open |-> FALSE,
               stop |-> FALSE, failed |-> FALSE]
Unborn == [pc |-> "gone", index |-> 0]

SegmentInit ==
  /\ assembled = <<>> /\ durable = 0 /\ mark = 0 /\ whole = <<>>
  /\ coord = NoTransfer /\ jobs = <<>> /\ results = <<>> /\ ready = {}
  /\ fetcher = [w \in Fetchers |-> Unborn]
  /\ segmentCalls = 0 /\ segmentLosses = 0

Appended == Len(assembled)
Coord(c) == coord' = c
Fetcher(w, pc, i) == fetcher' = [fetcher EXCEPT ![w] = [pc |-> pc, index |-> i]]
(* The transfer has failed: no more jobs.                                   *)
Stopped == [coord EXCEPT !.stop = TRUE, !.failed = TRUE, !.open = FALSE]

(* checkpoint() and save(): when it is time, and unless the storage fails.  *)
SaveMark ==
  \/ UNCHANGED <<durable, mark>>
  \/ /\ coord.keep /\ Len(assembled') > 0
     /\ durable' = Len(assembled') /\ mark' = Len(assembled')
-----------------------------------------------------------------------------
(* The checkpoint is valid, and the file has all that it promises.          *)
TakenUp == mark > 0 /\ Appended >= mark

(* download(): SegmentOutput::open, and as many workers as are useful, each *)
(* with a job; a thread may fail to start.                                  *)
BeginSegments ==
  /\ coord.pc = "idle" /\ segmentCalls < MaxSegmentCalls /\ segmentCalls' = segmentCalls + 1
  /\ \E keep, valid \in BOOLEAN, spawned \in 0 .. Parallel :
       LET restored == keep /\ valid /\ TakenUp
           n == IF restored THEN mark ELSE 0
           workers == Lesser(Parallel, Segments - n)
           c == [NoTransfer EXCEPT !.keep = keep, !.workers = workers, !.job = n + workers + 1] IN
       /\ assembled' = SubSeq(assembled, 1, n) /\ durable' = Lesser(durable, n) /\ mark' = n
       /\ spawned <= workers
       /\ IF n = Segments THEN Coord([c EXCEPT !.pc = "joined"]) /\ UNCHANGED <<jobs, fetcher>>
          ELSE /\ Coord([c EXCEPT !.pc = "recv", !.open = spawned = workers /\ c.job <= Segments,
                                  !.stop = spawned < workers, !.failed = spawned < workers])
               /\ jobs' = [i \in 1 .. workers |-> n + i]
               /\ fetcher' = [w \in Fetchers |-> IF w <= spawned THEN [Unborn EXCEPT !.pc = "check"] ELSE Unborn]
  /\ UNCHANGED <<whole, results, ready, segmentLosses>>
-----------------------------------------------------------------------------
(* A worker: check, take a job, fetch it with retries, send the result.     *)
CheckWorker(w) ==
  /\ fetcher[w].pc = "check"
  /\ Fetcher(w, IF coord.stop THEN "gone" ELSE "recv", 0)
  /\ UNCHANGED <<files, coord, jobs, results, ready, segmentCalls, segmentLosses>>

TakeJob(w) ==
  /\ fetcher[w].pc = "recv"
  /\ IF jobs # <<>> THEN Fetcher(w, "fetch", Head(jobs)) /\ jobs' = Tail(jobs)
     ELSE ~coord.open /\ Fetcher(w, "gone", 0) /\ UNCHANGED jobs
  /\ UNCHANGED <<files, coord, results, ready, segmentCalls, segmentLosses>>

(* fetch(): every attempt checks, so a stopped transfer fails.              *)
Fetch(w) ==
  /\ fetcher[w].pc = "fetch"
  /\ \E pc \in {"ok", "failed"} : Fetcher(w, pc, fetcher[w].index)
  /\ UNCHANGED <<files, coord, jobs, results, ready, segmentCalls, segmentLosses>>

SendResult(w) ==
  /\ fetcher[w].pc \in {"ok", "failed"} /\ Len(results) < coord.workers
  /\ results' = Append(results, fetcher[w])
  /\ Fetcher(w, IF fetcher[w].pc = "ok" THEN "check" ELSE "gone", 0)
  /\ UNCHANGED <<files, coord, jobs, ready, segmentCalls, segmentLosses>>
-----------------------------------------------------------------------------
(* The calling thread polls its own check, ...                              *)
StopSegments ==
  /\ coord.pc = "recv" /\ ~coord.stop
  /\ Coord(Stopped)
  /\ UNCHANGED <<files, jobs, results, fetcher, ready, segmentCalls, segmentLosses>>

Failure == Stopped

(* Mutation: a slot is free as soon as its result arrives. *)
AfterArrivalEager == IF coord.open THEN "send" ELSE "assemble"
AfterArrival == "assemble"

(* ... receives results, until no worker is left, ...                       *)
Receive ==
  /\ coord.pc = "recv"
  /\ IF results # <<>>
     THEN /\ results' = Tail(results)
          /\ IF Head(results).pc = "ok"
             THEN ready' = ready \cup {Head(results).index} /\ Coord([coord EXCEPT !.pc = AfterArrival])
             ELSE Coord([Failure EXCEPT !.pc = "assemble"]) /\ UNCHANGED ready
     ELSE /\ \A w \in Fetchers : fetcher[w].pc = "gone"
          /\ Coord([coord EXCEPT !.pc = "joined"]) /\ UNCHANGED <<results, ready>>
  /\ UNCHANGED <<files, jobs, fetcher, segmentCalls, segmentLosses>>

Due == ready \cap {Appended + 1}

(* ... and appends the segments that are next, each of which frees a slot.  *)
Assemble ==
  /\ coord.pc = "assemble"
  /\ IF Due # {}
     THEN \E i \in Due :
            /\ ready' = ready \ {i}
            /\ \/ /\ assembled' = Append(assembled, i) /\ SaveMark
                  /\ Coord([coord EXCEPT !.pc = IF coord.open THEN "send" ELSE "assemble"])
               \/ Coord([Stopped EXCEPT !.pc = "recv"]) /\ UNCHANGED <<assembled, durable, mark>>
     ELSE Coord([coord EXCEPT !.pc = "recv"]) /\ UNCHANGED <<ready, assembled, durable, mark>>
  /\ UNCHANGED <<whole, jobs, results, fetcher, segmentCalls, segmentLosses>>

SendJob ==
  /\ coord.pc = "send" /\ Len(jobs) < coord.workers
  /\ jobs' = Append(jobs, coord.job)
  /\ Coord([coord EXCEPT !.pc = "assemble", !.job = @ + 1, !.open = coord.job < Segments])
  /\ UNCHANGED <<files, results, fetcher, ready, segmentCalls, segmentLosses>>

(* The result, and what is dropped with it: the workers' files, and unless  *)
(* it is kept, the partial file.                                            *)
EndSegments ==
  /\ coord.pc = "joined"
  /\ IF ~coord.failed /\ Appended = Segments
     THEN \/ /\ whole' = assembled /\ assembled' = <<>> /\ durable' = 0 /\ UNCHANGED mark
             /\ Coord([coord EXCEPT !.pc = "renamed"])
          \/ UNCHANGED <<files>> /\ Coord([coord EXCEPT !.pc = "dropped"])   \* check or storage
     ELSE UNCHANGED <<assembled, whole>> /\ SaveMark /\ Coord([coord EXCEPT !.pc = "dropped"])
  /\ UNCHANGED <<jobs, results, fetcher, ready, segmentCalls, segmentLosses>>

DropOutput ==
  /\ coord.pc \in {"renamed", "dropped"}
  /\ IF coord.pc = "renamed" \/ ~coord.keep
     THEN assembled' = <<>> /\ durable' = 0 /\ mark' = 0
     ELSE UNCHANGED <<assembled, durable, mark>>
  /\ Coord(NoTransfer) /\ jobs' = <<>> /\ ready' = {}
  /\ UNCHANGED <<whole, results, fetcher, segmentCalls, segmentLosses>>

(* The process ends, perhaps with the power.                                *)
LoseSegments ==
  /\ segmentLosses < MaxSegmentLosses /\ segmentLosses' = segmentLosses + 1 /\ coord.pc # "idle"
  /\ \E n \in durable .. Appended : assembled' = SubSeq(assembled, 1, n) /\ durable' = n
  /\ Coord(NoTransfer) /\ jobs' = <<>> /\ results' = <<>> /\ ready' = {}
  /\ fetcher' = [w \in Fetchers |-> Unborn]
  /\ UNCHANGED <<mark, whole, segmentCalls>>

Caller == Receive \/ Assemble \/ SendJob \/ EndSegments \/ DropOutput
Worker(w) == CheckWorker(w) \/ TakeJob(w) \/ Fetch(w) \/ SendResult(w)
SegmentNext ==
  \/ BeginSegments \/ Caller \/ StopSegments \/ LoseSegments
  \/ \E w \in Fetchers : Worker(w)
SegmentSpec == SegmentInit /\ [][SegmentNext]_segmentVars
-----------------------------------------------------------------------------
(* "Completed files and active requests together never exceed the worker    *)
(* count", whatever order segments arrive in; so no channel is ever full    *)
(* when it is written.                                                      *)
SlotsBounded ==
  /\ Len(jobs) + Len(results) + Cardinality(ready)
       + Cardinality({w \in Fetchers : fetcher[w].pc \in {"fetch", "ok", "failed"}}) <= coord.workers
  /\ coord.pc = "send" => Len(jobs) < coord.workers

(* What is published has every segment once and in order, also when an      *)
(* earlier call or process assembled the first of them.                     *)
PublishedInOrder == whole \in {<<>>, [i \in 1 .. Segments |-> i]}

(* The calling thread waits for results only while a worker can still move: *)
(* workers that wait for jobs are not waited for in turn.                   *)
NobodyStuck ==
  coord.pc = "recv" /\ results = <<>> /\ (\E w \in Fetchers : fetcher[w].pc # "gone") =>
    \E w \in Fetchers :
      \/ fetcher[w].pc \notin {"gone", "recv"}
      \/ fetcher[w].pc = "recv" /\ (jobs # <<>> \/ ~coord.open)

(* A segmented download ends, and what it publishes is every segment in its  *)
(* place, in whatever order the workers deliver them (download, fetch,       *)
(* append).                                                                  *)
SegmentsSound == SlotsBounded /\ PublishedInOrder /\ NobodyStuck
=============================================================================
