-------------------------- MODULE ResumableTransfer --------------------------
(***************************************************************************)
(* The transfer of one file to one path (extensions/src/download): as one   *)
(* stream that resumes where it broke off (mod.rs), or chunk by chunk       *)
(* (chunked.rs).  The bytes go to a partial file with a checkpoint beside   *)
(* it (store.rs), which a later call may take up, in this process or the    *)
(* next one, and the complete file is renamed.  The resource may change on  *)
(* the server; its versions are equally long, so that only the validators   *)
(* tell them apart.  A file is the sequence of the versions of its blocks.  *)
(***************************************************************************)
EXTENDS Naturals, Sequences

CONSTANTS
  Blocks,       \* length of the resource
  ChunkBlocks,  \* chunk_size
  MaxVersion,   \* bound on the versions of the resource
  MaxAttempts,  \* DownloadTransferPolicy::max_attempts
  MaxCalls,     \* bound on the calls
  MaxLosses     \* bound on the ends of the process

ASSUME TransferAssumption ==
  /\ Blocks \in Nat \ {0} /\ ChunkBlocks \in Nat \ {0} /\ MaxAttempts \in Nat \ {0}
  /\ MaxVersion \in Nat \ {0} /\ MaxCalls \in Nat /\ MaxLosses \in Nat

VARIABLES
  remote,    \* the version the server has
  partial,   \* the file <target>.partial
  synced,    \* so many of its blocks survive a loss of power
  saved,     \* the checkpoint file
  target,    \* the published file
  xfer,      \* the call that holds the lock of the path
  started, losses

transferVars == <<remote, partial, synced, saved, target, xfer, started, losses>>

Unknown == 0      \* no validator, no length
NoCheckpoint == [validator |-> Unknown, bytes |-> 0, total |-> Unknown]
NoCall == [pc |-> "idle", kind |-> "stream", resume |-> FALSE, keep |-> FALSE, validator |-> Unknown,
           total |-> Unknown, attempt |-> 1, start |-> 0, until |-> 0, body |-> Unknown,
           full |-> FALSE, length |-> Unknown]

TransferInit ==
  /\ remote = 1 /\ partial = <<>> /\ synced = 0 /\ saved = NoCheckpoint /\ target = <<>>
  /\ xfer = NoCall /\ started = 0 /\ losses = 0

Bytes == Len(partial)
MayRetry == xfer.attempt < MaxAttempts
(* A checkpoint of everything: the stream was not published yet.            *)
CompletePartial(n) == n > 0 /\ n = saved.total
Smaller(m, n) == IF m < n THEN m ELSE n
Transfer(x) == xfer' = x
Cut(n) == partial' = SubSeq(partial, 1, n) /\ synced' = Smaller(synced, n)

(* Drop: what is not kept for another call is removed.                      *)
Return ==
  /\ Transfer(NoCall)
  /\ IF xfer.keep THEN UNCHANGED <<partial, synced, saved>>
     ELSE Cut(0) /\ saved' = NoCheckpoint

(* checkpoint() and save(): the data are synced before the checkpoint is    *)
(* replaced; a failure is ignored, and it is not always time.               *)
Checkpoint ==
  \/ UNCHANGED <<synced, saved>>
  \/ /\ xfer.keep /\ xfer.validator # Unknown /\ Len(partial') > 0
     /\ synced' = Len(partial')
     /\ saved' = [validator |-> xfer.validator, bytes |-> Len(partial'), total |-> xfer.total]

(* A failure after checkpoint(true): the file is kept with its checkpoint,  *)
(* or dropped.                                                              *)
ReturnSaved ==
  IF xfer.keep THEN Transfer(NoCall) /\ UNCHANGED partial /\ Checkpoint ELSE Return

(* restart() *)
Restart == Cut(0) /\ saved' = NoCheckpoint
-----------------------------------------------------------------------------
(* download(), with the lock of the path.  A Range header of the caller     *)
(* turns resume and persistence off.                                        *)
Begin ==
  /\ xfer.pc = "idle" /\ started < MaxCalls /\ started' = started + 1
  /\ \E kind \in {"stream", "chunked"}, resume, persistent \in BOOLEAN :
       Transfer([NoCall EXCEPT !.pc = IF kind = "stream" THEN "open" ELSE "probe", !.kind = kind,
                               !.resume = resume, !.keep = persistent /\ (kind = "chunked" \/ resume)])
  /\ UNCHANGED <<remote, partial, synced, saved, target, losses>>

(* The probe of a chunked transfer.                                         *)
Probe ==
  /\ xfer.pc = "probe"
  /\ \/ /\ MayRetry   \* a failure to retry
        /\ Transfer([xfer EXCEPT !.attempt = @ + 1])
     \/ Transfer(NoCall)                \* another one
     \/ \E v \in {remote, Unknown}, n \in {Blocks, Unknown} :
          Transfer([xfer EXCEPT !.pc = "open", !.validator = v, !.total = n, !.attempt = 1,
                                !.keep = @ /\ v # Unknown])
  /\ UNCHANGED <<remote, partial, synced, saved, target, started, losses>>

(* DownloadFile::open: a checkpoint that can be read and is of this URL is  *)
(* taken up, no further than the file goes.  A complete stream is published *)
(* at once; a chunked transfer wants the validator of its probe.            *)
OpenPartial ==
  /\ xfer.pc = "open"
  /\ \E restored \in BOOLEAN :
       LET n == Smaller(saved.bytes, Bytes)
           same == /\ saved.validator = xfer.validator
                   /\ saved.total > 0 /\ xfer.total > 0 => saved.total = xfer.total IN
       /\ restored => xfer.keep /\ saved # NoCheckpoint
       /\ IF restored /\ (xfer.kind = "stream" \/ same)
          THEN Cut(n) /\ UNCHANGED saved
          ELSE Restart
       /\ IF xfer.kind = "chunked" THEN Transfer([xfer EXCEPT !.pc = "chunk"])
          ELSE IF ~restored THEN Transfer([xfer EXCEPT !.pc = "request"])
          ELSE Transfer([xfer EXCEPT !.pc = IF CompletePartial(n) THEN "publish" ELSE "request",
                                     !.validator = saved.validator, !.total = saved.total])
  /\ UNCHANGED <<remote, target, started, losses>>

(* The range of the next request: of a stream, from what is there if that   *)
(* can be validated; of a chunk, the next ChunkBlocks.                      *)
Ranged ==
  \/ /\ xfer.pc = "request"
     /\ Transfer([xfer EXCEPT !.pc = "sent", !.until = Blocks,
                              !.start = IF xfer.resume /\ xfer.validator # Unknown THEN Bytes ELSE 0])
     /\ UNCHANGED <<partial, synced, saved>>
  \/ /\ xfer.pc = "chunk"
     /\ IF xfer.total = Unknown \/ Bytes < xfer.total
        THEN Transfer([xfer EXCEPT !.pc = "sent", !.start = Bytes, !.attempt = 1,
                         !.until = IF xfer.total = Unknown THEN Bytes + ChunkBlocks
                                   ELSE Smaller(Bytes + ChunkBlocks, xfer.total)])
        ELSE Transfer([xfer EXCEPT !.pc = "finish"])
     /\ UNCHANGED <<partial, synced, saved>>
NextRange == Ranged /\ UNCHANGED <<remote, target, started, losses>>

Again == [xfer EXCEPT !.pc = IF xfer.kind = "stream" THEN "request" ELSE "sent", !.attempt = @ + 1]

(* No stream, or a status that is not a success: 416 if the range starts    *)
(* behind the end.                                                          *)
RequestFails ==
  /\ xfer.pc = "sent"
  /\ \/ /\ MayRetry
        /\ Transfer(Again)
        /\ IF xfer.kind = "stream" /\ Bytes > 0 /\ (~xfer.resume \/ xfer.validator = Unknown)
           THEN Restart ELSE UNCHANGED <<partial, synced, saved>>
     \/ IF xfer.kind = "stream" THEN Return ELSE ReturnSaved
  /\ UNCHANGED <<remote, target, started, losses>>

(* The server honours If-Range: a part of the version that was asked for,   *)
(* or all of what it has.                                                   *)
Partially == xfer.start > 0 \/ xfer.kind = "chunked"
IfRange == xfer.validator \in {Unknown, remote}
Response(v, n) == [xfer EXCEPT !.pc = "body", !.body = remote, !.length = n,
                     !.validator = IF xfer.kind = "stream" /\ v # Unknown THEN v ELSE @]

Partial ==
  /\ xfer.pc = "sent" /\ Partially /\ IfRange /\ xfer.start < Blocks
  /\ \E v \in {remote, Unknown}, n \in {Blocks, Unknown} :
       Transfer([Response(v, n) EXCEPT !.full = FALSE,
                   !.total = IF xfer.kind = "stream" THEN n ELSE @,
                   !.length = IF n = Unknown THEN Unknown
                              ELSE Smaller(xfer.until, Blocks) - xfer.start])
  /\ UNCHANGED <<remote, partial, synced, saved, target, started, losses>>

(* Mutation: what was there stays, although the server sends everything. *)
FromTheStartKept == UNCHANGED <<partial, synced, saved>>
(* A stream is rewound, and its checkpoint stays; a chunked transfer starts *)
(* over.                                                                    *)
FromTheStart ==
  IF xfer.start = 0 THEN UNCHANGED <<partial, synced, saved>>
  ELSE IF xfer.kind = "stream" THEN Cut(0) /\ UNCHANGED saved
  ELSE Restart

Whole ==
  /\ xfer.pc = "sent"
  /\ \E v \in {remote, Unknown}, n \in {Blocks, Unknown} :
       IF xfer.kind = "chunked" /\ v # Unknown /\ xfer.validator \notin {Unknown, v}
       THEN Return
       ELSE /\ Transfer([Response(v, n) EXCEPT !.full = TRUE, !.start = 0,
                           !.total = IF xfer.kind = "stream" \/ (xfer.start > 0 /\ n > 0) THEN n ELSE @])
            /\ FromTheStart
  /\ UNCHANGED <<remote, target, started, losses>>

Rest == (IF xfer.full THEN Blocks ELSE Smaller(xfer.until, Blocks)) - Bytes   \* of the body

(* A block is read and written.                                             *)
Read ==
  /\ xfer.pc = "body" /\ Rest > 0
  /\ partial' = Append(partial, xfer.body)
  /\ IF xfer.kind = "stream" THEN Checkpoint ELSE UNCHANGED <<synced, saved>>
  /\ UNCHANGED <<remote, target, xfer, started, losses>>

(* The end of the body.  It comes too early only if a length was announced. *)
BodyOver == Rest = 0 \/ xfer.length > 0
Expected ==
  IF xfer.kind = "stream" THEN xfer.total = Unknown \/ Bytes = xfer.total
  ELSE IF xfer.length > 0 THEN Bytes - xfer.start = xfer.length
  ELSE xfer.full \/ Bytes = xfer.until

BodyEnds ==
  /\ xfer.pc = "body" /\ BodyOver /\ Expected /\ Bytes > xfer.start
  /\ LET done == xfer.full \/ (xfer.total = Unknown /\ Bytes - xfer.start < ChunkBlocks) IN
     /\ Transfer([xfer EXCEPT !.pc = IF xfer.kind = "stream" THEN "publish"
                                     ELSE IF done THEN "finish" ELSE "chunk"])
     /\ UNCHANGED partial
     /\ IF xfer.kind = "stream" THEN UNCHANGED <<synced, saved>> ELSE Checkpoint
  /\ UNCHANGED <<remote, target, started, losses>>

(* The body breaks off, is too short or is empty.  A stream keeps what it   *)
(* has; a chunk is rolled back.                                             *)
BodyFails ==
  /\ xfer.pc = "body"
  /\ IF xfer.kind = "stream"
     THEN \/ ReturnSaved
          \/ /\ MayRetry /\ Transfer(Again)
             /\ IF ~xfer.resume \/ xfer.validator = Unknown THEN Restart
                ELSE UNCHANGED partial /\ Checkpoint
     ELSE /\ partial' = SubSeq(partial, 1, xfer.start)
          /\ \/ MayRetry /\ Transfer(Again)
                /\ synced' = Smaller(synced, xfer.start) /\ UNCHANGED saved
             \/ Transfer([xfer EXCEPT !.pc = "giveup"])
                /\ synced' = Smaller(synced, xfer.start) /\ UNCHANGED saved
  /\ UNCHANGED <<remote, target, started, losses>>

GiveUp ==
  /\ xfer.pc = "giveup" /\ ReturnSaved
  /\ UNCHANGED <<remote, target, started, losses>>

(* The size of a chunked transfer is compared.                              *)
Finish ==
  /\ xfer.pc = "finish"
  /\ IF Bytes = 0 \/ xfer.total \notin {Unknown, Bytes} THEN Return
     ELSE Transfer([xfer EXCEPT !.pc = "publish"]) /\ UNCHANGED <<partial, synced, saved>>
  /\ UNCHANGED <<remote, target, started, losses>>

(* publish(): the rename, and then the checkpoint is removed.               *)
PublishFile ==
  /\ xfer.pc = "publish"
  /\ target' = partial /\ partial' = <<>> /\ synced' = 0
  /\ Transfer([xfer EXCEPT !.pc = "renamed"])
  /\ UNCHANGED <<remote, saved, started, losses>>
RemoveCheckpoint ==
  /\ xfer.pc = "renamed"
  /\ saved' = NoCheckpoint /\ Transfer(NoCall)
  /\ UNCHANGED <<remote, partial, synced, target, started, losses>>

(* A check of the lease fails between two steps, or the storage does.       *)
CancelTransfer ==
  /\ xfer.pc \in {"request", "chunk", "sent", "finish", "publish"} /\ Return
  /\ UNCHANGED <<remote, target, started, losses>>
-----------------------------------------------------------------------------
(* The resource is replaced by one that was never there before.             *)
ResourceChanges ==
  /\ remote < MaxVersion /\ remote' = remote + 1
  /\ UNCHANGED <<partial, synced, saved, target, xfer, started, losses>>

(* The process ends, perhaps with the power: some of the file is lost.      *)
LosePower ==
  /\ losses < MaxLosses /\ losses' = losses + 1 /\ xfer.pc # "idle"
  /\ \E n \in synced .. Bytes : partial' = SubSeq(partial, 1, n) /\ synced' = n
  /\ Transfer(NoCall)
  /\ UNCHANGED <<remote, saved, target, started>>

TransferNext ==
  \/ Begin \/ Probe \/ OpenPartial \/ NextRange \/ RequestFails \/ Partial \/ Whole \/ Read
  \/ BodyEnds \/ BodyFails \/ GiveUp \/ Finish \/ PublishFile \/ RemoveCheckpoint
  \/ CancelTransfer \/ ResourceChanges \/ LosePower

TransferSpec == TransferInit /\ [][TransferNext]_transferVars
-----------------------------------------------------------------------------
(* A published file is one version of the resource, whole, however often it *)
(* was resumed, restarted, lost or changed meanwhile: unless it was read in *)
(* chunks from a server that gives no validator.                            *)
PublishedWhole ==
  [][target' # target =>
       \/ \E v \in 1 .. MaxVersion : target' = [i \in 1 .. Blocks |-> v]
       \/ xfer.kind = "chunked" /\ xfer.validator = Unknown]_transferVars
=============================================================================
