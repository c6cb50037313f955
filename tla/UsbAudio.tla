------------------------------ MODULE UsbAudio ------------------------------
(* Audio to a USB device: the stream of frames, and the volume.              *)
EXTENDS Integers, Sequences, FiniteSets, FiniteSetsExt, SequencesExt

-----------------------------------------------------------------------------
(***************************************************************************)
(* Audio that goes straight to a USB device                                 *)
(* (mobile/src/usb_audio/transport.rs and framing.rs): the worker that owns   *)
(* the device and its transfers, and the threads that write, flush, set the   *)
(* volume and close.                                                        *)
(*                                                                         *)
(* A frame is a number: how many flushes had been asked for when it was       *)
(* written.  A transfer takes one frame, or silence.                         *)
(***************************************************************************)

CONSTANTS Slots,              \* the transfers
          VolumeCallers, Nobody,
          MaxQueue,           \* capacity, in frames
          MaxRequests,        \* volume requests that wait
          MaxWrites, MaxFlushes

ASSUME UsbAssumption == /\ IsFiniteSet(Slots) /\ Nobody \notin VolumeCallers /\ MaxQueue \in Nat \ {0} /\ MaxRequests \in Nat
                        /\ MaxWrites \in Nat /\ MaxFlushes \in Nat

VARIABLES bytes,        \* frames that wait
          flags,        \* the rest of State: playing, closed, failed, frames, flush, flushed
          requests,     \* volume requests: [caller, late]
          usbWorker,    \* the worker's place
          slot,         \* transfer -> [pending, submitted, ok, music]
          player,       \* the player's place, and the flush it waits for
          volumeCaller, \* caller -> "idle", "waiting", "answered", "gone"
          applied,      \* callers whose request was begun after they had gone
          closer,       \* the place of the thread that closes
          accepted,     \* frames taken since the last flush
          writes
usbVars == <<bytes, flags, requests, usbWorker, slot, player, volumeCaller, applied, closer, accepted, writes>>

NoSlot == [pending |-> FALSE, submitted |-> FALSE, ok |-> TRUE, music |-> <<>>]
UsbInit ==
  /\ bytes = <<>>
  /\ flags = [playing |-> FALSE, closed |-> FALSE, failed |-> FALSE, frames |-> 0, flush |-> 0, flushed |-> 0]
  /\ requests = <<>>
  /\ usbWorker = [pc |-> "loop", request |-> Nobody]
  /\ slot = [s \in Slots |-> NoSlot]
  /\ player = [pc |-> "ready", flush |-> 0, done |-> 0]
  /\ volumeCaller = [c \in VolumeCallers |-> "idle"]
  /\ applied = {}
  /\ closer = "ready"
  /\ accepted = 0 /\ writes = 0
Worker(pc) == usbWorker' = [usbWorker EXCEPT !.pc = pc]
Open == ~flags.failed /\ ~flags.closed

----------------------------------------------------------------------------
(* The player: write takes what there is room for.                          *)
Write ==
  /\ player.pc = "ready" /\ Open /\ writes < MaxWrites /\ Len(bytes) < MaxQueue
  /\ bytes' = Append(bytes, flags.flush)
  /\ accepted' = accepted + 1 /\ writes' = writes + 1
  /\ UNCHANGED <<flags, requests, usbWorker, slot, player, volumeCaller, applied, closer>>
Start ==
  /\ player.pc = "ready" /\ Open /\ ~flags.playing
  /\ flags' = [flags EXCEPT !.playing = TRUE]
  /\ UNCHANGED <<bytes, requests, usbWorker, slot, player, volumeCaller, applied, closer, accepted, writes>>
Flush ==
  /\ player.pc = "ready" /\ flags.flush < MaxFlushes
  /\ flags' = [flags EXCEPT !.playing = FALSE, !.flush = @ + 1]
  /\ player' = [player EXCEPT !.pc = "flushing", !.flush = flags.flush + 1]
  /\ UNCHANGED <<bytes, requests, usbWorker, slot, volumeCaller, applied, closer, accepted, writes>>
(* The wait ends when the worker has caught up, with an error or the closing  *)
(* of the output, or after two seconds.                                      *)
FlushReturns ==
  /\ player.pc = "flushing"
  /\ \/ /\ flags.flushed = flags.flush \/ flags.closed \/ flags.failed
        /\ player' = [player EXCEPT !.pc = "ready",
                                    !.done = IF flags.failed \/ flags.flushed # flags.flush THEN @ ELSE player.flush]
     \/ player' = [player EXCEPT !.pc = "ready"]
  /\ UNCHANGED <<bytes, flags, requests, usbWorker, slot, volumeCaller, applied, closer, accepted, writes>>

SetVolume(c) ==
  /\ volumeCaller[c] = "idle" /\ Open /\ Len(requests) < MaxRequests
  /\ requests' = Append(requests, [caller |-> c, late |-> FALSE])
  /\ volumeCaller' = [volumeCaller EXCEPT ![c] = "waiting"]
  /\ UNCHANGED <<bytes, flags, usbWorker, slot, player, applied, closer, accepted, writes>>
(* A request is late after two seconds, and its caller leaves after four, even  *)
(* while the device takes its time over it.                                  *)
RequestLate ==
  /\ \E n \in DOMAIN requests : /\ ~requests[n].late
                                /\ requests' = [requests EXCEPT ![n].late = TRUE]
  /\ UNCHANGED <<bytes, flags, usbWorker, slot, player, volumeCaller, applied, closer, accepted, writes>>
CallerLeaves(c) ==
  /\ volumeCaller[c] = "waiting"
  /\ \A n \in DOMAIN requests : requests[n].caller = c => requests[n].late
  /\ volumeCaller' = [volumeCaller EXCEPT ![c] = "gone"]
  /\ UNCHANGED <<bytes, flags, requests, usbWorker, slot, player, applied, closer, accepted, writes>>

Close ==
  /\ closer = "ready"
  /\ flags' = [flags EXCEPT !.closed = TRUE]
  /\ closer' = "joining"
  /\ UNCHANGED <<bytes, requests, usbWorker, slot, player, volumeCaller, applied, accepted, writes>>
Closed ==
  /\ closer = "joining" /\ usbWorker.pc = "ended"
  /\ closer' = "closed"
  /\ UNCHANGED <<bytes, flags, requests, usbWorker, slot, player, volumeCaller, applied, accepted, writes>>

----------------------------------------------------------------------------
(* The device completes a transfer, or fails it; the worker's next look at    *)
(* the events runs the callback.                                            *)
Complete(s) ==
  /\ slot[s].pending /\ usbWorker.pc \in {"loop", "drain", "exit"}
  /\ \E ok \in BOOLEAN : slot' = [slot EXCEPT ![s].pending = FALSE, ![s].ok = ok]
  /\ UNCHANGED <<bytes, flags, requests, usbWorker, player, volumeCaller, applied, closer, accepted, writes>>
NoPending == \A s \in Slots : ~slot[s].pending

(* One turn of the loop with the lock held: closed, a request, a flush, or    *)
(* not playing.                                                             *)
Serves(request) == ~request.late
Turn ==
  /\ usbWorker.pc = "loop"
  /\ IF flags.closed THEN Worker("exit") /\ UNCHANGED <<requests, volumeCaller, applied>>
     ELSE IF requests # <<>>
     THEN /\ requests' = Tail(requests)
          /\ LET c == Head(requests).caller IN
             IF Serves(Head(requests))
             THEN /\ usbWorker' = [pc |-> "volume", request |-> c]
                  /\ applied' = IF volumeCaller[c] = "gone" THEN applied \cup {c} ELSE applied
                  /\ UNCHANGED volumeCaller
             ELSE /\ Worker("flush") /\ UNCHANGED applied
                  /\ volumeCaller' = IF volumeCaller[c] = "waiting" THEN [volumeCaller EXCEPT ![c] = "answered"]
                                     ELSE volumeCaller
     ELSE Worker("flush") /\ UNCHANGED <<requests, volumeCaller, applied>>
  /\ UNCHANGED <<bytes, flags, slot, player, closer, accepted, writes>>
EventsFail ==
  /\ usbWorker.pc = "loop"
  /\ Worker("failed")
  /\ UNCHANGED <<bytes, flags, requests, slot, player, volumeCaller, applied, closer, accepted, writes>>
(* The control transfers; a failure ends the worker.                         *)
ApplyVolume ==
  /\ usbWorker.pc = "volume"
  /\ LET c == usbWorker.request
     IN volumeCaller' = IF volumeCaller[c] = "waiting" THEN [volumeCaller EXCEPT ![c] = "answered"] ELSE volumeCaller
  /\ \E pc \in {"flush", "failed"} : usbWorker' = [pc |-> pc, request |-> Nobody]
  /\ UNCHANGED <<bytes, flags, requests, slot, player, applied, closer, accepted, writes>>
TurnOn ==
  /\ usbWorker.pc = "flush"
  /\ Worker(IF flags.flush # flags.flushed THEN "drain" ELSE IF flags.playing THEN "play" ELSE "loop")
  /\ UNCHANGED <<bytes, flags, requests, slot, player, volumeCaller, applied, closer, accepted, writes>>
(* drain waits for every transfer; then everything written so far goes, what   *)
(* was written meanwhile too.                                                *)
(* Mutation: transfers keep the frames of the music they carried.            *)
ForgottenLater(s) == slot[s]
Forgotten(s) == [slot[s] EXCEPT !.music = <<>>, !.submitted = FALSE]
Drained ==
  /\ usbWorker.pc = "drain" /\ NoPending
  /\ bytes' = <<>> /\ accepted' = 0
  /\ flags' = [flags EXCEPT !.frames = 0, !.flushed = flags.flush]
  /\ slot' = [s \in Slots |-> Forgotten(s)]
  /\ Worker(IF flags.playing THEN "play" ELSE "loop")
  /\ UNCHANGED <<requests, player, volumeCaller, applied, closer, writes>>

(* Still with the lock held: the transfers that have completed are counted    *)
(* and submitted again in turn.  A failed one ends the worker, as do a device  *)
(* that refuses one and feedback that stops (what the turn had done to the     *)
(* transfers before it is left out: nothing reads it any more).              *)
Refilled(taken) == [pending |-> TRUE, submitted |-> TRUE, ok |-> TRUE, music |-> taken]
FreeSlots == {s \in Slots : ~slot[s].pending}
Play ==
  /\ usbWorker.pc = "play"
  /\ \/ /\ \A s \in FreeSlots : slot[s].submitted => slot[s].ok
        /\ LET order == SetToSeq(FreeSlots)
               taken(s) == LET n == CHOOSE k \in DOMAIN order : order[k] = s
                           IN IF n <= Len(bytes) THEN <<bytes[n]>> ELSE <<>>
               done == Cardinality({s \in FreeSlots : slot[s].submitted /\ slot[s].music # <<>>})
           IN /\ flags' = [flags EXCEPT !.frames = @ + done]
              /\ slot' = [s \in Slots |-> IF s \in FreeSlots THEN Refilled(taken(s)) ELSE slot[s]]
              /\ bytes' = IF Len(bytes) <= Len(order) THEN <<>> ELSE SubSeq(bytes, Len(order) + 1, Len(bytes))
        /\ Worker("loop")
     \/ /\ Worker("failed") /\ UNCHANGED <<bytes, flags, slot>>
  /\ UNCHANGED <<requests, player, volumeCaller, applied, closer, accepted, writes>>

Fail ==
  /\ usbWorker.pc = "failed"
  /\ flags' = [flags EXCEPT !.failed = TRUE, !.playing = FALSE]
  /\ Worker("exit")
  /\ UNCHANGED <<bytes, requests, slot, player, volumeCaller, applied, closer, accepted, writes>>
(* The session is dropped: transfers are drained before their buffers and the  *)
(* device go.                                                               *)
Exit ==
  /\ usbWorker.pc = "exit" /\ NoPending
  /\ Worker("ended")
  /\ UNCHANGED <<bytes, flags, requests, slot, player, volumeCaller, applied, closer, accepted, writes>>

UsbNext ==
  \/ Write \/ Start \/ Flush \/ FlushReturns \/ RequestLate \/ Close \/ Closed
  \/ \E c \in VolumeCallers : SetVolume(c) \/ CallerLeaves(c)
  \/ \E s \in Slots : Complete(s)
  \/ Turn \/ EventsFail \/ ApplyVolume \/ TurnOn \/ Drained \/ Play \/ Fail \/ Exit
UsbSpec == UsbInit /\ [][UsbNext]_usbVars
----------------------------------------------------------------------------
InTransfers == Cardinality({s \in Slots : slot[s].music # <<>>})
(* The position is exact: each frame taken since the flush waits, is in a     *)
(* transfer, or has been counted, once, unless a transfer failed (run).       *)
PositionExact ==
  usbWorker.pc \notin {"failed", "exit", "ended"} => accepted = Len(bytes) + InTransfers + flags.frames
(* After a flush that returned, no frame from before it is played or counted   *)
(* (Output::flush, the flush branch of run).                                 *)
FlushForgets ==
  player.done > 0 => /\ \A n \in DOMAIN bytes : bytes[n] >= player.done
                     /\ \A s \in Slots : slot[s].music # <<>> => Head(slot[s].music) >= player.done
(* No volume is set for a caller that has left by then, and no transfer is      *)
(* under way once close() returns (VolumeRequest, Session::drop).             *)
NothingLate == applied = {} /\ (closer = "closed" => NoPending)
(* What the player relies on, together.                                     *)
OutputExact == PositionExact /\ FlushForgets /\ NothingLate

-----------------------------------------------------------------------------
(***************************************************************************)
(* The volume of a USB device's feature unit                                *)
(* (mobile/src/usb_audio/volume.rs): lowered when the device is opened and     *)
(* set later, a channel at a time, each value read back.                     *)
(*                                                                         *)
(* Values are integers; SilentValue is the one for minus infinity.          *)
(***************************************************************************)

CONSTANTS Channels,     \* the number of channels that are set
          Ranges,       \* sets of ranges that a channel may offer
          SilentValue,
          Startup,      \* the loudest value to start with
          Values,       \* the values that a device may have or be asked for
          MaxSets       \* bound on the requests for a volume

(* 16 bits with a sign.                                                      *)
Levels == {level \in Int : -32768 <= level /\ level <= 32767}
ASSUME VolumeAssumption == /\ Channels \in Nat \ {0} /\ MaxSets \in Nat /\ SilentValue \in Levels /\ Startup \in Levels
                           /\ \A v \in Values : v \in Levels /\ v > SilentValue
                           /\ \A set \in Ranges : set # {} /\ \A r \in set :
                                /\ r.min \in Levels /\ r.max \in Levels /\ r.step \in Levels
                                /\ SilentValue < r.min /\ r.min <= r.max /\ r.step >= 0

VARIABLES ranges,      \* channel -> the ranges the device reports
          device,      \* channel -> its value now
          before,      \* channel -> its value when the device was opened
          target,      \* channel -> the value asked for
          at,          \* the channel that is next
          volumeState, \* "closed", "opening", "ready", "setting" or "failed"
          snapshot,    \* what the app is told: the loudest channel
          sets         \* requests so far
volumeVars == <<ranges, device, before, target, at, volumeState, snapshot, sets>>

VolumeInit ==
  /\ ranges \in [1 .. Channels -> Ranges]
  /\ device \in [1 .. Channels -> Values \cup {SilentValue}]
  /\ before = device /\ target = device
  /\ at = 1 /\ volumeState = "closed" /\ snapshot = SilentValue /\ sets = 0

(* A value is rounded down to a step above the minimum.                      *)
Floor(r, value) ==
  LET v == Max({r.min, Min({value, r.max})}) step == Max({r.step, 1})
  IN r.min + ((v - r.min) \div step) * step
Fitting(c) == {r \in ranges[c] : r.min <= target[c]}
(* The loudest value of any range that is not above the target.              *)
ValueFor(c) == IF target[c] = SilentValue THEN SilentValue ELSE Max({Floor(r, target[c]) : r \in Fitting(c)})
Usable(c) == target[c] = SilentValue \/ Fitting(c) # {}

Loudest == Max({device[c] : c \in 1 .. Channels})
Lowest == Max({Min({r.min : r \in ranges[c]}) : c \in 1 .. Channels})
Highest == Min({Min({Max({r.max : r \in ranges[c]}) : c \in 1 .. Channels}), 0})
(* Every channel starts with its own value, or with a quiet one.             *)
OpenVolume ==
  /\ volumeState = "closed"
  /\ IF Lowest < Highest /\ Lowest <= Startup
     THEN /\ target' = [c \in 1 .. Channels |-> Min({device[c], Startup})]
          /\ volumeState' = "opening" /\ at' = 1 /\ snapshot' = Loudest
     ELSE volumeState' = "failed" /\ UNCHANGED <<target, at, snapshot>>
  /\ UNCHANGED <<ranges, device, before, sets>>
(* set: not above what all channels can do                                  *)
SetTo ==
  /\ volumeState = "ready" /\ sets < MaxSets
  /\ \E value \in {v \in Values \cup {SilentValue} : v <= 0} : target' = [c \in 1 .. Channels |-> Min({value, Highest})]
  /\ volumeState' = "setting" /\ at' = 1 /\ sets' = sets + 1
  /\ UNCHANGED <<ranges, device, before, snapshot>>
(* A channel is written and read back; a device that answers with another      *)
(* value, or not at all, ends it with the other channels as they are.          *)
SetChannel ==
  /\ volumeState \in {"opening", "setting"} /\ at <= Channels
  /\ \/ /\ Usable(at)
        /\ device' = [device EXCEPT ![at] = ValueFor(at)]
        /\ at' = at + 1 /\ UNCHANGED volumeState
     \/ /\ volumeState' = "failed"
        /\ device' \in {device} \cup (IF Usable(at) THEN {[device EXCEPT ![at] = ValueFor(at)]} ELSE {})
        /\ UNCHANGED at
  /\ UNCHANGED <<ranges, before, target, snapshot, sets>>
TargetsSet ==
  /\ volumeState \in {"opening", "setting"} /\ at > Channels
  /\ volumeState' = "ready" /\ snapshot' = Loudest
  /\ UNCHANGED <<ranges, device, before, target, at, sets>>

VolumeNext == OpenVolume \/ SetTo \/ SetChannel \/ TargetsSet
VolumeSpec == VolumeInit /\ [][VolumeNext]_volumeVars
----------------------------------------------------------------------------
(* No channel is ever louder than it was when the device was connected, until  *)
(* the user asks for more, nor louder than the user asked for, whatever ranges  *)
(* and steps the device has and wherever a transfer fails; and the app is told  *)
(* the loudest of them (Volume::open, set, set_targets, Range::floor).          *)
NeverLouder ==
  /\ sets = 0 => \A c \in 1 .. Channels : device[c] <= before[c]
  /\ volumeState \in {"opening", "setting"} => \A c \in 1 .. Channels : c < at => device[c] <= target[c]
  /\ volumeState = "ready" => snapshot = Loudest /\ snapshot <= Max({target[c] : c \in 1 .. Channels})

(* The USB output plays what was written since the last flush and counts     *)
(* it, and is never louder than the user or the device had it                *)
(* (Session::run, Volume::set_targets).                                      *)
UsbSound == OutputExact /\ NeverLouder
=============================================================================
