-------------------------- MODULE ProviderRequests --------------------------
(* What the manager asks of installed extensions: searches and availability, *)
(* and the hooks that post-process a file.                                   *)
EXTENDS Integers, Sequences, FiniteSets, SequencesExt

-----------------------------------------------------------------------------
(***************************************************************************)
(* Searches and availability checks that ask installed extensions            *)
(* (extensions/src/manager/providers.rs, manager/metadata.rs and             *)
(* backend/provider_metadata.rs), while the user enables, disables, upgrades  *)
(* and reorders them and cancels requests.                                   *)
(*                                                                         *)
(* A track is [isrc, provider, id]; an ISRC of 0 is missing.  A check that a  *)
(* provider answers by opening a page for the user to log in ends with        *)
(* "verification"; the page's address stays in the provider's runtime until   *)
(* somebody takes it.                                                       *)
(***************************************************************************)

CONSTANTS Askers, NoCaller,
          ProviderIds,   \* a sequence, in the order of their ids
          Catalogue,     \* provider -> the answers it may give to a search
          SearchLimit,
          MaxSwitches,   \* bound on changes of the extensions
          MaxAsks        \* bound on requests

Ids == ToSet(ProviderIds)
Tracks == [isrc : Nat, provider : Ids, id : Nat]
ASSUME ProviderAssumption ==
  /\ ProviderIds \in Seq(Ids) /\ \A i \in Ids : Catalogue[i] \subseteq Seq(Tracks)
  /\ NoCaller \notin Askers /\ SearchLimit \in Nat \ {0} /\ MaxSwitches \in Nat /\ MaxAsks \in Nat

Orders == {<<>>} \cup {<<i>> : i \in Ids} \cup {<<i, j>> : i, j \in Ids}

VARIABLES extension,   \* id -> [enabled, version, torn]
          engine,      \* id -> who holds its engine
          page,        \* id -> whose call has opened a verification page
          priority,    \* the user's order of metadata providers
          ask,         \* caller -> its request
          switches, asks
providerVars == <<extension, engine, page, priority, ask, switches, asks>>

NoAnswer == [kind |-> "", tracks |-> <<>>]
(* order and rest: who is still to be asked of the user's order, and after it. *)
NoAsk == [pc |-> "idle", op |-> "", order |-> <<>>, rest |-> {}, providers |-> {}, version |-> 0, cancelled |-> FALSE,
          tracks |-> <<>>, verification |-> FALSE, opened |-> FALSE, answer |-> NoAnswer,
          result |-> "", steady |-> {}, asked |-> {}]
ProviderInit ==
  /\ extension = [i \in Ids |-> [enabled |-> TRUE, version |-> 0, torn |-> FALSE]]
  /\ engine = [i \in Ids |-> NoCaller]
  /\ page = [i \in Ids |-> NoCaller]
  /\ priority = <<>>
  /\ ask = [c \in Askers |-> NoAsk]
  /\ switches = 0 /\ asks = 0
Asks(c, record) == ask' = [ask EXCEPT ![c] = record]
Reached(c, pc) == ask[c].pc = pc
FirstOf(S) == ProviderIds[CHOOSE n \in DOMAIN ProviderIds :
                            ProviderIds[n] \in S /\ \A m \in 1 .. n - 1 : ProviderIds[m] \notin S]
Target(c) == IF ask[c].order # <<>> THEN Head(ask[c].order) ELSE FirstOf(ask[c].rest)
AllAsked(c) == ask[c].order = <<>> /\ ask[c].rest = {}
Passed(c) == [ask[c] EXCEPT !.pc = "next", !.order = IF @ # <<>> THEN Tail(@) ELSE @,
                            !.rest = IF ask[c].order # <<>> THEN @ ELSE @ \ {Target(c)}]
Ended(c, result) == [ask[c] EXCEPT !.pc = "done", !.result = result, !.order = <<>>, !.rest = {}, !.answer = NoAnswer]

(* search_metadata_providers: the order first, the list of providers after.   *)
StartSearch(c) ==
  /\ Reached(c, "idle") /\ asks < MaxAsks
  /\ Asks(c, [NoAsk EXCEPT !.pc = "list", !.op = "search", !.order = priority])
  /\ asks' = asks + 1
  /\ UNCHANGED <<extension, engine, page, priority, switches>>
Enabled == {i \in Ids : extension[i].enabled}
ListProviders(c) ==
  /\ Reached(c, "list")
  /\ Asks(c, [ask[c] EXCEPT !.pc = "next", !.rest = Enabled \ ToSet(ask[c].order), !.providers = Enabled, !.steady = Enabled])
  /\ UNCHANGED <<extension, engine, page, priority, switches, asks>>
StartAvailability(c) ==
  /\ Reached(c, "idle") /\ asks < MaxAsks
  /\ \E i \in Ids : Asks(c, [NoAsk EXCEPT !.pc = "next", !.op = "available", !.order = <<i>>, !.providers = {i}])
  /\ asks' = asks + 1
  /\ UNCHANGED <<extension, engine, page, priority, switches>>

(* A provider that cannot be called is passed over by a search.              *)
PassOver(c) == IF ask[c].op = "search" THEN Passed(c) ELSE Ended(c, "error")
(* The last provider has answered.  A provider that asks for verification     *)
(* counts only if nothing was found.                                        *)
EndSearch(c) ==
  /\ Reached(c, "next") /\ AllAsked(c)
  /\ Asks(c, Ended(c, IF ask[c].tracks = <<>> /\ ask[c].verification THEN "verification" ELSE "tracks"))
  /\ UNCHANGED <<extension, engine, page, priority, switches, asks>>
NextProvider(c) ==
  /\ Reached(c, "next") /\ ~AllAsked(c)
  /\ Asks(c, IF ask[c].cancelled THEN Ended(c, "cancelled")
             ELSE IF Target(c) \notin ask[c].providers THEN Passed(c)
             ELSE IF ~extension[Target(c)].enabled THEN PassOver(c)
             ELSE [ask[c] EXCEPT !.pc = "engine", !.version = extension[Target(c)].version])
  /\ UNCHANGED <<extension, engine, page, priority, switches, asks>>

(* The loop of try_lock, then a second look at the extension.  An             *)
(* availability check forgets the page of an earlier call.                   *)
(* Mutation: it does not.                                                   *)
PageBeforeKept(c) == page
PageBefore(c) == IF ask[c].op = "available" THEN [page EXCEPT ![Target(c)] = NoCaller] ELSE page
TakeEngine(c) ==
  /\ Reached(c, "engine")
  /\ \/ /\ ask[c].cancelled /\ Asks(c, Ended(c, "cancelled"))
        /\ UNCHANGED <<engine, page>>
     \/ /\ ~ask[c].cancelled /\ engine[Target(c)] = NoCaller
        /\ IF extension[Target(c)].enabled /\ extension[Target(c)].version = ask[c].version
           THEN /\ engine' = [engine EXCEPT ![Target(c)] = c]
                /\ page' = PageBefore(c)
                /\ Asks(c, [ask[c] EXCEPT !.pc = "call", !.asked = @ \cup {Target(c)}])
           ELSE Asks(c, PassOver(c)) /\ UNCHANGED <<engine, page>>
  /\ UNCHANGED <<extension, priority, switches, asks>>

(* The call opens a page before it fails for want of a session; it may also   *)
(* open one and find tracks all the same.  Cancellation ends it early.        *)
CallProvider(c) ==
  /\ Reached(c, "call")
  /\ LET i == Target(c)
         answers == {[kind |-> "tracks", tracks |-> t] : t \in Catalogue[i]}
                    \cup {[kind |-> k, tracks |-> <<>>] : k \in {"failed", "unverified"}}
     IN \E opens \in BOOLEAN, answer \in answers :
          /\ answer.kind = "unverified" => opens
          /\ page' = IF opens THEN [page EXCEPT ![i] = c] ELSE page
          /\ Asks(c, [ask[c] EXCEPT !.pc = "answer", !.opened = opens, !.answer =
                        IF ask[c].cancelled THEN [kind |-> "cancelled", tracks |-> <<>>] ELSE answer])
  /\ UNCHANGED <<extension, engine, priority, switches, asks>>
(* Under the engine's lock still: an availability check that fails takes the   *)
(* page, if there is one, for its reason.                                    *)
TakePage(c) ==
  /\ Reached(c, "answer")
  /\ engine' = [engine EXCEPT ![Target(c)] = NoCaller]
  /\ LET failed == ask[c].op = "available" /\ ask[c].answer.kind \in {"failed", "unverified"}
     IN /\ page' = IF failed THEN [page EXCEPT ![Target(c)] = NoCaller] ELSE page
        /\ Asks(c, IF ask[c].op = "search" THEN [ask[c] EXCEPT !.pc = "merge"]
                   ELSE IF ask[c].answer.kind = "cancelled" THEN Ended(c, "cancelled")
                   ELSE IF failed /\ page[Target(c)] # NoCaller THEN Ended(c, "verification")
                   ELSE Ended(c, IF failed THEN "error" ELSE "available"))
  /\ UNCHANGED <<extension, priority, switches, asks>>

(* dedup_key, stamped with the provider                                     *)
Key(track) == IF track.isrc # 0 THEN <<"isrc", track.isrc>> ELSE <<track.provider, track.id>>
Keys(tracks) == {Key(tracks[n]) : n \in DOMAIN tracks}
AddTrack(tracks, track) ==
  IF Key(track) \in Keys(tracks) \/ Len(tracks) >= SearchLimit THEN tracks ELSE Append(tracks, track)
Merging(tracks, found) ==
  LET all[n \in 0 .. Len(found)] == IF n = 0 THEN tracks ELSE AddTrack(all[n - 1], found[n])
  IN all[Len(found)]
Merged(c) == Merging(ask[c].tracks, ask[c].answer.tracks)
MergeTracks(c) ==
  /\ Reached(c, "merge")
  /\ Asks(c, IF ask[c].cancelled \/ ask[c].answer.kind = "cancelled" THEN Ended(c, "cancelled")
             ELSE IF Len(Merged(c)) >= SearchLimit THEN [Ended(c, "tracks") EXCEPT !.tracks = Merged(c)]
             ELSE [Passed(c) EXCEPT !.tracks = Merged(c), !.answer = NoAnswer, !.opened = FALSE,
                                    !.verification = @ \/ ask[c].answer.kind = "unverified"])
  /\ UNCHANGED <<extension, engine, page, priority, switches, asks>>
ReturnAnswer(c) ==
  /\ Reached(c, "done")
  /\ Asks(c, NoAsk)
  /\ UNCHANGED <<extension, engine, page, priority, switches, asks>>
(* metadata_provider_work: the caller gives up, its lease is released and it   *)
(* waits for the thread that asks.                                           *)
CancelAsk(c) ==
  /\ ask[c].pc \notin {"idle", "done"} /\ ~ask[c].cancelled
  /\ Asks(c, [ask[c] EXCEPT !.cancelled = TRUE])
  /\ UNCHANGED <<extension, engine, page, priority, switches, asks>>

(* The user's side.  Disabling shows at once and tears the runtime down when   *)
(* the engine is free; an upgrade waits for the engine too.                   *)
Switch(i, record) ==
  /\ switches < MaxSwitches /\ switches' = switches + 1
  /\ extension' = [extension EXCEPT ![i] = record]
  /\ ask' = [c \in Askers |-> [ask[c] EXCEPT !.steady = @ \ {i}]]
  /\ UNCHANGED <<engine, priority, asks>>
ToggleProvider(i) ==
  /\ ~extension[i].torn
  /\ Switch(i, [extension[i] EXCEPT !.enabled = ~@, !.torn = extension[i].enabled])
  /\ UNCHANGED page
Teardown(i) ==
  /\ extension[i].torn /\ engine[i] = NoCaller
  /\ extension' = [extension EXCEPT ![i].torn = FALSE]
  /\ page' = [page EXCEPT ![i] = NoCaller]
  /\ UNCHANGED <<engine, priority, ask, switches, asks>>
UpgradeProvider(i) ==
  /\ ~extension[i].torn /\ engine[i] = NoCaller
  /\ Switch(i, [extension[i] EXCEPT !.version = @ + 1])
  /\ page' = [page EXCEPT ![i] = NoCaller]
(* The list comes without repetitions and without built-in names that no       *)
(* extension has.                                                           *)
SetProviderPriority ==
  /\ switches < MaxSwitches /\ switches' = switches + 1
  /\ \E order \in Orders : IsInjective(order) /\ priority' = order
  /\ UNCHANGED <<extension, engine, page, ask, asks>>

ProviderNext ==
  \/ \E c \in Askers : \/ StartSearch(c) \/ ListProviders(c) \/ StartAvailability(c) \/ EndSearch(c) \/ NextProvider(c)
                        \/ TakeEngine(c) \/ CallProvider(c) \/ TakePage(c) \/ MergeTracks(c) \/ ReturnAnswer(c) \/ CancelAsk(c)
  \/ \E i \in Ids : ToggleProvider(i) \/ Teardown(i) \/ UpgradeProvider(i)
  \/ SetProviderPriority
ProviderSpec == ProviderInit /\ [][ProviderNext]_providerVars
----------------------------------------------------------------------------
(* A check that sends the user to log in has had its own call open the page;  *)
(* a page that another request left behind sends nobody.                     *)
VerificationOwn == \A c \in Askers : ask[c].op = "available" /\ ask[c].result = "verification" => ask[c].opened
(* A search returns each track once, and unless it has as many as it may, it   *)
(* has asked every provider that was there from its list to its end: one      *)
(* provider's failure or disappearance does not cost the others their turn.   *)
SearchComplete ==
  \A c \in Askers : ask[c].op = "search" /\ ask[c].result = "tracks" =>
    /\ Cardinality(Keys(ask[c].tracks)) = Len(ask[c].tracks)
    /\ Len(ask[c].tracks) < SearchLimit => ask[c].steady \subseteq ask[c].asked
(* An extension that is torn down or upgraded has nobody in its engine.       *)
EngineCurrent ==
  \A i \in Ids : engine[i] # NoCaller => ask[engine[i]].version = extension[i].version /\ Target(engine[i]) = i
(* What an answer of the extensions may be trusted for (provider_operation_   *)
(* value, search_metadata_providers_with_lease).                             *)
ProviderAnswersSound == VerificationOwn /\ SearchComplete /\ EngineCurrent

-----------------------------------------------------------------------------
(***************************************************************************)
(* The hooks of extensions that work on a downloaded file, one after the      *)
(* other (extensions/src/manager/postprocess.rs), while extensions are        *)
(* disabled, upgraded and removed and the download is cancelled.              *)
(*                                                                         *)
(* A path is the directory it is in and a format; directories are "library",   *)
(* where the file was, "granted" and "elsewhere", and the data directory of     *)
(* each extension, which has its name.                                       *)
(***************************************************************************)

CONSTANTS HookList,    \* the hooks in the order of their extensions: [extension, formats, enabled]
          FilePermission, \* extension -> the versions of it that may replace files
          MaxChanges   \* bound on changes of the extensions

ASSUME PostAssumption == MaxChanges \in Nat /\ HookList \in Seq(ToSet(HookList))

Workers == {HookList[n].extension : n \in DOMAIN HookList}
Places == {"library", "granted", "elsewhere"} \cup Workers
Formats == {"flac", "mp3"}
NoPath == [place |-> "", format |-> ""]
Original == [place |-> "library", format |-> "flac"]

VARIABLES hookWorker,     \* extension -> [installed, enabled, version]
          hooks,      \* the run
          itemCancelled,
          changes
postVars == <<hookWorker, hooks, itemCancelled, changes>>

NoHooks == [pc |-> "idle", at |-> 0, version |-> [w \in Workers |-> -1], runs |-> -1, path |-> NoPath, uri |-> "",
            answer |-> NoPath, answerUri |-> "", ran |-> {}]
PostInit ==
  /\ hookWorker = [w \in Workers |-> [installed |-> TRUE, enabled |-> TRUE, version |-> 0]]
  /\ hooks = NoHooks
  /\ itemCancelled = FALSE /\ changes = 0
Hook == HookList[hooks.at]
Advance == [hooks EXCEPT !.pc = "check", !.at = @ + 1, !.runs = -1, !.answer = NoPath, !.answerUri = ""]
Cancels == itemCancelled /\ hooks' = [NoHooks EXCEPT !.pc = "cancelled"]

(* The extensions that take part are the ones enabled now, in the version they *)
(* have now.                                                               *)
StartHooks ==
  /\ hooks.pc = "idle"
  /\ \/ Cancels
     \/ /\ ~itemCancelled
        /\ hooks' = [NoHooks EXCEPT !.pc = "check", !.at = 1, !.path = Original, !.uri = "own",
                                    !.version = [w \in Workers |-> IF hookWorker[w].installed /\ hookWorker[w].enabled
                                                                   THEN hookWorker[w].version ELSE -1]]
  /\ UNCHANGED <<hookWorker, itemCancelled, changes>>
Applies == /\ hooks.version[Hook.extension] # -1 /\ Hook.enabled
           /\ Hook.formats = {} \/ hooks.path.format \in Hook.formats
NextHook ==
  /\ hooks.pc = "check"
  /\ \/ Cancels
     \/ /\ ~itemCancelled
        /\ hooks' = IF hooks.at > Len(HookList) THEN [hooks EXCEPT !.pc = "done"]
                    ELSE IF Applies THEN [hooks EXCEPT !.pc = "engine"] ELSE Advance
  /\ UNCHANGED <<hookWorker, itemCancelled, changes>>
(* The extension as it is installed now, or an error, which is skipped.       *)
TakeWorker ==
  /\ hooks.pc = "engine"
  /\ hooks' = LET w == hookWorker[Hook.extension]
              IN IF w.installed /\ w.enabled THEN [hooks EXCEPT !.pc = "run", !.runs = w.version] ELSE Advance
  /\ UNCHANGED <<hookWorker, itemCancelled, changes>>
(* It may be gone by the time its engine is free.  One that cannot be loaded is *)
(* disabled, unless the download was cancelled.                              *)
CallHook ==
  /\ hooks.pc = "run"
  /\ LET w == hookWorker[Hook.extension] current == w.installed /\ w.enabled /\ w.version = hooks.runs IN
     \/ ~current /\ hooks' = Advance /\ UNCHANGED hookWorker
     \/ /\ current /\ hooks' = Advance   \* it cannot be loaded
        /\ \/ itemCancelled /\ UNCHANGED hookWorker
           \/ hookWorker' = [hookWorker EXCEPT ![Hook.extension].enabled = FALSE]
     \/ /\ current /\ UNCHANGED hookWorker
        /\ \E answer \in {NoPath} \cup [place : Places, format : Formats], uri \in {"", "own", "other"} :
             hooks' = [hooks EXCEPT !.pc = "answered", !.answer = answer, !.answerUri = uri, !.ran = @ \cup {Hook.extension}]
     \/ /\ current /\ UNCHANGED hookWorker   \* it fails, or takes too long
        /\ hooks' = [Advance EXCEPT !.ran = @ \cup {Hook.extension}]
  /\ UNCHANGED <<itemCancelled, changes>>

(* A replacement is beside the file the hook was given, in the extension's own  *)
(* directory, or in one the app has granted.                                 *)
Safe == \/ hooks.answer \in {NoPath, hooks.path}
        \/ /\ hooks.version[Hook.extension] \in FilePermission[Hook.extension]
           /\ hooks.answer.place \in {hooks.path.place, Hook.extension, "library", "granted"}
TakeResult ==
  /\ hooks.pc = "answered"
  /\ \/ Cancels
     \/ /\ ~itemCancelled
        /\ hooks' = IF hooks.answerUri = "other" \/ ~Safe \/ hooks.answer = NoPath THEN Advance
                    ELSE [Advance EXCEPT !.path = hooks.answer]
  /\ UNCHANGED <<hookWorker, itemCancelled, changes>>

CancelItem ==
  /\ ~itemCancelled /\ itemCancelled' = TRUE
  /\ UNCHANGED <<hookWorker, hooks, changes>>
ChangeWorker(w) ==
  /\ changes < MaxChanges /\ hookWorker[w].installed
  /\ \/ hookWorker' = [hookWorker EXCEPT ![w].enabled = ~@]
     \/ hookWorker' = [hookWorker EXCEPT ![w].version = @ + 1]
     \/ hookWorker' = [hookWorker EXCEPT ![w].installed = FALSE]
  /\ changes' = changes + 1
  /\ UNCHANGED <<hooks, itemCancelled>>

PostNext == \/ StartHooks \/ NextHook \/ TakeWorker \/ CallHook \/ TakeResult \/ CancelItem
            \/ \E w \in Workers : ChangeWorker(w)
PostSpec == PostInit /\ [][PostNext]_postVars
----------------------------------------------------------------------------
(* Whatever hooks answer, one after the other, the file that is handed back is  *)
(* in the library, in a directory the app has granted, or in one of an           *)
(* extension whose hook has run and may replace files; and it has the format     *)
(* it had, unless such a hook has changed it (run_post_processing,              *)
(* validate_post_process_result).                                           *)
HooksContained ==
  LET replacers == {w \in hooks.ran : hooks.version[w] \in FilePermission[w]}
  IN hooks.pc \notin {"idle", "cancelled"} =>
       /\ hooks.path.place \in {"library", "granted"} \cup replacers
       /\ replacers = {} => hooks.path = Original
-----------------------------------------------------------------------------
(* Extensions that are asked answer for themselves and in the user's order,   *)
(* and their hooks leave the file where the app may find it                   *)
(* (search_metadata_providers, check_availability, run_post_processing).      *)
CallsSound == ProviderAnswersSound /\ HooksContained
=============================================================================
