--------------------------- MODULE LyricsProviders --------------------------
(* The providers of lyrics: a search among them, and the token that one of   *)
(* them shares between its lookups.                                         *)
EXTENDS Integers, Sequences, FiniteSets, FiniteSetsExt, SequencesExt

-----------------------------------------------------------------------------
(***************************************************************************)
(* One search for lyrics among several providers                            *)
(* (providers/src/lyrics/service.rs: search, with http.rs, lrclib.rs,         *)
(* builtin.rs and builtin/): threads that ask the candidates in the user's     *)
(* order, the collector that waits a while for a better one, and the list of   *)
(* providers that are left alone for some time.                              *)
(*                                                                         *)
(* A request of a provider is answered with "ok", "missing" (nothing found,    *)
(* or not the right song), "garbage" (an answer that cannot be read), "down"   *)
(* (unavailable), and "recursive" by an extension that is asked by itself.     *)
(* A provider takes several requests, and fetch tries it with the main artist,  *)
(* with all of them, and with a simpler title.                               *)
(***************************************************************************)

CONSTANTS SearchThreads,   \* at most three of them
          ProviderOrders,  \* the orders the user may choose
          MaxSearches, MaxResets

ASSUME LyricsSearchAssumption ==
  /\ IsFiniteSet(SearchThreads) /\ Cardinality(SearchThreads) \in 1 .. 3
  /\ \A order \in ProviderOrders : order \in Seq(ToSet(order))
  /\ MaxSearches \in Nat /\ MaxResets \in Nat

NoIndex == 0
Names == UNION {ToSet(order) : order \in ProviderOrders}

VARIABLES providers,   \* the user's order
          cooling,     \* provider -> the generation in which it was found unavailable, or -1
          epoch,       \* the service's generation
          forgiven,    \* the generation that began with everyone healthy
          search,      \* the search and its collector
          fetch,       \* thread -> its request
          channel      \* results that the collector has not seen
searchVars == <<providers, cooling, epoch, forgiven, search, fetch, channel>>

----------------------------------------------------------------------------
(* How a provider is asked: its requests, one after the other as long as they   *)
(* succeed ("either" is FALSE) or until one succeeds; what an answer that       *)
(* cannot be read means at each of them; and the names it may be tried with.    *)
Asked(either, unreadable, tries) == [either |-> either, unreadable |-> unreadable, tries |-> tries]
Spotify == Asked(FALSE, <<"failed", "down">>, 3)        \* a search for the id, the lyrics
Deezer == Asked(FALSE, <<"failed", "down">>, 2)         \* the resolver, the lyrics
YouTube == Asked(FALSE, <<"failed", "down">>, 3)
Netease == Asked(FALSE, <<"failed", "failed">>, 3)
Musixmatch == Asked(TRUE, <<"failed", "failed">>, 2)    \* the translation, the original
LyricsPlus == Asked(TRUE, <<"failed", "failed">>, 3)    \* two servers
QQMusic == Asked(FALSE, <<"failed", "failed">>, 2)
Kugou == Asked(FALSE, <<"failed", "failed">>, 3)
Genius == Asked(FALSE, <<"failed", "missing">>, 3)      \* the search, the page
AppleMusic == Asked(FALSE, <<"failed", "failed", "failed">>, 2)   \* the token, the search, the lyrics
LrcLib == Asked(TRUE, <<"missing", "missing">>, 1)      \* the exact names, a search
Extension == Asked(FALSE, <<"failed">>, 1)
Protocols ==
  [spotify |-> Spotify, deezer |-> Deezer, youtube |-> YouTube, netease |-> Netease, musixmatch |-> Musixmatch,
   lyricsplus |-> LyricsPlus, qqmusic |-> QQMusic, kugou |-> Kugou, genius |-> Genius, apple_music |-> AppleMusic,
   lrclib |-> LrcLib, extension |-> Extension]

(* "garbage" and the rest, for the next request or for the result: LRCLIB goes   *)
(* on after what accepted lets pass, the others after anything but a             *)
(* cancellation.                                                             *)
Replies(name) == {"ok", "missing", "garbage", "down"} \cup (IF name = "extension" THEN {"recursive"} ELSE {})
Means(name, step, reply) == IF reply = "garbage" THEN Protocols[name].unreadable[step] ELSE reply
GoesOn(name, step, result) ==
  /\ step < Len(Protocols[name].unreadable)
  /\ IF Protocols[name].either THEN result \notin {"ok", "cancelled"} /\ (name = "lrclib" => result # "down")
     ELSE result = "ok"
Retryable(result) == result \notin {"ok", "down", "cancelled"}

NoSearch == [pc |-> "idle", names |-> <<>>, list |-> {}, left |-> {}, stopped |-> FALSE, cancelled |-> FALSE,
             epoch |-> 0, completed |-> {}, best |-> NoIndex, graceOver |-> FALSE, recursive |-> FALSE,
             result |-> "", usable |-> {}, count |-> 0]
NoFetch == [pc |-> "ended", index |-> NoIndex, step |-> 0, attempt |-> 0, result |-> ""]
SearchInit ==
  /\ providers \in ProviderOrders
  /\ cooling \in [Names -> {-1, 0}]   \* as earlier searches left it
  /\ epoch = 0 /\ forgiven = 0
  /\ search = NoSearch
  /\ fetch = [w \in SearchThreads |-> NoFetch]
  /\ channel = <<>>
Fetches(w, record) == fetch' = [fetch EXCEPT ![w] = record]
Stopped == search.stopped \/ search.cancelled

(* A flight begins with the order and the generation of this moment; what the    *)
(* health of the providers is comes later.                                    *)
StartFlight ==
  /\ search.pc = "idle" /\ search.count < MaxSearches
  /\ search' = [NoSearch EXCEPT !.pc = "begin", !.names = providers, !.epoch = epoch, !.count = search.count + 1]
  /\ UNCHANGED <<providers, cooling, epoch, forgiven, fetch, channel>>
(* The candidates that are not left alone, by their places in the order; as    *)
(* many threads as there are, up to three.                                   *)
BeginSearch ==
  /\ search.pc = "begin"
  /\ LET list == {n \in DOMAIN search.names : cooling[search.names[n]] = -1}
     IN /\ search' = [search EXCEPT !.pc = "collect", !.list = list, !.left = list]
        /\ \E crew \in SUBSET SearchThreads :
             /\ Cardinality(crew) = Min({Cardinality(list), Cardinality(SearchThreads)})
             /\ fetch' = [w \in SearchThreads |-> [NoFetch EXCEPT !.pc = IF w \in crew THEN "take" ELSE "ended"]]
  /\ channel' = <<>>
  /\ UNCHANGED <<providers, cooling, epoch, forgiven>>

TakeCandidate(w) ==
  /\ fetch[w].pc = "take"
  /\ IF Stopped \/ search.left = {}
     THEN Fetches(w, NoFetch) /\ UNCHANGED search
     ELSE /\ Fetches(w, [NoFetch EXCEPT !.pc = "ask", !.index = Min(search.left), !.step = 1, !.attempt = 1])
          /\ search' = [search EXCEPT !.left = @ \ {Min(search.left)}]
  /\ UNCHANGED <<providers, cooling, epoch, forgiven, channel>>
(* What health and the collector tell apart.                                  *)
Told(result) == IF result \in {"ok", "recursive", "down"} THEN result ELSE "failed"
Ask(w) ==
  /\ fetch[w].pc = "ask"
  /\ LET f == fetch[w] name == search.names[f.index] IN
     \E reply \in (IF Stopped THEN {"cancelled"} ELSE Replies(name)) :
       LET result == Means(name, f.step, reply) IN
       IF GoesOn(name, f.step, result) THEN Fetches(w, [f EXCEPT !.step = @ + 1])
       ELSE \/ /\ Retryable(result) /\ f.attempt < Protocols[name].tries
               /\ Fetches(w, [f EXCEPT !.step = 1, !.attempt = @ + 1])
            \/ Fetches(w, [f EXCEPT !.pc = IF Stopped THEN "send" ELSE "record", !.result = Told(result)])
  /\ UNCHANGED <<providers, cooling, epoch, forgiven, search, channel>>
(* The result counts for the provider's health if the search still goes on     *)
(* and the generation is the one it began in.                                *)
(* Mutation: a result always counts.                                         *)
HealthCountsAlways == TRUE
HealthCounts == epoch = search.epoch
RecordHealth(w) ==
  /\ fetch[w].pc = "record"
  /\ LET name == search.names[fetch[w].index] IN
     cooling' = IF ~HealthCounts THEN cooling
                ELSE IF fetch[w].result = "ok" THEN [cooling EXCEPT ![name] = -1]
                ELSE IF fetch[w].result = "down" THEN [cooling EXCEPT ![name] = search.epoch]
                ELSE cooling
  /\ Fetches(w, [fetch[w] EXCEPT !.pc = "send"])
  /\ UNCHANGED <<providers, epoch, forgiven, search, channel>>
Send(w) ==
  /\ fetch[w].pc = "send"
  /\ channel' = Append(channel, [index |-> fetch[w].index, result |-> fetch[w].result])
  /\ Fetches(w, [NoFetch EXCEPT !.pc = "take"])
  /\ UNCHANGED <<providers, cooling, epoch, forgiven, search>>

(* The collector.  It decides before it waits for the next result.           *)
Pending == {n \in search.list : n < search.best /\ n \notin search.completed}
Decided == search.best # NoIndex /\ (Pending = {} \/ search.graceOver)
Decides(result) == [search EXCEPT !.pc = "leaving", !.result = result, !.stopped = TRUE]
Decide ==
  /\ search.pc = "collect"
  /\ \/ search.cancelled /\ search' = Decides("cancelled")
     \/ ~search.cancelled /\ Decided /\ search' = Decides("lyrics")
  /\ UNCHANGED <<providers, cooling, epoch, forgiven, fetch, channel>>
Better(index) == search.best = NoIndex \/ index < search.best
ReceiveResult ==
  /\ search.pc = "collect" /\ ~Decided /\ channel # <<>>
  /\ LET m == Head(channel) usable == m.result = "ok" IN
     search' = [search EXCEPT !.completed = @ \cup {m.index},
                              !.usable = IF usable THEN @ \cup {m.index} ELSE @,
                              !.recursive = @ \/ m.result = "recursive",
                              !.best = IF usable /\ Better(m.index) THEN m.index ELSE @,
                              !.graceOver = IF usable /\ Better(m.index) THEN FALSE ELSE @]
  /\ channel' = Tail(channel)
  /\ UNCHANGED <<providers, cooling, epoch, forgiven, fetch>>
(* All threads have left and nothing is in the channel.  Which of the errors    *)
(* is returned is left out, except that a recursion comes first.              *)
Disconnected == (\A w \in SearchThreads : fetch[w].pc = "ended") /\ channel = <<>>
ReceiveEnd ==
  /\ search.pc = "collect" /\ ~Decided /\ ~search.cancelled /\ Disconnected
  /\ search' = Decides(IF search.best # NoIndex THEN "lyrics" ELSE IF search.recursive THEN "recursive"
                       ELSE "nothing")
  /\ UNCHANGED <<providers, cooling, epoch, forgiven, fetch, channel>>
GraceEnds ==
  /\ search.pc = "collect" /\ search.best # NoIndex /\ ~search.graceOver
  /\ search' = [search EXCEPT !.graceOver = TRUE]
  /\ UNCHANGED <<providers, cooling, epoch, forgiven, fetch, channel>>
(* The scope ends when its threads have.                                    *)
EndOfSearch ==
  /\ search.pc = "leaving" /\ \A w \in SearchThreads : fetch[w].pc = "ended"
  /\ search' = [NoSearch EXCEPT !.count = search.count]
  /\ UNCHANGED <<providers, cooling, epoch, forgiven, fetch, channel>>

CancelSearch ==
  /\ search.pc = "collect" /\ ~search.cancelled
  /\ search' = [search EXCEPT !.cancelled = TRUE]
  /\ UNCHANGED <<providers, cooling, epoch, forgiven, fetch, channel>>
(* set_providers and drop_memory make everyone healthy again; new options and a  *)
(* cleared cache do not, and an order that is set again changes nothing else.    *)
SetProviders ==
  /\ epoch < MaxResets
  /\ \E order \in ProviderOrders :
       /\ providers' = order
       /\ IF order = providers THEN UNCHANGED <<epoch, forgiven>> ELSE epoch' = epoch + 1 /\ forgiven' = epoch + 1
  /\ cooling' = [n \in Names |-> -1]
  /\ UNCHANGED <<search, fetch, channel>>
NewGeneration ==
  /\ epoch < MaxResets
  /\ epoch' = epoch + 1
  /\ \/ forgiven' = epoch + 1 /\ cooling' = [n \in Names |-> -1]
     \/ UNCHANGED <<forgiven, cooling>>
  /\ UNCHANGED <<providers, search, fetch, channel>>
CoolDown(n) ==
  /\ cooling[n] # -1
  /\ cooling' = [cooling EXCEPT ![n] = -1]
  /\ UNCHANGED <<providers, epoch, forgiven, search, fetch, channel>>

SearchNext ==
  \/ StartFlight \/ BeginSearch \/ Decide \/ ReceiveResult \/ ReceiveEnd \/ GraceEnds \/ EndOfSearch \/ CancelSearch
  \/ SetProviders \/ NewGeneration
  \/ \E w \in SearchThreads : TakeCandidate(w) \/ Ask(w) \/ RecordHealth(w) \/ Send(w)
  \/ \E n \in Names : CoolDown(n)
SearchSpec == SearchInit /\ [][SearchNext]_searchVars
----------------------------------------------------------------------------
(* A search returns the best answer it has: no answer before it in the user's  *)
(* order is worth waiting for any longer, and lyrics that were found are not    *)
(* lost to an error, whatever the order of arrival (search).                   *)
BestWins ==
  search.pc = "leaving" /\ search.result # "cancelled" =>
    IF search.usable = {} THEN search.result # "lyrics" /\ search.completed = search.list
    ELSE search.result = "lyrics" /\ search.best = Min(search.usable) /\ (Pending = {} \/ search.graceOver)
(* A search that began before everyone was made healthy does not leave a         *)
(* provider alone afterwards (health, generation).                             *)
HealthOwn == \A n \in Names : cooling[n] = -1 \/ cooling[n] >= forgiven
(* The two together.                                                        *)
LyricsSearchSound == BestWins /\ HealthOwn

-----------------------------------------------------------------------------
(***************************************************************************)
(* The token of Apple Music's catalogue                                      *)
(* (providers/src/lyrics/builtin/apple.rs).  Lookups share one token, which   *)
(* they read off the web player under the lock of its cache; the service       *)
(* replaces it now and then and answers 401 to lookups with an older one.      *)
(* A token is the number of replacements before it.                           *)
(***************************************************************************)

CONSTANTS Lookups, NoLookup,
          MaxRotations,   \* replacements by the service
          MaxLookups      \* lookups that begin

ASSUME AppleAssumption == NoLookup \notin Lookups /\ MaxRotations \in Nat /\ MaxLookups \in Nat

VARIABLES appleToken,   \* the cached token, or -1
          tokenLock,    \* who holds the lock of the cache
          current,      \* the service's token
          lookup,       \* thread -> its lookup
          lookups       \* lookups so far
appleVars == <<appleToken, tokenLock, current, lookup, lookups>>

NoToken == -1
NoneYet == [pc |-> "idle", first |-> NoToken, token |-> NoToken]
AppleInit ==
  /\ appleToken = NoToken /\ tokenLock = NoLookup
  /\ current = 0
  /\ lookup = [l \in Lookups |-> NoneYet]
  /\ lookups = 0
LooksUp(l, record) == lookup' = [lookup EXCEPT ![l] = record]

StartLookup(l) ==
  /\ lookup[l].pc \in {"idle", "done", "failed", "unauthorized"} /\ lookups < MaxLookups
  /\ LooksUp(l, [NoneYet EXCEPT !.pc = "token"])
  /\ lookups' = lookups + 1
  /\ UNCHANGED <<appleToken, tokenLock, current>>

(* lock_apple_token, for the token or to discard it                          *)
TakeToken(l) ==
  /\ lookup[l].pc = "token" /\ tokenLock = NoLookup
  /\ IF appleToken # NoToken
     THEN LooksUp(l, [lookup[l] EXCEPT !.pc = "search", !.token = appleToken]) /\ UNCHANGED tokenLock
     ELSE tokenLock' = l /\ LooksUp(l, [lookup[l] EXCEPT !.pc = "page"])
  /\ UNCHANGED <<appleToken, current, lookups>>
(* The page names a script, and the script holds the token.                  *)
ReadPage(l) ==
  /\ lookup[l].pc = "page"
  /\ LooksUp(l, [lookup[l] EXCEPT !.pc = "script"])
  /\ UNCHANGED <<appleToken, tokenLock, current, lookups>>
ReadScript(l) ==
  /\ lookup[l].pc = "script"
  /\ LooksUp(l, [lookup[l] EXCEPT !.pc = "found", !.token = current])
  /\ UNCHANGED <<appleToken, tokenLock, current, lookups>>
KeepToken(l) ==
  /\ lookup[l].pc = "found"
  /\ appleToken' = lookup[l].token
  /\ tokenLock' = NoLookup
  /\ LooksUp(l, [lookup[l] EXCEPT !.pc = "search"])
  /\ UNCHANGED <<current, lookups>>

(* apple_search: the service looks at the token, and the answer takes time.    *)
AskCatalogue(l) ==
  /\ lookup[l].pc = "search"
  /\ LooksUp(l, [lookup[l] EXCEPT !.pc = IF lookup[l].token = current THEN "done"
                                        ELSE IF lookup[l].first = NoToken THEN "denied" ELSE "unauthorized"])
  /\ UNCHANGED <<appleToken, tokenLock, current, lookups>>
AfterDenial(l) == IF appleToken = lookup[l].token THEN NoToken ELSE appleToken
DiscardToken(l) ==
  /\ lookup[l].pc = "denied" /\ tokenLock = NoLookup
  /\ appleToken' = AfterDenial(l)
  /\ LooksUp(l, [lookup[l] EXCEPT !.pc = "token", !.first = lookup[l].token])
  /\ UNCHANGED <<tokenLock, current, lookups>>
(* A request fails, or the lookup is cancelled: the guard is dropped.         *)
GiveUpLookup(l) ==
  /\ lookup[l].pc \in {"token", "page", "script", "found", "search", "denied"}
  /\ LooksUp(l, [NoneYet EXCEPT !.pc = "failed"])
  /\ tokenLock' = IF tokenLock = l THEN NoLookup ELSE tokenLock
  /\ UNCHANGED <<appleToken, current, lookups>>

Rotate ==
  /\ current < MaxRotations
  /\ current' = current + 1
  /\ UNCHANGED <<appleToken, tokenLock, lookup, lookups>>

AppleNext ==
  \/ \E l \in Lookups : \/ StartLookup(l) \/ TakeToken(l) \/ ReadPage(l) \/ ReadScript(l) \/ KeepToken(l)
                        \/ AskCatalogue(l) \/ DiscardToken(l) \/ GiveUpLookup(l)
  \/ Rotate
AppleSpec == AppleInit /\ [][AppleNext]_appleVars
----------------------------------------------------------------------------
(* A delayed 401 does not discard a newer token: a token that was kept is      *)
(* cached as long as the service accepts it, so nobody reads it off the web     *)
(* player again; and the second try of a lookup never has the token that was    *)
(* denied (apple, apple_token).                                               *)
TokenKept ==
  \A l \in Lookups :
    /\ lookup[l].pc \in {"search", "done"} /\ lookup[l].token = current => appleToken = current
    /\ lookup[l].pc \in {"search", "unauthorized"} /\ lookup[l].first # NoToken => lookup[l].token > lookup[l].first
(* A search for lyrics returns the best it has found, and its lookups share     *)
(* one token (LyricsService::search, apple_token).                            *)
LyricsFound == LyricsSearchSound /\ TokenKept
=============================================================================
