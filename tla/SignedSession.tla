---------------------------- MODULE SignedSession ----------------------------
(***************************************************************************)
(* Signed sessions (extensions/src/signed_session): extensions that share   *)
(* one stored session record, the challenges that renew it, and the flights *)
(* (bootstrap, refresh, exchange) that at most one thread makes at a time.  *)
(* Threads call preflight(), signed_fetch() and complete_grant(); one       *)
(* action is one critical section of the scope, or one network exchange.    *)
(* The server answers as it likes and numbers the sessions it issues.       *)
(***************************************************************************)
EXTENDS AuthRegistry, TLC

CONSTANTS
  Threads,     \* threads that call into the session
  MaxSession,  \* bound on the sessions the server issues
  MaxClears,   \* bound on clear_generation
  MaxCalls,    \* bounds of the model: calls, and events of the environment
  MaxEvents

ASSUME SessionAssumption == MaxSession \in Nat \ {0} /\ MaxClears \in Nat /\ 0 \notin Threads

Sessions == 1 .. MaxSession
Grants == Threads   \* each thread brings a grant of its own

VARIABLES
  stored,   \* the session in the record file, 0 for none
  server,   \* the last session the server issued
  age,      \* session -> "fresh", "due" (for a refresh) or "expired"
  born,     \* session -> the clear generation in which it was asked for
  scope,    \* the coordinator state that extensions share
  grants,   \* id -> the grant to exchange, 0 for none
  closed,   \* SignedRegistry::closed
  th        \* thread -> where it is and what it holds

sessionVars == <<stored, server, age, born, scope, grants, closed, th>>

Idle == [pc |-> "idle", id |-> 0, cont |-> "", rec |-> 0, from |-> 0, gen |-> 0, grant |-> 0,
         got |-> "", new |-> 0, on |-> 0, loop |-> "", session |-> 0, provider |-> 0,
         reauth |-> FALSE, cancelled |-> FALSE]

SessionInit ==
  /\ AuthInit
  /\ stored \in {0, 1} /\ server = stored
  /\ age = [s \in Sessions |-> "fresh"] /\ born = [s \in Sessions |-> 0]
  /\ scope = [gen |-> 0, completed |-> 0, blocked |-> 0, challenge |-> 0, by |-> 0, ids |-> {},
              bootstrap |-> 0, refresh |-> 0, exchange |-> 0]
  /\ grants = [i \in Ids |-> 0]
  /\ closed = FALSE
  /\ th = [t \in Threads |-> Idle]
-----------------------------------------------------------------------------
(* Records and the state of the scope.                                      *)

Usable(s) == s # 0 /\ age[s] # "expired"
Blocked(s) == s # 0 /\ scope.blocked = s
Good(s) == Usable(s) /\ ~Blocked(s)
RefreshDue(s) == s # 0 /\ age[s] = "due"

(* State::remember and State::clear_challenge: the requests of the callers  *)
(* that share the challenge go with it.                                     *)
Remember(sc, i, n) == [sc EXCEPT !.challenge = n, !.by = i, !.ids = @ \cup {i}]
Unchallenged(sc) == [sc EXCEPT !.challenge = 0, !.by = 0, !.ids = {}]

(* SignedSessionClient::check *)
Failing(t) == closed \/ th[t].cancelled

(* The flight that a thread makes while it is at a place.                   *)
FlightAt == [booting |-> "bootstrap", booted |-> "bootstrap", refreshing |-> "refresh",
             answered |-> "refresh", owned |-> "exchange", exchanging |-> "exchange",
             exchanged |-> "exchange"]
Release(pc, sc) == IF pc \in DOMAIN FlightAt THEN [sc EXCEPT ![FlightAt[pc]] = 0] ELSE sc

(* What becomes of u when the flight it waits for ends: an exchange only    *)
(* takes its turn, the others share the result; a failed refresh is ignored. *)
Woken(u, ok) ==
  [u EXCEPT !.on = 0, !.loop = "",
            !.pc = IF u.loop = "slot" \/ ok THEN u.loop
                   ELSE IF u.loop = "refresh" THEN "refreshed" ELSE "idle"]

(* Flight::finish by t, which goes on as `me`.                              *)
Landed(t, ok, me) ==
  [u \in Threads |-> IF u = t THEN me
                     ELSE IF th[u].on = t THEN Woken(th[u], ok) ELSE th[u]]

(* A thread forgets what its flight was about.                              *)
Settled(u) == [u EXCEPT !.from = 0, !.gen = 0, !.got = "", !.new = 0]

(* Where the caller of bootstrap() goes on when there is no challenge; in   *)
(* the other cases, and with a URL or an error, its call returns.           *)
Booted(u) ==
  LET resume == [preflight |-> "confirm", blocked |-> "unblocked", recover |-> "recovered"]
  IN IF u.cont \in DOMAIN resume THEN [Settled(u) EXCEPT !.pc = resume[u.cont], !.cont = ""]
     ELSE Idle

(* Where a thread goes when its flight fails.                               *)
Failed(u) == IF FlightAt[u.pc] = "refresh" THEN [Settled(u) EXCEPT !.pc = "refreshed"] ELSE Idle

At(t, pc) == [Settled(th[t]) EXCEPT !.pc = pc]
Boot(t, cont) == [th[t] EXCEPT !.pc = "boot", !.cont = cont, !.got = ""]
Become(t, u) == th' = [th EXCEPT ![t] = u]
Quiet == UNCHANGED <<authVars, stored, server, age, born, scope, grants, closed>>
-----------------------------------------------------------------------------
(* A thread calls preflight(), signed_fetch() or complete_grant(), the last *)
(* with a grant of its own or with the one that the host has left.          *)
Call(t, i) ==
  /\ th[t].pc = "idle"
  /\ \/ /\ \E pc \in {"preflight", "fetch"} : Become(t, [Idle EXCEPT !.pc = pc, !.id = i])
        /\ UNCHANGED grants
     \/ /\ ~closed /\ \E g \in {t, grants[i]} : grants' = [grants EXCEPT ![i] = g]
        /\ Become(t, [Idle EXCEPT !.pc = "grant", !.id = i])
  /\ UNCHANGED <<authVars, stored, server, age, born, scope, closed>>

Cancel(t) ==
  /\ th[t].pc # "idle" /\ ~th[t].cancelled
  /\ Become(t, [th[t] EXCEPT !.cancelled = TRUE])
  /\ Quiet

(* A check() of a closed registry or a cancelled call ends it, where the    *)
(* code makes one: on entry, in a loop and while it waits.                  *)
CheckFails(t) ==
  /\ th[t].pc \in {"preflight", "fetch", "boot", "refresh", "refreshed", "slot", "wait", "request"}
  /\ Failing(t)
  /\ Become(t, IF th[t].pc = "refresh" \/ (th[t].pc = "wait" /\ th[t].loop = "refresh")
               THEN [At(t, "refreshed") EXCEPT !.on = 0, !.loop = ""] ELSE Idle)
  /\ Quiet

(* The record cannot be read or written: the section ends with an error     *)
(* before it has changed anything.                                          *)
StorageFails(t) ==
  /\ \/ /\ th[t].pc \in {"preflight", "confirm", "fetch", "unblocked", "refresh", "refreshed",
                         "rejected", "gateway", "recovered"}
        /\ Become(t, IF th[t].pc = "refresh" THEN At(t, "refreshed") ELSE Idle)
     \/ /\ th[t].pc \in {"booted", "answered", "owned", "exchanged"}
        /\ th' = Landed(t, FALSE, Failed(th[t]))
  /\ scope' = Release(th[t].pc, scope)
  /\ UNCHANGED <<authVars, stored, server, age, born, grants, closed>>

Preflight(t) ==
  /\ th[t].pc = "preflight" /\ ~Failing(t)
  /\ Become(t, IF Good(stored) THEN Idle ELSE Boot(t, "preflight"))
  /\ Quiet

(* preflight() reads the session that the bootstrap has found once more.    *)
Confirm(t) == th[t].pc = "confirm" /\ Become(t, Idle) /\ Quiet
-----------------------------------------------------------------------------
(* bootstrap(), a loop                                                      *)

(* A challenge that has not expired is shared with the caller.              *)
BootShare(t) ==
  LET i == th[t].id   n == scope.challenge IN
  /\ th[t].pc = "boot" /\ ~Failing(t)
  /\ n # 0 /\ n \notin stale
  /\ IF Registrable(auth, i, n)
       THEN auth' = Register(auth, i, n) /\ scope' = [scope EXCEPT !.ids = @ \cup {i}]
       ELSE UNCHANGED <<auth, scope>>
  /\ Become(t, Idle)
  /\ UNCHANGED <<issued, stale, authClosed, oauthVars, stored, server, age, born, grants, closed>>

(* An expired challenge, and the caller's own expired request, are dropped. *)
(* Then: a request of the extension that is still pending becomes the       *)
(* challenge, the record cannot be read, its session is good enough, some-  *)
(* body else's flight is awaited, or the caller makes the flight.           *)
BootLooks(t) ==
  LET i == th[t].id
      b == IF scope.challenge = 0 THEN auth ELSE Without(auth, scope.ids)
      a == Purged(b, i)
      sc == IF scope.challenge = 0 THEN scope ELSE Unchallenged(scope)
  IN
  /\ th[t].pc = "boot" /\ ~Failing(t)
  /\ scope.challenge = 0 \/ scope.challenge \in stale
  /\ auth' = a
  /\ \/ a.pending[i] # 0 /\ scope' = Remember(sc, i, a.pending[i]) /\ Become(t, Idle)
     \/ a.pending[i] = 0 /\ scope' = sc /\ Become(t, Idle)
     \/ a.pending[i] = 0 /\ scope' = sc /\ Good(stored) /\ Become(t, Booted(th[t]))
     \/ /\ a.pending[i] = 0 /\ ~Good(stored) /\ sc.bootstrap # 0
        /\ scope' = sc
        /\ Become(t, [th[t] EXCEPT !.pc = "wait", !.loop = "boot", !.on = sc.bootstrap])
     \/ /\ a.pending[i] = 0 /\ ~Good(stored) /\ sc.bootstrap = 0
        /\ scope' = [sc EXCEPT !.bootstrap = t]
        /\ Become(t, [th[t] EXCEPT !.pc = "booting", !.from = stored, !.gen = sc.gen])
  /\ UNCHANGED <<issued, stale, authClosed, oauthVars, stored, server, age, born, grants, closed>>

(* The server's answer to a flight's request: a failure (of every attempt), *)
(* a challenge, a new session, or for a refresh more time for the old one.  *)
Answer(t, out) ==
  LET next == [booting |-> "booted", refreshing |-> "answered", exchanging |-> "exchanged"] IN
  /\ th[t].pc \in DOMAIN next
  /\ out \in CASE th[t].pc = "booting" -> {"error", "session", "challenge"}
               [] th[t].pc = "refreshing" -> {"error", "session", "extended"}
               [] OTHER -> {"error", "session"}
  /\ out = "error" \/ ~Failing(t)
  /\ IF out = "session"
       THEN /\ server < MaxSession /\ server' = server + 1
            /\ born' = [born EXCEPT ![server + 1] = th[t].gen]
       ELSE UNCHANGED <<server, born>>
  /\ Become(t, [th[t] EXCEPT !.pc = next[@], !.got = out,
                               !.new = IF out = "session" THEN server + 1 ELSE 0])
  /\ UNCHANGED <<authVars, stored, age, scope, grants, closed>>

(* Mutation: nobody looks whether the session was cleared meanwhile. *)
NotSuperseded(t) == th[t].got = "error" \/ Failing(t)

(* A flight that failed, was cancelled, or was superseded by clear().       *)
Superseded(t) == th[t].got = "error" \/ Failing(t) \/ th[t].gen # scope.gen

FlightFails(t) ==
  /\ th[t].pc \in {"booted", "answered", "exchanged"}
  /\ Superseded(t)
  /\ scope' = Release(th[t].pc, scope)
  /\ th' = Landed(t, FALSE, Failed(th[t]))
  /\ UNCHANGED <<authVars, stored, server, age, born, grants, closed>>

(* The end of bootstrap(): somebody else's newer session is as good as the  *)
(* server's answer; a challenge that cannot be registered is an error.      *)
BootEnds(t) ==
  LET i == th[t].id
      free == Release("booted", scope)
      good == Good(stored) /\ stored # th[t].from
      n == issued + 1
  IN
  /\ th[t].pc = "booted" /\ ~Superseded(t)
  /\ IF good \/ th[t].got = "session"
       THEN /\ stored' = IF good THEN stored ELSE th[t].new
            /\ scope' = Unchallenged([free EXCEPT !.blocked = IF good THEN @ ELSE 0])
            /\ auth' = Without(auth, scope.ids)
            /\ th' = Landed(t, TRUE, Booted(th[t]))
            /\ UNCHANGED issued
       ELSE /\ n \in Nonces /\ issued' = n
            /\ IF Registrable(auth, i, n)
                 THEN /\ auth' = Register(auth, i, n) /\ scope' = Remember(free, i, n)
                      /\ th' = Landed(t, TRUE, Idle)
                 ELSE /\ scope' = free /\ th' = Landed(t, FALSE, Idle)
                      /\ UNCHANGED auth
            /\ UNCHANGED stored
  /\ UNCHANGED <<stale, authClosed, oauthVars, server, age, born, grants, closed>>
-----------------------------------------------------------------------------
(* signed_fetch() with the record it has read: a session that expires soon  *)
(* is refreshed before the request.                                         *)
Proceed(t) ==
  [th[t] EXCEPT !.rec = stored, !.pc = IF RefreshDue(stored) THEN "refresh" ELSE "request"]

(* An expired session is forgotten; that it cannot be saved is ignored.     *)
Fetch(t) ==
  /\ th[t].pc = "fetch" /\ ~Failing(t)
  /\ stored' \in IF Usable(stored) THEN {stored} ELSE {stored, 0}
  /\ Become(t, IF ~Usable(stored) THEN Boot(t, "unauthenticated")
               ELSE IF Blocked(stored) THEN Boot(t, "blocked") ELSE Proceed(t))
  /\ UNCHANGED <<authVars, server, age, born, scope, grants, closed>>

(* After the bootstrap for a blocked session.                               *)
Unblocked(t) ==
  /\ th[t].pc = "unblocked"
  /\ Become(t, IF Good(stored) THEN Proceed(t) ELSE Idle)
  /\ Quiet

(* refresh(), a loop                                                        *)
Refresh(t) ==
  /\ th[t].pc = "refresh" /\ ~Failing(t)
  /\ \/ ~RefreshDue(stored) /\ Become(t, At(t, "refreshed")) /\ UNCHANGED scope
     \/ /\ RefreshDue(stored) /\ scope.refresh # 0
        /\ Become(t, [th[t] EXCEPT !.pc = "wait", !.loop = "refresh", !.on = scope.refresh])
        /\ UNCHANGED scope
     \/ /\ RefreshDue(stored) /\ scope.refresh = 0
        /\ Become(t, [th[t] EXCEPT !.pc = "refreshing", !.from = stored, !.gen = scope.gen])
        /\ scope' = [scope EXCEPT !.refresh = t]
  /\ UNCHANGED <<authVars, stored, server, age, born, grants, closed>>

(* The answer counts only for the session that was refreshed.               *)
RefreshEnds(t) ==
  LET same == stored # 0 /\ stored = th[t].from IN
  /\ th[t].pc = "answered" /\ ~Superseded(t)
  /\ stored' = IF same /\ th[t].got = "session" THEN th[t].new ELSE stored
  /\ age' = IF same /\ th[t].got = "extended" THEN [age EXCEPT ![stored] = "fresh"] ELSE age
  /\ scope' = Release("answered", scope)
  /\ th' = Landed(t, TRUE, At(t, "refreshed"))
  /\ UNCHANGED <<authVars, server, born, grants, closed>>

Refreshed(t) ==
  /\ th[t].pc = "refreshed" /\ ~Failing(t)
  /\ Become(t, IF Good(stored) THEN [th[t] EXCEPT !.pc = "request", !.rec = stored]
               ELSE Boot(t, "unauthenticated"))
  /\ Quiet

(* What an answer may ask for: ErrorContract.  "" is to be returned as it is. *)
Contracts == {"", "provider_retry", "request_auth_invalid", "bootstrap_session", "verify"}

(* The request of signed_fetch(), and its answer.                           *)
Request(t) ==
  /\ th[t].pc = "request" /\ ~Failing(t)
  /\ \E c \in Contracts :
       Become(t, CASE c = "provider_retry" /\ th[t].provider < 2 ->
                        [th[t] EXCEPT !.provider = @ + 1]
                   [] c = "request_auth_invalid" -> At(t, "rejected")
                   [] c \in {"bootstrap_session", "verify"} ->
                        [th[t] EXCEPT !.pc = "gateway", !.got = c]
                   [] OTHER -> Idle)
  /\ Quiet

(* REQUEST_AUTH_INVALID: once more, if there is a newer session.            *)
Rejected(t) ==
  /\ th[t].pc = "rejected"
  /\ Become(t, IF ~th[t].reauth /\ Usable(stored) /\ stored # th[t].rec
               THEN [th[t] EXCEPT !.pc = "request", !.reauth = TRUE, !.rec = stored] ELSE Idle)
  /\ Quiet

Again(t) ==
  IF th[t].session < 1
  THEN [th[t] EXCEPT !.pc = "request", !.session = @ + 1, !.rec = stored] ELSE Idle

(* SESSION_INVALID or VERIFY_REQUIRED of the session that is still stored:  *)
(* it is cleared or blocked, and the bootstrap finds another.  A record     *)
(* that cannot be saved ends the call after the block was lifted.           *)
Gateway(t) ==
  LET same == stored # 0 /\ stored = th[t].rec
      invalid == th[t].got = "bootstrap_session"
  IN
  /\ th[t].pc = "gateway"
  /\ IF Usable(stored) /\ stored # th[t].rec
       THEN Become(t, Again(t)) /\ UNCHANGED <<stored, scope>>
       ELSE /\ scope' = IF ~same THEN scope
                        ELSE [scope EXCEPT !.blocked = IF invalid THEN 0 ELSE stored]
            /\ \/ Become(t, Boot(t, "recover")) /\ stored' = IF same /\ invalid THEN 0 ELSE stored
               \/ same /\ invalid /\ Become(t, Idle) /\ UNCHANGED stored
  /\ UNCHANGED <<authVars, server, age, born, grants, closed>>

Recovered(t) ==
  /\ th[t].pc = "recovered"
  /\ Become(t, IF Usable(stored) /\ stored # th[t].rec THEN Again(t) ELSE Idle)
  /\ Quiet
-----------------------------------------------------------------------------
(* complete_grant() reads the grant, and exchange() the generation.         *)
Grant(t) ==
  /\ th[t].pc = "grant"
  /\ Become(t, IF grants[th[t].id] = 0 THEN Idle
               ELSE [th[t] EXCEPT !.pc = "generation", !.grant = grants[th[t].id]])
  /\ Quiet

ReadGeneration(t) ==
  /\ th[t].pc = "generation"
  /\ Become(t, [th[t] EXCEPT !.pc = "slot", !.gen = scope.gen])
  /\ Quiet

(* Exchanges take turns.                                                    *)
TakeSlot(t) ==
  /\ th[t].pc = "slot" /\ ~Failing(t)
  /\ IF scope.exchange # 0
       THEN /\ Become(t, [th[t] EXCEPT !.pc = "wait", !.loop = "slot", !.on = scope.exchange])
            /\ UNCHANGED scope
       ELSE /\ Become(t, [th[t] EXCEPT !.pc = "owned"])
            /\ scope' = [scope EXCEPT !.exchange = t]
  /\ UNCHANGED <<authVars, stored, server, age, born, grants, closed>>

(* exchange_owned(): superseded already, done already, or to be sent.       *)
Exchange(t) ==
  LET over == th[t].gen # scope.gen
      done == scope.completed = th[t].grant /\ Usable(stored)
      free == Release("owned", scope)
  IN
  /\ th[t].pc = "owned"
  /\ \/ over /\ scope' = free /\ th' = Landed(t, FALSE, Idle) /\ UNCHANGED auth
     \/ /\ ~over /\ done
        /\ scope' = Unchallenged([free EXCEPT !.blocked = 0])
        /\ auth' = Without(auth, scope.ids)
        /\ th' = Landed(t, TRUE, At(t, "granted"))
     \/ /\ ~over /\ ~done
        /\ Become(t, [th[t] EXCEPT !.pc = "exchanging", !.from = stored])
        /\ UNCHANGED <<auth, scope>>
  /\ UNCHANGED <<issued, stale, authClosed, oauthVars, stored, server, age, born, grants, closed>>

ExchangeEnds(t) ==
  LET keep == Usable(stored) /\ (scope.completed = th[t].grant \/ stored # th[t].from) IN
  /\ th[t].pc = "exchanged" /\ ~Superseded(t)
  /\ stored' = IF keep THEN stored ELSE th[t].new
  /\ scope' = Unchallenged([Release("exchanged", scope) EXCEPT !.blocked = 0,
                              !.completed = IF keep THEN @ ELSE th[t].grant])
  /\ auth' = Without(auth, scope.ids)
  /\ th' = Landed(t, TRUE, At(t, "granted"))
  /\ UNCHANGED <<issued, stale, authClosed, oauthVars, server, age, born, grants, closed>>

(* Mutation: the grant is discarded whichever it is. *)
DiscardGrant(t) ==
  /\ th[t].pc = "granted"
  /\ grants' = [grants EXCEPT ![th[t].id] = 0]
  /\ auth' = Without(auth, {th[t].id})
  /\ Become(t, Idle)
  /\ UNCHANGED <<issued, stale, authClosed, oauthVars, stored, server, age, born, scope, closed>>

(* The end of complete_grant(): a newer grant is kept.                      *)
Granted(t) ==
  /\ th[t].pc = "granted"
  /\ grants' = [grants EXCEPT ![th[t].id] = IF @ = th[t].grant THEN 0 ELSE @]
  /\ auth' = Without(auth, {th[t].id})
  /\ Become(t, Idle)
  /\ UNCHANGED <<issued, stale, authClosed, oauthVars, stored, server, age, born, scope, closed>>
-----------------------------------------------------------------------------
(* The host, and time.                                                      *)

Clear(i) ==
  /\ ~closed /\ scope.gen < MaxClears
  /\ stored' = 0
  /\ scope' = Unchallenged([scope EXCEPT !.gen = @ + 1, !.completed = 0, !.blocked = 0])
  /\ auth' = Without(auth, scope.ids \cup {i})
  /\ UNCHANGED <<issued, stale, authClosed, oauthVars, server, age, born, grants, closed, th>>

SetGrant(i) ==
  /\ ~closed
  /\ \E g \in Grants : grants' = [grants EXCEPT ![i] = g]
  /\ UNCHANGED <<authVars, stored, server, age, born, scope, closed, th>>

(* The session stays: other extensions may share it.                        *)
ForgetExtension(i) ==
  /\ grants' = [grants EXCEPT ![i] = 0]
  /\ scope' = LET sc == [scope EXCEPT !.ids = @ \ {i}]
              IN IF scope.by = i THEN [sc EXCEPT !.challenge = 0, !.by = 0] ELSE sc
  /\ UNCHANGED <<authVars, stored, server, age, born, closed, th>>

ShutdownSessions ==
  /\ authClosed /\ ~closed
  /\ closed' = TRUE
  /\ grants' = [i \in Ids |-> 0]
  /\ scope' = Unchallenged(scope)
  /\ auth' = Without(auth, scope.ids)
  /\ UNCHANGED <<issued, stale, authClosed, oauthVars, stored, server, age, born, th>>

(* Only the age of the stored session matters.                              *)
Age ==
  /\ stored # 0 /\ age[stored] # "expired"
  /\ age' = [age EXCEPT ![stored] = IF @ = "fresh" THEN "due" ELSE "expired"]
  /\ UNCHANGED <<authVars, stored, server, born, scope, grants, closed, th>>

Step(t) ==
  \/ CheckFails(t) \/ StorageFails(t)
  \/ Preflight(t) \/ Confirm(t) \/ BootShare(t) \/ BootLooks(t) \/ BootEnds(t)
  \/ \E out \in {"error", "session", "challenge", "extended"} : Answer(t, out)
  \/ FlightFails(t)
  \/ Fetch(t) \/ Unblocked(t) \/ Refresh(t) \/ RefreshEnds(t) \/ Refreshed(t)
  \/ Request(t) \/ Rejected(t) \/ Gateway(t) \/ Recovered(t)
  \/ Grant(t) \/ ReadGeneration(t) \/ TakeSlot(t) \/ Exchange(t) \/ ExchangeEnds(t) \/ Granted(t)

Environment ==
  \/ \E i \in Ids : Clear(i) \/ SetGrant(i) \/ ForgetExtension(i)
  \/ ShutdownSessions \/ Age
  \/ /\ ShutdownAuth \/ ExpireNonce \/ \E n \in Nonces : Resolve(n)
     /\ UNCHANGED sessionVars

SessionNext ==
  \/ \E t \in Threads : Step(t) \/ Cancel(t) \/ \E i \in Ids : Call(t, i)
  \/ Environment

(* Signed sessions, and the OAuth records of the same registry.              *)
LoginsNext == SessionNext \/ (OAuthNext /\ UNCHANGED sessionVars)
LoginsSpec == SessionInit /\ [][LoginsNext]_<<authVars, sessionVars>>
-----------------------------------------------------------------------------
(* A session is stored only if it was asked for after the last clear(): the *)
(* late answer to a bootstrap, a refresh or an exchange never restores what *)
(* the user has cleared.                                                    *)
ClearWins == stored # 0 => born[stored] = scope.gen

(* Whoever waits for a flight waits for the one that is in its slot, and    *)
(* its leader is still at work: nobody waits for a flight that has ended.   *)
WaitersHaveLeader ==
  \A t \in Threads :
    th[t].pc = "wait" =>
      LET slot == [boot |-> "bootstrap", refresh |-> "refresh", slot |-> "exchange"][th[t].loop]
      IN /\ scope[slot] = th[t].on
         /\ th[th[t].on].pc \in {pc \in DOMAIN FlightAt : FlightAt[pc] = slot}

(* A grant that is waiting is discarded by complete_grant() only after this *)
(* very grant was exchanged: a newer one that arrived meanwhile is kept.    *)
GrantNotLost ==
  [][\A i \in Ids : grants[i] # 0 /\ grants'[i] = 0 /\ th' # th
       => \E t \in Threads : th[t].pc = "granted" /\ th[t].id = i
                             /\ th[t].grant = grants[i]]_sessionVars

(* A session that was cleared does not come back with a late answer, and     *)
(* nobody waits for an answer that nobody is getting (Flight::wait, clear).  *)
FlightsSound == ClearWins /\ WaitersHaveLeader

(* Logins of extensions: an answer reaches whoever asked for it, and nobody  *)
(* else (signed_session/exchange.rs, auth.rs).                               *)
LoginsSound == FlightsSound /\ CallbackFindsOwner
-----------------------------------------------------------------------------
(* For TLC, each behaviour exercises one of the two, chosen at the start,    *)
(* and bounds the calls and what the host, the user or time does.            *)
VARIABLES part, calls, events

ModelInit ==
  /\ SessionInit
  /\ part \in {"oauth", "signed"}
  /\ calls = 0 /\ events = 0

ModelNext ==
  /\ part' = part
  /\ \/ part = "oauth" /\ OAuthNext /\ UNCHANGED <<sessionVars, calls, events>>
     \/ /\ part = "signed" /\ \E t \in Threads : Step(t)
        /\ UNCHANGED <<calls, events>>
     \/ /\ part = "signed" /\ calls < MaxCalls
        /\ \E t \in Threads, i \in Ids : Call(t, i)
        /\ calls' = calls + 1 /\ UNCHANGED events
     \/ /\ part = "signed" /\ events < MaxEvents
        /\ Environment \/ \E t \in Threads : Cancel(t)
        /\ events' = events + 1 /\ UNCHANGED calls

ModelSpec == ModelInit /\ [][ModelNext]_<<authVars, sessionVars, part, calls, events>>

Symmetry == Permutations(Threads) \cup Permutations(Exchangers) \cup Permutations(Ids)
=============================================================================
