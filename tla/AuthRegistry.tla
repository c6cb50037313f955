---------------------------- MODULE AuthRegistry ----------------------------
(***************************************************************************)
(* Logins of extensions (extensions/src/auth.rs, auth/client.rs): the table *)
(* of challenges that wait for a callback, and the OAuth record of every    *)
(* extension with the generation that ties a token exchange to the login it *)
(* was started for.  One action is one critical section of the registry.    *)
(* A callback state (nonce) stands for its whole request: it is made afresh *)
(* for each, and copies of a request share URL and creation time.           *)
(***************************************************************************)
EXTENDS Naturals, FiniteSets

CONSTANTS
  Ids,        \* extensions
  MaxNonce,   \* bound on the challenges that are issued
  MaxEdits,   \* bound on the generation of an OAuth record
  Exchangers  \* threads in exchangeCodeWithPKCE

ASSUME AuthAssumption == MaxNonce \in Nat /\ MaxEdits \in Nat /\ 0 \notin Ids

(* 0 stands for no nonce, no extension, no verifier and no token.           *)
Nonces == 1 .. MaxNonce

VARIABLES
  auth,       \* pending: id -> nonce; owner: nonce -> id
  issued,     \* the last nonce that was made
  stale,      \* nonces whose requests are older than PENDING_TTL
  authClosed,
  oauth,      \* id -> [generation, verifier, code, token]
  exchanging  \* exchanger -> what it read: [id, verifier, generation]

tableVars == <<auth, issued, stale, authClosed>>
oauthVars == <<oauth, exchanging>>
authVars == <<tableVars, oauthVars>>

NotExchanging == [id |-> 0, verifier |-> 0, generation |-> 0]

AuthInit ==
  /\ auth = [pending |-> [i \in Ids |-> 0], owner |-> [n \in Nonces |-> 0]]
  /\ issued = 0 /\ stale = {}
  /\ authClosed = FALSE
  /\ oauth = [i \in Ids |-> [generation |-> 0, verifier |-> 0, code |-> FALSE, token |-> 0]]
  /\ exchanging = [x \in Exchangers |-> NotExchanging]
-----------------------------------------------------------------------------
(* The table of pending challenges.                                         *)

(* Some extension of S with a request for n that has not expired, or 0.     *)
Heir(a, n, S) ==
  LET heirs == {i \in S : a.pending[i] = n /\ n \notin stale}
  IN IF heirs = {} THEN 0 ELSE CHOOSE i \in heirs : TRUE

(* remove_pending() of every extension in S: a challenge that loses its     *)
(* owner passes to another extension that shares it.                        *)
Without(a, S) ==
  [pending |-> [i \in Ids |-> IF i \in S THEN 0 ELSE a.pending[i]],
   owner |-> [n \in Nonces |-> IF a.owner[n] \in S /\ a.pending[a.owner[n]] = n
                                THEN Heir(a, n, Ids \ S) ELSE a.owner[n]]]

(* A nonce another extension owns is accepted only as a copy of its request. *)
Registrable(a, i, n) ==
  ~authClosed /\ (a.owner[n] \in {0, i} \/ a.pending[a.owner[n]] = n)

(* register_pending() of a request that is registrable.                     *)
Register(a, i, n) ==
  LET b == IF a.pending[i] \in {0, n} THEN a ELSE Without(a, {i})
  IN [pending |-> [b.pending EXCEPT ![i] = n],
      owner |-> [b.owner EXCEPT ![n] = IF @ = 0 THEN i ELSE @]]

(* pending() forgets a request that has expired before it looks it up.      *)
Purged(a, i) == IF a.pending[i] \in stale THEN Without(a, {i}) ELSE a

(* resolve_callback(nonce, true): the nonce is gone for everybody, whether  *)
(* it was valid or not.                                                     *)
Resolve(n) ==
  /\ auth' = [pending |-> [i \in Ids |-> IF auth.pending[i] = n THEN 0 ELSE auth.pending[i]],
              owner |-> [auth.owner EXCEPT ![n] = 0]]
  /\ UNCHANGED <<issued, stale, authClosed, oauthVars>>

(* Time: all requests live equally long, so the oldest expires first.       *)
ExpireNonce ==
  /\ Cardinality(stale) < issued
  /\ stale' = stale \cup {Cardinality(stale) + 1}
  /\ UNCHANGED <<auth, issued, authClosed, oauthVars>>
-----------------------------------------------------------------------------
(* OAuth records.                                                           *)

(* AuthRegistry::edit: every change of a record starts a new generation.    *)
Edit(i, r) ==
  /\ ~authClosed /\ oauth[i].generation < MaxEdits
  /\ oauth' = [oauth EXCEPT ![i] = [r EXCEPT !.generation = @ + 1]]

(* generatePKCE, and the first half of startOAuthWithPKCE, which also       *)
(* forgets the code.  A verifier is named by the generation it makes.       *)
StorePkce(i) ==
  /\ \E code \in {oauth[i].code, FALSE} :
       Edit(i, [oauth[i] EXCEPT !.verifier = oauth[i].generation + 1, !.code = code])
  /\ UNCHANGED <<tableVars, exchanging>>

(* set_code(), setAuthCode with a code, or openAuthUrl, which forgets it.   *)
SetCode(i) ==
  /\ \E code \in BOOLEAN : Edit(i, [oauth[i] EXCEPT !.code = code])
  /\ UNCHANGED <<tableVars, exchanging>>

(* set_tokens(), or setAuthCode with a token.                               *)
SetTokens(i) ==
  /\ Edit(i, [oauth[i] EXCEPT !.token = oauth[i].generation + 1])
  /\ UNCHANGED <<tableVars, exchanging>>

(* openAuthUrl and the second half of startOAuthWithPKCE.                   *)
OpenAuthUrl(i) ==
  /\ issued < MaxNonce /\ ~authClosed
  /\ issued' = issued + 1
  /\ auth' = Register(auth, i, issued + 1)
  /\ UNCHANGED <<stale, authClosed, oauthVars>>

(* AuthRegistry::clear                                                      *)
ClearAuth(i) ==
  /\ ~authClosed /\ oauth[i].generation < MaxEdits
  /\ oauth' = [oauth EXCEPT ![i] = [generation |-> @.generation + 1, verifier |-> 0,
                                    code |-> FALSE, token |-> 0]]
  /\ auth' = Without(auth, {i})
  /\ UNCHANGED <<issued, stale, authClosed, exchanging>>

(* exchangeCodeWithPKCE up to its request.                                  *)
BeginExchange(x, i) ==
  /\ exchanging[x].id = 0 /\ oauth[i].verifier # 0
  /\ exchanging' = [exchanging EXCEPT ![x] =
       [id |-> i, verifier |-> oauth[i].verifier, generation |-> oauth[i].generation]]
  /\ UNCHANGED <<tableVars, oauth>>

(* The request failed, or its answer has no token.                          *)
ExchangeFails(x) ==
  /\ exchanging[x].id # 0
  /\ exchanging' = [exchanging EXCEPT ![x] = NotExchanging]
  /\ UNCHANGED <<tableVars, oauth>>

(* Mutation: the answer is stored whatever happened to the login meanwhile. *)
EndExchangeLate(x) ==
  LET e == exchanging[x] IN
  /\ e.id # 0 /\ ~authClosed
  /\ oauth' = [oauth EXCEPT ![e.id] = [@ EXCEPT !.token = e.verifier, !.verifier = 0]]
  /\ exchanging' = [exchanging EXCEPT ![x] = NotExchanging]
  /\ UNCHANGED tableVars

(* The answer is stored only in the record that asked for it.               *)
EndExchange(x) ==
  LET e == exchanging[x] IN
  /\ e.id # 0
  /\ IF authClosed \/ oauth[e.id].generation # e.generation
       THEN UNCHANGED oauth
       ELSE /\ e.generation < MaxEdits
            /\ oauth' = [oauth EXCEPT ![e.id] =
                 [@ EXCEPT !.token = e.verifier, !.verifier = 0, !.generation = e.generation + 1]]
  /\ exchanging' = [exchanging EXCEPT ![x] = NotExchanging]
  /\ UNCHANGED tableVars

ShutdownAuth ==
  /\ ~authClosed
  /\ authClosed' = TRUE
  /\ auth' = [pending |-> [i \in Ids |-> 0], owner |-> [n \in Nonces |-> 0]]
  /\ oauth' = [i \in Ids |-> [generation |-> 0, verifier |-> 0, code |-> FALSE, token |-> 0]]
  /\ UNCHANGED <<issued, stale, exchanging>>

OAuthNext ==
  \/ \E i \in Ids : \/ StorePkce(i) \/ SetCode(i) \/ SetTokens(i)
                    \/ OpenAuthUrl(i) \/ ClearAuth(i)
                    \/ \E x \in Exchangers : BeginExchange(x, i)
  \/ \E x \in Exchangers : ExchangeFails(x) \/ EndExchange(x)
  \/ \E n \in Nonces : Resolve(n)
  \/ ExpireNonce
  \/ ShutdownAuth
-----------------------------------------------------------------------------
(* A nonce has an owner exactly while some extension waits for it, unless   *)
(* it has expired: the callback of a shared challenge finds somebody, and   *)
(* one that was answered, cleared or replaced finds nobody.                 *)
CallbackFindsOwner ==
  \A n \in Nonces :
    LET waiting == {i \in Ids : auth.pending[i] = n}
    IN /\ auth.owner[n] # 0 => auth.owner[n] \in waiting
       /\ waiting # {} /\ n \notin stale => auth.owner[n] # 0

(* The token of an exchange belongs to the login that is in progress when   *)
(* it is stored: no other login, logout or callback came in between.        *)
TokenOfOwnLogin ==
  [][\A x \in Exchangers :
       LET e == exchanging[x] IN
       e.id # 0 /\ exchanging'[x].id = 0 /\ oauth'[e.id].token # oauth[e.id].token
         => oauth[e.id].verifier = e.verifier]_authVars
=============================================================================
