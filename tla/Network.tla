------------------------------- MODULE Network ------------------------------
(* What the network crate does for native code and extensions: the client,   *)
(* the cookies it sends, and the addresses it connects to.                   *)
EXTENDS Integers, FiniteSets, Sequences, SequencesExt

-----------------------------------------------------------------------------
(***************************************************************************)
(* The HTTP client of native code and extensions (network/src/client.rs     *)
(* with policy.rs and dns.rs): requests that are redirected, limited to so   *)
(* many per origin, and overtaken by changes of the user's network policy,   *)
(* which replace the pool of connections.                                   *)
(*                                                                         *)
(* A URL is a scheme and a host.  Every request goes to "own" at first;      *)
(* "sub" is a host below it, "peer" another one.  A host is allowed or not   *)
(* by the session; its address may turn out to be private when it is         *)
(* resolved.                                                                *)
(***************************************************************************)

CONSTANTS Requests,      \* threads that make a request
          AllowedHosts,  \* hosts an extension's session may name
          MaxPermits,    \* requests of a pool to one origin
          MaxRedirects,  \* responses of one request, the last one returned as it is
          MaxPolicies    \* bound on changes of the pool

ASSUME HttpAssumption == /\ IsFiniteSet(Requests) /\ AllowedHosts \subseteq {"own", "sub", "peer"} /\ MaxPermits \in Nat \ {0}
                         /\ MaxRedirects \in Nat \ {0} /\ MaxPolicies \in Nat

Hosts == {"own", "sub", "peer"}
Urls == [scheme : {"https", "http"}, host : Hosts]
NoUrl == [scheme |-> "", host |-> ""]

VARIABLES netPool,           \* the pool new requests take, with its policy
          policyGeneration,   \* the policy's generation
          connections,       \* idle connections: their pool, and whether the address is private
          request            \* thread -> its request
httpVars == <<netPool, policyGeneration, connections, request>>

NoRequest == [pc |-> "idle", pool |-> [id |-> 0, private |-> FALSE, fallback |-> FALSE], generation |-> 0,
              url |-> NoUrl, hops |-> 0, auth |-> FALSE, native |-> FALSE, permit |-> NoUrl, private |-> FALSE,
              strayed |-> FALSE]
HttpInit ==
  /\ netPool = [id |-> 0, private |-> FALSE, fallback |-> FALSE]
  /\ policyGeneration = 0
  /\ connections = {}
  /\ request = [r \in Requests |-> NoRequest]
Updates(r, record) == request' = [request EXCEPT ![r] = record]
At(r, pc) == request[r].pc = pc
Released(r) == [request[r] EXCEPT !.permit = NoUrl]
Failed(r) == [NoRequest EXCEPT !.pc = "failed"]

(* A session of an extension has a list of hosts, the app's own has none;    *)
(* both are for https only.                                                 *)
Validated(r, url) == url.scheme = "https" /\ (request[r].native \/ url.host \in AllowedHosts)

(* Pool and generation are taken together, under the pool's lock.           *)
StartRequest(r) ==
  /\ At(r, "idle")
  /\ \E native \in BOOLEAN :
       Updates(r, [NoRequest EXCEPT !.native = native, !.pc = "permit", !.pool = netPool, !.generation = policyGeneration,
                                    !.url = [scheme |-> "https", host |-> "own"], !.auth = TRUE])
  /\ UNCHANGED <<netPool, policyGeneration, connections>>

Holders(pool, url) == {r \in Requests : request[r].pool.id = pool.id /\ request[r].permit = url}
AcquirePermit(r) ==
  /\ At(r, "permit")
  /\ Cardinality(Holders(request[r].pool, request[r].url)) < MaxPermits
  /\ Updates(r, [request[r] EXCEPT !.pc = "send", !.permit = request[r].url])
  /\ UNCHANGED <<netPool, policyGeneration, connections>>

(* The request goes over an idle connection of its pool, which the model     *)
(* takes for one to any host, or over a new one: the resolver leaves private  *)
(* addresses out unless the pool allows them.                               *)
Idle(r) == {c \in connections : c.pool = request[r].pool.id}
Permitted(r, private) == private => request[r].pool.private
SendRequest(r) ==
  /\ At(r, "send")
  /\ \/ \E c \in Idle(r) : /\ connections' = connections \ {c}
                           /\ Updates(r, [request[r] EXCEPT !.pc = "sent", !.private = c.private])
     \/ /\ \E private \in BOOLEAN :
             IF Permitted(r, private) THEN Updates(r, [request[r] EXCEPT !.pc = "sent", !.private = private])
             ELSE Updates(r, [request[r] EXCEPT !.pc = "error"])
        /\ UNCHANGED connections
  /\ UNCHANGED <<netPool, policyGeneration>>
LoseConnection(r) ==
  /\ At(r, "sent")
  /\ Updates(r, [request[r] EXCEPT !.pc = "error"])
  /\ UNCHANGED <<netPool, policyGeneration, connections>>

(* Mutation: the permit of the first attempt is kept.                       *)
FallenBackHolding(r) == [request[r] EXCEPT !.pc = "permit", !.url.scheme = "http"]
FallenBack(r) == [Released(r) EXCEPT !.pc = "permit", !.url.scheme = "http"]
(* A request of the app's own that failed over https is tried over http, if   *)
(* it can be sent again.                                                    *)
FallBack(r) ==
  /\ At(r, "error")
  /\ \/ /\ request[r].pool.fallback /\ request[r].native /\ request[r].url.scheme = "https"
        /\ Updates(r, FallenBack(r))
     \/ Updates(r, Failed(r))
  /\ UNCHANGED <<netPool, policyGeneration, connections>>

ConnectionOf(r) == [pool |-> request[r].pool.id, private |-> request[r].private]
(* forward_sensitive_headers, against the host of the first URL; what has    *)
(* been taken out stays out.                                                *)
KeepsSensitive(r, host) == request[r].auth /\ host \in {"own", "sub"}
(* The last redirect allowed is returned like any other response.           *)
Redirect(r) ==
  /\ At(r, "sent")
  /\ \E target \in Urls :
       IF ~Validated(r, target) THEN Updates(r, Failed(r))
       ELSE IF request[r].hops + 1 < MaxRedirects
       THEN Updates(r, [Released(r) EXCEPT !.pc = "permit", !.url = target, !.hops = @ + 1,
                                           !.auth = KeepsSensitive(r, target.host),
                                           !.strayed = @ \/ target.host \notin {"own", "sub"}])
       ELSE Updates(r, [request[r] EXCEPT !.pc = "stream"])
  /\ connections' \in {connections, connections \cup {ConnectionOf(r)}}   \* a small body is drained
  /\ UNCHANGED <<netPool, policyGeneration>>
Respond(r) ==
  /\ At(r, "sent")
  /\ Updates(r, [request[r] EXCEPT !.pc = "stream"])
  /\ UNCHANGED <<netPool, policyGeneration, connections>>

(* A read of the body; at its end, or with an error, the body and its permit *)
(* go.  A read after a change of policy fails.                              *)
ReadBody(r) ==
  /\ At(r, "stream")
  /\ IF request[r].generation # policyGeneration
     THEN Updates(r, Failed(r)) /\ UNCHANGED connections
     ELSE \/ Updates(r, [NoRequest EXCEPT !.pc = "done", !.pool = request[r].pool, !.generation = request[r].generation,
                                          !.private = request[r].private])
             /\ connections' = connections \cup {ConnectionOf(r)}
          \/ Updates(r, Failed(r)) /\ UNCHANGED connections
  /\ UNCHANGED <<netPool, policyGeneration>>

(* The loop around the request: it is cancelled, runs out of time, or its    *)
(* policy has changed.                                                      *)
Abort(r) ==
  /\ request[r].pc \in {"permit", "send", "sent", "error", "stream"}
  /\ Updates(r, Failed(r))
  /\ UNCHANGED <<netPool, policyGeneration, connections>>

SetAllowPrivateNetwork ==
  /\ netPool.id < MaxPolicies
  /\ netPool' = [netPool EXCEPT !.id = @ + 1, !.private = ~@]
  /\ policyGeneration' = policyGeneration + 1
  /\ UNCHANGED <<connections, request>>
SetCompatibility ==
  /\ netPool.id < MaxPolicies
  /\ netPool' = [netPool EXCEPT !.id = @ + 1, !.fallback = ~@]
  /\ UNCHANGED <<policyGeneration, connections, request>>
ResetConnections ==
  /\ netPool.id < MaxPolicies
  /\ netPool' = [netPool EXCEPT !.id = @ + 1]
  /\ UNCHANGED <<policyGeneration, connections, request>>
(* A pool nobody uses any more takes its connections with it.               *)
DropPool ==
  /\ \E c \in connections :
       /\ c.pool # netPool.id /\ \A r \in Requests : At(r, "done") \/ request[r].pool.id # c.pool
       /\ connections' = {d \in connections : d.pool # c.pool}
  /\ UNCHANGED <<netPool, policyGeneration, request>>

HttpNext ==
  \/ \E r \in Requests : StartRequest(r) \/ AcquirePermit(r) \/ SendRequest(r) \/ LoseConnection(r) \/ FallBack(r)
                         \/ Redirect(r) \/ Respond(r) \/ ReadBody(r) \/ Abort(r)
  \/ SetAllowPrivateNetwork \/ SetCompatibility \/ ResetConnections \/ DropPool
HttpSpec == HttpInit /\ [][HttpNext]_httpVars
----------------------------------------------------------------------------
Active(r) == request[r].pc \notin {"idle", "failed", "done"}
(* A request the loop does not stop runs under the policy in force, and it    *)
(* has a private address only if that policy allows it, whether its           *)
(* connection is new or was kept by the pool.                               *)
PolicyHeld ==
  \A r \in Requests : Active(r) =>
    /\ request[r].generation = policyGeneration => request[r].pool.private = netPool.private
    /\ At(r, "sent") \/ At(r, "stream") => Permitted(r, request[r].private)
(* Headers for the first host do not return once the request has left it.    *)
SensitiveOnce == \A r \in Requests : request[r].auth => ~request[r].strayed
(* Redirects and fallbacks cannot make requests wait for each other: who      *)
(* waits for a permit holds none, and no origin has more than its permits.    *)
PermitsFlow ==
  \A r \in Requests :
    /\ At(r, "permit") => request[r].permit = NoUrl
    /\ request[r].permit # NoUrl => /\ request[r].permit = request[r].url
                                    /\ Cardinality(Holders(request[r].pool, request[r].permit)) <= MaxPermits
(* The three together: what redirects, retries and changes of policy must    *)
(* leave true of every request (execute_stream, run, HttpStream::read,       *)
(* Pool::acquire, set_allow_private_network).                                *)
RequestsKeepPolicy == PolicyHeld /\ SensitiveOnce /\ PermitsFlow

-----------------------------------------------------------------------------
(***************************************************************************)
(* The cookies of an HTTP session (network/src/cookies.rs).  A host is the    *)
(* sequence of its labels, or an address, which has none below it.  A path is  *)
(* the sequence of its segments, the last of them "" if it ends with a slash.  *)
(***************************************************************************)

CONSTANTS CookieHosts, AddressHosts, \* the hosts, and those that are addresses
          DomainAttributes,          \* what a response names as Domain; <<>> is none
          UrlPaths, PathAttributes,  \* <<>> is none
          MaxStores, MaxAge          \* bounds on responses, and on time

ASSUME CookieAssumption == AddressHosts \subseteq CookieHosts /\ MaxStores \in Nat /\ MaxAge \in Nat \ {0}

Never == MaxAge + 2
NoHeader == [host |-> <<>>, scheme |-> "", cookies |-> <<>>]

VARIABLES jar,       \* the entries
          sequence,  \* the number of the next one
          stored,    \* responses so far
          jarTime,
          header     \* the request that has just been made
jarVars == <<jar, sequence, stored, jarTime, header>>

JarInit == jar = {} /\ sequence = 0 /\ stored = 0 /\ jarTime = 0 /\ header = NoHeader

(* The last two labels; there is no list of public suffixes.                 *)
JarKey(host) == IF host \in AddressHosts \/ Len(host) <= 2 THEN host ELSE SubSeq(host, Len(host) - 1, Len(host))
DefaultPath(path) == IF Len(path) <= 1 THEN <<"">> ELSE Front(path)
PathCovers(path, url) ==
  IF Last(path) = "" THEN Len(url) >= Len(path) /\ IsPrefix(Front(path), url) ELSE IsPrefix(path, url)
(* A host may name itself and what it is below, an address only itself.      *)
MayName(host, domain) == domain = <<>> \/ IF host \in AddressHosts THEN domain = host ELSE IsSuffix(domain, host)
HostOnly(host, domain) == domain = <<>> \/ host \in AddressHosts

SameKey(c, d) == c.jar = d.jar /\ c.domain = d.domain /\ c.path = d.path /\ c.name = d.name
Entry(host, path, domain, attribute, secure, expires) ==
  [jar |-> JarKey(host), domain |-> IF domain = <<>> THEN host ELSE domain,
   path |-> IF attribute = <<>> THEN DefaultPath(path) ELSE attribute, name |-> "id",
   hostOnly |-> HostOnly(host, domain), secure |-> secure, expires |-> expires, sequence |-> sequence, setBy |-> host]
(* One Set-Cookie header.  An entry that is set again keeps its number, and one *)
(* that has expired goes.                                                   *)
Store ==
  /\ stored < MaxStores
  /\ \E host \in CookieHosts, path \in UrlPaths, domain \in DomainAttributes, attribute \in PathAttributes,
        secure \in BOOLEAN, expires \in {jarTime, jarTime + 1, Never} :
       LET entry == Entry(host, path, domain, attribute, secure, expires)
           old == {c \in jar : SameKey(c, entry)}
       IN IF ~MayName(host, domain) THEN UNCHANGED <<jar, sequence>>
          ELSE IF expires <= jarTime THEN jar' = jar \ old /\ UNCHANGED sequence
          ELSE IF old = {} THEN jar' = jar \cup {entry} /\ sequence' = sequence + 1
          ELSE /\ jar' = (jar \ old) \cup {[entry EXCEPT !.sequence = (CHOOSE c \in old : TRUE).sequence]}
               /\ UNCHANGED sequence
  /\ stored' = stored + 1
  /\ header' = NoHeader
  /\ UNCHANGED jarTime

Live == {c \in jar : c.expires > jarTime}
GoesTo(c, host, path, scheme) ==
  /\ c.jar = JarKey(host)
  /\ ~c.secure \/ scheme = "https"
  /\ host = c.domain \/ (~c.hostOnly /\ IsSuffix(c.domain, host))
  /\ PathCovers(c.path, path)
(* Of two paths that cover a URL the later one in the order of bytes is the   *)
(* longer one.                                                              *)
Before(c, d) == IF c.path = d.path THEN c.sequence < d.sequence ELSE PathCovers(d.path, c.path)
MakeHeader ==
  /\ \E host \in CookieHosts, path \in UrlPaths, scheme \in {"http", "https"} :
       \E cookies \in SetToSeqs({c \in Live : GoesTo(c, host, path, scheme)}) :
         /\ \A m, n \in DOMAIN cookies : m < n => ~Before(cookies[n], cookies[m])
         /\ header' = [host |-> host, scheme |-> scheme, cookies |-> cookies]
  /\ jar' = Live
  /\ UNCHANGED <<sequence, stored, jarTime>>
ClearJar ==
  /\ jar # {} /\ jar' = {} /\ header' = NoHeader
  /\ UNCHANGED <<sequence, stored, jarTime>>
JarTick ==
  /\ jarTime < MaxAge /\ jarTime' = jarTime + 1 /\ header' = NoHeader
  /\ UNCHANGED <<jar, sequence, stored>>

JarNext == Store \/ MakeHeader \/ ClearJar \/ JarTick
JarSpec == JarInit /\ [][JarNext]_jarVars
----------------------------------------------------------------------------
(* A request carries only cookies of its own site, although a host may name   *)
(* even a public suffix as their domain: host-only ones of the very host, the  *)
(* others of a host with the same last two labels; each once, the more specific *)
(* first and, of equal ones, the older (CookieJar::header).                    *)
CookiesOwn ==
  \A n \in DOMAIN header.cookies :
    LET c == header.cookies[n] IN
    /\ JarKey(c.setBy) = JarKey(header.host) /\ (c.hostOnly => c.setBy = header.host)
    /\ c.secure => header.scheme = "https"
    /\ \A m \in n + 1 .. Len(header.cookies) :
         LET d == header.cookies[m] IN
         ~SameKey(c, d) /\ (c.path = d.path => c.sequence < d.sequence) /\ (PathCovers(c.path, d.path) => c.path = d.path)

-----------------------------------------------------------------------------
(***************************************************************************)
(* How the HTTP client finds the addresses of a host (network/src/dns.rs):    *)
(* the system's resolver, and DNS over HTTPS when that fails, whose answers    *)
(* and failures are kept for a while for all pools of connections.            *)
(***************************************************************************)

CONSTANTS Resolvers,  \* threads that open a connection
          Zones,      \* host -> its addresses [a, aaaa], sets of "public" and "private"
          Upstreams,  \* the number of servers that are asked
          MaxCached,  \* entries of the cache
          MaxSeconds, MaxResolves   \* bounds on time and on lookups

ASSUME DnsAssumption == {Upstreams, MaxCached, MaxSeconds, MaxResolves} \subseteq Nat \ {0}

ZoneHosts == DOMAIN Zones
Lifetime == 2       \* of an answer, in the model's time: at least a minute, at most half an hour
FailureLifetime == 1

VARIABLES dnsCache,    \* the entries
          dnsTime,
          resolver,    \* thread -> its lookup
          broken,      \* hosts whose lookup over HTTPS has failed
          resolves
dnsVars == <<dnsCache, dnsTime, resolver, broken, resolves>>

NoResolve == [pc |-> "idle", host |-> CHOOSE h \in ZoneHosts : TRUE, private |-> FALSE, upstream |-> 0, kind |-> "a",
              addresses |-> {}, outcome |-> ""]
DnsInit ==
  /\ dnsCache = {} /\ dnsTime = 0 /\ broken = {} /\ resolves = 0
  /\ resolver = [t \in Resolvers |-> NoResolve]
Resolves(t, record) == resolver' = [resolver EXCEPT ![t] = record]
Doing(t, pc) == resolver[t].pc = pc

(* The addresses the pool may use, whoever has found them.                   *)
MayUse(t, addresses) == {a \in addresses : a = "public" \/ resolver[t].private}
Settled(t, addresses) ==
  [resolver[t] EXCEPT !.pc = "done", !.addresses = MayUse(t, addresses),
                      !.outcome = IF MayUse(t, addresses) = {} THEN "denied" ELSE "found"]
Unresolved(t) == [resolver[t] EXCEPT !.pc = "done", !.addresses = {}, !.outcome = "failed"]

StartResolve(t) ==
  /\ resolver[t].pc \in {"idle", "done"} /\ resolves < MaxResolves
  /\ \E host \in ZoneHosts, private \in BOOLEAN :
       Resolves(t, [NoResolve EXCEPT !.pc = "system", !.host = host, !.private = private])
  /\ resolves' = resolves + 1
  /\ UNCHANGED <<dnsCache, dnsTime, broken>>
SystemLookup(t) ==
  /\ Doing(t, "system")
  /\ LET zone == Zones[resolver[t].host] IN
     \/ Resolves(t, Settled(t, zone.a \cup zone.aaaa))
     \/ Resolves(t, [resolver[t] EXCEPT !.pc = "cache"])
  /\ UNCHANGED <<dnsCache, dnsTime, broken, resolves>>
Fresh(entry) == dnsTime < entry.expires
LookInCache(t) ==
  /\ Doing(t, "cache")
  /\ LET hit == {e \in dnsCache : e.host = resolver[t].host /\ Fresh(e)} IN
     Resolves(t, IF hit = {} THEN [resolver[t] EXCEPT !.pc = "query", !.upstream = 1]
                 ELSE LET e == CHOOSE e \in hit : TRUE
                      IN IF e.addresses = {} THEN Unresolved(t) ELSE Settled(t, e.addresses))
  /\ UNCHANGED <<dnsCache, dnsTime, broken, resolves>>
(* Each server is asked for A and, if it has none, for AAAA, until one has an  *)
(* address.                                                                 *)
QueryUpstream(t) ==
  /\ Doing(t, "query")
  /\ LET r == resolver[t]
         Next == IF r.upstream < Upstreams THEN [r EXCEPT !.upstream = @ + 1, !.kind = "a"] ELSE [r EXCEPT !.pc = "insert"]
         answer == IF r.kind = "a" THEN Zones[r.host].a ELSE Zones[r.host].aaaa
     IN \/ Resolves(t, Next)   \* it fails
        \/ Resolves(t, IF answer # {} THEN [r EXCEPT !.pc = "insert", !.addresses = answer]
                       ELSE IF r.kind = "a" THEN [r EXCEPT !.kind = "aaaa"] ELSE Next)
  /\ UNCHANGED <<dnsCache, dnsTime, broken, resolves>>
(* A full cache loses what has expired, or else everything.                  *)
Evicted ==
  LET fresh == {e \in dnsCache : Fresh(e)}
  IN IF Cardinality(dnsCache) < MaxCached THEN dnsCache ELSE IF Cardinality(fresh) < MaxCached THEN fresh ELSE {}
(* The cache is shared by pools with different policies.                     *)
Kept(t) == resolver[t].addresses
InsertAnswer(t) ==
  /\ Doing(t, "insert")
  /\ LET r == resolver[t] found == r.addresses # {} IN
     /\ dnsCache' = {e \in Evicted : e.host # r.host}
                    \cup {[host |-> r.host, addresses |-> Kept(t),
                           expires |-> dnsTime + IF found THEN Lifetime ELSE FailureLifetime]}
     /\ broken' = IF found THEN broken ELSE broken \cup {r.host}
     /\ Resolves(t, IF found THEN Settled(t, r.addresses) ELSE Unresolved(t))
  /\ UNCHANGED <<dnsTime, resolves>>
SecondPasses ==
  /\ dnsTime < MaxSeconds
  /\ dnsTime' = dnsTime + 1
  /\ UNCHANGED <<dnsCache, resolver, broken, resolves>>

DnsNext ==
  \/ \E t \in Resolvers : StartResolve(t) \/ SystemLookup(t) \/ LookInCache(t) \/ QueryUpstream(t) \/ InsertAnswer(t)
  \/ SecondPasses
DnsSpec == DnsInit /\ [][DnsNext]_dnsVars
----------------------------------------------------------------------------
(* A pool that may not use private addresses gets none, whichever pool the      *)
(* answer was cached for; one that may use them gets what the DNS has, and no   *)
(* failure unless a lookup has failed; the cache keeps its bound (resolve,       *)
(* fallback).                                                              *)
ResolvedSound ==
  /\ \A t \in Resolvers : Doing(t, "done") =>
       LET r == resolver[t] zone == Zones[r.host] IN
       /\ "private" \in r.addresses => r.private
       /\ r.outcome = "found" => r.addresses # {} /\ r.addresses \subseteq zone.a \cup zone.aaaa
       /\ r.outcome = "denied" => ~r.private \/ zone.a \cup zone.aaaa = {}
       /\ r.outcome = "failed" => r.host \in broken
  /\ Cardinality(dnsCache) <= MaxCached
(* What a request over the network may use: its permits and its policy, its    *)
(* cookies, and the addresses of its host (execute_stream, CookieJar::header,   *)
(* Dns::resolve).                                                            *)
NetworkSound == RequestsKeepPolicy /\ CookiesOwn /\ ResolvedSound
=============================================================================
