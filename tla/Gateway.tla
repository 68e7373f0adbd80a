------------------------------- MODULE Gateway -------------------------------
(***************************************************************************)
(* The way of a request to its view: health probes, the rate limiter with  *)
(* its Redis script, the API key lookup it shares with authentication, and *)
(* the staff who make and revoke keys meanwhile.  Every call to Redis and  *)
(* every database statement is one step; Redis and the database may be     *)
(* unreachable at any of them.  How many tokens a bucket has is the        *)
(* subject of TokenBucket: here the script grants or denies at will.       *)
(***************************************************************************)
EXTENDS Naturals, Sequences

CONSTANTS
  Requests,
  Keys,        \* API keys by their public id
  Staff,       \* revoke requests
  Processes,   \* API processes, each with its own TokenBucket object
  Nets,        \* IPv4 addresses and IPv6 /64 networks
  Hosts,       \* interface parts of an address
  Proxy,       \* the network of the trusted proxies
  Garbage,     \* an X-Forwarded-For entry that is no address
  NoKey,       \* resolve_api_key returned None
  MaxProxies,  \* bound: NUM_PROXIES of the deployment
  MaxFaults    \* bound: outages, lost scripts and lost replies

ASSUME GatewayAssumption ==
  /\ NoKey \notin Keys
  /\ Proxy \notin Nets
  /\ Garbage \notin (Nets \union {Proxy}) \X Hosts
  /\ MaxProxies \in Nat
  /\ MaxFaults \in Nat

VARIABLES
  keys,      \* the row of each key
  revoke,    \* where each revoke request is
  req,       \* where each request is
  enabled,   \* RATE_LIMIT_ENABLED
  edge,      \* does the first proxy add the client's address, or no address?
  sha,       \* processes that know the script's hash
  script,    \* does Redis hold the script?
  redis,     \* is Redis reachable?
  db,        \* is the database?
  faults     \* failures so far

serverVars == <<script, redis, db, faults>>
vars == <<keys, revoke, req, enabled, edge, sha, serverVars>>

-----------------------------------------------------------------------------
\* X-API-Key: absent, of another shape, or a key id with its own secret or not.
Header == {"none", "malformed", "wrong", "right"}

Bucket == [of : {"key"}, id : Keys] \union [of : {"ip", "auth-ip"}, id : Nets \union {Proxy}]

\* /login: the paths of _AUTH_PATHS; /api: POST /api/v1/messages/.
Paths == {"/health/live", "/health/ready", "/login", "/api", "/other"}

New == [pc |-> "new"]

Request ==
  [pc : {"ready", "ping", "derive", "eval", "reload", "again", "auth", "view", "done"},
   path : Paths,
   header : Header, key : Keys, process : Processes,
   from : Nets,                    \* the client's network
   ip : Nets \union {Proxy},       \* the one the limiter takes it for
   memo : SUBSET (Keys \union {NoKey}), \* _notify_api_key, once it is set
   bucket : Bucket \union {New},
   charged : Seq(Bucket),          \* history: tokens taken
   code : {0, 200, 202, 401, 403, 429, 500, 503},
   late : BOOLEAN,                 \* history: did it come with a revoked key?
   trouble : BOOLEAN,              \* history: did Redis fail it in any way?
   lost : 0..MaxFaults]            \* history: answers of Redis that were lost

\* Keys, requests and revocations hold values of their fields; tokens are only
\* taken from buckets that belong to a key or to a client.
TypeOK ==
  /\ keys \in [Keys -> {"absent", "active", "revoked"}]
  /\ revoke \in [Staff -> [pc : {"save"}, key : Keys] \union {New, [pc |-> "done"]}]
  /\ \A r \in Requests : req[r] \in Request \union {New}
  /\ sha \subseteq Processes
  /\ faults \in 0..MaxFaults

Init ==
  /\ keys = [k \in Keys |-> "absent"]
  /\ revoke = [s \in Staff |-> New]
  /\ req = [r \in Requests |-> New]
  /\ enabled \in BOOLEAN
  /\ edge \in {"names", "garbles"}
  /\ ~ enabled => edge = "names"     \* nobody looks
  /\ sha = {}
  /\ script = FALSE
  /\ redis = TRUE
  /\ db = TRUE
  /\ faults = 0

-----------------------------------------------------------------------------
(***************************************************************************)
(* RateLimitMiddleware._derive and the key lookup.                         *)
(***************************************************************************)
BucketAddress(a) == a[1]

\* Mutant: the leftmost entry is the client.
ClientIpLeftmost(n, chain, remote) ==
  IF n > 0 /\ Len(chain) >= n /\ chain[1] # Garbage THEN BucketAddress(chain[1])
  ELSE BucketAddress(remote)

\* The n-th entry of X-Forwarded-For from the right, if it is there and is an
\* address; the peer's address otherwise.
ClientIp(n, chain, remote) ==
  LET i == Len(chain) - n + 1
  IN IF n > 0 /\ Len(chain) >= n /\ chain[i] # Garbage THEN BucketAddress(chain[i])
     ELSE BucketAddress(remote)

\* How a request comes: past the proxies, each of which adds the address it was
\* reached from; past a first one that adds something else, "unknown" or an address
\* with a port; or from inside the proxies' network, straight and without the header.
Ways == IF edge = "names" THEN {"proxied", "direct"} ELSE {"garbled"}

\* The client may have sent an entry of its own.
Forgeries == {<<>>, <<Garbage>>} \union {<<a>> : a \in (Nets \union {Proxy}) \X Hosts}
Forwarded(n, client, forged, way) ==
  IF n = 0 THEN forged
  ELSE IF way = "direct" THEN <<>>
  ELSE forged \o <<IF way = "garbled" THEN Garbage ELSE client>>
              \o [i \in 1..(n - 1) |-> <<Proxy, i>>]
Remote(n, client, way) == IF n = 0 \/ way = "direct" THEN client ELSE <<Proxy, n>>

Active(k)    == keys[k] = "active"
IsRevoked(k) == keys[k] = "revoked"
Verifies(r)  == req[r].header = "right"

\* Mutant: a revoked key is found.
ResolveRevoked(r) ==
  IF Verifies(r) /\ keys[req[r].key] # "absent" THEN req[r].key ELSE NoKey

\* The active key with that id, if the secret's hash is the stored one.
Resolve(r) ==
  IF Verifies(r) /\ Active(req[r].key) THEN req[r].key ELSE NoKey

AsksDb(r) == req[r].header \in {"wrong", "right"}

\* Mutant: without the branch for requests that have no key.
BucketForAny(r, k) == [of |-> "key", id |-> k]
BucketFor(r, k) ==
  IF k # NoKey THEN [of |-> "key", id |-> k] ELSE [of |-> "ip", id |-> req[r].ip]

-----------------------------------------------------------------------------
(***************************************************************************)
(* A request.                                                              *)
(***************************************************************************)
Go(r, pc) == req' = [req EXCEPT ![r].pc = pc]
Answer(r, code) == req' = [req EXCEPT ![r].pc = "done", ![r].code = code]

AfterLimit(path) == IF path = "/api" THEN "auth" ELSE "view"

\* HealthProbeMiddleware comes first; only login and API paths are limited.
FirstStep(path) ==
  CASE path = "/health/live" -> "done"
    [] path = "/health/ready" -> "ready"
    [] path = "/login" /\ enabled -> "eval"
    [] path = "/api" /\ enabled -> "derive"
    [] OTHER -> AfterLimit(path)

Arrive(r) ==
  /\ req[r] = New
  /\ \E path \in Paths, header \in Header, k \in Keys, p \in Processes,
        client \in Nets \X Hosts, forged \in Forgeries, n \in 0..MaxProxies, way \in Ways :
       LET ip == ClientIp(n, Forwarded(n, client, forged, way), Remote(n, client, way))
       IN /\ path # "/api" => header = "none"
          /\ way = "garbled" => n > 0
          /\ req' = [req EXCEPT ![r] =
               [pc |-> FirstStep(path), path |-> path, header |-> header, key |-> k,
                process |-> p, from |-> client[1], ip |-> ip, memo |-> {},
                bucket |-> IF path = "/login" THEN [of |-> "auth-ip", id |-> ip] ELSE New,
                charged |-> <<>>, code |-> IF path = "/health/live" THEN 200 ELSE 0,
                late |-> header = "right" /\ IsRevoked(k), trouble |-> ~ redis, lost |-> 0]]
  /\ UNCHANGED <<keys, revoke, enabled, edge, sha, serverVars>>

\* _check_db, then _check_redis: 503 if either fails.
ReadyDb(r) ==
  /\ req[r].pc = "ready"
  /\ req' = [req EXCEPT ![r].pc = "ping", ![r].code = IF db THEN 200 ELSE 503]
  /\ UNCHANGED <<keys, revoke, enabled, edge, sha, serverVars>>

ReadyRedis(r) ==
  /\ req[r].pc = "ping"
  /\ Answer(r, IF redis THEN req[r].code ELSE 503)
  /\ UNCHANGED <<keys, revoke, enabled, edge, sha, serverVars>>

\* The lookup is memoised and names the bucket; its failure is nobody's to catch.
Derive(r) ==
  /\ req[r].pc = "derive"
  /\ IF AsksDb(r) /\ ~ db THEN Answer(r, 500)
     ELSE req' = [req EXCEPT ![r].pc = "eval", ![r].memo = {Resolve(r)},
                             ![r].bucket = BucketFor(r, Resolve(r))]
  /\ UNCHANGED <<keys, revoke, enabled, edge, sha, serverVars>>

\* SCRIPT LOAD: at a process' first use, and after a NoScriptError.
LoadScript(r) ==
  /\ \/ req[r].pc = "eval" /\ req[r].process \notin sha /\ UNCHANGED req
     \/ req[r].pc = "reload" /\ Go(r, "again")
  /\ redis
  /\ script' = TRUE
  /\ sha' = sha \union {req[r].process}
  /\ UNCHANGED <<keys, revoke, enabled, edge, redis, db, faults>>

Evaluating(r) == req[r].pc \in {"eval", "again"} /\ req[r].process \in sha /\ redis

\* Mutant: the second call is made whether the first one failed or not.
AfterGrantAgain(r) == IF req[r].pc = "eval" THEN "again" ELSE AfterLimit(req[r].path)
AfterGrant(r) == AfterLimit(req[r].path)

\* EVALSHA takes a token or denies one, and the answer arrives.
Consume(r) ==
  /\ Evaluating(r)
  /\ script
  /\ \/ req' = [req EXCEPT ![r].charged = Append(@, req[r].bucket),
                           ![r].pc = AfterGrant(r)]
     \/ Answer(r, 429)
  /\ UNCHANGED <<keys, revoke, enabled, edge, sha, serverVars>>

\* Mutants: NoScriptError is an error like any other; an error is not caught but
\* waited out.
AfterErrorNoReload(r, noScript) == AfterLimit(req[r].path)
AfterErrorWaiting(r, noScript) ==
  IF noScript /\ req[r].pc = "eval" THEN "reload" ELSE req[r].pc

\* A first NoScriptError leads to one more try; every other RedisError, and the
\* second one, lets the request through.
AfterError(r, noScript) ==
  IF noScript /\ req[r].pc = "eval" THEN "reload" ELSE AfterLimit(req[r].path)

ScriptMissing(r) ==
  /\ Evaluating(r)
  /\ ~ script
  /\ Go(r, AfterError(r, TRUE))
  /\ UNCHANGED <<keys, revoke, enabled, edge, sha, serverVars>>

RedisUnreachable(r) ==
  /\ req[r].pc \in {"eval", "reload", "again"}
  /\ ~ redis
  /\ Go(r, AfterError(r, FALSE))
  /\ UNCHANGED <<keys, revoke, enabled, edge, sha, serverVars>>

\* ApiKeyAuthentication with the memo, and MessageViewSet.create: only a key may
\* send.  Without the header it is up to the token or the session.  202 stands for
\* the call of create_message with that key.
Authenticate(r) ==
  LET k == IF req[r].memo # {} THEN CHOOSE m \in req[r].memo : TRUE ELSE Resolve(r)
  IN /\ req[r].pc = "auth"
     /\ CASE req[r].header = "none" -> \E code \in {401, 403} : Answer(r, code)
          [] req[r].memo = {} /\ AsksDb(r) /\ ~ db -> Answer(r, 500)
          [] OTHER -> Answer(r, IF k = NoKey THEN 401 ELSE 202)
     /\ UNCHANGED <<keys, revoke, enabled, edge, sha, serverVars>>

View(r) ==
  /\ req[r].pc = "view"
  /\ Answer(r, 200)
  /\ UNCHANGED <<keys, revoke, enabled, edge, sha, serverVars>>

Handle(r) ==
  \/ ReadyDb(r) \/ ReadyRedis(r)
  \/ Derive(r)
  \/ LoadScript(r) \/ Consume(r) \/ ScriptMissing(r) \/ RedisUnreachable(r)
  \/ Authenticate(r) \/ View(r)

-----------------------------------------------------------------------------
(***************************************************************************)
(* ApiKeyViewSet.                                                          *)
(***************************************************************************)
CreateKey(k) ==
  /\ db
  /\ keys[k] = "absent"
  /\ keys' = [keys EXCEPT ![k] = "active"]
  /\ UNCHANGED <<revoke, req, enabled, edge, sha, serverVars>>

\* The row is read and found revoked (409) or not.
RevokeLook(s, k) ==
  /\ db
  /\ revoke[s] = New
  /\ keys[k] # "absent"
  /\ revoke' = [revoke EXCEPT ![s] = IF IsRevoked(k) THEN [pc |-> "done"]
                                     ELSE [pc |-> "save", key |-> k]]
  /\ UNCHANGED <<keys, req, enabled, edge, sha, serverVars>>

RevokeSave(s) ==
  /\ db
  /\ revoke[s].pc = "save"
  /\ keys' = [keys EXCEPT ![revoke[s].key] = "revoked"]
  /\ revoke' = [revoke EXCEPT ![s] = [pc |-> "done"]]
  /\ UNCHANGED <<req, enabled, edge, sha, serverVars>>

-----------------------------------------------------------------------------
(***************************************************************************)
(* Failures.                                                               *)
(***************************************************************************)
Fault == faults < MaxFaults /\ faults' = faults + 1

\* Every request under way has met the failure.
Troubled == [r \in Requests |-> IF req[r] = New THEN New ELSE [req[r] EXCEPT !.trouble = TRUE]]

RedisStops ==
  /\ Fault
  /\ redis
  /\ redis' = FALSE
  /\ req' = Troubled
  /\ UNCHANGED <<keys, revoke, enabled, edge, sha, script, db>>

\* A restart keeps no scripts.
RedisStarts ==
  /\ ~ redis
  /\ redis' = TRUE
  /\ script' = FALSE
  /\ req' = Troubled
  /\ UNCHANGED <<keys, revoke, enabled, edge, sha, db, faults>>

ScriptFlush ==
  /\ Fault
  /\ redis /\ script
  /\ script' = FALSE
  /\ req' = Troubled
  /\ UNCHANGED <<keys, revoke, enabled, edge, sha, redis, db>>

\* The script ran, its answer did not arrive in time.  The client library repeats
\* the command or raises TimeoutError.
ReplyLost(r) ==
  /\ Fault
  /\ Evaluating(r)
  /\ script
  /\ \E taken \in {<<>>, <<req[r].bucket>>}, pc \in {req[r].pc, AfterError(r, FALSE)} :
       req' = [req EXCEPT ![r].pc = pc, ![r].trouble = TRUE, ![r].lost = @ + 1,
                          ![r].charged = @ \o taken]
  /\ UNCHANGED <<keys, revoke, enabled, edge, sha, script, redis, db>>

DbStops ==
  /\ Fault
  /\ db
  /\ db' = FALSE
  /\ UNCHANGED <<keys, revoke, req, enabled, edge, sha, script, redis>>

DbStarts ==
  /\ ~ db
  /\ db' = TRUE
  /\ UNCHANGED <<keys, revoke, req, enabled, edge, sha, script, redis, faults>>

Next ==
  \/ \E r \in Requests : Arrive(r) \/ Handle(r) \/ ReplyLost(r)
  \/ \E k \in Keys : CreateKey(k) \/ \E s \in Staff : RevokeLook(s, k)
  \/ \E s \in Staff : RevokeSave(s)
  \/ RedisStops \/ RedisStarts \/ ScriptFlush \/ DbStops \/ DbStarts

Spec == Init /\ [][Next]_vars

\* Handlers run; nobody has to repair Redis or the database.
FairSpec == Spec /\ \A r \in Requests : WF_vars(Handle(r))

-----------------------------------------------------------------------------
(***************************************************************************)
(* Properties.                                                             *)
(***************************************************************************)
Done(r) == req[r].pc = "done"

\* Revocation holds from its commit on: a request that arrives afterwards is
\* never handled as that key, although limiter and authentication share one
\* lookup that is not repeated (resolve_api_key).
RevokedStaysOut == \A r \in Requests : Done(r) /\ req[r].code = 202 => ~ req[r].late

\* A request takes one token, although consume may call the script twice: more
\* only as often as an answer of Redis was lost.
OneToken ==
  \A r \in Requests : req[r] # New => Len(req[r].charged) <= 1 + req[r].lost

\* A token is taken from whom the request comes from: from a key only with that
\* key's secret, before authentication has run, from an address only the
\* client's own, whatever X-Forwarded-For it sent, or the proxy's if that names no
\* client; a request handled as a key was never charged to an address (_derive,
\* _client_ip).
ChargedToItsOwner ==
  \A r \in Requests : req[r] # New =>
    \A i \in DOMAIN req[r].charged :
      LET b == req[r].charged[i]
      IN /\ b.of = "key" => req[r].header = "right" /\ req[r].key = b.id
         /\ b.of # "key" =>
              /\ b.id = IF edge = "names" THEN req[r].from ELSE Proxy
              /\ req[r].code # 202

\* Only a failure of Redis while the request runs lets one pass unlimited: a
\* script lost earlier is loaded again (consume, "re-loaded on NoScriptError").
UnlimitedOnlyInTrouble ==
  \A r \in Requests :
    /\ Done(r)
    /\ enabled
    /\ req[r].path \in {"/api", "/login"}
    /\ req[r].code \notin {429, 500}
    /\ req[r].charged = <<>>
    => req[r].trouble

\* Every request is answered, even if Redis and the database never come back.
EveryRequestAnswered == \A r \in Requests : req[r] # New ~> Done(r)
=============================================================================
