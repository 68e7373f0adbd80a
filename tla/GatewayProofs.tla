---------------------------- MODULE GatewayProofs ----------------------------
(***************************************************************************)
(* Theorems about Gateway, for any number of requests, keys, processes,    *)
(* staff, proxies and failures of Redis and the database.                  *)
(***************************************************************************)
EXTENDS Gateway, SequenceTheorems, TLAPS

-----------------------------------------------------------------------------
(***************************************************************************)
(* The client's address.                                                   *)
(***************************************************************************)

\* The entry that the first of n proxies added is the n-th from the right, whatever
\* the client had sent.
LEMMA FirstProxysEntry ==
  ASSUME NEW n \in Nat, n # 0, NEW forged \in Forgeries,
         NEW entry \in Nets \X Hosts \union {Garbage}, NEW chain,
         chain = forged \o <<entry>> \o [i \in 1..(n - 1) |-> <<Proxy, i>>]
  PROVE  Len(chain) >= n /\ chain[Len(chain) - n + 1] = entry
<1> DEFINE Any == (Nets \union {Proxy}) \X (Hosts \union Nat) \union {Garbage}
           proxies == [i \in 1..(n - 1) |-> <<Proxy, i>>]
<1>1. forged \in Seq(Any) /\ Len(forged) \in Nat
  <2>1. CASE forged = <<>>
    BY <2>1
  <2>2. CASE forged = <<Garbage>>
    BY <2>2
  <2>3. ASSUME NEW a \in (Nets \union {Proxy}) \X Hosts, forged = <<a>>
        PROVE  forged \in Seq(Any) /\ Len(forged) \in Nat
    <3>1. a \in Any
      OBVIOUS
    <3> QED
      BY <2>3, <3>1
  <2> QED
    BY <2>1, <2>2, <2>3 DEF Forgeries
<1>2. <<entry>> \in Seq(Any) /\ Len(<<entry>>) = 1 /\ <<entry>>[1] = entry
  BY DEF Any
<1>3. proxies \in Seq(Any) /\ Len(proxies) = n - 1
  OBVIOUS
<1>4. chain = (forged \o <<entry>>) \o proxies
  OBVIOUS
<1> HIDE DEF Any, proxies
<1>5. PICK h : h = forged \o <<entry>>
  OBVIOUS
<1>6. h \in Seq(Any) /\ Len(h) = Len(forged) + 1 /\ h[Len(forged) + 1] = entry
  BY <1>1, <1>2, <1>5, ConcatProperties
<1>7. Len(chain) = Len(forged) + n /\ chain[Len(forged) + 1] = entry
  <2>1. chain = h \o proxies
    BY <1>4, <1>5
  <2>2. /\ Len(h \o proxies) = Len(h) + Len(proxies)
        /\ \A i \in 1..Len(h) + Len(proxies) :
             (h \o proxies)[i] = IF i <= Len(h) THEN h[i] ELSE proxies[i - Len(h)]
    BY <1>3, <1>6, ConcatProperties
  <2>3. Len(forged) + 1 \in 1..Len(h) + Len(proxies) /\ Len(forged) + 1 <= Len(h)
    BY <1>1, <1>3, <1>6
  <2> QED
    BY <1>1, <1>3, <1>6, <2>1, <2>2, <2>3
<1>8. Len(chain) - n + 1 = Len(forged) + 1 /\ Len(chain) >= n
  BY <1>1, <1>7
<1> QED
  BY <1>7, <1>8

\* Behind any number of trusted proxies, _client_ip finds the client's own address,
\* also for a caller that is not behind them, or falls back to the last proxy's if the
\* first one adds no address.
LEMMA ClientIpIsTheClients ==
  ASSUME NEW n \in Nat, NEW client \in Nets \X Hosts, NEW forged \in Forgeries,
         NEW way \in Ways, way = "garbled" => n > 0
  PROVE  ClientIp(n, Forwarded(n, client, forged, way), Remote(n, client, way)) =
           IF edge = "names" THEN client[1] ELSE Proxy
<1>0. /\ edge = "names" => way \in {"proxied", "direct"}
      /\ edge # "names" => way = "garbled"
  BY DEF Ways
<1>1. client # Garbage
  BY GatewayAssumption
<1>2. CASE n = 0
  BY <1>0, <1>2 DEF ClientIp, Remote, BucketAddress
<1>3. CASE n # 0 /\ way = "direct"
  <2>1. Forwarded(n, client, forged, way) = <<>> /\ Remote(n, client, way) = client
    BY <1>3 DEF Forwarded, Remote
  <2>2. Len(<<>>) = 0 /\ ~ (0 >= n)
    BY <1>3
  <2> QED
    BY <1>0, <1>3, <2>1, <2>2 DEF ClientIp, BucketAddress
<1>4. CASE n # 0 /\ way # "direct"
  <2>1. PICK entry \in Nets \X Hosts \union {Garbage} :
          entry = IF way = "garbled" THEN Garbage ELSE client
    OBVIOUS
  <2>2. PICK chain : /\ chain = Forwarded(n, client, forged, way)
                     /\ chain = forged \o <<entry>> \o [i \in 1..(n - 1) |-> <<Proxy, i>>]
    BY <1>4, <2>1 DEF Forwarded
  <2>3. Len(chain) >= n /\ chain[Len(chain) - n + 1] = entry
    BY <1>4, <2>2, FirstProxysEntry
  <2>4. Remote(n, client, way) = <<Proxy, n>> /\ n > 0
    BY <1>4 DEF Remote
  <2>5. CASE way = "garbled"
    <3>1. entry = Garbage /\ edge # "names"
      BY <1>0, <2>1, <2>5
    <3>2. ClientIp(n, chain, <<Proxy, n>>) = Proxy
      BY <2>3, <3>1 DEF ClientIp, BucketAddress
    <3> QED
      BY <2>2, <2>4, <3>1, <3>2
  <2>6. CASE way # "garbled"
    <3>1. entry = client /\ edge = "names"
      BY <1>0, <2>1, <2>6
    <3>2. ClientIp(n, chain, <<Proxy, n>>) = client[1]
      BY <1>1, <2>3, <2>4, <3>1 DEF ClientIp, BucketAddress
    <3> QED
      BY <2>2, <2>4, <3>1, <3>2
  <2> QED
    BY <2>5, <2>6
<1> QED
  BY <1>2, <1>3, <1>4

-----------------------------------------------------------------------------
(***************************************************************************)
(* The inductive invariant.                                                *)
(***************************************************************************)
Revocation == [pc : {"save"}, key : Keys] \union {New, [pc |-> "done"]}

Shape ==
  /\ keys \in [Keys -> {"absent", "active", "revoked"}]
  /\ revoke \in [Staff -> Revocation]
  /\ req \in [Requests -> Request \union {New}]
  /\ sha \subseteq Processes
  /\ faults \in 0..MaxFaults
  /\ enabled \in BOOLEAN /\ script \in BOOLEAN /\ redis \in BOOLEAN /\ db \in BOOLEAN

\* The limiter has not decided yet; and it is at work with Redis.
Limiting == {"derive", "eval", "reload", "again"}
AtScript == {"eval", "reload", "again"}

\* Tokens taken: until the limiter has its answer, only those of lost answers.
Tokens(x) ==
  /\ x.lost <= faults
  /\ Len(x.charged) <= 1 + x.lost
  /\ x.pc \in Limiting => Len(x.charged) <= x.lost

\* A key revoked before the request came stays so and is not what was looked up.
Excluded(x) ==
  /\ x.memo \subseteq {x.key, NoKey}
  /\ x.late => keys[x.key] = "revoked" /\ x.key \notin x.memo
  /\ x.code = 202 => ~ x.late

\* The bucket is the key's if the secret was right, else the client's address;
\* every token came from it, and it is fixed before the first one is taken.
Owed(x) ==
  /\ x.ip = IF edge = "names" THEN x.from ELSE Proxy
  /\ x.pc \in AtScript => x.bucket \in Bucket
  /\ x.bucket # New =>
       /\ x.bucket.of = "key" => x.header = "right" /\ x.key = x.bucket.id
       /\ x.bucket.of # "key" => x.bucket.id = x.ip /\ (x.path = "/login" \/ x.memo = {NoKey})
  /\ \A i \in DOMAIN x.charged : x.charged[i] = x.bucket
  /\ x.pc = "derive" => x.charged = <<>>
  /\ x.charged # <<>> => x.bucket # New
  /\ x.pc \in {"derive", "auth"} => x.path = "/api"
  /\ x.code = 202 => x.path = "/api" /\ x.memo # {NoKey}

\* Who is past the limiter without a token has met a failure of Redis; who has
\* loaded the script again and met none will find it there.
Rated(x) ==
  /\ ~ redis => x.trouble
  /\ x.pc = "again" /\ ~ x.trouble => script
  /\ x.pc \in Limiting \union {"auth", "view"} => x.code = 0
  /\ x.pc \in {"ready", "ping"} => x.path = "/health/ready"
  /\ /\ enabled
     /\ x.path \in {"/api", "/login"}
     /\ x.pc \notin Limiting
     /\ x.code \notin {429, 500}
     /\ x.charged = <<>>
     => x.trouble

Sound(x) == Tokens(x) /\ Excluded(x) /\ Owed(x) /\ Rated(x)

AllSound == \A r \in Requests : req[r] # New => Sound(req[r])

Inv == Shape /\ AllSound

LEMMA RequestKinds ==
  ASSUME NEW x \in Request \union {New}
  PROVE  /\ x.pc = "new" <=> x = New
         /\ x \in Request <=> x # New
  BY DEF Request, New

LEMMA RequestFields ==
  ASSUME NEW x \in Request
  PROVE  /\ x.charged \in Seq(Bucket) /\ Len(x.charged) \in Nat
         /\ x.lost \in Nat /\ x.lost \in 0..MaxFaults /\ x.key \in Keys /\ x.bucket \in Bucket \union {New}
         /\ x.trouble \in BOOLEAN /\ x.late \in BOOLEAN
         /\ DOMAIN x.charged = 1..Len(x.charged)
         /\ x.memo \subseteq Keys \union {NoKey}
  BY GatewayAssumption, LenProperties DEF Request

\* A step of one request leaves the others sound.
LEMMA StaysSound ==
  ASSUME Shape, Shape', NEW x \in Request, Sound(x),
         keys' = keys, enabled' = enabled, edge' = edge, redis' = redis, faults <= faults',
         script => script'
  PROVE  Sound(x)'
<1>1. faults \in Nat /\ faults' \in Nat /\ x.lost \in Nat
  BY RequestFields, GatewayAssumption DEF Shape
<1>2. Tokens(x)'
  BY <1>1 DEF Sound, Tokens
<1>3. Excluded(x)' /\ Owed(x)' /\ Rated(x)'
  BY DEF Sound, Excluded, Owed, Rated
<1> QED
  BY <1>2, <1>3 DEF Sound

LEMMA RequestMoves ==
  ASSUME Inv, NEW r \in Requests, NEW z \in Request,
         req' = [req EXCEPT ![r] = z], Sound(z)',
         UNCHANGED <<keys, revoke, enabled, edge, redis, db>>,
         sha' \subseteq Processes, script' \in BOOLEAN, script => script',
         faults' \in 0..MaxFaults, faults <= faults'
  PROVE  Inv'
<1>1. Shape'
  BY DEF Inv, Shape
<1>2. ASSUME NEW q \in Requests, req'[q] # New PROVE Sound(req[q])'
  <2>1. CASE q = r
    <3>1. req'[q] = z
      BY <2>1 DEF Inv, Shape
    <3> QED
      BY <3>1 DEF Sound, Tokens, Excluded, Owed, Rated
  <2>2. CASE q # r
    <3>1. PICK x \in Request : x = req[q] /\ x = req'[q]
      BY <1>2, <2>2, RequestKinds DEF Inv, Shape
    <3>2. Sound(x)
      BY <1>2, <3>1 DEF Inv, AllSound
    <3>3. Sound(x)'
      BY <1>1, <3>2, StaysSound DEF Inv
    <3> QED
      BY <3>1, <3>3 DEF Sound, Tokens, Excluded, Owed, Rated
  <2> QED
    BY <2>1, <2>2
<1> QED
  BY <1>1, <1>2 DEF Inv, AllSound

\* The same for a step that touches nothing but its request.
LEMMA RequestOnly ==
  ASSUME Inv, NEW r \in Requests, NEW z \in Request,
         req' = [req EXCEPT ![r] = z], Sound(z),
         UNCHANGED <<keys, revoke, enabled, edge, sha, serverVars>>
  PROVE  Inv'
<1>1. Sound(z)'
  BY DEF Sound, Tokens, Excluded, Owed, Rated, serverVars
<1>2. sha' \subseteq Processes /\ script' \in BOOLEAN /\ faults' \in 0..MaxFaults
      /\ faults <= faults'
  BY GatewayAssumption DEF Inv, Shape, serverVars
<1> QED
  BY <1>1, <1>2, RequestMoves DEF serverVars

-----------------------------------------------------------------------------
(***************************************************************************)
(* Steps of one request.                                                   *)
(***************************************************************************)
PCs == {"ready", "ping", "derive", "eval", "reload", "again", "auth", "view", "done"}
Codes == {0, 200, 202, 401, 403, 429, 500, 503}

Refusals == {429, 500}
Finals == Codes \ {0, 202}

LEMMA RequestIs ==
  Request =
    [pc : PCs, path : Paths, header : Header, key : Keys, process : Processes,
     from : Nets, ip : Nets \union {Proxy}, memo : SUBSET (Keys \union {NoKey}),
     bucket : Bucket \union {New}, charged : Seq(Bucket), code : Codes,
     late : BOOLEAN, trouble : BOOLEAN, lost : 0..MaxFaults]
  BY DEF Request, PCs, Codes

\* Only the place and the code differ.
Moved(x, z) ==
  /\ z \in Request
  /\ z.path = x.path /\ z.header = x.header /\ z.key = x.key /\ z.process = x.process
  /\ z.from = x.from /\ z.ip = x.ip /\ z.memo = x.memo /\ z.bucket = x.bucket
  /\ z.charged = x.charged /\ z.late = x.late /\ z.trouble = x.trouble /\ z.lost = x.lost

LEMMA GoMoves ==
  ASSUME Inv, NEW r \in Requests, req[r] # New, NEW c \in PCs, Go(r, c)
  PROVE  \E z : Moved(req[r], z) /\ z.pc = c /\ z.code = req[r].code
                /\ req' = [req EXCEPT ![r] = z]
<1>1. req[r] \in Request
  BY RequestKinds DEF Inv, Shape
<1>2. PICK z : z = [req[r] EXCEPT !.pc = c]
  OBVIOUS
<1>3. Moved(req[r], z) /\ z.pc = c /\ z.code = req[r].code
  BY <1>1, <1>2 DEF Moved, Request, PCs
<1>4. req' = [req EXCEPT ![r] = z]
  BY <1>2 DEF Go, Inv, Shape
<1> QED
  BY <1>3, <1>4

Writes(r, c, d) == req' = [req EXCEPT ![r].pc = c, ![r].code = d]

LEMMA CodeMoves ==
  ASSUME Inv, NEW r \in Requests, req[r] # New, NEW c \in PCs, NEW d \in Codes,
         Writes(r, c, d)
  PROVE  \E z : Moved(req[r], z) /\ z.pc = c /\ z.code = d
                /\ req' = [req EXCEPT ![r] = z]
<1>1. req[r] \in Request
  BY RequestKinds DEF Inv, Shape
<1>2. PICK z : z = [req[r] EXCEPT !.pc = c, !.code = d]
  OBVIOUS
<1>3. Moved(req[r], z) /\ z.pc = c /\ z.code = d
  <2>1. /\ z.pc = c /\ z.code = d
        /\ z.path = req[r].path /\ z.header = req[r].header /\ z.key = req[r].key
        /\ z.process = req[r].process /\ z.from = req[r].from /\ z.ip = req[r].ip
        /\ z.memo = req[r].memo /\ z.bucket = req[r].bucket /\ z.charged = req[r].charged
        /\ z.late = req[r].late /\ z.trouble = req[r].trouble /\ z.lost = req[r].lost
    BY <1>1, <1>2 DEF Request
  <2>2. z \in Request
    BY <1>1, <1>2, RequestIs
  <2> QED
    BY <2>1, <2>2 DEF Moved
<1>4. req' = [req EXCEPT ![r] = z]
  BY <1>2 DEF Writes, Inv, Shape
<1> QED
  BY <1>3, <1>4

\* An answer, by anyone who does not let a request past the limiter.
LEMMA AnswerMoves ==
  ASSUME Inv, NEW r \in Requests, req[r] # New, NEW d \in Finals, Answer(r, d),
         req[r].pc \in Limiting => d \in Refusals,
         req[r].pc \in Limiting \union {"auth", "view", "ping"},
         UNCHANGED <<keys, revoke, enabled, edge, sha, serverVars>>
  PROVE  Inv'
<1>1. PICK z : Moved(req[r], z) /\ z.pc = "done" /\ z.code = d /\ req' = [req EXCEPT ![r] = z]
  <2>1. Writes(r, "done", d)
    BY DEF Answer, Writes
  <2>2. "done" \in PCs /\ d \in Codes
    BY DEF PCs, Finals
  <2> QED
    BY <2>1, <2>2, CodeMoves
<1>2. PICK x \in Request : x = req[r] /\ Sound(x)
  BY RequestKinds DEF Inv, Shape, AllSound
<1>3. Tokens(z) /\ Excluded(z) /\ Owed(z)
  BY <1>1, <1>2 DEF Sound, Moved, Tokens, Excluded, Owed, Limiting, AtScript, Finals
<1>4. Rated(z)
  BY <1>1, <1>2 DEF Sound, Moved, Rated, Limiting, Finals, Refusals
<1>5. z \in Request /\ Sound(z)
  BY <1>1, <1>3, <1>4 DEF Sound, Moved
<1> QED
  BY <1>1, <1>5, RequestOnly

\* A request passes on beyond the limiter, or to its reload.
LEMMA PassMoves ==
  ASSUME Inv, NEW r \in Requests, req[r] # New, req[r].pc \in AtScript,
         NEW c \in {AfterLimit(req[r].path), "reload"}, Go(r, c),
         c = "reload" \/ req[r].trouble,
         UNCHANGED <<keys, revoke, enabled, edge, sha, serverVars>>
  PROVE  Inv'
<1>0. c \in PCs /\ c \in {"auth", "view", "reload"} /\ (c = "auth" => req[r].path = "/api")
  BY DEF AfterLimit, PCs
<1>1. PICK z : Moved(req[r], z) /\ z.pc = c /\ z.code = req[r].code
               /\ req' = [req EXCEPT ![r] = z]
  BY <1>0, GoMoves
<1>2. PICK x \in Request : x = req[r] /\ Sound(x)
  BY RequestKinds DEF Inv, Shape, AllSound
<1>3. Tokens(z) /\ Excluded(z)
  BY <1>0, <1>1, <1>2 DEF Sound, Moved, Tokens, Excluded, Limiting, AtScript
<1>4. Owed(z)
  BY <1>0, <1>1, <1>2 DEF Sound, Moved, Owed, AtScript
<1>5. Rated(z)
  BY <1>0, <1>1, <1>2 DEF Sound, Moved, Rated, Limiting, AtScript
<1>6. z \in Request /\ Sound(z)
  BY <1>1, <1>3, <1>4, <1>5 DEF Sound, Moved
<1> QED
  BY <1>1, <1>6, RequestOnly

LEMMA FirstSteps ==
  ASSUME NEW path \in Paths
  PROVE  /\ FirstStep(path) \in {"done", "ready", "eval", "derive", "auth", "view"}
         /\ path = "/health/live" => FirstStep(path) = "done"
         /\ path = "/health/ready" => FirstStep(path) = "ready"
         /\ path = "/login" => FirstStep(path) \in {"eval", "view"}
         /\ path = "/api" => FirstStep(path) \in {"derive", "auth"}
         /\ path = "/other" => FirstStep(path) = "view"
         /\ enabled /\ path = "/login" => FirstStep(path) = "eval"
         /\ enabled /\ path = "/api" => FirstStep(path) = "derive"
  BY DEF FirstStep, AfterLimit, Paths

LEMMA ArriveMoves ==
  ASSUME Inv, NEW r \in Requests, Arrive(r)
  PROVE  Inv'
<1>1. PICK path \in Paths, header \in Header, k \in Keys, p \in Processes,
           client \in Nets \X Hosts, forged \in Forgeries, n \in 0..MaxProxies, way \in Ways :
        LET ip == ClientIp(n, Forwarded(n, client, forged, way), Remote(n, client, way))
        IN /\ path # "/api" => header = "none"
           /\ way = "garbled" => n > 0
           /\ req' = [req EXCEPT ![r] =
                [pc |-> FirstStep(path), path |-> path, header |-> header, key |-> k,
                 process |-> p, from |-> client[1], ip |-> ip, memo |-> {},
                 bucket |-> IF path = "/login" THEN [of |-> "auth-ip", id |-> ip] ELSE New,
                 charged |-> <<>>, code |-> IF path = "/health/live" THEN 200 ELSE 0,
                 late |-> header = "right" /\ IsRevoked(k), trouble |-> ~ redis, lost |-> 0]]
  BY Zenon DEF Arrive
<1>2. PICK ip : ip = ClientIp(n, Forwarded(n, client, forged, way), Remote(n, client, way))
  OBVIOUS
<1>3. n \in Nat /\ client[1] \in Nets
  BY GatewayAssumption
<1>4. ip = (IF edge = "names" THEN client[1] ELSE Proxy) /\ ip \in Nets \union {Proxy}
  BY <1>1, <1>2, <1>3, ClientIpIsTheClients
<1>5. PICK b : b = IF path = "/login" THEN [of |-> "auth-ip", id |-> ip] ELSE New
  OBVIOUS
<1>6. /\ b \in Bucket \union {New}
      /\ path # "/login" => b = New
      /\ path = "/login" => b \in Bucket /\ b.of = "auth-ip" /\ b.id = ip
  BY <1>3, <1>4, <1>5 DEF Bucket
<1>7. PICK d \in Codes : d = IF path = "/health/live" THEN 200 ELSE 0
  BY DEF Codes
<1>8. PICK late \in BOOLEAN, trouble \in BOOLEAN : late = (header = "right" /\ IsRevoked(k)) /\ trouble = ~ redis
  BY DEF IsRevoked
<1>9. PICK z : z = [pc |-> FirstStep(path), path |-> path, header |-> header, key |-> k,
                    process |-> p, from |-> client[1], ip |-> ip, memo |-> {},
                    bucket |-> b, charged |-> <<>>, code |-> d,
                    late |-> late, trouble |-> trouble, lost |-> 0]
  OBVIOUS
<1>10. req' = [req EXCEPT ![r] = z]
  BY <1>1, <1>2, <1>5, <1>7, <1>8, <1>9
<1>11. z \in Request
  <2>1. FirstStep(path) \in PCs
    BY FirstSteps DEF PCs
  <2>2. <<>> \in Seq(Bucket) /\ 0 \in 0..MaxFaults
    BY GatewayAssumption
  <2> QED
    BY <1>3, <1>4, <1>6, <1>9, <2>1, <2>2, RequestIs
<1>12. /\ z.pc = FirstStep(path) /\ z.path = path /\ z.header = header /\ z.key = k
       /\ z.from = client[1] /\ z.ip = ip /\ z.memo = {} /\ z.bucket = b
       /\ z.charged = <<>> /\ z.code = d /\ z.late = late /\ z.trouble = trouble
       /\ z.lost = 0
  BY <1>9
<1>13. Tokens(z)
  BY <1>12, GatewayAssumption DEF Tokens, Inv, Shape
<1>14. d # 202 /\ (path # "/health/live" => d = 0)
  BY <1>7
<1>15. Excluded(z)
  BY <1>8, <1>12, <1>14 DEF Excluded, IsRevoked
<1>16. Owed(z)
  <2>1. z.pc \in AtScript => path = "/login"
    BY <1>12, FirstSteps DEF AtScript, Paths
  <2>2. z.pc \in {"derive", "auth"} => path = "/api"
    BY <1>12, FirstSteps DEF Paths
  <2>3. DOMAIN z.charged = {}
    BY <1>12
  <2> QED
    BY <1>4, <1>6, <1>12, <1>14, <2>1, <2>2, <2>3 DEF Owed
<1>17. Rated(z)
  <2>1. z.pc \notin {"again"}
    BY <1>12, FirstSteps
  <2>2. z.pc \in {"ready", "ping"} => path = "/health/ready"
    BY <1>12, FirstSteps DEF Paths
  <2>3. z.pc \in Limiting \union {"auth", "view"} => path # "/health/live"
    BY <1>12, FirstSteps DEF Limiting
  <2>4. enabled /\ path \in {"/api", "/login"} => z.pc \in Limiting
    BY <1>12, FirstSteps DEF Limiting
  <2> QED
    BY <1>8, <1>12, <1>14, <2>1, <2>2, <2>3, <2>4 DEF Rated
<1> QED
  BY <1>10, <1>11, <1>13, <1>15, <1>16, <1>17, RequestOnly DEF Arrive, Sound

\* The place of a request that has one.
LEMMA At ==
  ASSUME Inv, NEW r \in Requests, req[r].pc # "new"
  PROVE  req[r] # New /\ req[r] \in Request /\ Sound(req[r])
  BY RequestKinds DEF Inv, Shape, AllSound

LEMMA ReadyMoves ==
  ASSUME Inv, NEW r \in Requests, ReadyDb(r) \/ ReadyRedis(r) \/ View(r)
  PROVE  Inv'
<1>0. UNCHANGED <<keys, revoke, enabled, edge, sha, serverVars>>
  BY DEF ReadyDb, ReadyRedis, View
<1>1. CASE ReadyDb(r)
  <2>0. req[r].pc = "ready" /\ req[r] # New /\ req[r] \in Request /\ Sound(req[r])
    BY <1>1, At DEF ReadyDb
  <2>1. PICK d \in Codes : d = (IF db THEN 200 ELSE 503) /\ d # 202
    BY DEF Codes
  <2>2. Writes(r, "ping", d) /\ "ping" \in PCs
    BY <1>1, <2>1 DEF ReadyDb, Writes, PCs
  <2>3. PICK z : Moved(req[r], z) /\ z.pc = "ping" /\ z.code = d
                 /\ req' = [req EXCEPT ![r] = z]
    BY <2>0, <2>2, CodeMoves
  <2>4. req[r].path = "/health/ready"
    BY <2>0 DEF Sound, Rated
  <2>5. Tokens(z) /\ Excluded(z) /\ Owed(z)
    BY <2>0, <2>1, <2>3 DEF Sound, Moved, Tokens, Excluded, Owed, Limiting, AtScript
  <2>6. Rated(z)
    BY <2>0, <2>3, <2>4 DEF Sound, Moved, Rated, Limiting
  <2>7. z \in Request /\ Sound(z)
    BY <2>3, <2>5, <2>6 DEF Sound, Moved
  <2> QED
    BY <1>0, <2>3, <2>7, RequestOnly
<1>2. CASE ReadyRedis(r)
  <2>0. req[r].pc = "ping" /\ req[r] # New /\ req[r] \in Request /\ Sound(req[r])
    BY <1>2, At DEF ReadyRedis
  <2>1. PICK d \in Codes : Answer(r, d) /\ d \in {req[r].code, 503}
    <3>1. req[r].code \in Codes /\ 503 \in Codes
      BY <2>0, RequestIs DEF Codes
    <3> QED
      BY <1>2, <3>1 DEF ReadyRedis
  <2>2. Writes(r, "done", d) /\ "done" \in PCs
    BY <2>1 DEF Answer, Writes, PCs
  <2>3. PICK z : Moved(req[r], z) /\ z.pc = "done" /\ z.code = d
                 /\ req' = [req EXCEPT ![r] = z]
    BY <2>0, <2>2, CodeMoves
  <2>4. req[r].path = "/health/ready" /\ (d = 202 => req[r].code = 202)
    BY <2>0, <2>1 DEF Sound, Rated
  <2>5. Tokens(z) /\ Excluded(z) /\ Owed(z)
    BY <2>0, <2>3, <2>4 DEF Sound, Moved, Tokens, Excluded, Owed, Limiting, AtScript
  <2>6. Rated(z)
    BY <2>0, <2>3, <2>4 DEF Sound, Moved, Rated, Limiting
  <2>7. z \in Request /\ Sound(z)
    BY <2>3, <2>5, <2>6 DEF Sound, Moved
  <2> QED
    BY <1>0, <2>3, <2>7, RequestOnly
<1>3. CASE View(r)
  <2>0. req[r].pc = "view" /\ req[r] # New /\ Answer(r, 200)
    BY <1>3, At DEF View
  <2>1. 200 \in Finals /\ req[r].pc \notin Limiting
    BY <2>0 DEF Finals, Codes, Limiting
  <2> QED
    BY <1>0, <2>0, <2>1, AnswerMoves
<1> QED
  BY <1>1, <1>2, <1>3

\* The lookup for the limiter: a key revoked before is not found, and who gets
\* the key's bucket has shown its secret.
LEMMA DeriveMoves ==
  ASSUME Inv, NEW r \in Requests, Derive(r)
  PROVE  Inv'
<1>0. /\ req[r].pc = "derive" /\ req[r] # New /\ req[r] \in Request /\ Sound(req[r])
      /\ UNCHANGED <<keys, revoke, enabled, edge, sha, serverVars>>
  BY At DEF Derive
<1>1. CASE AsksDb(r) /\ ~ db
  <2>1. Answer(r, 500)
    BY <1>1 DEF Derive
  <2>2. 500 \in Finals /\ 500 \in Refusals /\ req[r].pc \in Limiting
    BY <1>0 DEF Finals, Codes, Refusals, Limiting
  <2> QED
    BY <1>0, <2>1, <2>2, AnswerMoves
<1>2. CASE ~ (AsksDb(r) /\ ~ db)
  <2>1. PICK k : k = Resolve(r)
    OBVIOUS
  <2>2. /\ k \in {req[r].key, NoKey} /\ req[r].key \in Keys /\ NoKey \notin Keys
        /\ k # NoKey => req[r].header = "right" /\ keys[k] = "active"
    BY <1>0, <2>1, RequestFields, GatewayAssumption DEF Resolve, Verifies, Active
  <2>3. PICK b : b = BucketFor(r, k)
    OBVIOUS
  <2>4. /\ b \in Bucket
        /\ b.of = "key" => k # NoKey /\ b.id = k
        /\ b.of # "key" => k = NoKey /\ b.id = req[r].ip
    <3>1. req[r].ip \in Nets \union {Proxy}
      BY <1>0 DEF Request
    <3> QED
      BY <2>2, <2>3, <3>1 DEF BucketFor, Bucket
  <2>5. PICK z : z = [req[r] EXCEPT !.pc = "eval", !.memo = {k}, !.bucket = b]
    OBVIOUS
  <2>6. z \in Request
    <3>1. "eval" \in PCs /\ {k} \in SUBSET (Keys \union {NoKey}) /\ b \in Bucket \union {New}
      BY <2>2, <2>4 DEF PCs
    <3> QED
      BY <1>0, <2>5, <3>1, RequestIs
  <2>7. /\ z.pc = "eval" /\ z.memo = {k} /\ z.bucket = b
        /\ z.path = req[r].path /\ z.header = req[r].header /\ z.key = req[r].key
        /\ z.from = req[r].from /\ z.ip = req[r].ip /\ z.charged = req[r].charged
        /\ z.code = req[r].code /\ z.late = req[r].late /\ z.trouble = req[r].trouble
        /\ z.lost = req[r].lost
    BY <1>0, <2>5 DEF Request
  <2>8. req' = [req EXCEPT ![r] = z]
    BY <1>2, <2>1, <2>3, <2>5 DEF Derive, Inv, Shape
  <2>9. Tokens(z)
    BY <1>0, <2>7 DEF Sound, Tokens, Limiting
  <2>10. Excluded(z)
    <3>1. z.late => keys[req[r].key] = "revoked" /\ k = NoKey
      BY <1>0, <2>2, <2>7 DEF Sound, Excluded
    <3>2. req[r].code = 0
      BY <1>0 DEF Sound, Rated, Limiting
    <3> QED
      BY <2>2, <2>7, <3>1, <3>2 DEF Excluded
  <2>11. Owed(z)
    <3>1. req[r].code = 0 /\ req[r].charged = <<>>
          /\ req[r].ip = IF edge = "names" THEN req[r].from ELSE Proxy
      BY <1>0 DEF Sound, Rated, Owed, Limiting
    <3>2. DOMAIN z.charged = {}
      BY <2>7, <3>1
    <3> QED
      BY <2>2, <2>4, <2>7, <3>1, <3>2 DEF Owed
  <2>12. Rated(z)
    BY <1>0, <2>7 DEF Sound, Rated, Limiting
  <2>13. Sound(z)
    BY <2>9, <2>10, <2>11, <2>12 DEF Sound
  <2> QED
    BY <1>0, <2>6, <2>8, <2>13, RequestOnly
<1> QED
  BY <1>1, <1>2

\* One more token from the request's bucket.
LEMMA OneMore ==
  ASSUME NEW x \in Request, x.bucket \in Bucket, NEW s, s = Append(x.charged, x.bucket),
         Owed(x)
  PROVE  /\ s \in Seq(Bucket) /\ Len(s) = Len(x.charged) + 1 /\ s # <<>>
         /\ \A i \in DOMAIN s : s[i] = x.bucket
<1>1. x.charged \in Seq(Bucket) /\ Len(x.charged) \in Nat
      /\ DOMAIN x.charged = 1..Len(x.charged)
  BY RequestFields
<1>2. /\ s \in Seq(Bucket) /\ Len(s) = Len(x.charged) + 1
      /\ \A i \in 1..Len(x.charged) + 1 :
           s[i] = IF i <= Len(x.charged) THEN x.charged[i] ELSE x.bucket
  BY <1>1, AppendProperties
<1>3. DOMAIN s = 1..Len(x.charged) + 1
  BY <1>2, LenProperties
<1>4. \A i \in DOMAIN x.charged : x.charged[i] = x.bucket
  BY DEF Owed
<1>5. s # <<>>
  BY <1>1, <1>2, EmptySeq
<1> QED
  BY <1>1, <1>2, <1>3, <1>4, <1>5

\* The answer of the script arrives: a token, or 429.
LEMMA ConsumeMoves ==
  ASSUME Inv, NEW r \in Requests, Consume(r)
  PROVE  Inv'
<1>0. /\ req[r].pc \in {"eval", "again"} /\ req[r] # New /\ req[r] \in Request
      /\ Sound(req[r]) /\ UNCHANGED <<keys, revoke, enabled, edge, sha, serverVars>>
  BY At DEF Consume, Evaluating
<1>1. CASE Answer(r, 429)
  <2>1. 429 \in Finals /\ 429 \in Refusals /\ req[r].pc \in Limiting
    BY <1>0 DEF Finals, Codes, Refusals, Limiting
  <2> QED
    BY <1>0, <1>1, <2>1, AnswerMoves
<1>2. CASE ~ Answer(r, 429)
  <2>1. PICK c \in {"auth", "view"} :
          c = AfterLimit(req[r].path) /\ (c = "auth" => req[r].path = "/api")
    BY DEF AfterLimit
  <2>2. PICK s : s = Append(req[r].charged, req[r].bucket)
    OBVIOUS
  <2>3. req[r].bucket \in Bucket
    BY <1>0 DEF Sound, Owed, AtScript
  <2>4. /\ s \in Seq(Bucket) /\ Len(s) = Len(req[r].charged) + 1 /\ s # <<>>
        /\ \A i \in DOMAIN s : s[i] = req[r].bucket
    BY <1>0, <2>2, <2>3, OneMore DEF Sound
  <2>5. PICK z : z = [req[r] EXCEPT !.charged = s, !.pc = c]
    OBVIOUS
  <2>6. z \in Request
    <3>1. c \in PCs
      BY DEF PCs
    <3> QED
      BY <1>0, <2>4, <2>5, <3>1, RequestIs
  <2>7. /\ z.pc = c /\ z.charged = s
        /\ z.path = req[r].path /\ z.header = req[r].header /\ z.key = req[r].key
        /\ z.from = req[r].from /\ z.ip = req[r].ip /\ z.memo = req[r].memo
        /\ z.bucket = req[r].bucket /\ z.code = req[r].code /\ z.late = req[r].late
        /\ z.trouble = req[r].trouble /\ z.lost = req[r].lost
    BY <1>0, <2>5 DEF Request
  <2>8. req' = [req EXCEPT ![r] = z]
    BY <1>2, <2>1, <2>2, <2>5 DEF Consume, AfterGrant, Inv, Shape
  <2>9. Tokens(z)
    <3>1. Len(req[r].charged) <= req[r].lost /\ req[r].lost <= faults
      BY <1>0 DEF Sound, Tokens, Limiting
    <3>2. Len(req[r].charged) \in Nat /\ req[r].lost \in Nat
      BY <1>0, RequestFields
    <3> QED
      BY <2>4, <2>7, <3>1, <3>2 DEF Tokens, Limiting
  <2>10. Excluded(z)
    BY <1>0, <2>7 DEF Sound, Excluded
  <2>11. Owed(z)
    <3>1. req[r].bucket # New
      BY <2>3 DEF Bucket, New
    <3>2. req[r].code = 0
      BY <1>0 DEF Sound, Rated, Limiting
    <3> QED
      BY <1>0, <2>1, <2>4, <2>7, <3>1, <3>2 DEF Sound, Owed, AtScript
  <2>12. Rated(z)
    BY <1>0, <2>4, <2>7 DEF Sound, Rated, Limiting
  <2>13. Sound(z)
    BY <2>9, <2>10, <2>11, <2>12 DEF Sound
  <2> QED
    BY <1>0, <2>6, <2>8, <2>13, RequestOnly
<1> QED
  BY <1>1, <1>2

\* The script is missing, or Redis is not there.
LEMMA ErrorMoves ==
  ASSUME Inv, NEW r \in Requests, ScriptMissing(r) \/ RedisUnreachable(r)
  PROVE  Inv'
<1>0. /\ req[r].pc \in AtScript /\ req[r] # New /\ req[r] \in Request /\ Sound(req[r])
      /\ UNCHANGED <<keys, revoke, enabled, edge, sha, serverVars>>
  BY At DEF ScriptMissing, RedisUnreachable, Evaluating, AtScript
<1>1. PICK c \in {AfterLimit(req[r].path), "reload"} :
        Go(r, c) /\ (c = "reload" \/ req[r].trouble)
  <2>1. CASE ScriptMissing(r)
    <3>1. req[r].pc = "again" => req[r].trouble
      BY <1>0, <2>1 DEF ScriptMissing, Sound, Rated
    <3> QED
      BY <2>1, <3>1 DEF ScriptMissing, AfterError, Evaluating
  <2>2. CASE RedisUnreachable(r)
    <3>1. req[r].trouble
      BY <1>0, <2>2 DEF RedisUnreachable, Sound, Rated
    <3> QED
      BY <2>2, <3>1 DEF RedisUnreachable, AfterError
  <2> QED
    BY <2>1, <2>2
<1> QED
  BY <1>0, <1>1, PassMoves

\* SCRIPT LOAD: from here on Redis has the script.
LEMMA LoadMoves ==
  ASSUME Inv, NEW r \in Requests, LoadScript(r)
  PROVE  Inv'
<1>0. /\ req[r].pc \in {"eval", "reload"} /\ req[r] # New /\ req[r] \in Request
      /\ Sound(req[r])
  BY At DEF LoadScript
<1>1. /\ UNCHANGED <<keys, revoke, enabled, edge, redis, db>> /\ script' = TRUE
      /\ sha' \subseteq Processes /\ script' \in BOOLEAN
      /\ faults' \in 0..MaxFaults /\ faults <= faults' /\ faults' = faults
  <2>1. req[r].process \in Processes
    BY <1>0 DEF Request
  <2> QED
    BY <2>1, GatewayAssumption DEF LoadScript, Inv, Shape
<1>2. PICK z \in Request :
        /\ req' = [req EXCEPT ![r] = z]
        /\ z.pc \in AtScript /\ z.code = req[r].code
        /\ Moved(req[r], z)
  <2>1. CASE Go(r, "again")
    <3>1. "again" \in PCs
      BY DEF PCs
    <3> QED
      BY <1>0, <2>1, <3>1, GoMoves DEF Moved, AtScript
  <2>2. CASE ~ Go(r, "again")
    <3>1. req' = req /\ req[r].pc = "eval"
      BY <2>2 DEF LoadScript
    <3>2. req' = [req EXCEPT ![r] = req[r]]
      BY <3>1 DEF Inv, Shape
    <3> QED
      BY <1>0, <3>1, <3>2 DEF Moved, AtScript
  <2> QED
    BY <2>1, <2>2
<1>3. Tokens(z)' /\ Excluded(z)'
  BY <1>0, <1>1, <1>2 DEF Sound, Moved, Tokens, Excluded, Limiting, AtScript
<1>4. Owed(z)'
  BY <1>0, <1>1, <1>2 DEF Sound, Moved, Owed, AtScript
<1>5. Rated(z)'
  BY <1>0, <1>1, <1>2 DEF Sound, Moved, Rated, Limiting, AtScript
<1>6. Sound(z)'
  BY <1>3, <1>4, <1>5 DEF Sound
<1> QED
  BY <1>1, <1>2, <1>6, RequestMoves

\* Authentication uses what the limiter had looked up, or looks it up itself.
LEMMA AuthenticateMoves ==
  ASSUME Inv, NEW r \in Requests, Authenticate(r)
  PROVE  Inv'
<1>0. /\ req[r].pc = "auth" /\ req[r] # New /\ req[r] \in Request /\ Sound(req[r])
      /\ UNCHANGED <<keys, revoke, enabled, edge, sha, serverVars>>
      /\ req[r].pc \notin Limiting
  BY At DEF Authenticate, Limiting
<1>1. PICK k : k = IF req[r].memo # {} THEN CHOOSE m \in req[r].memo : TRUE ELSE Resolve(r)
  OBVIOUS
<1>2. PICK d : Answer(r, d) /\ (d \in {401, 403, 500} \/ (d = 202 /\ k # NoKey))
  BY <1>1 DEF Authenticate
<1>3. CASE d \in {401, 403, 500}
  <2>1. d \in Finals
    BY <1>3 DEF Finals, Codes
  <2> QED
    BY <1>0, <1>2, <2>1, AnswerMoves
<1>4. CASE d = 202 /\ k # NoKey
  <2>1. d \in Codes /\ "done" \in PCs /\ Writes(r, "done", d)
    BY <1>2, <1>4 DEF Codes, PCs, Answer, Writes
  <2>2. PICK z : Moved(req[r], z) /\ z.pc = "done" /\ z.code = d
                 /\ req' = [req EXCEPT ![r] = z]
    BY <1>0, <2>1, CodeMoves
  <2>3. req[r].memo # {NoKey} /\ ~ req[r].late
    <3>1. CASE req[r].memo = {}
      <4>1. k = Resolve(r)
        BY <1>1, <3>1
      <4>2. keys[req[r].key] = "active"
        BY <1>4, <4>1 DEF Resolve, Active
      <4>3. keys[req[r].key] # "revoked"
        BY <4>2
      <4> QED
        BY <1>0, <3>1, <4>3 DEF Sound, Excluded
    <3>2. CASE req[r].memo # {}
      <4>1. k \in req[r].memo
        BY <1>1, <3>2
      <4> QED
        BY <1>0, <1>4, <4>1 DEF Sound, Excluded
    <3> QED
      BY <3>1, <3>2
  <2>4. Tokens(z) /\ Excluded(z)
    BY <1>0, <2>2, <2>3 DEF Sound, Moved, Tokens, Excluded, Limiting
  <2>5. Owed(z)
    BY <1>0, <2>2, <2>3 DEF Sound, Moved, Owed, AtScript
  <2>6. Rated(z)
    BY <1>0, <1>4, <2>2 DEF Sound, Moved, Rated, Limiting
  <2>7. z \in Request /\ Sound(z)
    BY <2>2, <2>4, <2>5, <2>6 DEF Sound, Moved
  <2> QED
    BY <1>0, <2>2, <2>7, RequestOnly
<1> QED
  BY <1>2, <1>3, <1>4

\* An answer is lost: the script may have taken a token, the client library may
\* have to ask again.
LEMMA ReplyLostMoves ==
  ASSUME Inv, NEW r \in Requests, ReplyLost(r)
  PROVE  Inv'
<1>0. /\ req[r].pc \in {"eval", "again"} /\ req[r] # New /\ req[r] \in Request
      /\ Sound(req[r])
      /\ UNCHANGED <<keys, revoke, enabled, edge, sha, script, redis, db>>
  BY At DEF ReplyLost, Evaluating
<1>1. /\ faults \in Nat /\ MaxFaults \in Nat /\ faults < MaxFaults /\ faults' = faults + 1
      /\ req[r].lost \in Nat /\ req[r].lost <= faults
  BY <1>0, RequestFields, GatewayAssumption DEF ReplyLost, Fault, Inv, Shape, Sound, Tokens
<1>2. PICK taken \in {<<>>, <<req[r].bucket>>}, c \in {req[r].pc, AfterError(r, FALSE)} :
        req' = [req EXCEPT ![r].pc = c, ![r].trouble = TRUE, ![r].lost = @ + 1,
                           ![r].charged = @ \o taken]
  BY DEF ReplyLost
<1>3. c \in {"eval", "again", "auth", "view"} /\ (c = "auth" => req[r].path = "/api")
  BY <1>0 DEF AfterError, AfterLimit
<1>4. req[r].bucket \in Bucket /\ req[r].charged \in Seq(Bucket)
  BY <1>0, RequestFields DEF Sound, Owed, AtScript
<1>5. PICK s : s = req[r].charged \o taken
  OBVIOUS
<1>6. /\ s \in Seq(Bucket) /\ Len(s) \in Nat /\ Len(s) <= Len(req[r].charged) + 1
      /\ \A i \in DOMAIN s : s[i] = req[r].bucket
  <2>1. CASE taken = <<>>
    <3>1. s = req[r].charged
      BY <1>4, <1>5, <2>1, ConcatEmptySeq
    <3>2. Len(req[r].charged) \in Nat
      BY <1>0, RequestFields
    <3> QED
      BY <1>0, <1>4, <3>1, <3>2 DEF Sound, Owed
  <2>2. CASE taken = <<req[r].bucket>>
    <3>1. s = Append(req[r].charged, req[r].bucket)
      BY <1>4, <1>5, <2>2, AppendIsConcat
    <3>2. Len(req[r].charged) \in Nat
      BY <1>0, RequestFields
    <3>3. /\ s \in Seq(Bucket) /\ Len(s) = Len(req[r].charged) + 1
          /\ \A i \in DOMAIN s : s[i] = req[r].bucket
      BY <1>0, <1>4, <3>1, OneMore DEF Sound
    <3> QED
      BY <3>2, <3>3
  <2> QED
    BY <2>1, <2>2
<1>7. PICK l \in 0..MaxFaults : l = req[r].lost + 1
  BY <1>1
<1>8. PICK z : z = [req[r] EXCEPT !.pc = c, !.trouble = TRUE, !.lost = l, !.charged = s]
  OBVIOUS
<1>9. z \in Request
  <2>1. c \in PCs
    BY <1>3 DEF PCs
  <2> QED
    BY <1>0, <1>6, <1>8, <2>1, RequestIs
<1>10. /\ z.pc = c /\ z.trouble = TRUE /\ z.lost = l /\ z.charged = s
       /\ z.path = req[r].path /\ z.header = req[r].header /\ z.key = req[r].key
       /\ z.from = req[r].from /\ z.ip = req[r].ip /\ z.memo = req[r].memo
       /\ z.bucket = req[r].bucket /\ z.code = req[r].code /\ z.late = req[r].late
  BY <1>0, <1>8 DEF Request
<1>11. req' = [req EXCEPT ![r] = z]
  BY <1>2, <1>5, <1>7, <1>8 DEF Inv, Shape
<1>12. Tokens(z)'
  <2>1. Len(req[r].charged) <= req[r].lost /\ Len(req[r].charged) \in Nat
    BY <1>0, RequestFields DEF Sound, Tokens, Limiting
  <2>2. Len(s) <= l /\ l <= faults'
    BY <1>1, <1>6, <1>7, <2>1
  <2> QED
    BY <1>6, <1>10, <2>2 DEF Tokens
<1>13. Excluded(z)'
  BY <1>0, <1>10 DEF Sound, Excluded
<1>14. Owed(z)'
  <2>1. req[r].bucket # New
    BY <1>4 DEF Bucket, New
  <2>2. req[r].code = 0
    BY <1>0 DEF Sound, Rated, Limiting
  <2> QED
    BY <1>0, <1>3, <1>4, <1>6, <1>10, <2>1, <2>2 DEF Sound, Owed
<1>15. Rated(z)'
  BY <1>0, <1>3, <1>10 DEF Sound, Rated, Limiting
<1>16. Sound(z)'
  BY <1>12, <1>13, <1>14, <1>15 DEF Sound
<1>17. faults' \in 0..MaxFaults /\ faults <= faults' /\ sha' \subseteq Processes
       /\ script' \in BOOLEAN
  BY <1>0, <1>1 DEF Inv, Shape
<1> QED
  BY <1>0, <1>9, <1>11, <1>16, <1>17, RequestMoves

-----------------------------------------------------------------------------
(***************************************************************************)
(* Steps of everyone else.                                                 *)
(***************************************************************************)

\* Redis stops, comes back or forgets its scripts: every request has met it.
LEMMA TroubleMoves ==
  ASSUME Inv, RedisStops \/ RedisStarts \/ ScriptFlush
  PROVE  Inv'
<1>0. /\ UNCHANGED <<keys, revoke, enabled, edge, sha, db>> /\ req' = Troubled
      /\ redis' \in BOOLEAN /\ script' \in BOOLEAN
      /\ faults' \in 0..MaxFaults /\ faults <= faults' /\ faults \in Nat /\ faults' \in Nat
  <2>1. UNCHANGED <<keys, revoke, enabled, edge, sha, db>> /\ req' = Troubled
    BY DEF RedisStops, RedisStarts, ScriptFlush
  <2>2. redis' \in BOOLEAN /\ script' \in BOOLEAN
    BY DEF RedisStops, RedisStarts, ScriptFlush, Inv, Shape
  <2>3. faults' = faults \/ (faults < MaxFaults /\ faults' = faults + 1)
    BY DEF RedisStops, RedisStarts, ScriptFlush, Fault
  <2>4. faults \in 0..MaxFaults /\ MaxFaults \in Nat
    BY GatewayAssumption DEF Inv, Shape
  <2>5. /\ faults' \in 0..MaxFaults /\ faults <= faults'
        /\ faults \in Nat /\ faults' \in Nat
    BY <2>3, <2>4
  <2> QED
    BY <2>1, <2>2, <2>5
<1>1. ASSUME NEW r \in Requests
      PROVE  /\ req'[r] \in Request \union {New}
             /\ req'[r] # New => Sound(req[r])'
  <2>1. CASE req[r] = New
    <3>1. req'[r] = New
      BY <1>0, <2>1 DEF Troubled
    <3> QED
      BY <3>1
  <2>2. CASE req[r] # New
    <3>1. PICK x \in Request : x = req[r] /\ Sound(x)
      BY <2>2, RequestKinds DEF Inv, Shape, AllSound
    <3>2. PICK z : z = [x EXCEPT !.trouble = TRUE]
      OBVIOUS
    <3>3. req'[r] = z
      BY <1>0, <2>2, <3>1, <3>2 DEF Troubled
    <3>4. z \in Request
      BY <3>1, <3>2, RequestIs
    <3>5. /\ z.trouble = TRUE /\ z.pc = x.pc /\ z.lost = x.lost /\ z.charged = x.charged
          /\ z.path = x.path /\ z.header = x.header /\ z.key = x.key
          /\ z.from = x.from /\ z.ip = x.ip /\ z.memo = x.memo
          /\ z.bucket = x.bucket /\ z.code = x.code /\ z.late = x.late
      BY <3>1, <3>2 DEF Request
    <3>6. x.lost \in Nat
      BY RequestFields
    <3>7. Tokens(z)'
      BY <1>0, <3>1, <3>5, <3>6 DEF Sound, Tokens
    <3>8. Excluded(z)' /\ Owed(z)'
      BY <1>0, <3>1, <3>5 DEF Sound, Excluded, Owed
    <3>9. Rated(z)'
      BY <1>0, <3>1, <3>5 DEF Sound, Rated
    <3>10. Sound(req[r])'
      BY <3>3, <3>7, <3>8, <3>9 DEF Sound, Tokens, Excluded, Owed, Rated
    <3> QED
      BY <3>3, <3>4, <3>10
  <2> QED
    BY <2>1, <2>2
<1>2. req' \in [Requests -> Request \union {New}]
  BY <1>0, <1>1 DEF Troubled
<1>3. Shape'
  BY <1>0, <1>2 DEF Inv, Shape
<1> QED
  BY <1>1, <1>3 DEF Inv, AllSound

\* Keys are made and revoked, the database stops and starts: no request moves,
\* and no revoked key comes back.
LEMMA OthersMove ==
  ASSUME Inv, Shape', UNCHANGED <<req, enabled, edge, script, redis>>, faults <= faults',
         \A k \in Keys : keys[k] = "revoked" => keys'[k] = "revoked"
  PROVE  Inv'
<1>1. ASSUME NEW r \in Requests, req'[r] # New PROVE Sound(req[r])'
  <2>1. PICK x \in Request : x = req[r] /\ Sound(x) /\ x = req'[r]
    BY <1>1, RequestKinds DEF Inv, Shape, AllSound
  <2>2. x.lost \in Nat /\ x.key \in Keys /\ faults \in Nat /\ faults' \in Nat
    BY RequestFields, GatewayAssumption DEF Inv, Shape
  <2>3. Tokens(x)'
    BY <2>1, <2>2 DEF Sound, Tokens
  <2>4. Excluded(x)' /\ Owed(x)' /\ Rated(x)'
    BY <2>1, <2>2 DEF Sound, Excluded, Owed, Rated
  <2> QED
    BY <2>1, <2>3, <2>4 DEF Sound, Tokens, Excluded, Owed, Rated
<1> QED
  BY <1>1 DEF Inv, AllSound

LEMMA KeyMoves ==
  ASSUME Inv,
         \/ \E k \in Keys : CreateKey(k) \/ \E s \in Staff : RevokeLook(s, k)
         \/ \E s \in Staff : RevokeSave(s)
         \/ DbStops \/ DbStarts
  PROVE  Inv'
<1>0. UNCHANGED <<req, enabled, edge, script, redis, sha>>
  BY DEF CreateKey, RevokeLook, RevokeSave, DbStops, DbStarts, serverVars
<1>1. faults' \in 0..MaxFaults /\ faults <= faults' /\ db' \in BOOLEAN
  <2>1. faults' = faults \/ (faults < MaxFaults /\ faults' = faults + 1)
    BY DEF CreateKey, RevokeLook, RevokeSave, DbStops, DbStarts, Fault, serverVars
  <2>2. faults \in 0..MaxFaults /\ MaxFaults \in Nat
    BY GatewayAssumption DEF Inv, Shape
  <2>3. db' \in BOOLEAN
    BY DEF CreateKey, RevokeLook, RevokeSave, DbStops, DbStarts, serverVars, Inv, Shape
  <2>4. faults' \in 0..MaxFaults /\ faults <= faults'
    BY <2>1, <2>2
  <2> QED
    BY <2>3, <2>4
<1>2. /\ keys' \in [Keys -> {"absent", "active", "revoked"}]
      /\ \A k \in Keys : keys[k] = "revoked" => keys'[k] = "revoked"
  BY DEF CreateKey, RevokeLook, RevokeSave, DbStops, DbStarts, Inv, Shape
<1>3. revoke' \in [Staff -> Revocation]
  BY DEF CreateKey, RevokeLook, RevokeSave, DbStops, DbStarts, Inv, Shape, Revocation
<1>4. Shape'
  BY <1>0, <1>1, <1>2, <1>3 DEF Inv, Shape
<1> QED
  BY <1>0, <1>1, <1>2, <1>4, OthersMove

LEMMA InvInit == Init => Inv
<1> SUFFICES ASSUME Init PROVE Inv
  OBVIOUS
<1>1. Shape
  <2>1. faults \in 0..MaxFaults
    BY GatewayAssumption DEF Init
  <2>2. /\ keys \in [Keys -> {"absent", "active", "revoked"}]
        /\ revoke \in [Staff -> Revocation]
        /\ req \in [Requests -> Request \union {New}]
    BY DEF Init, Revocation
  <2>3. enabled \in BOOLEAN /\ script \in BOOLEAN /\ redis \in BOOLEAN /\ db \in BOOLEAN
    BY DEF Init
  <2>4. sha \subseteq Processes
    BY DEF Init
  <2> QED
    BY <2>1, <2>2, <2>3, <2>4 DEF Shape
<1>2. AllSound
  BY DEF Init, AllSound
<1> QED
  BY <1>1, <1>2 DEF Inv

LEMMA InvStep == Inv /\ [Next]_vars => Inv'
<1> SUFFICES ASSUME Inv, [Next]_vars PROVE Inv'
  OBVIOUS
<1>1. ASSUME NEW r \in Requests, Arrive(r) \/ Handle(r) \/ ReplyLost(r) PROVE Inv'
  BY <1>1, ArriveMoves, ReadyMoves, DeriveMoves, LoadMoves, ConsumeMoves, ErrorMoves,
     AuthenticateMoves, ReplyLostMoves DEF Handle
<1>2. CASE UNCHANGED vars
  BY <1>2 DEF vars, serverVars, Inv, Shape, AllSound, Sound, Tokens, Excluded, Owed, Rated
<1> QED
  BY <1>1, <1>2, KeyMoves, TroubleMoves DEF Next

LEMMA AlwaysInv == Spec => []Inv
  BY InvInit, InvStep, PTL DEF Spec

-----------------------------------------------------------------------------
(***************************************************************************)
(* Theorems.                                                               *)
(***************************************************************************)

\* Keys, requests and revocations hold values of their fields; tokens are only
\* taken from buckets that belong to a key or to a client.
THEOREM TypeCorrect == Spec => []TypeOK
<1>1. Inv => TypeOK
  BY DEF Inv, Shape, TypeOK, Revocation
<1> QED
  BY <1>1, AlwaysInv, PTL

\* A request that arrives after a key's revocation was committed is never handled
\* as that key, although limiter and authentication share a lookup that is made
\* once: the row it reads stays revoked.
THEOREM RevokedStaysOutHolds == Spec => []RevokedStaysOut
<1>1. Inv => RevokedStaysOut
  <2> SUFFICES ASSUME Inv, NEW r \in Requests, Done(r), req[r].code = 202
               PROVE  ~ req[r].late
    BY DEF RevokedStaysOut
  <2>1. Sound(req[r])
    BY At DEF Done
  <2> QED
    BY <2>1 DEF Sound, Excluded
<1> QED
  BY <1>1, AlwaysInv, PTL

\* A request takes one token and one more for each answer of Redis that was lost,
\* although consume may call the script twice.
THEOREM OneTokenHolds == Spec => []OneToken
<1>1. Inv => OneToken
  BY DEF Inv, AllSound, Sound, Tokens, OneToken
<1> QED
  BY <1>1, AlwaysInv, PTL

\* A token of a key is taken only for its secret, a token of an address only from
\* the client's own, for any number of proxies and whatever the client sent as
\* X-Forwarded-For (or the last proxy's, if the first names no client); a request handled as a key was charged to no address.
THEOREM ChargedToItsOwnerHolds == Spec => []ChargedToItsOwner
<1>1. Inv => ChargedToItsOwner
  <2> SUFFICES ASSUME Inv, NEW r \in Requests, req[r] # New,
                      NEW i \in DOMAIN req[r].charged
               PROVE  LET b == req[r].charged[i]
                      IN /\ b.of = "key" => req[r].header = "right" /\ req[r].key = b.id
                         /\ b.of # "key" =>
                              /\ b.id = IF edge = "names" THEN req[r].from ELSE Proxy
                              /\ req[r].code # 202
    BY DEF ChargedToItsOwner
  <2>1. Owed(req[r])
    BY DEF Inv, AllSound, Sound
  <2>2. req[r].charged # <<>>
    OBVIOUS
  <2>3. req[r].charged[i] = req[r].bucket /\ req[r].bucket # New
    BY <2>1, <2>2 DEF Owed
  <2> QED
    BY <2>1, <2>3 DEF Owed
<1> QED
  BY <1>1, AlwaysInv, PTL

\* Only a failure of Redis while the request runs lets one pass unlimited; a
\* script that was lost earlier is loaded again and then found.
THEOREM UnlimitedOnlyInTroubleHolds == Spec => []UnlimitedOnlyInTrouble
<1>1. Inv => UnlimitedOnlyInTrouble
  <2> SUFFICES ASSUME Inv, NEW r \in Requests, Done(r), enabled,
                      req[r].path \in {"/api", "/login"}, req[r].code \notin {429, 500},
                      req[r].charged = <<>>
               PROVE  req[r].trouble
    BY DEF UnlimitedOnlyInTrouble
  <2>1. Sound(req[r]) /\ req[r].pc \notin Limiting
    BY At DEF Done, Limiting
  <2> QED
    BY <2>1 DEF Sound, Rated
<1> QED
  BY <1>1, AlwaysInv, PTL
=============================================================================
