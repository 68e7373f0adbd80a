------------------------------- MODULE Accept -------------------------------
(***************************************************************************)
(* POST /api/v1/messages: MessageViewSet.create and create_message.  Each  *)
(* statement that reads or writes the database is one step; any number of  *)
(* requests run at the same time, in any number of processes, and clients  *)
(* send a request again when its answer does not reach them.               *)
(***************************************************************************)
EXTENDS Integers, FiniteSets

CONSTANTS
  Requests,     \* POSTs; a client that repeats one uses the same key and body
  Keys,         \* pairs (api_key, Idempotency-Key)
  Contents,     \* channel, recipient, context, scheduled_at and priority
  Later,        \* the contents whose scheduled_at lies ahead
  Templates,    \* template names
  MaxVersion,   \* bound: versions of a template
  MaxId,        \* bound: messages ever inserted
  MaxRetries,   \* bound: POSTs sent again
  MaxRemovals   \* bound: rows removed by retention

ASSUME AcceptAssumption ==
  /\ Later \subseteq Contents
  /\ MaxVersion \in Nat \ {0}
  /\ MaxId \in Nat
  /\ MaxRetries \in Nat
  /\ MaxRemovals \in Nat

VARIABLES
  rows,      \* the message table
  catalog,   \* number of versions of each live template, 0 if there is none
  pc,        \* where each request's handler is
  key,       \* the key of each request
  body,      \* its validated data
  resolved,  \* the template version it resolved
  answer,    \* its response, if the client has it
  stored,    \* the id of the row it inserted, 0 if none
  begun,     \* history: ids given out when its handler began
  published, \* how many tasks the API published for each id
  lastId,    \* ids given out
  retries,   \* POSTs sent again
  removals   \* rows removed

requestVars == <<pc, key, body, resolved, answer, stored, begun>>
vars == <<rows, catalog, requestVars, published, lastId, retries, removals>>

-----------------------------------------------------------------------------
\* version 0: not pinned, the latest is meant.
Body == [content : Contents, template : Templates, version : 0..MaxVersion]

Row == [id : 1..MaxId, key : Keys, content : Contents, template : Templates,
        version : 1..MaxVersion]

Codes == {202, 409, 422, 500}

NoAnswer == [none |-> TRUE]
NoBody == [none |-> TRUE]
NoKey == [none |-> TRUE]
Answer(code, id) == [code |-> code, id |-> id]

PCs == {"new", "find", "resolve", "insert", "refind", "publish", "done"}

\* Rows, handlers and answers hold values of their columns and fields.
TypeOK ==
  /\ rows \subseteq Row
  /\ catalog \in [Templates -> 0..MaxVersion]
  /\ pc \in [Requests -> PCs]
  /\ key \in [Requests -> Keys \union {NoKey}]
  /\ body \in [Requests -> Body \union {NoBody}]
  /\ resolved \in [Requests -> 0..MaxVersion]
  /\ answer \in [Requests -> [code : Codes, id : 0..MaxId] \union {NoAnswer}]
  /\ stored \in [Requests -> 0..MaxId]
  /\ begun \in [Requests -> 0..MaxId]
  /\ published \in [1..MaxId -> Nat]
  /\ lastId \in 0..MaxId
  /\ retries \in 0..MaxRetries
  /\ removals \in 0..MaxRemovals

Init ==
  /\ rows = {}
  /\ catalog \in [Templates -> {0, 1}]
  /\ pc = [r \in Requests |-> "new"]
  /\ key = [r \in Requests |-> NoKey]
  /\ body = [r \in Requests |-> NoBody]
  /\ resolved = [r \in Requests |-> 0]
  /\ answer = [r \in Requests |-> NoAnswer]
  /\ stored = [r \in Requests |-> 0]
  /\ begun = [r \in Requests |-> 0]
  /\ published = [i \in 1..MaxId |-> 0]
  /\ lastId = 0
  /\ retries = 0
  /\ removals = 0

-----------------------------------------------------------------------------
(***************************************************************************)
(* The handler.                                                            *)
(***************************************************************************)
Existing(k) == {m \in rows : m.key = k}

\* A request with a key and valid data arrives.
Post(r, k, b) ==
  /\ pc[r] = "new"
  /\ pc' = [pc EXCEPT ![r] = "find"]
  /\ key' = [key EXCEPT ![r] = k]
  /\ body' = [body EXCEPT ![r] = b]
  /\ begun' = [begun EXCEPT ![r] = lastId]
  /\ UNCHANGED <<rows, catalog, resolved, answer, stored, published, lastId,
                 retries, removals>>

Respond(r, a) ==
  /\ pc' = [pc EXCEPT ![r] = "done"]
  /\ answer' = [answer EXCEPT ![r] = a]

\* The template and its version are not compared.
PayloadMatches(m, b) == m.content = b.content

Replay(r, m) ==
  Respond(r, IF PayloadMatches(m, body[r]) THEN Answer(202, m.id) ELSE Answer(409, 0))

\* The first look for the key.
FindExisting(r) ==
  /\ pc[r] = "find"
  /\ \/ \E m \in Existing(key[r]) : Replay(r, m)
     \/ /\ Existing(key[r]) = {}
        /\ pc' = [pc EXCEPT ![r] = "resolve"]
        /\ UNCHANGED answer
  /\ UNCHANGED <<rows, catalog, key, body, resolved, stored, begun, published, lastId,
                 retries, removals>>

\* The version that _resolve_template returns; 0 stands for TemplateNotFound.
ResolveTemplate(b) ==
  IF b.version > catalog[b.template] THEN 0
  ELSE IF b.version > 0 THEN b.version ELSE catalog[b.template]

\* Mutant: a template without versions is not noticed.
FoundAlways(version) == TRUE
Found(version) == version > 0

\* Template resolved and rendered, or not found, or failing to render.
Resolve(r) ==
  /\ pc[r] = "resolve"
  /\ \/ /\ Found(ResolveTemplate(body[r]))
        /\ resolved' = [resolved EXCEPT ![r] = ResolveTemplate(body[r])]
        /\ pc' = [pc EXCEPT ![r] = "insert"]
        /\ UNCHANGED answer
     \/ /\ Respond(r, Answer(422, 0))
        /\ UNCHANGED resolved
  /\ UNCHANGED <<rows, catalog, key, body, stored, begun, published, lastId, retries,
                 removals>>

\* Mutant: no unique constraint.
KeyIsFreeAlways(k) == TRUE

\* The unique constraint on (api_key, idempotency_key).
KeyIsFree(k) == Existing(k) = {}

Insert(r) ==
  /\ pc[r] = "insert"
  /\ KeyIsFree(key[r])
  /\ lastId < MaxId
  /\ lastId' = lastId + 1
  /\ rows' = rows \union {[id |-> lastId + 1, key |-> key[r],
                           content |-> body[r].content,
                           template |-> body[r].template, version |-> resolved[r]]}
  /\ stored' = [stored EXCEPT ![r] = lastId + 1]
  /\ IF body[r].content \in Later
     THEN Respond(r, Answer(202, lastId + 1))
     ELSE pc' = [pc EXCEPT ![r] = "publish"] /\ UNCHANGED answer
  /\ UNCHANGED <<catalog, key, body, resolved, begun, published, retries, removals>>

\* Mutants: the loser of the race goes on as if the row were its own; it only tries
\* the insert once more.
InsertConflictAdopts(r) ==
  /\ pc[r] = "insert"
  /\ \E m \in Existing(key[r]) : stored' = [stored EXCEPT ![r] = m.id]
  /\ pc' = [pc EXCEPT ![r] = "publish"]
  /\ UNCHANGED <<rows, catalog, key, body, resolved, answer, begun, published, lastId,
                 retries, removals>>
InsertConflictRepeats(r) == pc[r] = "insert" /\ ~ KeyIsFree(key[r]) /\ UNCHANGED vars

\* IntegrityError: another request with the key was faster.
InsertConflict(r) ==
  /\ pc[r] = "insert"
  /\ ~ KeyIsFree(key[r])
  /\ pc' = [pc EXCEPT ![r] = "refind"]
  /\ UNCHANGED <<rows, catalog, key, body, resolved, answer, stored, begun, published,
                 lastId, retries, removals>>

\* Mutant: the loser of the race does not look again.
ExistingAgainNone(k) == {}
ExistingAgain(k) == Existing(k)

\* The second look: the winner's row, or the IntegrityError is raised again.
FindAgain(r) ==
  /\ pc[r] = "refind"
  /\ \/ \E m \in ExistingAgain(key[r]) : Replay(r, m)
     \/ ExistingAgain(key[r]) = {} /\ Respond(r, Answer(500, 0))
  /\ UNCHANGED <<rows, catalog, key, body, resolved, stored, begun, published, lastId,
                 retries, removals>>

\* _enqueue_after_commit: the task is published or the broker's error swallowed.
EnqueueAfterCommit(r) ==
  /\ pc[r] = "publish"
  /\ published' \in {published, [published EXCEPT ![stored[r]] = @ + 1]}
  /\ Respond(r, Answer(202, stored[r]))
  /\ UNCHANGED <<rows, catalog, key, body, resolved, stored, begun, lastId, retries,
                 removals>>

Handle(r) ==
  \/ FindExisting(r)
  \/ Resolve(r)
  \/ Insert(r)
  \/ InsertConflict(r)
  \/ FindAgain(r)
  \/ EnqueueAfterCommit(r)

-----------------------------------------------------------------------------
(***************************************************************************)
(* Around it.                                                              *)
(***************************************************************************)

\* The process dies, or the answer is lost: the client sends the request again.
SendAgain(r) ==
  /\ pc[r] # "new"
  /\ retries < MaxRetries
  /\ retries' = retries + 1
  /\ pc' = [pc EXCEPT ![r] = "find"]
  /\ answer' = [answer EXCEPT ![r] = NoAnswer]
  /\ resolved' = [resolved EXCEPT ![r] = 0]
  /\ stored' = [stored EXCEPT ![r] = 0]
  /\ begun' = [begun EXCEPT ![r] = lastId]
  /\ UNCHANGED <<rows, catalog, key, body, published, lastId, removals>>

Running(r) == pc[r] \notin {"new", "done"}

\* Mutant: retention looks at the status only.
OldAlways(m) == TRUE

\* created_at lies CLEANUP_AGE_DAYS back: no request lasts that long, so every
\* one that runs began after the row was there.
Old(m) == \A r \in Requests : Running(r) => m.id <= begun[r]

\* Retention deletes the row of a settled message.
Remove(m) ==
  /\ Old(m)
  /\ removals < MaxRemovals
  /\ removals' = removals + 1
  /\ rows' = rows \ {m}
  /\ UNCHANGED <<catalog, requestVars, published, lastId, retries>>

\* POST /templates adds a version; a name that is not live starts at 1.
AddVersion(t) ==
  /\ catalog[t] < MaxVersion
  /\ catalog' = [catalog EXCEPT ![t] = @ + 1]
  /\ UNCHANGED <<rows, requestVars, published, lastId, retries, removals>>

\* DELETE /templates/{name} marks it deleted.
DeleteTemplate(t) ==
  /\ catalog[t] > 0
  /\ catalog' = [catalog EXCEPT ![t] = 0]
  /\ UNCHANGED <<rows, requestVars, published, lastId, retries, removals>>

Next ==
  \/ \E r \in Requests, k \in Keys, b \in Body : Post(r, k, b)
  \/ \E r \in Requests : Handle(r) \/ SendAgain(r)
  \/ \E m \in rows : Remove(m)
  \/ \E t \in Templates : AddVersion(t) \/ DeleteTemplate(t)

Spec == Init /\ [][Next]_vars

\* Handlers run to their end; nothing else is obliged to happen.
FairSpec == Spec /\ \A r \in Requests : WF_vars(Handle(r))

-----------------------------------------------------------------------------
(***************************************************************************)
(* Properties.                                                             *)
(***************************************************************************)
Accepted(r) == answer[r] # NoAnswer /\ answer[r].code = 202

\* Repeats of one key are told the same message for as long as it is retained
\* (ADR-0001), although both may miss the first look and both may insert.
SameMessage ==
  \A r, s \in Requests :
    /\ Accepted(r)
    /\ Accepted(s)
    /\ key[r] = key[s]
    /\ \E m \in rows : m.id = answer[r].id
    /\ \E m \in rows : m.id = answer[s].id
    => answer[r].id = answer[s].id

\* The API publishes at most one task per message: only the request that
\* inserted the row does, and not again when the client repeats it.
OneTask ==
  \A i \in 1..MaxId : published[i] <= 1

\* No request ends in a server error: the loser of the insert race always finds the
\* winner's row (services.py, "A concurrent request with the same key won the insert
\* race").  Retention may remove rows, but never one that a running request
\* can have lost to.
RaceLoserIsAnswered == \A r \in Requests : answer[r] # Answer(500, 0)

\* Every request is answered.
EveryRequestAnswered ==
  \A r \in Requests : pc[r] = "find" ~> answer[r] # NoAnswer

\* README.md: "a repeat with a different payload returns 409".  A request that is
\* accepted got the template, and the version if it pinned one, it asked for.
RepeatGetsWhatItAskedFor ==
  \A r \in Requests, m \in rows :
    Accepted(r) /\ m.id = answer[r].id =>
      /\ m.template = body[r].template
      /\ body[r].version > 0 => m.version = body[r].version

\* The store the clients see: the rows by key, and a response from the moment the
\* row is committed.
StoreOf(k) ==
  IF Existing(k) = {} THEN NoAnswer
  ELSE LET m == CHOOSE m \in Existing(k) : TRUE
       IN [id |-> m.id, content |-> m.content]

AskedOf(r) ==
  IF pc[r] = "new" THEN NoAnswer ELSE [key |-> key[r], content |-> body[r].content]
ToldOf(r) == IF pc[r] = "publish" THEN Answer(202, stored[r]) ELSE answer[r]

Store == INSTANCE IdempotentStore WITH
  asked <- [r \in Requests |-> AskedOf(r)],
  store <- [k \in Keys |-> StoreOf(k)],
  answer <- [r \in Requests |-> ToldOf(r)]

\* The handler implements the promise: every request is answered as if it had
\* been handled in one step.
ImplementsStore == Store!SSpec
=============================================================================
