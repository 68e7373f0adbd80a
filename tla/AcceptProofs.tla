---------------------------- MODULE AcceptProofs ----------------------------
(***************************************************************************)
(* Theorems about Accept, for any number of concurrent requests, repeats,  *)
(* keys, contents and templates, and whatever retention removes meanwhile. *)
(***************************************************************************)
EXTENDS Accept, TLAPS

-----------------------------------------------------------------------------
(***************************************************************************)
(* Type correctness, with what a handler has at each of its points: a      *)
(* request that arrived has its key and data, one that is about to insert  *)
(* has found a version, one that is about to publish has its row's id.     *)
(***************************************************************************)
Filled ==
  \A r \in Requests :
    /\ pc[r] # "new" => key[r] \in Keys /\ body[r] \in Body
    /\ pc[r] = "insert" => resolved[r] \in 1..MaxVersion
    /\ pc[r] = "publish" => stored[r] \in 1..lastId
    /\ pc[r] # "done" => answer[r] = NoAnswer
    /\ begun[r] <= lastId

Typed == TypeOK /\ Filled

LEMMA InitTyped == Init => Typed
<1> SUFFICES ASSUME Init PROVE Typed
  OBVIOUS
<1>1. TypeOK
  <2>1. catalog \in [Templates -> 0..MaxVersion]
    BY AcceptAssumption DEF Init
  <2> QED
    BY <2>1, AcceptAssumption DEF Init, TypeOK, PCs
<1>2. Filled
  BY DEF Init, Filled
<1> QED
  BY <1>1, <1>2 DEF Typed

\* The version a lookup returns is one the template has.
LEMMA ResolvedIsVersion ==
  ASSUME TypeOK, NEW b \in Body
  PROVE  ResolveTemplate(b) \in 0..MaxVersion
<1>1. b.version \in 0..MaxVersion /\ catalog[b.template] \in 0..MaxVersion
  BY DEF TypeOK, Body
<1> QED
  BY <1>1, AcceptAssumption DEF ResolveTemplate

\* A handler that ends with an answer keeps the types if what it wrote does.
LEMMA RespondTyped ==
  ASSUME Typed, NEW r \in Requests, NEW code \in Codes, NEW i \in 0..MaxId,
         Respond(r, Answer(code, i)), pc[r] # "new",
         UNCHANGED <<key, body, resolved, begun, catalog, retries, removals>>,
         rows' \subseteq Row, published' \in [1..MaxId -> Nat],
         stored' \in [Requests -> 0..MaxId], \A q \in Requests \ {r} : stored'[q] = stored[q],
         lastId' \in 0..MaxId, lastId <= lastId'
  PROVE  Typed'
<1>0. TypeOK /\ Filled
  BY DEF Typed
<1>1. Answer(code, i) \in [code : Codes, id : 0..MaxId]
  BY DEF Answer
<1>2. /\ pc' \in [Requests -> PCs]
      /\ pc'[r] = "done"
      /\ answer' \in [Requests -> [code : Codes, id : 0..MaxId] \union {NoAnswer}]
      /\ \A q \in Requests \ {r} : pc'[q] = pc[q] /\ answer'[q] = answer[q]
  BY <1>0, <1>1 DEF TypeOK, Respond, PCs
<1>3. TypeOK'
  BY <1>0, <1>2 DEF TypeOK
<1>4. Filled'
  BY <1>0, <1>2 DEF TypeOK, Filled
<1> QED
  BY <1>3, <1>4 DEF Typed

\* Most answers write nothing else.
LEMMA AnswerTyped ==
  ASSUME Typed, NEW r \in Requests, NEW code \in Codes, NEW i \in 0..MaxId,
         Respond(r, Answer(code, i)), pc[r] # "new",
         UNCHANGED <<rows, catalog, key, body, resolved, stored, begun, published, lastId,
                     retries, removals>>
  PROVE  Typed'
<1>1. /\ rows' \subseteq Row /\ stored' \in [Requests -> 0..MaxId]
      /\ published' \in [1..MaxId -> Nat] /\ lastId' \in 0..MaxId /\ lastId <= lastId'
      /\ \A q \in Requests \ {r} : stored'[q] = stored[q]
  BY DEF Typed, TypeOK
<1> QED
  BY <1>1, RespondTyped

LEMMA ReplayTyped ==
  ASSUME Typed, NEW r \in Requests, NEW m \in rows, Replay(r, m), pc[r] # "new",
         UNCHANGED <<rows, catalog, key, body, resolved, stored, begun, published, lastId,
                     retries, removals>>
  PROVE  Typed'
<1>1. m.id \in 0..MaxId /\ 0 \in 0..MaxId
  BY AcceptAssumption DEF Typed, TypeOK, Row
<1>2. CASE Respond(r, Answer(202, m.id))
  BY <1>1, <1>2, AnswerTyped DEF Codes
<1>3. CASE Respond(r, Answer(409, 0))
  BY <1>1, <1>3, AnswerTyped DEF Codes
<1> QED
  BY <1>2, <1>3 DEF Replay

LEMMA NextTyped == Typed /\ [Next]_vars => Typed'
<1> SUFFICES ASSUME Typed, [Next]_vars PROVE Typed'
  OBVIOUS
<1> USE DEF requestVars, PCs
<1>0. TypeOK /\ Filled
  BY DEF Typed
<1> USE AcceptAssumption
<1>1. ASSUME NEW r \in Requests, NEW k \in Keys, NEW b \in Body, Post(r, k, b) PROVE Typed'
  BY <1>0, <1>1 DEF Typed, TypeOK, Filled, Post
<1>4. ASSUME NEW r \in Requests, FindExisting(r) PROVE Typed'
  <2>1. CASE \E m \in Existing(key[r]) : Replay(r, m)
    BY <1>4, <2>1, ReplayTyped DEF FindExisting, Existing
  <2>2. CASE pc' = [pc EXCEPT ![r] = "resolve"] /\ UNCHANGED answer
    BY <1>0, <1>4, <2>2 DEF Typed, TypeOK, Filled, FindExisting
  <2> QED
    BY <1>4, <2>1, <2>2 DEF FindExisting
<1>5. ASSUME NEW r \in Requests, Resolve(r) PROVE Typed'
  <2>1. CASE /\ Found(ResolveTemplate(body[r]))
             /\ resolved' = [resolved EXCEPT ![r] = ResolveTemplate(body[r])]
             /\ pc' = [pc EXCEPT ![r] = "insert"]
             /\ UNCHANGED answer
    <3>1. ResolveTemplate(body[r]) \in 1..MaxVersion
      BY <1>0, <1>5, <2>1, ResolvedIsVersion DEF Resolve, Filled, Found
    <3> QED
      BY <1>0, <1>5, <2>1, <3>1 DEF Typed, TypeOK, Filled, Resolve
  <2>2. CASE Respond(r, Answer(422, 0)) /\ UNCHANGED resolved
    BY <1>5, <2>2, AnswerTyped DEF Resolve, Codes
  <2> QED
    BY <1>5, <2>1, <2>2 DEF Resolve
<1>6. ASSUME NEW r \in Requests, Insert(r) PROVE Typed'
  <2> DEFINE m == [id |-> lastId + 1, key |-> key[r], content |-> body[r].content,
                   template |-> body[r].template, version |-> resolved[r]]
  <2>1. lastId + 1 \in 1..MaxId /\ lastId' = lastId + 1
    BY <1>0, <1>6 DEF TypeOK, Insert
  <2>2. m \in Row
    BY <1>0, <1>6, <2>1 DEF Insert, Filled, Body, Row
  <2>3. rows' \subseteq Row
    BY <1>0, <1>6, <2>2 DEF TypeOK, Insert
  <2>4. stored' = [stored EXCEPT ![r] = lastId + 1] /\ stored' \in [Requests -> 0..MaxId]
    BY <1>0, <1>6, <2>1 DEF TypeOK, Insert
  <2>5. CASE Respond(r, Answer(202, lastId + 1))
    <3>1. /\ UNCHANGED <<key, body, resolved, begun, catalog, retries, removals>>
          /\ published' \in [1..MaxId -> Nat]
          /\ \A q \in Requests \ {r} : stored'[q] = stored[q]
          /\ lastId' \in 0..MaxId /\ lastId <= lastId' /\ lastId + 1 \in 0..MaxId
          /\ pc[r] # "new"
      BY <1>0, <1>6, <2>1, <2>4 DEF TypeOK, Insert
    <3> QED
      BY <2>3, <2>4, <2>5, <3>1, RespondTyped DEF Codes
  <2>6. CASE pc' = [pc EXCEPT ![r] = "publish"] /\ UNCHANGED answer
    BY <1>0, <1>6, <2>1, <2>3, <2>4, <2>6 DEF Typed, TypeOK, Filled, Insert
  <2> QED
    BY <1>6, <2>5, <2>6 DEF Insert
<1>7. ASSUME NEW r \in Requests, InsertConflict(r) PROVE Typed'
  BY <1>0, <1>7 DEF Typed, TypeOK, Filled, InsertConflict
<1>8. ASSUME NEW r \in Requests, FindAgain(r) PROVE Typed'
  <2>1. CASE \E m \in Existing(key[r]) : Replay(r, m)
    BY <1>8, <2>1, ReplayTyped DEF FindAgain, Existing
  <2>2. CASE Respond(r, Answer(500, 0))
    BY <1>8, <2>2, AnswerTyped DEF FindAgain, Codes
  <2> QED
    BY <1>8, <2>1, <2>2 DEF FindAgain, ExistingAgain
<1>9. ASSUME NEW r \in Requests, EnqueueAfterCommit(r) PROVE Typed'
  <2>1. published' \in [1..MaxId -> Nat]
    <3>1. published \in [1..MaxId -> Nat] /\ stored[r] \in 1..MaxId
      BY <1>0, <1>9 DEF TypeOK, Filled, EnqueueAfterCommit
    <3> QED
      BY <1>9, <3>1 DEF EnqueueAfterCommit
  <2>2. /\ UNCHANGED <<key, body, resolved, begun, catalog, retries, removals>>
        /\ rows' \subseteq Row /\ stored' \in [Requests -> 0..MaxId]
        /\ \A q \in Requests \ {r} : stored'[q] = stored[q]
        /\ lastId' \in 0..MaxId /\ lastId <= lastId' /\ stored[r] \in 0..MaxId
        /\ pc[r] # "new"
    BY <1>0, <1>9 DEF TypeOK, EnqueueAfterCommit
  <2> QED
    BY <1>9, <2>1, <2>2, RespondTyped DEF EnqueueAfterCommit, Codes
<1>10. ASSUME NEW r \in Requests, SendAgain(r) PROVE Typed'
  BY <1>0, <1>10 DEF Typed, TypeOK, Filled, SendAgain
<1>11. ASSUME NEW m \in rows, Remove(m) PROVE Typed'
  <2>1. TypeOK'
    BY <1>0, <1>11 DEF TypeOK, Remove
  <2>2. Filled'
    BY <1>0, <1>11 DEF Filled, Remove
  <2> QED
    BY <2>1, <2>2 DEF Typed
<1>12. ASSUME NEW t \in Templates, AddVersion(t) \/ DeleteTemplate(t) PROVE Typed'
  <2>1. catalog' \in [Templates -> 0..MaxVersion]
    <3>1. catalog \in [Templates -> 0..MaxVersion] /\ catalog[t] \in 0..MaxVersion
      BY <1>0 DEF TypeOK
    <3>2. CASE AddVersion(t)
      <4>1. catalog[t] + 1 \in 0..MaxVersion
        BY <3>1, <3>2 DEF AddVersion
      <4> QED
        BY <3>1, <3>2, <4>1 DEF AddVersion
    <3>3. CASE DeleteTemplate(t)
      BY <3>1, <3>3 DEF DeleteTemplate
    <3> QED
      BY <1>12, <3>2, <3>3
  <2> QED
    BY <1>0, <1>12, <2>1 DEF Typed, TypeOK, Filled, AddVersion, DeleteTemplate
<1>13. CASE UNCHANGED vars
  BY <1>0, <1>13 DEF Typed, TypeOK, Filled, vars
<1> QED
  BY <1>1, <1>4, <1>5, <1>6, <1>7, <1>8, <1>9, <1>10, <1>11, <1>12, <1>13
  DEF Next, Handle

\* Rows, handlers and answers always have their types; in particular no row is
\* inserted without a version of its template (_resolve_template).
THEOREM TypeCorrect == Spec => []TypeOK
<1>1. Typed => TypeOK
  BY DEF Typed
<1> QED
  BY <1>1, InitTyped, NextTyped, PTL DEF Spec

-----------------------------------------------------------------------------
(***************************************************************************)
(* What a step may do to the rows and to the answers.                      *)
(***************************************************************************)

\* The message table: ids are given out once, and a key has one row.
RowsUnique ==
  /\ \A m \in rows : m.id <= lastId
  /\ \A m, n \in rows : m.id = n.id \/ m.key = n.key => m = n

\* A row was there, or its request has just inserted it under the next id.
LEMMA RowsCome ==
  ASSUME Typed, [Next]_vars
  PROVE  \/ \E r \in Requests, n \in Row :
              /\ Insert(r)
              /\ n.id = lastId + 1 /\ n.key = key[r] /\ n.content = body[r].content
              /\ rows' = rows \union {n}
              /\ lastId' = lastId + 1
         \/ rows' \subseteq rows /\ UNCHANGED lastId
<1>1. ASSUME NEW r \in Requests, Insert(r)
      PROVE  \E n \in Row : /\ n.id = lastId + 1 /\ n.key = key[r]
                            /\ n.content = body[r].content
                            /\ rows' = rows \union {n}
                            /\ lastId' = lastId + 1
  <2> DEFINE n == [id |-> lastId + 1, key |-> key[r], content |-> body[r].content,
                   template |-> body[r].template, version |-> resolved[r]]
  <2>1. rows' \subseteq Row
    BY NextTyped DEF Typed, TypeOK
  <2>2. n \in rows' /\ rows' = rows \union {n} /\ lastId' = lastId + 1
    BY <1>1 DEF Insert
  <2> QED
    BY <2>1, <2>2
<1> QED
  BY <1>1
  DEF Next, Handle, Post, FindExisting, Resolve, InsertConflict, FindAgain,
      EnqueueAfterCommit, SendAgain, Remove, AddVersion, DeleteTemplate, vars, requestVars

LEMMA RowsUniqueStep == Typed /\ RowsUnique /\ [Next]_vars => RowsUnique'
<1> SUFFICES ASSUME Typed, RowsUnique, [Next]_vars PROVE RowsUnique'
  OBVIOUS
<1>1. ASSUME NEW r \in Requests, NEW n \in Row, Insert(r), n.id = lastId + 1, n.key = key[r],
             rows' = rows \union {n}, lastId' = lastId + 1
      PROVE  RowsUnique'
  <2>1. \A m \in rows : m.id \in Nat /\ m.id <= lastId /\ m.key # key[r]
    BY <1>1 DEF Insert, KeyIsFree, Existing, RowsUnique, Typed, TypeOK, Row
  <2> QED
    BY <1>1, <2>1 DEF RowsUnique, Typed, TypeOK
<1>2. ASSUME rows' \subseteq rows, UNCHANGED lastId PROVE RowsUnique'
  BY <1>2 DEF RowsUnique
<1> QED
  BY <1>1, <1>2, RowsCome

-----------------------------------------------------------------------------
(***************************************************************************)
(* One message per key.                                                    *)
(***************************************************************************)

\* The id a request was told, or is about to be told, is its own key's.
Tells(r, i) ==
  \/ Accepted(r) /\ answer[r].id = i
  \/ pc[r] = "publish" /\ stored[r] = i

TellsItsKey ==
  \A r \in Requests, i \in 0..MaxId : Tells(r, i) =>
    /\ i <= lastId
    /\ \A m \in rows : m.id = i => m.key = key[r]

\* Answers and the ids of inserted rows come from four steps.
LEMMA TellsComes ==
  ASSUME Typed, [Next]_vars, NEW r \in Requests, NEW i \in 0..MaxId, Tells(r, i)'
  PROVE  \/ Tells(r, i)
         \/ \E m \in rows : m.id = i /\ m.key = key[r]
         \/ Insert(r) /\ i = lastId + 1
<1> DEFINE Goal == \/ Tells(r, i)
                   \/ \E m \in rows : m.id = i /\ m.key = key[r]
                   \/ Insert(r) /\ i = lastId + 1
<1> USE DEF requestVars
<1>0. TypeOK
  BY DEF Typed
<1>1. ASSUME pc'[r] # "publish" \/ pc'[r] = pc[r],
             answer'[r] \in {answer[r], NoAnswer}, stored'[r] = stored[r]
      PROVE  Goal
  BY <1>1 DEF Tells, Accepted
<1>2. ASSUME NEW q \in Requests, NEW code, NEW n, Respond(q, Answer(code, n)),
             UNCHANGED stored
      PROVE  Tells(r, i) \/ (r = q /\ code = 202 /\ n = i)
  <2>1. r = q => pc'[r] = "done" /\ answer'[r] = Answer(code, n)
    BY <1>0, <1>2 DEF TypeOK, Respond
  <2>2. r # q => pc'[r] = pc[r] /\ answer'[r] = answer[r]
    BY <1>0, <1>2 DEF TypeOK, Respond
  <2> QED
    BY <1>2, <2>1, <2>2 DEF Tells, Accepted, Answer
<1>3. ASSUME NEW q \in Requests, NEW m \in Existing(key[q]), Replay(q, m), UNCHANGED stored
      PROVE  Goal
  BY <1>2, <1>3 DEF Replay, Existing
<1>4. ASSUME NEW q \in Requests, FindExisting(q) \/ FindAgain(q) PROVE Goal
  <2>1. CASE \E m \in Existing(key[q]) : Replay(q, m)
    BY <1>3, <1>4, <2>1 DEF FindExisting, FindAgain
  <2>2. CASE pc' = [pc EXCEPT ![q] = "resolve"] /\ UNCHANGED <<answer, stored>>
    BY <1>0, <1>1, <2>2 DEF TypeOK
  <2>3. CASE Respond(q, Answer(500, 0)) /\ UNCHANGED stored
    BY <1>2, <2>3
  <2> QED
    BY <1>4, <2>1, <2>2, <2>3 DEF FindExisting, FindAgain, ExistingAgain
<1>5. ASSUME NEW q \in Requests, Resolve(q) PROVE Goal
  <2>1. CASE pc' = [pc EXCEPT ![q] = "insert"] /\ UNCHANGED <<answer, stored>>
    BY <1>0, <1>1, <2>1 DEF TypeOK
  <2>2. CASE Respond(q, Answer(422, 0)) /\ UNCHANGED stored
    BY <1>2, <2>2
  <2> QED
    BY <1>5, <2>1, <2>2 DEF Resolve
<1>6. ASSUME NEW q \in Requests, Insert(q) PROVE Goal
  <2>1. stored' = [stored EXCEPT ![q] = lastId + 1]
    BY <1>6 DEF Insert
  <2>2. CASE r # q
    <3>1. pc'[r] = pc[r] /\ answer'[r] = answer[r] /\ stored'[r] = stored[r]
      BY <1>0, <1>6, <2>1, <2>2 DEF TypeOK, Insert, Respond
    <3> QED
      BY <1>1, <3>1
  <2>3. CASE r = q
    <3>1. CASE Respond(r, Answer(202, lastId + 1))
      <4>1. pc'[r] = "done" /\ answer'[r] = Answer(202, lastId + 1)
        BY <1>0, <3>1 DEF TypeOK, Respond
      <4> QED
        BY <1>6, <2>3, <4>1 DEF Tells, Accepted, Answer
    <3>2. CASE UNCHANGED answer
      <4>1. Tells(r, i) \/ stored'[r] = i
        BY <3>2 DEF Tells, Accepted
      <4> QED
        BY <1>0, <1>6, <2>1, <2>3, <4>1 DEF TypeOK
    <3> QED
      BY <1>6, <2>3, <3>1, <3>2 DEF Insert
  <2> QED
    BY <2>2, <2>3
<1>7. ASSUME NEW q \in Requests, EnqueueAfterCommit(q) PROVE Goal
  <2>1. Respond(q, Answer(202, stored[q])) /\ UNCHANGED stored /\ pc[q] = "publish"
    BY <1>7 DEF EnqueueAfterCommit
  <2> QED
    BY <1>2, <2>1 DEF Tells
<1>8. ASSUME NEW q \in Requests, SendAgain(q) PROVE Goal
  <2>1. CASE r = q
    <3>1. pc'[r] = "find" /\ answer'[r] = NoAnswer
      BY <1>0, <1>8, <2>1 DEF TypeOK, SendAgain
    <3> QED
      BY <3>1 DEF Tells, Accepted
  <2>2. CASE r # q
    BY <1>0, <1>1, <1>8, <2>2 DEF TypeOK, SendAgain
  <2> QED
    BY <2>1, <2>2
<1>9. ASSUME NEW q \in Requests, NEW k \in Keys, NEW b \in Body, Post(q, k, b) PROVE Goal
  BY <1>0, <1>1, <1>9 DEF TypeOK, Post
<1>10. ASSUME NEW q \in Requests, InsertConflict(q) PROVE Goal
  BY <1>0, <1>1, <1>10 DEF TypeOK, InsertConflict
<1>11. ASSUME UNCHANGED <<pc, answer, stored>> PROVE Goal
  BY <1>1, <1>11
<1> QED
  BY <1>4, <1>5, <1>6, <1>7, <1>8, <1>9, <1>10, <1>11
  DEF Next, Handle, Remove, AddVersion, DeleteTemplate, vars

\* One step inserts for one request.
LEMMA InsertIsAlone ==
  ASSUME Typed, NEW q \in Requests, NEW r \in Requests, Insert(q), Insert(r)
  PROVE  q = r
  BY DEF Typed, TypeOK, Insert, Respond

\* The key of a request is set when it arrives.
LEMMA KeyStays ==
  ASSUME Typed, [Next]_vars, NEW r \in Requests, pc[r] # "new"
  PROVE  key'[r] = key[r] /\ body'[r] = body[r] /\ pc'[r] # "new"
  BY DEF Typed, TypeOK, Next, Handle, Post, FindExisting, Resolve, Insert, InsertConflict,
         FindAgain, Replay, Respond, EnqueueAfterCommit, SendAgain, Remove, AddVersion,
         DeleteTemplate, vars, requestVars

LEMMA TellsItsKeyStep ==
  Typed /\ RowsUnique /\ TellsItsKey /\ [Next]_vars => TellsItsKey'
<1> SUFFICES ASSUME Typed, RowsUnique, TellsItsKey, [Next]_vars,
                    NEW r \in Requests, NEW i \in 0..MaxId, Tells(r, i)'
             PROVE  i <= lastId' /\ \A m \in rows' : m.id = i => m.key = key'[r]
  BY DEF TellsItsKey
<1>0. /\ lastId \in Nat /\ lastId' \in Nat /\ lastId <= lastId'
      /\ \A m \in rows' : m \in rows \/ m.id > lastId
      /\ \A m \in rows : m.id <= lastId
  <2>1. lastId \in Nat /\ lastId + 1 > lastId
    BY DEF Typed, TypeOK
  <2>2. CASE \E q \in Requests, n \in Row : /\ n.id = lastId + 1
                                            /\ rows' = rows \union {n}
                                            /\ lastId' = lastId + 1
    BY <2>1, <2>2 DEF RowsUnique
  <2>3. CASE rows' \subseteq rows /\ UNCHANGED lastId
    BY <2>1, <2>3 DEF RowsUnique
  <2> QED
    BY <2>2, <2>3, RowsCome
<1>1. CASE Tells(r, i)
  <2>1. i <= lastId /\ \A m \in rows : m.id = i => m.key = key[r]
    BY <1>1 DEF TellsItsKey
  <2>2. pc[r] # "new"
    BY <1>1 DEF Tells, Accepted, Typed, Filled
  <2> QED
    BY <1>0, <2>1, <2>2, KeyStays
<1>2. ASSUME NEW m \in rows, m.id = i, m.key = key[r], ~ Tells(r, i)
      PROVE  i <= lastId' /\ \A n \in rows' : n.id = i => n.key = key'[r]
  <2>1. pc[r] # "new"
    <3>1. pc'[r] # pc[r] \/ answer'[r] # answer[r] \/ stored'[r] # stored[r]
      BY <1>2 DEF Tells, Accepted
    <3>2. ASSUME NEW k \in Keys, NEW b \in Body, Post(r, k, b) PROVE ~ Tells(r, i)'
      BY <3>2 DEF Post, Tells, Accepted, Typed, TypeOK, Filled
    <3> QED
      BY <3>1, <3>2
      DEF Typed, TypeOK, Next, Handle, Post, FindExisting, Resolve, Insert, InsertConflict,
          FindAgain, Replay, Respond, EnqueueAfterCommit, SendAgain, Remove, AddVersion,
          DeleteTemplate, vars, requestVars
  <2>2. \A n \in rows : n.id = i => n = m
    BY <1>2 DEF RowsUnique
  <2> QED
    BY <1>0, <1>2, <2>1, <2>2, KeyStays
<1>3. CASE Insert(r) /\ i = lastId + 1
  <2>1. pc[r] # "new"
    BY <1>3 DEF Insert
  <2>2. \A m \in rows' : m.id = i => m.key = key[r]
    BY <1>0, <1>3, RowsCome, InsertIsAlone
  <2> QED
    BY <1>0, <1>3, <2>1, <2>2, KeyStays DEF Insert
<1> QED
  BY <1>1, <1>2, <1>3, TellsComes

\* Repeats of one key are told the same message for as long as it is retained,
\* whichever of them inserts (create_message and its second look).
THEOREM SameMessageHolds == Spec => []SameMessage
<1> DEFINE Inv == Typed /\ RowsUnique /\ TellsItsKey
<1>1. Init => Inv
  <2> SUFFICES ASSUME Init PROVE RowsUnique /\ TellsItsKey
    BY InitTyped
  <2> QED
    BY DEF Init, RowsUnique, TellsItsKey, Tells, Accepted
<1>2. Inv /\ [Next]_vars => Inv'
  BY NextTyped, RowsUniqueStep, TellsItsKeyStep
<1>3. Inv => SameMessage
  <2> SUFFICES ASSUME Inv, NEW r \in Requests, NEW s \in Requests, Accepted(r), Accepted(s),
                      key[r] = key[s],
                      NEW m \in rows, m.id = answer[r].id,
                      NEW n \in rows, n.id = answer[s].id
               PROVE  answer[r].id = answer[s].id
    BY DEF SameMessage
  <2>1. m.id \in 0..MaxId /\ n.id \in 0..MaxId
    BY DEF Typed, TypeOK, Row
  <2>2. m.key = key[r] /\ n.key = key[s]
    BY <2>1 DEF TellsItsKey, Tells
  <2> QED
    BY <2>2 DEF RowsUnique
<1> QED
  BY <1>1, <1>2, <1>3, PTL DEF Spec

-----------------------------------------------------------------------------
(***************************************************************************)
(* One task per message.                                                   *)
(***************************************************************************)

\* A message is published by the one request that inserted it, which has not
\* done so yet, or was published once, or its publish was lost.
Publishing(r, i) == pc[r] = "publish" /\ stored[r] = i

PublishedOnce ==
  \A i \in 1..MaxId :
    /\ published[i] <= 1
    /\ published[i] > 0 => i <= lastId
    /\ \A r \in Requests : Publishing(r, i) => published[i] = 0
    /\ \A r, s \in Requests : Publishing(r, i) /\ Publishing(s, i) => r = s

LEMMA PublishedOnceStep == Typed /\ PublishedOnce /\ [Next]_vars => PublishedOnce'
<1> SUFFICES ASSUME Typed, PublishedOnce, [Next]_vars PROVE PublishedOnce'
  OBVIOUS
<1> USE DEF requestVars
<1>0. TypeOK /\ Filled
  BY DEF Typed
<1>1. ASSUME UNCHANGED <<published, lastId>>,
             \A r \in Requests : pc'[r] = "publish" => pc[r] = "publish" /\ stored'[r] = stored[r]
      PROVE  PublishedOnce'
  BY <1>1 DEF PublishedOnce, Publishing
<1>2. ASSUME NEW r \in Requests, Insert(r) PROVE PublishedOnce'
  <2>1. /\ UNCHANGED published
        /\ lastId' = lastId + 1
        /\ lastId \in Nat
        /\ stored'[r] = lastId + 1
        /\ \A q \in Requests \ {r} : pc'[q] = pc[q] /\ stored'[q] = stored[q]
    BY <1>0, <1>2 DEF TypeOK, Insert, Respond
  <2>2. \A q \in Requests : pc[q] = "publish" => stored[q] <= lastId /\ stored[q] \in Nat
    BY <1>0, <2>1 DEF Filled
  <2>3. ASSUME NEW i \in 1..MaxId, NEW q \in Requests, Publishing(q, i)'
        PROVE  \/ q = r /\ i = lastId + 1
               \/ q # r /\ Publishing(q, i) /\ i <= lastId
    BY <2>1, <2>2, <2>3 DEF Publishing
  <2>4. \A i \in 1..MaxId : published[i] \in Nat
    BY <1>0 DEF TypeOK
  <2>5. ASSUME NEW i \in 1..MaxId
        PROVE  /\ published'[i] <= 1
               /\ published'[i] > 0 => i <= lastId'
               /\ \A q \in Requests : Publishing(q, i)' => published'[i] = 0
    BY <2>1, <2>3, <2>4, <2>5 DEF PublishedOnce
  <2>6. ASSUME NEW i \in 1..MaxId, NEW q \in Requests, NEW s \in Requests,
               Publishing(q, i)', Publishing(s, i)'
        PROVE  q = s
    BY <2>1, <2>3, <2>6 DEF PublishedOnce
  <2> QED
    BY <2>5, <2>6 DEF PublishedOnce
<1>3. ASSUME NEW r \in Requests, EnqueueAfterCommit(r) PROVE PublishedOnce'
  <2>1. /\ stored[r] \in 1..MaxId /\ stored[r] <= lastId
        /\ Publishing(r, stored[r])
        /\ published[stored[r]] = 0
    BY <1>0, <1>3 DEF TypeOK, Filled, EnqueueAfterCommit, Publishing, PublishedOnce
  <2>2. \A i \in 1..MaxId :
          \/ published'[i] = published[i]
          \/ i = stored[r] /\ published'[i] = 1
    <3>1. published \in [1..MaxId -> Nat]
      BY <1>0 DEF TypeOK
    <3>2. CASE published' = [published EXCEPT ![stored[r]] = @ + 1]
      BY <2>1, <3>1, <3>2
    <3> QED
      BY <1>3, <3>2 DEF EnqueueAfterCommit
  <2>3. /\ UNCHANGED <<stored, lastId>>
        /\ \A q \in Requests : pc'[q] = "publish" => q # r /\ pc[q] = "publish"
    BY <1>0, <1>3 DEF TypeOK, EnqueueAfterCommit, Respond
  <2>4. ASSUME NEW i \in 1..MaxId, NEW q \in Requests, Publishing(q, i)'
        PROVE  Publishing(q, i) /\ i # stored[r]
    BY <2>1, <2>3, <2>4 DEF Publishing, PublishedOnce
  <2> QED
    BY <2>1, <2>2, <2>3, <2>4 DEF PublishedOnce
<1>4. ASSUME NEW r \in Requests,
             \/ FindExisting(r) \/ Resolve(r) \/ InsertConflict(r) \/ FindAgain(r)
             \/ SendAgain(r) \/ \E k \in Keys, b \in Body : Post(r, k, b)
      PROVE  PublishedOnce'
  <2>1. /\ UNCHANGED <<published, lastId>>
        /\ pc'[r] # "publish"
        /\ \A q \in Requests \ {r} : pc'[q] = pc[q] /\ stored'[q] = stored[q]
    BY <1>0, <1>4
    DEF TypeOK, FindExisting, Replay, Resolve, InsertConflict, FindAgain, SendAgain, Post,
        Respond
  <2> QED
    BY <1>1, <2>1
<1>5. ASSUME UNCHANGED <<pc, stored, published, lastId>> PROVE PublishedOnce'
  BY <1>1, <1>5
<1> QED
  BY <1>2, <1>3, <1>4, <1>5 DEF Next, Handle, Remove, AddVersion, DeleteTemplate, vars

\* The API publishes at most one task per message, however often the client
\* repeats the request and whoever inserts (_enqueue_after_commit).
THEOREM OneTaskHolds == Spec => []OneTask
<1>1. Init => Typed /\ PublishedOnce
  <2>1. Init => PublishedOnce
    BY DEF Init, PublishedOnce, Publishing
  <2> QED
    BY <2>1, InitTyped
<1>2. Typed /\ PublishedOnce /\ [Next]_vars => (Typed /\ PublishedOnce)'
  BY NextTyped, PublishedOnceStep
<1>3. PublishedOnce => OneTask
  BY DEF PublishedOnce, OneTask
<1> QED
  BY <1>1, <1>2, <1>3, PTL DEF Spec

-----------------------------------------------------------------------------
(***************************************************************************)
(* The loser of the insert race.                                           *)
(***************************************************************************)

\* Who has looked for its key in vain has only younger rows of that key before it,
\* which retention spares while the request runs; so who lost the race has a row to
\* find.
LoserHasRow ==
  \A r \in Requests :
    /\ pc[r] \in {"resolve", "insert", "refind"} =>
         \A m \in Existing(key[r]) : begun[r] < m.id
    /\ pc[r] = "refind" => Existing(key[r]) # {}
    /\ answer[r] # Answer(500, 0)

\* How a request got beyond its first look.
LEMMA LookedInVain ==
  ASSUME Typed, [Next]_vars, NEW r \in Requests, pc'[r] \in {"resolve", "insert", "refind"}
  PROVE  /\ pc[r] # "new"
         /\ begun'[r] = begun[r]
         /\ \/ pc[r] \in {"resolve", "insert", "refind"}
            \/ Existing(key[r]) = {} /\ UNCHANGED rows
         /\ pc'[r] = "refind" => pc[r] = "refind" \/ InsertConflict(r)
<1> DEFINE Conclusion ==
      /\ pc[r] # "new"
      /\ begun'[r] = begun[r]
      /\ \/ pc[r] \in {"resolve", "insert", "refind"}
         \/ Existing(key[r]) = {} /\ UNCHANGED rows
      /\ pc'[r] = "refind" => pc[r] = "refind" \/ InsertConflict(r)
<1>0. TypeOK
  BY DEF Typed
<1>1. ASSUME pc'[r] = pc[r], begun'[r] = begun[r] PROVE Conclusion
  BY <1>1
<1>2. ASSUME NEW q \in Requests, NEW k \in Keys, NEW b \in Body, Post(q, k, b)
      PROVE  Conclusion
  BY <1>0, <1>1, <1>2 DEF TypeOK, Post
<1>3. ASSUME NEW q \in Requests, NEW a, Respond(q, a), UNCHANGED begun PROVE Conclusion
  BY <1>0, <1>1, <1>3 DEF TypeOK, Respond
<1>4. ASSUME NEW q \in Requests, FindExisting(q) PROVE Conclusion
  <2>1. CASE \E m \in Existing(key[q]) : Replay(q, m)
    BY <1>3, <1>4, <2>1 DEF FindExisting, Replay
  <2>2. CASE Existing(key[q]) = {} /\ pc' = [pc EXCEPT ![q] = "resolve"]
    <3>1. UNCHANGED <<rows, begun>> /\ pc[q] = "find"
      BY <1>4 DEF FindExisting
    <3>2. CASE q = r
      BY <1>0, <2>2, <3>1, <3>2 DEF TypeOK
    <3>3. CASE q # r
      BY <1>0, <1>1, <2>2, <3>1, <3>3 DEF TypeOK
    <3> QED
      BY <3>2, <3>3
  <2> QED
    BY <1>4, <2>1, <2>2 DEF FindExisting
<1>5. ASSUME NEW q \in Requests, Resolve(q) PROVE Conclusion
  <2>1. CASE pc' = [pc EXCEPT ![q] = "insert"]
    BY <1>0, <1>1, <1>5, <2>1 DEF TypeOK, Resolve
  <2>2. CASE Respond(q, Answer(422, 0))
    BY <1>3, <1>5, <2>2 DEF Resolve
  <2> QED
    BY <1>5, <2>1, <2>2 DEF Resolve
<1>6. ASSUME NEW q \in Requests, Insert(q) PROVE Conclusion
  <2>1. CASE pc' = [pc EXCEPT ![q] = "publish"]
    BY <1>0, <1>1, <1>6, <2>1 DEF TypeOK, Insert
  <2>2. CASE Respond(q, Answer(202, lastId + 1))
    BY <1>3, <1>6, <2>2 DEF Insert
  <2> QED
    BY <1>6, <2>1, <2>2 DEF Insert
<1>7. ASSUME NEW q \in Requests, InsertConflict(q) PROVE Conclusion
  <2>1. pc' = [pc EXCEPT ![q] = "refind"] /\ pc[q] = "insert" /\ UNCHANGED begun
    BY <1>7 DEF InsertConflict
  <2>2. CASE q = r
    BY <1>7, <2>1, <2>2
  <2>3. CASE q # r
    BY <1>0, <1>1, <2>1, <2>3 DEF TypeOK
  <2> QED
    BY <2>2, <2>3
<1>8. ASSUME NEW q \in Requests, FindAgain(q) PROVE Conclusion
  BY <1>3, <1>8 DEF FindAgain, Replay
<1>9. ASSUME NEW q \in Requests, EnqueueAfterCommit(q) PROVE Conclusion
  BY <1>3, <1>9 DEF EnqueueAfterCommit
<1>10. ASSUME NEW q \in Requests, SendAgain(q) PROVE Conclusion
  BY <1>0, <1>1, <1>10 DEF TypeOK, SendAgain
<1>11. ASSUME UNCHANGED requestVars PROVE Conclusion
  BY <1>1, <1>11 DEF requestVars
<1> QED
  BY <1>2, <1>4, <1>5, <1>6, <1>7, <1>8, <1>9, <1>10, <1>11
  DEF Next, Handle, Remove, AddVersion, DeleteTemplate, vars

\* Retention is the only one that takes rows away.
LEMMA OnlyOldRowsGo ==
  ASSUME [Next]_vars, NEW m \in rows, m \notin rows'
  PROVE  Old(m) /\ UNCHANGED <<pc, key, begun>>
  BY DEF Next, Handle, Post, FindExisting, Resolve, Insert, InsertConflict, FindAgain,
         EnqueueAfterCommit, SendAgain, Remove, AddVersion, DeleteTemplate, vars, requestVars

LEMMA LoserHasRowStep == Typed /\ LoserHasRow /\ [Next]_vars => LoserHasRow'
<1> SUFFICES ASSUME Typed, LoserHasRow, [Next]_vars, NEW r \in Requests
             PROVE  /\ pc'[r] \in {"resolve", "insert", "refind"} =>
                         \A m \in Existing(key[r])' : begun'[r] < m.id
                    /\ pc'[r] = "refind" => Existing(key[r])' # {}
                    /\ answer'[r] # Answer(500, 0)
  BY DEF LoserHasRow
<1> USE DEF requestVars
<1>0. TypeOK /\ Filled
  BY DEF Typed
<1>1. ASSUME pc'[r] \in {"resolve", "insert", "refind"}
      PROVE  \A m \in Existing(key[r])' : begun'[r] < m.id
  <2>0. key'[r] = key[r] /\ begun'[r] = begun[r] /\ begun[r] \in Nat /\ lastId \in Nat
    BY <1>0, <1>1, LookedInVain, KeyStays, AcceptAssumption DEF TypeOK
  <2>1. \A m \in Existing(key[r]) \intersect rows' : begun[r] < m.id
    BY <1>1, LookedInVain DEF LoserHasRow
  <2>2. ASSUME NEW m \in rows', m \notin rows PROVE begun[r] < m.id
    <3>1. m.id = lastId + 1
      BY <2>2, RowsCome
    <3>2. begun[r] <= lastId
      BY <1>0 DEF Filled
    <3> QED
      BY <2>0, <3>1, <3>2
  <2> QED
    BY <2>0, <2>1, <2>2 DEF Existing
<1>2. ASSUME NEW q \in Requests, NEW code, NEW n, code # 500, Respond(q, Answer(code, n))
      PROVE  answer'[r] # Answer(500, 0) /\ (pc'[r] = "refind" => pc[r] = "refind")
  BY <1>0, <1>2 DEF TypeOK, Respond, Answer, LoserHasRow
<1>3. ASSUME UNCHANGED answer PROVE answer'[r] # Answer(500, 0)
  BY <1>3 DEF LoserHasRow
<1>4. ASSUME NEW q \in Requests, NEW m \in rows, Replay(q, m)
      PROVE  answer'[r] # Answer(500, 0) /\ (pc'[r] = "refind" => pc[r] = "refind")
  BY <1>2, <1>4 DEF Replay
<1>5. answer'[r] # Answer(500, 0)
  <2>1. ASSUME NEW q \in Requests, FindExisting(q) PROVE answer'[r] # Answer(500, 0)
    BY <1>3, <1>4, <2>1 DEF FindExisting, Existing
  <2>2. ASSUME NEW q \in Requests, Resolve(q) PROVE answer'[r] # Answer(500, 0)
    BY <1>2, <1>3, <2>2 DEF Resolve
  <2>3. ASSUME NEW q \in Requests, Insert(q) PROVE answer'[r] # Answer(500, 0)
    BY <1>2, <1>3, <2>3 DEF Insert
  <2>4. ASSUME NEW q \in Requests, FindAgain(q) PROVE answer'[r] # Answer(500, 0)
    <3>1. Existing(key[q]) # {}
      BY <2>4 DEF FindAgain, LoserHasRow
    <3> QED
      BY <1>4, <2>4, <3>1 DEF FindAgain, ExistingAgain, Existing
  <2>5. ASSUME NEW q \in Requests, EnqueueAfterCommit(q) PROVE answer'[r] # Answer(500, 0)
    BY <1>2, <2>5 DEF EnqueueAfterCommit
  <2>6. ASSUME NEW q \in Requests, SendAgain(q) PROVE answer'[r] # Answer(500, 0)
    <3>1. NoAnswer # Answer(500, 0)
      BY DEF NoAnswer, Answer
    <3> QED
      BY <1>0, <2>6, <3>1 DEF TypeOK, SendAgain, LoserHasRow
  <2> QED
    BY <1>3, <2>1, <2>2, <2>3, <2>4, <2>5, <2>6
    DEF Next, Handle, Post, InsertConflict, Remove, AddVersion, DeleteTemplate, vars
<1>6. ASSUME pc'[r] = "refind" PROVE Existing(key[r])' # {}
  <2>1. /\ pc[r] = "refind" \/ InsertConflict(r)
        /\ key'[r] = key[r]
    BY <1>6, LookedInVain, KeyStays
  <2>2. PICK m \in rows : m.key = key[r] /\ begun[r] < m.id
    BY <2>1 DEF LoserHasRow, InsertConflict, KeyIsFree, Existing
  <2>3. m \in rows'
    <3> SUFFICES ASSUME m \notin rows' PROVE FALSE
      OBVIOUS
    <3>1. Old(m) /\ pc'[r] = pc[r]
      BY OnlyOldRowsGo
    <3>2. m.id <= begun[r]
      BY <1>6, <3>1 DEF Old, Running
    <3>3. m.id \in Nat /\ begun[r] \in Nat
      BY <1>0, AcceptAssumption DEF TypeOK, Row
    <3> QED
      BY <2>2, <3>2, <3>3
  <2> QED
    BY <2>1, <2>2, <2>3 DEF Existing
<1> QED
  BY <1>1, <1>5, <1>6

\* No request ends in a server error: who loses the insert race finds the winner's
\* row, which is too young for retention while the request runs.
THEOREM RaceLoserIsAnsweredHolds == Spec => []RaceLoserIsAnswered
<1>1. Init => Typed /\ LoserHasRow
  <2>1. NoAnswer # Answer(500, 0)
    BY DEF NoAnswer, Answer
  <2>2. Init => LoserHasRow
    BY <2>1 DEF Init, LoserHasRow, Existing
  <2> QED
    BY <2>2, InitTyped
<1>2. Typed /\ LoserHasRow /\ [Next]_vars => (Typed /\ LoserHasRow)'
  BY NextTyped, LoserHasRowStep
<1>3. LoserHasRow => RaceLoserIsAnswered
  BY DEF LoserHasRow, RaceLoserIsAnswered
<1> QED
  BY <1>1, <1>2, <1>3, PTL DEF Spec

-----------------------------------------------------------------------------
(***************************************************************************)
(* Accept implements IdempotentStore.  First the abstract actions with the *)
(* refinement mapping carried out, each as what it changes and what it     *)
(* leaves alone.                                                           *)
(***************************************************************************)
SameAsked == \A r \in Requests : AskedOf(r)' = AskedOf(r)
SameStore == UNCHANGED lastId /\ \A k \in Keys : StoreOf(k)' = StoreOf(k)
SameTold  == \A r \in Requests : ToldOf(r)' = ToldOf(r)
SameOthers(r) == \A q \in Requests \ {r} : ToldOf(q)' = ToldOf(q)

LEMMA MappedStutter ==
  ASSUME SameAsked, SameStore, SameTold
  PROVE  UNCHANGED Store!svars
  BY DEF SameAsked, SameStore, SameTold, Store!svars

LEMMA MappedAsk ==
  ASSUME NEW r \in Requests, NEW k \in Keys, NEW c \in Contents,
         AskedOf(r) = NoAnswer, AskedOf(r)' = [key |-> k, content |-> c],
         \A q \in Requests \ {r} : AskedOf(q)' = AskedOf(q),
         SameStore, SameTold
  PROVE  Store!SNext
<1>1. Store!Ask(r, k, c)
  BY DEF SameStore, SameTold, Store!Ask, Store!Nothing, NoAnswer
<1> QED
  BY <1>1 DEF Store!SNext

LEMMA MappedAccept ==
  ASSUME NEW r \in Requests, AskedOf(r) # NoAnswer, ToldOf(r) = NoAnswer,
         AskedOf(r).key \in Keys, StoreOf(AskedOf(r).key) = NoAnswer,
         lastId' = lastId + 1,
         \A k \in Keys : StoreOf(k)' = IF k = AskedOf(r).key
                                       THEN [id |-> lastId + 1, content |-> AskedOf(r).content]
                                       ELSE StoreOf(k),
         ToldOf(r)' = Answer(202, lastId + 1), SameOthers(r), SameAsked
  PROVE  Store!SNext
<1>1. Store!Accept(r)
  BY DEF SameAsked, SameOthers, Store!Accept, Store!Open, Store!Nothing,
         NoAnswer, Answer
<1> QED
  BY <1>1 DEF Store!SNext

\* Repeat and Refuse only answer.
LEMMA MappedAnswer ==
  ASSUME NEW r \in Requests, AskedOf(r) # NoAnswer, ToldOf(r) = NoAnswer,
         AskedOf(r).key \in Keys, SameOthers(r), SameAsked, SameStore,
         \/ /\ StoreOf(AskedOf(r).key) # NoAnswer
            /\ ToldOf(r)' = IF StoreOf(AskedOf(r).key).content = AskedOf(r).content
                            THEN Answer(202, StoreOf(AskedOf(r).key).id) ELSE Answer(409, 0)
         \/ ToldOf(r)' = Answer(422, 0)
  PROVE  Store!SNext
<1> USE DEF SameAsked, SameOthers, SameStore, Store!Open, Store!Nothing,
            NoAnswer, Answer
<1>1. ToldOf(r)' = Answer(422, 0) => Store!Refuse(r)
  BY DEF Store!Refuse
<1>3. ASSUME StoreOf(AskedOf(r).key) # NoAnswer,
             ToldOf(r)' = IF StoreOf(AskedOf(r).key).content = AskedOf(r).content
                          THEN Answer(202, StoreOf(AskedOf(r).key).id) ELSE Answer(409, 0)
      PROVE  Store!Repeat(r)
  <2> DEFINE asks == [q \in Requests |-> AskedOf(q)]
             holds == [k \in Keys |-> StoreOf(k)]
             told == [q \in Requests |-> ToldOf(q)]
             a == IF holds[asks[r].key].content = asks[r].content
                  THEN [code |-> 202, id |-> holds[asks[r].key].id]
                  ELSE [code |-> 409, id |-> 0]
  <2>1. asks[r] = AskedOf(r) /\ holds[asks[r].key] = StoreOf(AskedOf(r).key)
    OBVIOUS
  <2>2. ToldOf(r)' = a
    BY <1>3, <2>1
  <2>3. told' = [told EXCEPT ![r] = a]
    <3> HIDE DEF a
    <3> QED
      BY <2>2
  <2>4. Store!Open(r) /\ holds[asks[r].key] # Store!Nothing
    BY <1>3, <2>1
  <2>5. UNCHANGED <<asks, holds, lastId>>
    OBVIOUS
  <2> HIDE DEF asks, holds, told
  <2>6. /\ Store!Open(r)
        /\ holds[asks[r].key] # Store!Nothing
        /\ told' = [told EXCEPT ![r] = a]
        /\ UNCHANGED <<asks, holds, lastId>>
    BY <2>3, <2>4, <2>5
  <2> QED
    BY ONLY <2>6 DEF Store!Repeat, asks, holds, told
<1> QED
  BY <1>1, <1>3 DEF Store!SNext

LEMMA MappedAskAgain ==
  ASSUME NEW r \in Requests, ToldOf(r) # NoAnswer, ToldOf(r)' = NoAnswer,
         SameOthers(r), SameAsked, SameStore
  PROVE  Store!SNext
<1>1. Store!AskAgain(r)
  BY DEF SameAsked, SameOthers, SameStore, Store!AskAgain, Store!Nothing, NoAnswer
<1> QED
  BY <1>1 DEF Store!SNext

LEMMA MappedForget ==
  ASSUME NEW k \in Keys, StoreOf(k) # NoAnswer,
         \A j \in Keys : StoreOf(j)' = IF j = k THEN NoAnswer ELSE StoreOf(j),
         UNCHANGED lastId, SameAsked, SameTold
  PROVE  Store!SNext
<1>1. Store!Forget(k)
  BY DEF SameAsked, SameTold, Store!Forget, Store!Nothing, NoAnswer
<1> QED
  BY <1>1 DEF Store!SNext

\* A key's row is what the store holds for it.
LEMMA StoreHolds ==
  ASSUME RowsUnique, NEW m \in rows
  PROVE  StoreOf(m.key) = [id |-> m.id, content |-> m.content] /\ StoreOf(m.key) # NoAnswer
<1>1. Existing(m.key) = {m}
  BY DEF RowsUnique, Existing
<1>2. (CHOOSE n \in Existing(m.key) : TRUE) = m
  BY <1>1
<1> QED
  BY <1>1, <1>2 DEF StoreOf, NoAnswer

LEMMA StoreHasNot ==
  ASSUME NEW k, Existing(k) = {}
  PROVE  StoreOf(k) = NoAnswer
  BY DEF StoreOf

\* A handler's step is about its own request.
LEMMA Elsewhere ==
  ASSUME Typed, [Next]_vars, NEW r \in Requests, Handle(r) \/ SendAgain(r)
  PROVE  /\ SameOthers(r)
         /\ SameAsked
        
         /\ AskedOf(r) = [key |-> key[r], content |-> body[r].content]
         /\ key[r] \in Keys
<1>0. TypeOK /\ Filled /\ pc[r] # "new"
  BY DEF Typed, Handle, FindExisting, Resolve, Insert, InsertConflict, FindAgain,
         EnqueueAfterCommit, SendAgain
<1>1. \A q \in Requests \ {r} : pc'[q] = pc[q] /\ answer'[q] = answer[q] /\ stored'[q] = stored[q]
  BY <1>0
  DEF TypeOK, Handle, FindExisting, Resolve, Insert, InsertConflict, FindAgain, Replay,
      Respond, EnqueueAfterCommit, SendAgain
<1>2. UNCHANGED <<key, body>>
  BY DEF Handle, FindExisting, Resolve, Insert, InsertConflict, FindAgain,
         EnqueueAfterCommit, SendAgain
<1>3. pc'[r] # "new"
  BY <1>0, KeyStays
<1> QED
  BY <1>0, <1>1, <1>2, <1>3 DEF SameOthers, SameAsked, AskedOf, ToldOf, Filled

LEMMA SameRows ==
  ASSUME UNCHANGED <<rows, lastId>>
  PROVE  SameStore
  BY DEF SameStore, StoreOf, Existing

\* Both looks answer a repeat in one step.
LEMMA ReplayRepeats ==
  ASSUME Typed, RowsUnique, [Next]_vars, NEW r \in Requests, Handle(r),
         NEW m \in Existing(key[r]), Replay(r, m), UNCHANGED <<rows, lastId>>,
         pc[r] \in {"find", "refind"}
  PROVE  Store!SNext
<1>1. SameOthers(r) /\ SameAsked /\ SameStore /\ key[r] \in Keys
  BY Elsewhere, SameRows
<1>2. AskedOf(r) = [key |-> key[r], content |-> body[r].content]
  BY Elsewhere
<1>3. AskedOf(r) # NoAnswer /\ AskedOf(r).key = key[r] /\ AskedOf(r).content = body[r].content
  BY <1>2 DEF NoAnswer
<1>4. ToldOf(r) = NoAnswer
  BY DEF ToldOf, Typed, Filled
<1>5. StoreOf(key[r]) = [id |-> m.id, content |-> m.content] /\ StoreOf(key[r]) # NoAnswer
  BY StoreHolds DEF Existing
<1>6. ToldOf(r)' = IF m.content = body[r].content THEN Answer(202, m.id) ELSE Answer(409, 0)
  BY DEF Typed, TypeOK, Replay, Respond, PayloadMatches, ToldOf
<1>7. ToldOf(r)' = IF StoreOf(AskedOf(r).key).content = AskedOf(r).content
                   THEN Answer(202, StoreOf(AskedOf(r).key).id) ELSE Answer(409, 0)
  BY <1>3, <1>5, <1>6
<1> QED
  BY <1>1, <1>3, <1>4, <1>5, <1>7, MappedAnswer

\* The insert is the step at which a message is accepted.
LEMMA InsertAccepts ==
  ASSUME Typed, RowsUnique, [Next]_vars, NEW r \in Requests, Insert(r)
  PROVE  Store!SNext
<1>0. Handle(r) /\ TypeOK
  BY DEF Handle, Typed
<1>1. SameOthers(r) /\ SameAsked /\ key[r] \in Keys
  BY <1>0, Elsewhere
<1>2. AskedOf(r) = [key |-> key[r], content |-> body[r].content]
  BY <1>0, Elsewhere
<1>3. AskedOf(r) # NoAnswer /\ AskedOf(r).key = key[r] /\ AskedOf(r).content = body[r].content
  BY <1>2 DEF NoAnswer
<1>4. ToldOf(r) = NoAnswer
  BY DEF ToldOf, Typed, Filled, Insert
<1>5. Existing(key[r]) = {} /\ StoreOf(key[r]) = NoAnswer
  BY StoreHasNot DEF Insert, KeyIsFree
<1>6. lastId' = lastId + 1
  BY DEF Insert
<1>7. PICK n : /\ n.id = lastId + 1 /\ n.key = key[r] /\ n.content = body[r].content
               /\ rows' = rows \union {n}
  BY DEF Insert
<1>8. ASSUME NEW k \in Keys
      PROVE  StoreOf(k)' = IF k = key[r] THEN [id |-> lastId + 1, content |-> body[r].content]
                           ELSE StoreOf(k)
  <2>1. CASE k = key[r]
    <3>1. Existing(k)' = {n}
      BY <1>5, <1>7, <2>1 DEF Existing
    <3>2. (CHOOSE m \in {n} : TRUE) = n
      OBVIOUS
    <3> QED
      BY <1>7, <2>1, <3>1, <3>2 DEF StoreOf
  <2>2. CASE k # key[r]
    <3>1. Existing(k)' = Existing(k)
      BY <1>7, <2>2 DEF Existing
    <3> QED
      BY <2>2, <3>1 DEF StoreOf
  <2> QED
    BY <2>1, <2>2
<1>9. ToldOf(r)' = Answer(202, lastId + 1)
  BY <1>0 DEF TypeOK, Insert, Respond, ToldOf
<1> QED
  BY <1>1, <1>3, <1>4, <1>5, <1>6, <1>8, <1>9, MappedAccept

LEMMA RemoveForgets ==
  ASSUME Typed, RowsUnique, NEW m \in rows, Remove(m)
  PROVE  Store!SNext
<1>1. /\ rows' = rows \ {m} /\ UNCHANGED <<lastId, pc, key, body, answer, stored>>
      /\ m.key \in Keys
  BY DEF Remove, requestVars, Typed, TypeOK, Row
<1>2. SameAsked /\ SameTold
  BY <1>1 DEF SameAsked, SameTold, AskedOf, ToldOf
<1>3. StoreOf(m.key) # NoAnswer
  BY StoreHolds
<1>4. ASSUME NEW k \in Keys PROVE StoreOf(k)' = IF k = m.key THEN NoAnswer ELSE StoreOf(k)
  <2>1. CASE k = m.key
    <3>1. Existing(k)' = {}
      BY <1>1, <2>1 DEF Existing, RowsUnique
    <3> QED
      BY <2>1, <3>1 DEF StoreOf
  <2>2. CASE k # m.key
    <3>1. Existing(k)' = Existing(k)
      BY <1>1, <2>2 DEF Existing
    <3> QED
      BY <2>2, <3>1 DEF StoreOf
  <2> QED
    BY <2>1, <2>2
<1> QED
  BY <1>1, <1>2, <1>3, <1>4, MappedForget

LEMMA StoreStep ==
  Typed /\ RowsUnique /\ LoserHasRow /\ [Next]_vars => [Store!SNext]_(Store!svars)
<1> SUFFICES ASSUME Typed, RowsUnique, LoserHasRow, [Next]_vars
             PROVE  Store!SNext \/ UNCHANGED Store!svars
  OBVIOUS
<1> DEFINE Goal == Store!SNext \/ UNCHANGED Store!svars
<1>0. TypeOK /\ Filled
  BY DEF Typed
<1>1. ASSUME NEW r \in Requests, NEW k \in Keys, NEW b \in Body, Post(r, k, b) PROVE Goal
  <2>1. /\ AskedOf(r) = NoAnswer
        /\ AskedOf(r)' = [key |-> k, content |-> b.content]
        /\ \A q \in Requests \ {r} : AskedOf(q)' = AskedOf(q)
        /\ SameTold
    BY <1>0, <1>1 DEF TypeOK, Post, AskedOf, ToldOf, SameTold
  <2>2. SameStore /\ b.content \in Contents
    BY <1>1, SameRows DEF Post, Body
  <2> QED
    BY <2>1, <2>2, MappedAsk
<1>2. ASSUME NEW r \in Requests, Handle(r), UNCHANGED <<rows, lastId>>,
             ToldOf(r)' = ToldOf(r)
      PROVE  Goal
  BY <1>2, Elsewhere, SameRows, MappedStutter DEF SameOthers, SameTold
<1>3. ASSUME NEW r \in Requests, Handle(r), UNCHANGED <<rows, lastId>>,
             pc[r] = "resolve", Respond(r, Answer(422, 0))
      PROVE  Goal
  <2>1. AskedOf(r) = [key |-> key[r], content |-> body[r].content] /\ key[r] \in Keys
    BY <1>3, Elsewhere
  <2>2. AskedOf(r) # NoAnswer /\ AskedOf(r).key \in Keys
    BY <2>1 DEF NoAnswer
  <2>3. ToldOf(r) = NoAnswer
    BY <1>0, <1>3 DEF ToldOf, Filled
  <2>4. ToldOf(r)' = answer'[r]
    BY <1>0, <1>3 DEF TypeOK, Respond, ToldOf
  <2>5. ToldOf(r)' = Answer(422, 0)
    BY <1>0, <1>3, <2>4 DEF TypeOK, Respond
  <2>6. SameOthers(r) /\ SameAsked /\ SameStore
    BY <1>3, Elsewhere, SameRows
  <2> QED
    BY <2>2, <2>3, <2>5, <2>6, MappedAnswer
<1>4. ASSUME NEW r \in Requests, FindExisting(r) PROVE Goal
  <2>0. Handle(r) /\ UNCHANGED <<rows, lastId>> /\ pc[r] = "find"
    BY <1>4 DEF Handle, FindExisting
  <2>1. CASE \E m \in Existing(key[r]) : Replay(r, m)
    BY <2>0, <2>1, ReplayRepeats
  <2>2. CASE pc' = [pc EXCEPT ![r] = "resolve"] /\ UNCHANGED answer
    <3>1. ToldOf(r)' = ToldOf(r)
      BY <1>0, <2>0, <2>2 DEF TypeOK, ToldOf
    <3> QED
      BY <1>2, <2>0, <3>1
  <2> QED
    BY <1>4, <2>1, <2>2 DEF FindExisting
<1>5. ASSUME NEW r \in Requests, Resolve(r) PROVE Goal
  <2>0. Handle(r) /\ UNCHANGED <<rows, lastId>> /\ pc[r] = "resolve"
    BY <1>5 DEF Handle, Resolve
  <2>1. CASE Respond(r, Answer(422, 0))
    BY <1>3, <2>0, <2>1
  <2>2. CASE pc' = [pc EXCEPT ![r] = "insert"] /\ UNCHANGED answer
    <3>1. ToldOf(r)' = ToldOf(r)
      BY <1>0, <2>0, <2>2 DEF TypeOK, ToldOf
    <3> QED
      BY <1>2, <2>0, <3>1
  <2> QED
    BY <1>5, <2>1, <2>2 DEF Resolve
<1>6. ASSUME NEW r \in Requests, Insert(r) PROVE Goal
  BY <1>6, InsertAccepts
<1>7. ASSUME NEW r \in Requests, InsertConflict(r) PROVE Goal
  <2>1. Handle(r) /\ UNCHANGED <<rows, lastId>> /\ ToldOf(r)' = ToldOf(r)
    BY <1>0, <1>7 DEF TypeOK, Handle, InsertConflict, ToldOf
  <2> QED
    BY <1>2, <2>1
<1>8. ASSUME NEW r \in Requests, FindAgain(r) PROVE Goal
  <2>0. Handle(r) /\ UNCHANGED <<rows, lastId>> /\ pc[r] = "refind"
    BY <1>8 DEF Handle, FindAgain
  <2>1. CASE \E m \in Existing(key[r]) : Replay(r, m)
    BY <2>0, <2>1, ReplayRepeats
  <2>2. Existing(key[r]) # {}
    BY <2>0 DEF LoserHasRow
  <2> QED
    BY <1>8, <2>1, <2>2 DEF FindAgain, ExistingAgain
<1>9. ASSUME NEW r \in Requests, EnqueueAfterCommit(r) PROVE Goal
  <2>1. Handle(r) /\ UNCHANGED <<rows, lastId>> /\ ToldOf(r)' = ToldOf(r)
    BY <1>0, <1>9 DEF TypeOK, Handle, EnqueueAfterCommit, Respond, ToldOf
  <2> QED
    BY <1>2, <2>1
<1>10. ASSUME NEW r \in Requests, SendAgain(r) PROVE Goal
  <2>1. SameOthers(r) /\ SameAsked
    BY <1>10, Elsewhere
  <2>2. SameStore
    BY <1>10, SameRows DEF SendAgain
  <2>3. ToldOf(r)' = NoAnswer
    BY <1>0, <1>10 DEF TypeOK, SendAgain, ToldOf
  <2>4. CASE ToldOf(r) = NoAnswer
    BY <2>1, <2>2, <2>3, <2>4, MappedStutter DEF SameOthers, SameTold
  <2>5. CASE ToldOf(r) # NoAnswer
    BY <2>1, <2>2, <2>3, <2>5, MappedAskAgain
  <2> QED
    BY <2>4, <2>5
<1>11. ASSUME NEW m \in rows, Remove(m) PROVE Goal
  BY <1>11, RemoveForgets
<1>12. ASSUME UNCHANGED <<rows, lastId, requestVars>> PROVE Goal
  <2>1. SameAsked /\ SameTold
    BY <1>12 DEF requestVars, SameAsked, SameTold, AskedOf, ToldOf
  <2> QED
    BY <1>12, <2>1, SameRows, MappedStutter
<1> QED
  BY <1>1, <1>4, <1>5, <1>6, <1>7, <1>8, <1>9, <1>10, <1>11, <1>12
  DEF Next, Handle, AddVersion, DeleteTemplate, vars

\* create_message keeps the promise of Idempotency-Key: every request is
\* answered as if it had been handled in one step, although its two looks, its
\* insert and its publish interleave with those of any number of others.
THEOREM AcceptImplementsStore == Spec => ImplementsStore
<1> DEFINE Inv == Typed /\ RowsUnique /\ LoserHasRow
<1>1. Init => Inv
  <2>1. NoAnswer # Answer(500, 0)
    BY DEF NoAnswer, Answer
  <2> QED
    BY <2>1, InitTyped DEF Init, RowsUnique, LoserHasRow, Existing
<1>2. Inv /\ [Next]_vars => Inv'
  BY NextTyped, RowsUniqueStep, LoserHasRowStep
<1>3. Init => Store!SInit
  BY DEF Init, Store!SInit, Store!Nothing, NoAnswer, AskedOf, ToldOf, StoreOf, Existing
<1>4. Inv /\ [Next]_vars => [Store!SNext]_(Store!svars)
  BY StoreStep
<1> QED
  BY <1>1, <1>2, <1>3, <1>4, PTL DEF Spec, ImplementsStore, Store!SSpec
=============================================================================
