-------------------------- MODULE IdempotentStore --------------------------
(***************************************************************************)
(* What POST /api/v1/messages promises about Idempotency-Key (ADR-0001),   *)
(* without the race it has to win: a request is answered in one step, from *)
(* a store that holds at most one message per key.  A key here is a pair   *)
(* (api_key, Idempotency-Key).                                             *)
(***************************************************************************)
EXTENDS Naturals

CONSTANTS Requests, Keys, Contents

VARIABLES
  asked,   \* what each request asks for: its key and content, or Nothing
  store,   \* the message retained for each key, or Nothing
  answer,  \* the answer to each request, or Nothing
  lastId   \* message ids given out so far

svars == <<asked, store, answer, lastId>>

Nothing == [none |-> TRUE]

Ask(r, k, c) ==
  /\ asked[r] = Nothing
  /\ asked' = [asked EXCEPT ![r] = [key |-> k, content |-> c]]
  /\ UNCHANGED <<store, answer, lastId>>

Open(r) == asked[r] # Nothing /\ answer[r] = Nothing

\* The first request of a key stores its message.
Accept(r) ==
  /\ Open(r)
  /\ store[asked[r].key] = Nothing
  /\ lastId' = lastId + 1
  /\ store' = [store EXCEPT ![asked[r].key] =
                 [id |-> lastId + 1, content |-> asked[r].content]]
  /\ answer' = [answer EXCEPT ![r] = [code |-> 202, id |-> lastId + 1]]
  /\ UNCHANGED asked

\* A repeat gets the same message; a repeat with another content, a conflict.
Repeat(r) ==
  /\ Open(r)
  /\ store[asked[r].key] # Nothing
  /\ answer' = [answer EXCEPT ![r] =
                  IF store[asked[r].key].content = asked[r].content
                  THEN [code |-> 202, id |-> store[asked[r].key].id]
                  ELSE [code |-> 409, id |-> 0]]
  /\ UNCHANGED <<asked, store, lastId>>

\* Without storing anything: the template is unknown or does not render.
Refuse(r) ==
  /\ Open(r)
  /\ answer' = [answer EXCEPT ![r] = [code |-> 422, id |-> 0]]
  /\ UNCHANGED <<asked, store, lastId>>

\* The client did not get the answer and asks the same again.
AskAgain(r) ==
  /\ answer[r] # Nothing
  /\ answer' = [answer EXCEPT ![r] = Nothing]
  /\ UNCHANGED <<asked, store, lastId>>

Forget(k) ==
  /\ store[k] # Nothing
  /\ store' = [store EXCEPT ![k] = Nothing]
  /\ UNCHANGED <<asked, answer, lastId>>

SInit ==
  /\ asked = [r \in Requests |-> Nothing]
  /\ store = [k \in Keys |-> Nothing]
  /\ answer = [r \in Requests |-> Nothing]
  /\ lastId = 0

SNext ==
  \/ \E r \in Requests, k \in Keys, c \in Contents : Ask(r, k, c)
  \/ \E r \in Requests : Accept(r) \/ Repeat(r) \/ Refuse(r) \/ AskAgain(r)
  \/ \E k \in Keys : Forget(k)

SSpec == SInit /\ [][SNext]_svars
=============================================================================
