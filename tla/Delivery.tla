------------------------------ MODULE Delivery ------------------------------
(***************************************************************************)
(* The life of a message row between its acceptance and its removal: the   *)
(* Celery delivery task (tasks/delivery.py), the two Beat tasks that put   *)
(* messages back and clean them up (tasks/scheduler.py), the on-commit     *)
(* publish of the API (apps/messages_api/services.py), and the broker and  *)
(* worker processes between them.                                          *)
(*                                                                         *)
(* Every database transaction, and every statement outside one, is one     *)
(* step.  Time is kept as ages (ticks since a timestamp was written),      *)
(* capped just above the threshold they are compared with, so that time    *)
(* is unbounded and the state space is not.                                *)
(***************************************************************************)
EXTENDS Integers, FiniteSets

CONSTANTS
  Messages,             \* primary keys of the message table
  Workers,              \* Celery pool processes; each runs one task at a time
  Dispatchers,          \* overlapping runs of dispatch_scheduled
  Api,                  \* stands for the API processes, as a publisher
  TaskIds,              \* Celery task ids
  NoOwner,              \* claimed_by = ""
  MAX_RETRIES,
  REENQUEUE_AFTER,      \* in ticks, like the four below
  STALE_SENDING_AFTER,
  TASK_TIME_LIMIT,      \* CELERY_TASK_TIME_LIMIT: the longest run
  MAX_WAIT,             \* the longest a published task waits for its next run
  DISPATCH_BATCH_SIZE,
  CLEANUP_BATCH_SIZE,
  Schedules,            \* the kinds of scheduled_at that requests carry
  MaxAttempts,          \* bound: no new claim once a message has this many
  Faults,               \* the kinds of failure that may happen
  MaxFaults             \* bound: how many of them

ASSUME ThresholdsAssumption ==
  /\ MAX_RETRIES \in Nat
  /\ REENQUEUE_AFTER \in Nat
  /\ STALE_SENDING_AFTER \in Nat
  /\ TASK_TIME_LIMIT \in Nat
  /\ MAX_WAIT \in Nat
  /\ DISPATCH_BATCH_SIZE \in Nat
  /\ CLEANUP_BATCH_SIZE \in Nat
  /\ MaxAttempts \in Nat
  /\ MaxFaults \in Nat

ASSUME NamesAssumption ==
  /\ NoOwner \notin TaskIds
  /\ Api \notin Dispatchers
  /\ Schedules \subseteq {"none", "future", "due"}
  /\ Faults \subseteq {"outage", "fail", "crash", "redeliver"}

\* settings/base.py: 60 seconds; tasks/scheduler.py: two hours.
ASSUME TimeLimitAssumption == TASK_TIME_LIMIT <= STALE_SENDING_AFTER

VARIABLES
  status,       \* the row's status; "absent" before its insert, "deleted" after
  claimedBy,    \* claimed_by
  scheduled,    \* scheduled_at: NULL, still ahead, or not after now
  enqueuedAge,  \* ticks since enqueued_at; NULL (-1) if never enqueued
  updatedAge,   \* ticks since updated_at
  expired,      \* messages created more than CLEANUP_AGE_DAYS ago
  attempts,     \* the delivery_attempt rows of each message
  deadLetters,  \* messages with a dead_letter row
  pending,      \* publishes each publisher still owes after its commit
  broker,       \* how many copies of each task wait to be run
  waited,       \* how long the copies of a task id have waited
  run,          \* what each worker is running
  doomed,       \* ids cleanup_old_messages has selected and not yet deleted
  faults        \* failures so far

rowVars    == <<status, claimedBy, scheduled, enqueuedAge, updatedAge, expired>>
brokerVars == <<broker, waited>>
vars == <<rowVars, attempts, deadLetters, pending, brokerVars, run, doomed, faults>>

-----------------------------------------------------------------------------
NULL == -1

Terminal == {"sent", "failed", "dead"}
MessageStatus == {"queued", "sending"} \union Terminal
AttemptResult == {"success", "transient_error", "permanent_error"}

Publishers == Dispatchers \union {Api}

Task == [id : TaskIds, msg : Messages, retries : 0..MAX_RETRIES]

Attempt == [no : Nat, result : AttemptResult]

\* A run is between two of its database or broker steps: about to send, about
\* to insert its attempt, about to act on the result, or about to acknowledge.
Idle == [pc |-> "idle"]
Run  == {r \in [pc : {"send", "insert", "finish", "ack"}, task : Task,
                result : AttemptResult \union {"none"}, no : Nat,
                age : 0..TASK_TIME_LIMIT] :
           r.pc # "send" => r.result \in AttemptResult}

\* One type for all: rows, attempts, tasks and runs hold values of the columns
\* and fields of Message, DeliveryAttempt and the Celery request; a task never
\* carries more retries than MAX_RETRIES, so Celery's own limit never acts
\* before the code marks the message dead.
TypeOK ==
  /\ status \in [Messages -> MessageStatus \union {"absent", "deleted"}]
  /\ claimedBy \in [Messages -> TaskIds \union {NoOwner}]
  /\ scheduled \in [Messages -> {"none", "future", "due"}]
  /\ enqueuedAge \in [Messages -> {NULL} \union 0..(REENQUEUE_AFTER + 1)]
  /\ updatedAge \in [Messages -> 0..(STALE_SENDING_AFTER + 1)]
  /\ expired \subseteq Messages
  /\ attempts \in [Messages -> SUBSET Attempt]
  /\ deadLetters \subseteq Messages
  /\ pending \in [Publishers -> SUBSET Messages]
  /\ broker \in [Task -> Nat]
  /\ waited \in [TaskIds -> 0..MAX_WAIT]
  /\ run \in [Workers -> Run \union {Idle}]
  /\ doomed \subseteq Messages
  /\ faults \in 0..MaxFaults

Init ==
  /\ status = [m \in Messages |-> "absent"]
  /\ claimedBy = [m \in Messages |-> NoOwner]
  /\ scheduled = [m \in Messages |-> "none"]
  /\ enqueuedAge = [m \in Messages |-> NULL]
  /\ updatedAge = [m \in Messages |-> 0]
  /\ expired = {}
  /\ attempts = [m \in Messages |-> {}]
  /\ deadLetters = {}
  /\ pending = [p \in Publishers |-> {}]
  /\ broker = [t \in Task |-> 0]
  /\ waited = [i \in TaskIds |-> 0]
  /\ run = [w \in Workers |-> Idle]
  /\ doomed = {}
  /\ faults = 0

-----------------------------------------------------------------------------
(***************************************************************************)
(* The broker.  Redis keeps tasks in memory; with acks_late a task that is *)
(* running is still the broker's and comes back if its worker is lost.     *)
(***************************************************************************)
Waiting(i) == \E t \in Task : t.id = i /\ broker[t] > 0

Busy(w) == run[w].pc # "idle"
Active(w) == run[w].pc \in {"send", "insert", "finish"}

\* apply_async draws a new uuid: no row, task or run refers to it.
Fresh(i) ==
  /\ ~ Waiting(i)
  /\ \A w \in Workers : Busy(w) => run[w].task.id # i
  /\ \A m \in Messages : claimedBy[m] # i

Put(t) ==
  /\ broker' = [broker EXCEPT ![t] = @ + 1]
  /\ waited' = [waited EXCEPT ![t.id] = 0]

Take(t) ==
  /\ broker[t] > 0
  /\ broker' = [broker EXCEPT ![t] = @ - 1]
  /\ waited' = IF \E u \in Task : u.id = t.id /\ broker'[u] > 0
               THEN waited ELSE [waited EXCEPT ![t.id] = 0]

Fault(kind) ==
  /\ kind \in Faults
  /\ faults < MaxFaults
  /\ faults' = faults + 1

-----------------------------------------------------------------------------
(***************************************************************************)
(* The API: create_message inserts the row and, unless scheduled_at lies   *)
(* ahead, publishes its task after the commit.                             *)
(***************************************************************************)
SendNow(s) == s # "future"

\* Mutant: enqueued_at is left NULL although the task is published at once.
EnqueuedAtNever(s) == NULL
EnqueuedAt(s) == IF SendNow(s) THEN 0 ELSE NULL

Create(m, s) ==
  /\ status[m] = "absent"
  /\ status' = [status EXCEPT ![m] = "queued"]
  /\ scheduled' = [scheduled EXCEPT ![m] = s]
  /\ enqueuedAge' = [enqueuedAge EXCEPT ![m] = EnqueuedAt(s)]
  /\ updatedAge' = [updatedAge EXCEPT ![m] = 0]
  /\ pending' = [pending EXCEPT ![Api] = IF SendNow(s) THEN @ \union {m} ELSE @]
  /\ UNCHANGED <<claimedBy, expired, attempts, deadLetters, brokerVars, run,
                 doomed, faults>>

\* enqueue_for, called by _enqueue_after_commit and by _enqueue_all.
Publish(p, m) ==
  /\ m \in pending[p]
  /\ pending' = [pending EXCEPT ![p] = @ \ {m}]
  /\ \E i \in TaskIds : Fresh(i) /\ Put([id |-> i, msg |-> m, retries |-> 0])
  /\ UNCHANGED <<rowVars, attempts, deadLetters, run, doomed, faults>>

\* The API swallows the broker's error (or its process dies): m is left to Beat.
EnqueueAfterCommitFails(m) ==
  /\ Fault("outage")
  /\ m \in pending[Api]
  /\ pending' = [pending EXCEPT ![Api] = @ \ {m}]
  /\ UNCHANGED <<rowVars, attempts, deadLetters, brokerVars, run, doomed>>

\* _enqueue_all stops at the first error: the rest of the batch is not published.
EnqueueAllFails(d) ==
  /\ Fault("outage")
  /\ pending[d] # {}
  /\ pending' = [pending EXCEPT ![d] = {}]
  /\ UNCHANGED <<rowVars, attempts, deadLetters, brokerVars, run, doomed>>

-----------------------------------------------------------------------------
(***************************************************************************)
(* Beat: dispatch_scheduled and cleanup_old_messages.                      *)
(***************************************************************************)
\* Mutants: scheduled_at is not compared with now; any sending row is stale; the
\* shorter threshold is used for it.
DueAnyTime(m)     == enqueuedAge[m] = NULL
StaleAtOnce(m)    == status[m] = "sending"
StaleTooSoon(m)   == status[m] = "sending" /\ updatedAge[m] > REENQUEUE_AFTER

Due(m)      == enqueuedAge[m] = NULL /\ scheduled[m] = "due"
Stranded(m) == enqueuedAge[m] > REENQUEUE_AFTER
Stale(m)    == status[m] = "sending" /\ updatedAge[m] > STALE_SENDING_AFTER

Eligible == {m \in Messages :
               ((Due(m) \/ Stranded(m)) /\ status[m] = "queued") \/ Stale(m)}

\* The first n of S by scheduled_at, with NULL last.
Batches(S, n) ==
  {B \in SUBSET S :
     /\ Cardinality(B) = IF Cardinality(S) <= n THEN Cardinality(S) ELSE n
     /\ \A m \in B, k \in S \ B : scheduled[k] # "none" => scheduled[m] # "none"}

Dispatch(d) ==
  /\ pending[d] = {}
  /\ \E batch \in Batches(Eligible, DISPATCH_BATCH_SIZE) :
       /\ batch # {}
       /\ status' = [m \in Messages |-> IF m \in batch THEN "queued" ELSE status[m]]
       /\ claimedBy' = [m \in Messages |-> IF m \in batch THEN NoOwner ELSE claimedBy[m]]
       /\ enqueuedAge' = [m \in Messages |-> IF m \in batch THEN 0 ELSE enqueuedAge[m]]
       /\ updatedAge' = [m \in Messages |-> IF m \in batch THEN 0 ELSE updatedAge[m]]
       /\ pending' = [pending EXCEPT ![d] = batch]
  /\ UNCHANGED <<scheduled, expired, attempts, deadLetters, brokerVars, run,
                 doomed, faults>>

CleanupSelect ==
  LET old == {m \in expired : status[m] \in Terminal}
  IN /\ doomed = {}
     /\ doomed' \in {S \in SUBSET old :
                       Cardinality(S) = IF Cardinality(old) <= CLEANUP_BATCH_SIZE
                                        THEN Cardinality(old) ELSE CLEANUP_BATCH_SIZE}
     /\ doomed' # {}
     /\ UNCHANGED <<rowVars, attempts, deadLetters, pending, brokerVars, run, faults>>

\* The DELETE names primary keys only; attempts and dead letters cascade.
CleanupDelete ==
  /\ doomed # {}
  /\ status' = [m \in Messages |-> IF m \in doomed THEN "deleted" ELSE status[m]]
  /\ attempts' = [m \in Messages |-> IF m \in doomed THEN {} ELSE attempts[m]]
  /\ deadLetters' = deadLetters \ doomed
  /\ doomed' = {}
  /\ UNCHANGED <<claimedBy, scheduled, enqueuedAge, updatedAge, expired, pending,
                 brokerVars, run, faults>>

-----------------------------------------------------------------------------
(***************************************************************************)
(* The delivery task, _dispatch.                                           *)
(***************************************************************************)

\* Mutants: the owner is not compared; a final status is not looked at.
RefusedUnlessOpen(t) == status[t.msg] \in Terminal \union {"deleted"}
RefusedUnlessOwner(t) ==
  \/ status[t.msg] = "deleted"
  \/ status[t.msg] = "sending" /\ claimedBy[t.msg] # t.id

\* The row is gone (DoesNotExist), is final ("noop"), or is another task's
\* ("duplicate"): the task ends without touching it.
Refused(t) ==
  \/ status[t.msg] = "deleted"
  \/ status[t.msg] \in Terminal
  \/ status[t.msg] = "sending" /\ claimedBy[t.msg] # t.id

Skip(w, t) ==
  /\ ~ Busy(w)
  /\ Take(t)
  /\ Refused(t)
  /\ UNCHANGED <<rowVars, attempts, deadLetters, pending, run, doomed, faults>>

Claim(w, t) ==
  /\ ~ Busy(w)
  /\ Take(t)
  /\ ~ Refused(t)
  /\ Cardinality(attempts[t.msg]) < MaxAttempts
  /\ status' = [status EXCEPT ![t.msg] = "sending"]
  /\ claimedBy' = [claimedBy EXCEPT ![t.msg] = t.id]
  /\ updatedAge' = [updatedAge EXCEPT ![t.msg] = 0]
  /\ run' = [run EXCEPT ![w] = [pc |-> "send", task |-> t, result |-> "none",
                                no |-> 0, age |-> 0]]
  /\ UNCHANGED <<scheduled, enqueuedAge, expired, attempts, deadLetters, pending,
                 doomed, faults>>

\* channel.send, then attempts.count().  Sending changes nothing here; any
\* exception of the channel counts as transient.
Send(w) ==
  /\ run[w].pc = "send"
  /\ \E result \in AttemptResult :
       run' = [run EXCEPT ![w] = [pc |-> "insert", task |-> @.task, result |-> result,
                                  no |-> Cardinality(attempts[@.task.msg]) + 1,
                                  age |-> @.age]]
  /\ UNCHANGED <<rowVars, attempts, deadLetters, pending, brokerVars, doomed, faults>>

\* Mutant: without the unique constraint.
AttemptFitsAnyNumber(m, no) == status[m] # "deleted"

\* The unique constraint (message, attempt_no), and the foreign key.
AttemptFits(m, no) ==
  /\ status[m] # "deleted"
  /\ \A a \in attempts[m] : a.no # no

RecordAttempt(w) ==
  LET m == run[w].task.msg
  IN /\ run[w].pc = "insert"
     /\ AttemptFits(m, run[w].no)
     /\ attempts' = [attempts EXCEPT ![m] =
                       @ \union {[no |-> run[w].no, result |-> run[w].result]}]
     /\ run' = [run EXCEPT ![w].pc = "finish"]
     /\ UNCHANGED <<rowVars, deadLetters, pending, brokerVars, doomed, faults>>

\* IntegrityError is not retried: the task fails and is acknowledged.
AttemptConflict(w) ==
  /\ run[w].pc = "insert"
  /\ ~ AttemptFits(run[w].task.msg, run[w].no)
  /\ run' = [run EXCEPT ![w] = Idle]
  /\ UNCHANGED <<rowVars, attempts, deadLetters, pending, brokerVars, doomed, faults>>

\* Mutant: gives up one retry early.
OutcomeOneShort(r) ==
  CASE r.result = "success" -> "sent"
    [] r.result = "permanent_error" -> "failed"
    [] r.result = "transient_error" /\ r.task.retries + 1 >= MAX_RETRIES -> "dead"
    [] OTHER -> "retry"

\* What the end of _dispatch decides from the result and request.retries.
Outcome(r) ==
  CASE r.result = "success" -> "sent"
    [] r.result = "permanent_error" -> "failed"
    [] r.result = "transient_error" /\ r.task.retries >= MAX_RETRIES -> "dead"
    [] OTHER -> "retry"

\* Mutant: a permanent failure gets no dead letter.
GivesUpIfDead(s) == s = "dead"
GivesUp(s) == s \in {"failed", "dead"}

\* The status is saved from the instance read at the claim; only the row's
\* existence is noticed.
Settle(w) ==
  LET m == run[w].task.msg
      s == Outcome(run[w])
  IN /\ run[w].pc = "finish"
     /\ s # "retry"
     /\ status[m] # "deleted"
     /\ status' = [status EXCEPT ![m] = s]
     /\ updatedAge' = [updatedAge EXCEPT ![m] = 0]
     /\ deadLetters' = IF GivesUp(s) THEN deadLetters \union {m} ELSE deadLetters
     /\ run' = [run EXCEPT ![w] = Idle]
     /\ UNCHANGED <<claimedBy, scheduled, enqueuedAge, expired, attempts, pending,
                    brokerVars, doomed, faults>>

\* save(update_fields=...) of a deleted row raises: the task fails.
SaveFails(w) ==
  /\ run[w].pc = "finish"
  /\ Outcome(run[w]) # "retry"
  /\ status[run[w].task.msg] = "deleted"
  /\ run' = [run EXCEPT ![w] = Idle]
  /\ UNCHANGED <<rowVars, attempts, deadLetters, pending, brokerVars, doomed, faults>>

\* TransientError: autoretry publishes the same task id with one more retry,
\* and only then is the run acknowledged.  The row stays "sending".
Retry(w) ==
  /\ run[w].pc = "finish"
  /\ Outcome(run[w]) = "retry"
  /\ Put([run[w].task EXCEPT !.retries = @ + 1])
  /\ run' = [run EXCEPT ![w].pc = "ack"]
  /\ UNCHANGED <<rowVars, attempts, deadLetters, pending, doomed, faults>>

Ack(w) ==
  /\ run[w].pc = "ack"
  /\ run' = [run EXCEPT ![w] = Idle]
  /\ UNCHANGED <<rowVars, attempts, deadLetters, pending, brokerVars, doomed, faults>>

WorkerStep(w) ==
  \/ \E t \in Task : Skip(w, t) \/ Claim(w, t)
  \/ Send(w)
  \/ RecordAttempt(w)
  \/ AttemptConflict(w)
  \/ Settle(w)
  \/ SaveFails(w)
  \/ Retry(w)
  \/ Ack(w)

-----------------------------------------------------------------------------
(***************************************************************************)
(* Failures of the broker and of the worker processes.                     *)
(***************************************************************************)

\* The retry cannot be published: Celery rejects the task without requeueing.
RetryPublishFails(w) ==
  /\ Fault("outage")
  /\ run[w].pc = "finish"
  /\ Outcome(run[w]) = "retry"
  /\ run' = [run EXCEPT ![w] = Idle]
  /\ UNCHANGED <<rowVars, attempts, deadLetters, pending, brokerVars, doomed>>

\* Redis restarts without persistence: every waiting task is gone.
BrokerRestart ==
  /\ Fault("outage")
  /\ \E t \in Task : broker[t] > 0
  /\ broker' = [t \in Task |-> 0]
  /\ waited' = [i \in TaskIds |-> 0]
  /\ UNCHANGED <<rowVars, attempts, deadLetters, pending, run, doomed>>

\* A time limit or a database error ends the run; failed tasks are acknowledged.
TaskFails(w) ==
  /\ Fault("fail")
  /\ Active(w)
  /\ run' = [run EXCEPT ![w] = Idle]
  /\ UNCHANGED <<rowVars, attempts, deadLetters, pending, brokerVars, doomed>>

\* The worker dies before it acknowledges: the broker delivers the task again.
WorkerLost(w) ==
  /\ Fault("crash")
  /\ Busy(w)
  /\ Put(run[w].task)
  /\ run' = [run EXCEPT ![w] = Idle]
  /\ UNCHANGED <<rowVars, attempts, deadLetters, pending, doomed>>

\* The broker delivers an unacknowledged task again although its run goes on.
Redeliver(w) ==
  /\ Fault("redeliver")
  /\ Busy(w)
  /\ Put(run[w].task)
  /\ UNCHANGED <<rowVars, attempts, deadLetters, pending, run, doomed>>

-----------------------------------------------------------------------------
(***************************************************************************)
(* Time.                                                                   *)
(***************************************************************************)
Older(age, cap) == IF age < cap THEN age + 1 ELSE age

\* CELERY_TASK_TIME_LIMIT ends a run that lasts longer.  Mutant: it is not set.
WithinLimitUnset(w) == TRUE
WithinLimit(w) == Busy(w) => run[w].age < TASK_TIME_LIMIT

\* A tick passes only if no run exceeds its time limit and no task its wait.
\* enqueued_at is read of queued rows only and updated_at of sending rows only,
\* and both are written again before a row returns there: elsewhere their ages
\* stand still.
Tick ==
  /\ \A w \in Workers : WithinLimit(w)
  /\ \A i \in TaskIds : Waiting(i) => waited[i] < MAX_WAIT
  /\ enqueuedAge' = [m \in Messages |->
                       IF status[m] = "queued" /\ enqueuedAge[m] # NULL
                       THEN Older(enqueuedAge[m], REENQUEUE_AFTER + 1)
                       ELSE enqueuedAge[m]]
  /\ updatedAge' = [m \in Messages |->
                      IF status[m] = "sending"
                      THEN Older(updatedAge[m], STALE_SENDING_AFTER + 1)
                      ELSE updatedAge[m]]
  /\ run' = [w \in Workers |-> IF Busy(w) THEN [run[w] EXCEPT !.age = @ + 1]
                               ELSE run[w]]
  /\ waited' = [i \in TaskIds |-> IF Waiting(i) THEN waited[i] + 1 ELSE 0]
  /\ UNCHANGED <<status, claimedBy, scheduled, expired, attempts, deadLetters,
                 pending, broker, doomed, faults>>

\* scheduled_at arrives.
ComeDue(m) ==
  /\ status[m] = "queued"
  /\ scheduled[m] = "future"
  /\ scheduled' = [scheduled EXCEPT ![m] = "due"]
  /\ UNCHANGED <<status, claimedBy, enqueuedAge, updatedAge, expired, attempts,
                 deadLetters, pending, brokerVars, run, doomed, faults>>

\* created_at falls behind the retention window; only final rows are asked.
Expire(m) ==
  /\ status[m] \in Terminal
  /\ m \notin expired
  /\ expired' = expired \union {m}
  /\ UNCHANGED <<status, claimedBy, scheduled, enqueuedAge, updatedAge, attempts,
                 deadLetters, pending, brokerVars, run, doomed, faults>>

-----------------------------------------------------------------------------
Next ==
  \/ \E m \in Messages, s \in Schedules : Create(m, s)
  \/ \E p \in Publishers, m \in Messages : Publish(p, m)
  \/ \E m \in Messages : EnqueueAfterCommitFails(m)
  \/ \E d \in Dispatchers : Dispatch(d) \/ EnqueueAllFails(d)
  \/ CleanupSelect
  \/ CleanupDelete
  \/ \E w \in Workers :
       \/ WorkerStep(w)
       \/ RetryPublishFails(w)
       \/ TaskFails(w)
       \/ WorkerLost(w)
       \/ Redeliver(w)
  \/ BrokerRestart
  \/ Tick
  \/ \E m \in Messages : ComeDue(m) \/ Expire(m)

Spec == Init /\ [][Next]_vars

\* Workers, publishers and Beat keep running and time passes; nothing obliges
\* a failure, a cleanup or a new message.
Fairness ==
  /\ \A w \in Workers : WF_vars(WorkerStep(w))
  /\ \A p \in Publishers, m \in Messages : WF_vars(Publish(p, m))
  /\ \A d \in Dispatchers : WF_vars(Dispatch(d))
  /\ WF_vars(Tick)
  /\ \A m \in Messages : WF_vars(ComeDue(m))

FairSpec == Spec /\ Fairness

-----------------------------------------------------------------------------
(***************************************************************************)
(* Properties.                                                             *)
(***************************************************************************)

Numbers(m)         == {a.no : a \in attempts[m]}
WithResult(m, res) == {a \in attempts[m] : a.result = res}

\* claimed_by is a lock: no two tasks with different ids work on one message
\* at the same time, whatever is lost, late or delivered twice
\* (Message.claimed_by, _dispatch's "duplicate", the stale pass of
\* dispatch_scheduled).
OneOwner ==
  \A v, w \in Workers :
    /\ Active(v)
    /\ Active(w)
    /\ run[v].task.msg = run[w].task.msg
    => run[v].task.id = run[w].task.id

\* The attempts of a message are numbered 1, 2, ... without a gap, although
\* _dispatch counts them and inserts the next one in two separate statements.
AttemptsNumbered ==
  \A m \in Messages : Numbers(m) = 1..Cardinality(attempts[m])

\* A status is only reported with the evidence for it: sent after a recorded
\* success, failed after a permanent error, dead after the first try and
\* MAX_RETRIES retries all ended in recorded transient errors.
StatusHasEvidence ==
  \A m \in Messages :
    /\ status[m] = "sent" => WithResult(m, "success") # {}
    /\ status[m] = "failed" => WithResult(m, "permanent_error") # {}
    /\ status[m] = "dead" =>
         Cardinality(WithResult(m, "transient_error")) > MAX_RETRIES

\* A message given up on has its dead_letter row (docs/DEPLOYMENT.md: failed
\* and dead messages have a row in messages_api_deadletter), also when runs of
\* the same task finish in any order (_move_to_dead_letter).
GivenUpHasDeadLetter ==
  \A m \in Messages : status[m] \in {"failed", "dead"} => m \in deadLetters

LeaseState(s) ==
  CASE s \in {"absent", "queued"} -> "free"
    [] s = "sending"              -> "held"
    [] s \in Terminal             -> "done"
    [] s = "deleted"              -> "gone"

LeaseHolder(m) == IF status[m] = "sending" THEN claimedBy[m] ELSE NoOwner

WorksOn(m) == {run[w].task.id : w \in {v \in Workers : Active(v) /\ run[v].task.msg = m}}

L == INSTANCE Lease WITH
       Owners <- TaskIds, Nobody <- NoOwner,
       state <- [m \in Messages |-> LeaseState(status[m])],
       holder <- [m \in Messages |-> LeaseHolder(m)],
       working <- [m \in Messages |-> WorksOn(m)]

\* claimed_by and status implement the lease: whatever is lost, late or delivered
\* twice, Beat withdraws a message only from a task that does not work on it,
\* only the task that holds it settles it, and only settled messages are removed.
ImplementsLease == L!Spec

\* A message with scheduled_at ahead is neither tried nor handed to a worker
\* or to the broker (create_message, the due condition of dispatch_scheduled).
NotSentEarly ==
  \A m \in Messages :
    scheduled[m] = "future" =>
      /\ attempts[m] = {}
      /\ \A p \in Publishers : m \notin pending[p]
      /\ \A t \in Task : t.msg = m => broker[t] = 0
      /\ \A w \in Workers : Busy(w) => run[w].task.msg # m

\* A settled message is never taken up again: it stays settled until
\* cleanup_old_messages deletes it, and only settled rows are deleted although
\* the DELETE does not look at the status again.
SettledStaysSettled ==
  [][\A m \in Messages :
       /\ status[m] \in Terminal => status'[m] \in Terminal \union {"deleted"}
       /\ status'[m] = "deleted" => status[m] \in Terminal \union {"deleted"}]_vars

\* dispatch_scheduled puts back only "sending" messages "whose task is gone":
\* no copy of the owning task waits or runs.  STALE_SENDING_AFTER has to
\* exceed every wait between two runs plus the time limit for this.
StaleTaskIsGone ==
  [][\A m \in Messages :
       status[m] = "sending" /\ status'[m] = "queued" =>
         /\ ~ Waiting(claimedBy[m])
         /\ \A w \in Workers : Busy(w) => run[w].task.id # claimedBy[m]]_vars

\* A final status is final (models.MessageStatus, scheduler._TERMINAL_STATUSES):
\* once sent, failed or dead, a row keeps that status until it is deleted.
TerminalIsFinal ==
  [][\A m \in Messages :
       status[m] \in Terminal => status'[m] \in {status[m], "deleted"}]_vars

\* Some send of m was answered with success, recorded yet or not.
Succeeded(m) ==
  \/ WithResult(m, "success") # {}
  \/ \E w \in Workers : /\ run[w].pc = "insert"
                        /\ run[w].result = "success"
                        /\ run[w].task.msg = m

\* While no run fails and no task is delivered twice, a message whose send has
\* succeeded is not sent again, however often Beat publishes it.  The receiver may
\* still get it twice: a send that it took and whose answer was lost counts as
\* transient and is repeated ("deliveries are at-least-once", GETTING_STARTED.md).
NotSentAfterSuccess ==
  \A w \in Workers : run[w].pc = "send" => ~ Succeeded(run[w].task.msg)

\* At-least-once: an accepted message is eventually sent, failed or dead, even
\* if every publish is lost or a run dies, as long as failures stop.
EventuallySettled ==
  \A m \in Messages :
    status[m] \in {"queued", "sending"} ~> status[m] \in Terminal \union {"deleted"}
=============================================================================
