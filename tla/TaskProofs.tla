----------------------------- MODULE TaskProofs -----------------------------
(***************************************************************************)
(* What tasks, attempts and rows say about one another, for every set of   *)
(* messages, workers and task ids, every threshold and every combination   *)
(* and number of failures.                                                 *)
(***************************************************************************)
EXTENDS DeliveryProofs

-----------------------------------------------------------------------------
(***************************************************************************)
(* Where tasks come from.                                                  *)
(***************************************************************************)

\* A task waits or is being run.
Live(t) == broker[t] > 0 \/ \E w \in Workers : Busy(w) /\ run[w].task = t

\* A task of the broker was there before, is that of a run (delivered again), is
\* the next try of a run, or is new.
TasksCome ==
  \A t \in Task : broker'[t] > 0 =>
    \/ broker[t] > 0
    \/ \E w \in Workers : Busy(w) /\ run[w].task = t /\ waited'[t.id] = 0
    \/ \E w \in Workers : Retry(w) /\ t = [run[w].task EXCEPT !.retries = @ + 1]
    \/ /\ \E p \in Publishers : Publish(p, t.msg)
       /\ Fresh(t.id)
       /\ t.retries = 0

\* A worker that is busy goes on with its task or has claimed one that waited.
RunsCome ==
  \A w \in Workers : Busy(w)' =>
    \/ /\ Busy(w)
       /\ run'[w].task = run[w].task
       /\ run'[w].age >= run[w].age
    \/ /\ broker[run'[w].task] > 0
       /\ Claim(w, run'[w].task)

LEMMA PutAdds ==
  ASSUME TypeOK, NEW t \in Task, Put(t), NEW u \in Task, broker'[u] > 0
  PROVE  (broker[u] > 0 \/ u = t) /\ waited'[t.id] = 0
  BY DEF Put, TypeOK, Task

LEMMA TakeKeeps ==
  ASSUME TypeOK, NEW t \in Task, Take(t), NEW u \in Task, broker'[u] > 0
  PROVE  broker[u] > 0
  BY DEF Take, TypeOK

\* The next try of a run is a task.
LEMMA RetryIsTask ==
  ASSUME TypeOK, NEW w \in Workers, Retry(w)
  PROVE  /\ run[w] \in Run
         /\ run[w].result = "transient_error"
         /\ [run[w].task EXCEPT !.retries = @ + 1] \in Task
<1>1. run[w] \in Run
  BY BusyIsRun DEF Retry, Busy
<1>2. /\ run[w].task \in Task /\ run[w].task.retries < MAX_RETRIES
      /\ run[w].result = "transient_error"
  BY <1>1, ThresholdsAssumption DEF Retry, Run, Outcome, AttemptResult, Task
<1> QED
  BY <1>1, <1>2, ThresholdsAssumption DEF Task

LEMMA TasksComeStep == Typed /\ [Next]_vars => TasksCome
<1> SUFFICES ASSUME Typed, [Next]_vars PROVE TasksCome
  OBVIOUS
<1> USE DEF brokerVars
<1>0. TypeOK
  BY DEF Typed
<1>1. ASSUME UNCHANGED broker PROVE TasksCome
  BY <1>1 DEF TasksCome
<1>2. ASSUME NEW p \in Publishers, NEW m \in Messages, Publish(p, m) PROVE TasksCome
  <2>1. PICK i \in TaskIds : Fresh(i) /\ Put([id |-> i, msg |-> m, retries |-> 0])
    BY <1>2 DEF Publish
  <2>2. [id |-> i, msg |-> m, retries |-> 0] \in Task
    BY ThresholdsAssumption DEF Task
  <2> QED
    BY <1>0, <1>2, <2>1, <2>2, PutAdds DEF TasksCome
<1>3. ASSUME NEW w \in Workers, NEW t \in Task, Skip(w, t) \/ Claim(w, t) PROVE TasksCome
  <2>1. Take(t)
    BY <1>3 DEF Skip, Claim
  <2> QED
    BY <1>0, <2>1, TakeKeeps DEF TasksCome
<1>4. ASSUME NEW w \in Workers, Retry(w) PROVE TasksCome
  BY <1>0, <1>4, RetryIsTask, PutAdds DEF Retry, TasksCome
<1>5. ASSUME NEW w \in Workers, WorkerLost(w) \/ Redeliver(w) PROVE TasksCome
  <2>1. Busy(w) /\ Put(run[w].task) /\ run[w].task \in Task
    BY <1>0, <1>5, BusyIsRun DEF WorkerLost, Redeliver
  <2> QED
    BY <1>0, <2>1, PutAdds DEF TasksCome
<1>6. CASE BrokerRestart
  BY <1>6 DEF BrokerRestart, TasksCome
<1> QED
  BY <1>1, <1>2, <1>3, <1>4, <1>5, <1>6
  DEF Next, WorkerStep, Create, EnqueueAfterCommitFails, EnqueueAllFails, Dispatch,
      CleanupSelect, CleanupDelete, Send, RecordAttempt, AttemptConflict, Settle,
      SaveFails, Ack, RetryPublishFails, TaskFails, Tick, ComeDue, Expire, vars

LEMMA RunsComeStep == Typed /\ [Next]_vars => RunsCome
<1> SUFFICES ASSUME Typed, [Next]_vars PROVE RunsCome
  OBVIOUS
<1>0. TypeOK
  BY DEF Typed
<1>1. \A w \in Workers : Busy(w) => run[w] \in Run /\ run[w].age \in Nat
  BY <1>0, BusyIsRun, ThresholdsAssumption DEF Run
<1>2. ASSUME UNCHANGED run PROVE RunsCome
  BY <1>1, <1>2 DEF RunsCome, Busy
<1>3. ASSUME NEW w \in Workers, NEW t \in Task, Claim(w, t) PROVE RunsCome
  <2>1. /\ run'[w].task = t
        /\ \A v \in Workers : v # w => run'[v] = run[v]
        /\ broker[t] > 0
    BY <1>0, <1>3 DEF Claim, Take, TypeOK
  <2> QED
    BY <1>1, <1>3, <2>1 DEF RunsCome, Busy
<1>4. ASSUME NEW w \in Workers, Send(w) \/ RecordAttempt(w) \/ Retry(w) PROVE RunsCome
  <2>1. Busy(w)
    BY <1>4 DEF Send, RecordAttempt, Retry, Busy
  <2>2. /\ run'[w].task = run[w].task /\ run'[w].age = run[w].age
        /\ \A v \in Workers : v # w => run'[v] = run[v]
    BY <1>0, <1>1, <1>4, <2>1 DEF Send, RecordAttempt, Retry, TypeOK, Run
  <2> QED
    BY <1>1, <2>1, <2>2 DEF RunsCome, Busy
<1>5. ASSUME NEW w \in Workers,
             \/ AttemptConflict(w) \/ Settle(w) \/ SaveFails(w) \/ Ack(w)
             \/ RetryPublishFails(w) \/ TaskFails(w) \/ WorkerLost(w)
      PROVE  RunsCome
  <2>1. run' = [run EXCEPT ![w] = Idle]
    BY <1>5 DEF AttemptConflict, Settle, SaveFails, Ack, RetryPublishFails, TaskFails,
                WorkerLost
  <2>2. \A v \in Workers : Busy(v)' => run'[v] = run[v]
    BY <1>0, <2>1 DEF TypeOK, Idle, Busy
  <2> QED
    BY <1>1, <2>2 DEF RunsCome, Busy
<1>6. CASE Tick
  <2>1. ASSUME NEW v \in Workers, Busy(v)'
        PROVE  /\ Busy(v) /\ run'[v].task = run[v].task /\ run'[v].age >= run[v].age
    <3>1. Busy(v)
      BY <1>6, <2>1 DEF Tick, Busy
    <3>2. run'[v] = [run[v] EXCEPT !.age = @ + 1]
      BY <1>6, <3>1 DEF Tick
    <3> QED
      BY <1>1, <3>1, <3>2 DEF Run
  <2> QED
    BY <2>1 DEF RunsCome
<1> QED
  BY <1>2, <1>3, <1>4, <1>5, <1>6
  DEF Next, WorkerStep, Create, Publish, EnqueueAfterCommitFails, EnqueueAllFails,
      Dispatch, CleanupSelect, CleanupDelete, Skip, Redeliver, BrokerRestart, ComeDue,
      Expire, vars

-----------------------------------------------------------------------------
(***************************************************************************)
(* Nothing leaves before scheduled_at.                                     *)
(***************************************************************************)

\* A message that does not exist yet, or is not due yet, has left no trace.
Untouched(m) ==
  /\ attempts[m] = {}
  /\ \A p \in Publishers : m \notin pending[p]
  /\ \A t \in Task : t.msg = m => ~ Live(t)

\* Beat finds neither: a row that is not due has no enqueued_at.
NotYet(m) ==
  \/ status[m] = "absent" /\ scheduled[m] # "future"
  \/ status[m] = "queued" /\ scheduled[m] = "future" /\ enqueuedAge[m] = NULL

NoTraceYet ==
  \A m \in Messages :
    status[m] = "absent" \/ scheduled[m] = "future" => NotYet(m) /\ Untouched(m)

\* Only a message that was there and due is given to a publisher.
PendingComes ==
  \A p \in Publishers, m \in Messages : m \in pending'[p] =>
    \/ m \in pending[p]
    \/ status[m] = "absent" /\ status'[m] = "queued" /\ scheduled'[m] # "future"
    \/ status[m] \in {"queued", "sending"} /\ ~ NotYet(m)

LEMMA PendingComesStep == Typed /\ [Next]_vars => PendingComes
<1> SUFFICES ASSUME Typed, [Next]_vars PROVE PendingComes
  OBVIOUS
<1>0. TypeOK
  BY DEF Typed
<1>1. ASSUME NEW m \in Messages, NEW s \in Schedules, Create(m, s) PROVE PendingComes
  BY <1>0, <1>1 DEF Create, SendNow, PendingComes, TypeOK
<1>2. ASSUME NEW q \in Publishers, UNCHANGED pending \/
             \E S \in SUBSET pending[q] : pending' = [pending EXCEPT ![q] = S]
      PROVE PendingComes
  BY <1>0, <1>2 DEF PendingComes, TypeOK
<1>3. ASSUME NEW d \in Dispatchers, Dispatch(d) PROVE PendingComes
  <2>1. PICK batch \in SUBSET Eligible : pending' = [pending EXCEPT ![d] = batch]
    BY <1>3 DEF Dispatch, Batches
  <2>2. \A m \in Eligible : status[m] \in {"queued", "sending"} /\ ~ NotYet(m)
    BY <1>0, ThresholdsAssumption DEF Eligible, Due, Stranded, Stale, NotYet, NULL, TypeOK
  <2> QED
    BY <1>0, <2>1, <2>2 DEF PendingComes, TypeOK
<1>4. ASSUME NEW q \in Publishers, NEW m \in Messages, Publish(q, m) PROVE PendingComes
  BY <1>2, <1>4 DEF Publish
<1>5. ASSUME NEW m \in Messages, EnqueueAfterCommitFails(m) PROVE PendingComes
  BY <1>2, <1>5 DEF EnqueueAfterCommitFails, Publishers
<1>6. ASSUME NEW d \in Dispatchers, EnqueueAllFails(d) PROVE PendingComes
  BY <1>2, <1>6 DEF EnqueueAllFails, Publishers
<1>7. ASSUME UNCHANGED pending PROVE PendingComes
  BY <1>7 DEF PendingComes
<1> QED
  BY <1>1, <1>3, <1>4, <1>5, <1>6, <1>7
  DEF Next, WorkerStep, CleanupSelect, CleanupDelete, Skip, Claim, Send, RecordAttempt,
      AttemptConflict, Settle, SaveFails, Retry, Ack, RetryPublishFails, TaskFails,
      WorkerLost, Redeliver, BrokerRestart, Tick, ComeDue, Expire, vars

\* What is live after a step was live before, is the next try of what was, or is
\* newly published.
LEMMA LiveComes ==
  ASSUME Typed, [Next]_vars, NEW t \in Task, Live(t)'
  PROVE  \/ \E u \in Task : Live(u) /\ u.id = t.id /\ u.msg = t.msg
         \/ /\ Fresh(t.id)
            /\ \E p \in Publishers : t.msg \in pending[p] /\ Publish(p, t.msg)
<1>0. TypeOK /\ TasksCome /\ RunsCome
  BY TasksComeStep, RunsComeStep DEF Typed
<1>1. CASE broker'[t] > 0
  <2>1. CASE broker[t] > 0
    BY <2>1 DEF Live
  <2>2. ASSUME NEW w \in Workers, Busy(w) /\ run[w].task = t PROVE Live(t)
    BY <2>2 DEF Live
  <2>3. ASSUME NEW w \in Workers, Retry(w), t = [run[w].task EXCEPT !.retries = @ + 1]
        PROVE  \E u \in Task : Live(u) /\ u.id = t.id /\ u.msg = t.msg
    <3>1. Busy(w) /\ run[w].task \in Task
      BY <1>0, <2>3, BusyIsRun DEF Retry, Busy
    <3>2. run[w].task.id = t.id /\ run[w].task.msg = t.msg
      BY <2>3, <3>1 DEF Task
    <3> QED
      BY <3>1, <3>2 DEF Live
  <2>4. ASSUME NEW p \in Publishers, Publish(p, t.msg) PROVE t.msg \in pending[p]
    BY <2>4 DEF Publish
  <2> QED
    BY <1>0, <1>1, <2>1, <2>2, <2>3, <2>4 DEF TasksCome
<1>2. ASSUME NEW w \in Workers, Busy(w)', run'[w].task = t PROVE Live(t)
  BY <1>0, <1>2 DEF RunsCome, Live
<1> QED
  BY <1>1, <1>2 DEF Live

\* Only Create and the coming of its time touch a message that has left no trace.
LEMMA NotYetStays ==
  ASSUME Typed, DoomedSettled, [Next]_vars, NEW m \in Messages, NotYet(m), Untouched(m)
  PROVE  /\ \/ NotYet(m)'
            \/ status'[m] # "absent" /\ scheduled'[m] # "future"
         /\ attempts'[m] = {}
<1> DEFINE Stays == /\ \/ NotYet(m)'
                       \/ status'[m] # "absent" /\ scheduled'[m] # "future"
                    /\ attempts'[m] = {}
<1> USE DEF NotYet, NULL, rowVars, Terminal
<1>0. TypeOK /\ attempts[m] = {}
  BY DEF Typed, Untouched
<1>1. ASSUME UNCHANGED <<status, scheduled, enqueuedAge, attempts>> PROVE Stays
  BY <1>0, <1>1
<1>2. ASSUME NEW k \in Messages, NEW s \in Schedules, Create(k, s) PROVE Stays
  BY <1>0, <1>2, NamesAssumption DEF Create, EnqueuedAt, SendNow, TypeOK
<1>3. ASSUME NEW d \in Dispatchers, Dispatch(d) PROVE Stays
  <2>1. m \notin Eligible
    BY <1>0, ThresholdsAssumption DEF Eligible, Due, Stranded, Stale, TypeOK
  <2>2. PICK batch \in SUBSET Eligible :
          /\ status' = [k \in Messages |-> IF k \in batch THEN "queued" ELSE status[k]]
          /\ enqueuedAge' = [k \in Messages |-> IF k \in batch THEN 0 ELSE enqueuedAge[k]]
    BY <1>3 DEF Dispatch, Batches
  <2>3. UNCHANGED <<scheduled, attempts>>
    BY <1>3 DEF Dispatch
  <2> QED
    BY <1>0, <2>1, <2>2, <2>3
<1>4. CASE CleanupDelete
  <2>1. m \notin doomed
    BY DEF DoomedSettled
  <2> QED
    BY <1>0, <1>4, <2>1 DEF CleanupDelete
<1>5. ASSUME NEW w \in Workers, NEW t \in Task, Claim(w, t) PROVE Stays
  <2>1. t.msg # m
    BY <1>5 DEF Claim, Take, Untouched, Live
  <2> QED
    BY <1>0, <1>5, <2>1 DEF Claim, TypeOK
<1>6. ASSUME NEW w \in Workers, RecordAttempt(w) \/ Settle(w) PROVE Stays
  <2>1. run[w].task.msg # m
    <3>1. Busy(w)
      BY <1>6 DEF RecordAttempt, Settle, Busy
    <3> QED
      BY <1>0, <3>1, BusyIsRun DEF Untouched, Live
  <2> QED
    BY <1>0, <1>6, <2>1 DEF RecordAttempt, Settle, TypeOK
<1>7. CASE Tick
  BY <1>0, <1>7 DEF Tick
<1>8. ASSUME NEW k \in Messages, ComeDue(k) PROVE Stays
  BY <1>0, <1>8 DEF ComeDue, TypeOK
<1> QED
  BY <1>1, <1>2, <1>3, <1>4, <1>5, <1>6, <1>7, <1>8
  DEF Next, WorkerStep, Publish, EnqueueAfterCommitFails, EnqueueAllFails,
      CleanupSelect, Skip, Send, AttemptConflict, SaveFails, Retry, Ack,
      RetryPublishFails, TaskFails, WorkerLost, Redeliver, BrokerRestart, Expire, vars

\* No row becomes absent, and none is given a later time than it had.
LEMMA NotYetComes ==
  ASSUME Typed, [Next]_vars, NEW m \in Messages,
         status'[m] = "absent" \/ scheduled'[m] = "future"
  PROVE  status[m] = "absent" \/ scheduled[m] = "future"
<1> DEFINE Was == status[m] = "absent" \/ scheduled[m] = "future"
<1> USE DEF rowVars
<1>0. TypeOK
  BY DEF Typed
<1>1. ASSUME UNCHANGED <<status, scheduled>> PROVE Was
  BY <1>1
<1>2. ASSUME NEW k \in Messages, NEW s \in Schedules, Create(k, s) PROVE Was
  BY <1>0, <1>2 DEF Create, TypeOK
<1>3. ASSUME NEW d \in Dispatchers, Dispatch(d) PROVE Was
  BY <1>3 DEF Dispatch
<1>4. CASE CleanupDelete
  BY <1>4 DEF CleanupDelete
<1>5. ASSUME NEW w \in Workers, NEW t \in Task, Claim(w, t) PROVE Was
  BY <1>0, <1>5 DEF Claim, TypeOK
<1>6. ASSUME NEW w \in Workers, Settle(w) PROVE Was
  <2>1. Outcome(run[w]) # "absent"
    BY DEF Outcome
  <2> QED
    BY <1>0, <1>6, <2>1 DEF Settle, TypeOK
<1>7. ASSUME NEW k \in Messages, ComeDue(k) PROVE Was
  BY <1>0, <1>7 DEF ComeDue, TypeOK
<1> QED
  BY <1>1, <1>2, <1>3, <1>4, <1>5, <1>6, <1>7
  DEF Next, WorkerStep, Publish, EnqueueAfterCommitFails, EnqueueAllFails,
      CleanupSelect, Skip, Send, RecordAttempt, AttemptConflict, SaveFails, Retry, Ack,
      RetryPublishFails, TaskFails, WorkerLost, Redeliver, BrokerRestart, Tick, Expire,
      vars

LEMMA NoTraceYetStep == Typed /\ DoomedSettled /\ NoTraceYet /\ [Next]_vars => NoTraceYet'
<1> SUFFICES ASSUME Typed, DoomedSettled, NoTraceYet, [Next]_vars, NEW m \in Messages,
                    status'[m] = "absent" \/ scheduled'[m] = "future"
             PROVE  NotYet(m)' /\ Untouched(m)'
  BY DEF NoTraceYet
<1>1. NotYet(m) /\ Untouched(m)
  BY NotYetComes DEF NoTraceYet
<1>2. NotYet(m)' /\ attempts'[m] = {}
  BY <1>1, NotYetStays
<1>3. \A p \in Publishers : m \notin pending'[p]
  BY <1>1, <1>2, PendingComesStep DEF PendingComes, Untouched, NotYet
<1>4. ASSUME NEW t \in Task, t.msg = m, Live(t)' PROVE FALSE
  BY <1>1, <1>4, LiveComes DEF Untouched
<1> QED
  BY <1>2, <1>3, <1>4 DEF Untouched

\* A message with scheduled_at ahead is neither tried nor handed to a worker or to
\* the broker, whatever is lost, late or delivered twice.
THEOREM NotSentEarlyHolds == Spec => []NotSentEarly
<1> DEFINE Inv == Typed /\ DoomedSettled /\ NoTraceYet
<1>1. Init => Inv
  <2> SUFFICES ASSUME Init PROVE DoomedSettled /\ NoTraceYet
    BY InitTyped
  <2>1. \A m \in Messages : NotYet(m) /\ Untouched(m)
    BY DEF Init, NotYet, Untouched, Live, Busy, Idle
  <2> QED
    BY <2>1 DEF Init, DoomedSettled, NoTraceYet
<1>2. Inv /\ [Next]_vars => Inv'
  BY NextTyped, DoomedStep, NoTraceYetStep
<1>3. Inv => NotSentEarly
  <2> SUFFICES ASSUME Inv, NEW m \in Messages, scheduled[m] = "future"
               PROVE  /\ attempts[m] = {}
                      /\ \A p \in Publishers : m \notin pending[p]
                      /\ \A t \in Task : t.msg = m => broker[t] = 0
                      /\ \A w \in Workers : Busy(w) => run[w].task.msg # m
    BY DEF NotSentEarly
  <2>1. Untouched(m)
    BY DEF NoTraceYet
  <2>2. \A t \in Task : broker[t] \in Nat
    BY DEF Typed, TypeOK
  <2>3. \A w \in Workers : Busy(w) => run[w].task \in Task
    BY BusyIsRun DEF Typed
  <2> QED
    BY <2>1, <2>2, <2>3 DEF Untouched, Live
<1> QED
  BY <1>1, <1>2, <1>3, PTL DEF Spec

-----------------------------------------------------------------------------
(***************************************************************************)
(* The stale pass.                                                         *)
(***************************************************************************)

\* A task id belongs to one message.
IdsUnique ==
  /\ \A t, u \in Task : Live(t) /\ Live(u) /\ t.id = u.id => t.msg = u.msg
  /\ \A t \in Task, m \in Messages : Live(t) /\ claimedBy[m] = t.id => t.msg = m

\* As long as the owning task of a sending message waits or runs, the row was
\* written no longer ago than a run and that wait can last.
Recent ==
  \A m \in Messages :
    status[m] = "sending" =>
      /\ \A t \in Task : broker[t] > 0 /\ t.id = claimedBy[m] =>
           updatedAge[m] <= TASK_TIME_LIMIT + waited[t.id]
      /\ \A w \in Workers : Busy(w) /\ run[w].task.id = claimedBy[m] =>
           updatedAge[m] <= run[w].age

\* A new task id is nobody's.
LEMMA FreshIsNobodys ==
  ASSUME Typed, NEW i \in TaskIds, Fresh(i)
  PROVE  /\ \A t \in Task : Live(t) => t.id # i
         /\ \A m \in Messages : claimedBy[m] # i
  BY DEF Fresh, Waiting, Live

\* A row's owner is who was, nobody, or the task that claims it.
LEMMA OwnerComes ==
  ASSUME Typed, [Next]_vars, NEW m \in Messages
  PROVE  \/ claimedBy'[m] = claimedBy[m]
         \/ claimedBy'[m] = NoOwner
         \/ \E w \in Workers, t \in Task :
              Claim(w, t) /\ Live(t) /\ t.msg = m /\ claimedBy'[m] = t.id
<1> USE DEF rowVars
<1>0. TypeOK
  BY DEF Typed
<1>1. ASSUME NEW w \in Workers, NEW t \in Task, Claim(w, t)
      PROVE  claimedBy'[m] = claimedBy[m] \/ (Live(t) /\ t.msg = m /\ claimedBy'[m] = t.id)
  BY <1>0, <1>1 DEF Claim, Take, Live, TypeOK
<1>2. ASSUME NEW d \in Dispatchers, Dispatch(d)
      PROVE  claimedBy'[m] = claimedBy[m] \/ claimedBy'[m] = NoOwner
  BY <1>2 DEF Dispatch
<1> QED
  BY <1>1, <1>2
  DEF Next, WorkerStep, Create, Publish, EnqueueAfterCommitFails, EnqueueAllFails,
      CleanupSelect, CleanupDelete, Skip, Send, RecordAttempt, AttemptConflict, Settle,
      SaveFails, Retry, Ack, RetryPublishFails, TaskFails, WorkerLost, Redeliver,
      BrokerRestart, Tick, ComeDue, Expire, vars

LEMMA IdsUniqueStep == Typed /\ IdsUnique /\ [Next]_vars => IdsUnique'
<1> SUFFICES ASSUME Typed, IdsUnique, [Next]_vars PROVE IdsUnique'
  OBVIOUS
<1>1. ASSUME NEW t \in Task, Live(t)'
      PROVE  \/ \E u \in Task : Live(u) /\ u.id = t.id /\ u.msg = t.msg
             \/ /\ \A u \in Task : Live(u) => u.id # t.id
                /\ \A m \in Messages : claimedBy[m] # t.id
  <2>1. t.id \in TaskIds
    BY DEF Task
  <2> QED
    BY <1>1, <2>1, LiveComes, FreshIsNobodys
<1>2. ASSUME NEW t \in Task, NEW u \in Task, Live(t)', Live(u)', t.id = u.id
      PROVE  t.msg = u.msg
  <2>1. CASE \E p \in Publishers, m \in Messages : Publish(p, m)
    <3>1. PICK m \in Messages, i \in TaskIds : Put([id |-> i, msg |-> m, retries |-> 0])
                                           /\ UNCHANGED run
      BY <2>1 DEF Publish
    <3>2. [id |-> i, msg |-> m, retries |-> 0] \in Task
      BY ThresholdsAssumption DEF Task
    <3>3. ASSUME NEW v \in Task, Live(v)' PROVE Live(v) \/ v = [id |-> i, msg |-> m, retries |-> 0]
      BY <3>1, <3>2, <3>3, PutAdds DEF Live, Typed, Busy
    <3> QED
      BY <1>1, <1>2, <3>3 DEF IdsUnique
  <2>2. CASE ~ \E p \in Publishers, m \in Messages : Publish(p, m)
    <3>1. ASSUME NEW v \in Task, Live(v)'
          PROVE  \E x \in Task : Live(x) /\ x.id = v.id /\ x.msg = v.msg
      <4>1. v.msg \in Messages
        BY DEF Task
      <4> QED
        BY <2>2, <3>1, <4>1, LiveComes
    <3> QED
      BY <1>2, <3>1 DEF IdsUnique
  <2> QED
    BY <2>1, <2>2
<1>3. ASSUME NEW t \in Task, NEW m \in Messages, Live(t)', claimedBy'[m] = t.id
      PROVE  t.msg = m
  <2>1. t.id # NoOwner
    BY NamesAssumption DEF Task
  <2>2. CASE claimedBy'[m] = claimedBy[m]
    <3>1. PICK u \in Task : Live(u) /\ u.id = t.id /\ u.msg = t.msg
      BY <1>1, <1>3, <2>2
    <3> QED
      BY <1>3, <2>2, <3>1 DEF IdsUnique
  <2>3. ASSUME NEW u \in Task, Live(u), u.msg = m, u.id = t.id PROVE t.msg = m
    BY <1>1, <1>3, <2>3 DEF IdsUnique
  <2> QED
    BY <1>3, <2>1, <2>2, <2>3, OwnerComes
<1> QED
  BY <1>2, <1>3 DEF IdsUnique

\* Time and a claim are all that change how long ago a sending row was written.
LEMMA AgeComes ==
  ASSUME Typed, [Next]_vars, NEW m \in Messages, status'[m] = "sending"
  PROVE  \/ \E w \in Workers, t \in Task : Claim(w, t) /\ t.msg = m
         \/ /\ status[m] = "sending"
            /\ claimedBy'[m] = claimedBy[m]
            /\ \/ updatedAge'[m] = updatedAge[m]
               \/ Tick /\ updatedAge'[m] <= updatedAge[m] + 1
<1> DEFINE Same == /\ status[m] = "sending"
                   /\ claimedBy'[m] = claimedBy[m]
                   /\ \/ updatedAge'[m] = updatedAge[m]
                      \/ Tick /\ updatedAge'[m] <= updatedAge[m] + 1
<1> USE DEF rowVars
<1>0. TypeOK
  BY DEF Typed
<1>1. ASSUME UNCHANGED <<status, claimedBy, updatedAge>> PROVE Same
  BY <1>1
<1>2. ASSUME NEW k \in Messages, NEW s \in Schedules, Create(k, s) PROVE Same
  BY <1>0, <1>2 DEF Create, TypeOK
<1>3. ASSUME NEW d \in Dispatchers, Dispatch(d) PROVE Same
  BY <1>3 DEF Dispatch
<1>4. CASE CleanupDelete
  BY <1>4 DEF CleanupDelete
<1>5. ASSUME NEW w \in Workers, NEW t \in Task, Claim(w, t), t.msg # m PROVE Same
  BY <1>0, <1>5 DEF Claim, TypeOK
<1>6. ASSUME NEW w \in Workers, Settle(w) PROVE Same
  <2>1. Outcome(run[w]) # "sending"
    BY DEF Outcome
  <2> QED
    BY <1>0, <1>6, <2>1 DEF Settle, TypeOK
<1>7. CASE Tick
  BY <1>0, <1>7, ThresholdsAssumption DEF Tick, Older, TypeOK
<1> QED
  BY <1>1, <1>2, <1>3, <1>4, <1>5, <1>6, <1>7
  DEF Next, WorkerStep, Publish, EnqueueAfterCommitFails, EnqueueAllFails,
      CleanupSelect, Skip, Send, RecordAttempt, AttemptConflict, SaveFails, Retry, Ack,
      RetryPublishFails, TaskFails, WorkerLost, Redeliver, BrokerRestart, ComeDue,
      Expire, vars

\* Only a task that is run, or a new one, starts its wait again.
LEMMA WaitComes ==
  ASSUME Typed, [Next]_vars, NEW t \in Task, broker'[t] > 0
  PROVE  \/ Tick
         \/ broker[t] > 0 /\ waited'[t.id] = waited[t.id]
         \/ \E w \in Workers : Busy(w) /\ run[w].task.id = t.id
         \/ Fresh(t.id)
<1> DEFINE Goal == \/ broker[t] > 0 /\ waited'[t.id] = waited[t.id]
                   \/ \E w \in Workers : Busy(w) /\ run[w].task.id = t.id
                   \/ Fresh(t.id)
<1> USE DEF brokerVars
<1>0. TypeOK /\ t.id \in TaskIds
  BY DEF Typed, Task
<1>1. ASSUME UNCHANGED <<broker, waited>> PROVE Goal
  BY <1>1
<1>2. ASSUME NEW u \in Task, Put(u), Fresh(u.id) \/ \E w \in Workers : Busy(w) /\ run[w].task.id = u.id
      PROVE  Goal
  <2>1. CASE t.id = u.id
    BY <1>2, <2>1
  <2>2. CASE t.id # u.id
    BY <1>0, <1>2, <2>2 DEF Put, TypeOK
  <2> QED
    BY <2>1, <2>2
<1>3. ASSUME NEW p \in Publishers, NEW m \in Messages, Publish(p, m) PROVE Goal
  <2>1. PICK i \in TaskIds : Fresh(i) /\ Put([id |-> i, msg |-> m, retries |-> 0])
    BY <1>3 DEF Publish
  <2>2. [id |-> i, msg |-> m, retries |-> 0] \in Task
    BY ThresholdsAssumption DEF Task
  <2> QED
    BY <1>2, <2>1, <2>2
<1>4. ASSUME NEW w \in Workers, NEW u \in Task, Skip(w, u) \/ Claim(w, u) PROVE Goal
  <2>1. Take(u)
    BY <1>4 DEF Skip, Claim
  <2>2. broker[t] > 0
    BY <1>0, <2>1, TakeKeeps
  <2>3. waited'[t.id] = waited[t.id]
    BY <1>0, <2>1 DEF Take, TypeOK
  <2> QED
    BY <2>2, <2>3
<1>5. ASSUME NEW w \in Workers, Retry(w) PROVE Goal
  <2>1. Busy(w) /\ run[w].task \in Task
    BY <1>0, <1>5, BusyIsRun DEF Retry, Busy
  <2>2. [run[w].task EXCEPT !.retries = @ + 1].id = run[w].task.id
    BY <2>1 DEF Task
  <2> QED
    BY <1>0, <1>2, <1>5, <2>1, <2>2, RetryIsTask DEF Retry
<1>6. ASSUME NEW w \in Workers, WorkerLost(w) \/ Redeliver(w) PROVE Goal
  <2>1. Busy(w) /\ Put(run[w].task) /\ run[w].task \in Task
    BY <1>0, <1>6, BusyIsRun DEF WorkerLost, Redeliver
  <2> QED
    BY <1>2, <2>1
<1>7. CASE BrokerRestart
  BY <1>7 DEF BrokerRestart
<1> QED
  BY <1>1, <1>3, <1>4, <1>5, <1>6, <1>7
  DEF Next, WorkerStep, Create, EnqueueAfterCommitFails, EnqueueAllFails, Dispatch,
      CleanupSelect, CleanupDelete, Send, RecordAttempt, AttemptConflict, Settle,
      SaveFails, Ack, RetryPublishFails, TaskFails, ComeDue, Expire, vars

LEMMA RecentStep == Typed /\ IdsUnique /\ Recent /\ [Next]_vars => Recent'
<1> SUFFICES ASSUME Typed, IdsUnique, Recent, [Next]_vars,
                    NEW m \in Messages, status'[m] = "sending"
             PROVE  /\ \A t \in Task : broker'[t] > 0 /\ t.id = claimedBy'[m] =>
                         updatedAge'[m] <= TASK_TIME_LIMIT + waited'[t.id]
                    /\ \A w \in Workers : Busy(w)' /\ run'[w].task.id = claimedBy'[m] =>
                         updatedAge'[m] <= run'[w].age
  BY DEF Recent
<1>0. /\ TypeOK /\ TypeOK' /\ Typed'
      /\ updatedAge[m] \in Nat /\ updatedAge'[m] \in Nat
      /\ \A t \in Task : waited[t.id] \in Nat /\ waited'[t.id] \in Nat
      /\ \A w \in Workers : Busy(w) => run[w] \in Run /\ run[w].age \in 0..TASK_TIME_LIMIT
      /\ \A w \in Workers : Busy(w)' => run'[w].age \in Nat
  <2>1. TypeOK /\ TypeOK' /\ Typed'
    BY NextTyped DEF Typed
  <2>2. updatedAge[m] \in Nat /\ updatedAge'[m] \in Nat
    BY <2>1, ThresholdsAssumption DEF TypeOK
  <2>3. \A t \in Task : waited[t.id] \in Nat /\ waited'[t.id] \in Nat
    BY <2>1, ThresholdsAssumption DEF TypeOK, Task
  <2>4. \A w \in Workers : Busy(w) => run[w] \in Run /\ run[w].age \in 0..TASK_TIME_LIMIT
    BY <2>1, BusyIsRun DEF Run
  <2>5. ASSUME NEW w \in Workers, Busy(w)' PROVE run'[w].age \in Nat
    <3>1. run'[w] \in Run
      BY <2>1, <2>5 DEF TypeOK, Busy, Idle
    <3> QED
      BY <3>1, ThresholdsAssumption DEF Run
  <2> QED
    BY <2>1, <2>2, <2>3, <2>4, <2>5
<1>1. ASSUME NEW w \in Workers, NEW t \in Task, Claim(w, t), t.msg = m
      PROVE  updatedAge'[m] = 0
  BY <1>0, <1>1 DEF Claim, TypeOK
<1>2. CASE \E w \in Workers, t \in Task : Claim(w, t) /\ t.msg = m
  BY <1>0, <1>1, <1>2, ThresholdsAssumption
<1>3. CASE /\ status[m] = "sending"
           /\ claimedBy'[m] = claimedBy[m]
           /\ Tick /\ updatedAge'[m] <= updatedAge[m] + 1
  <2>1. ASSUME NEW t \in Task, broker'[t] > 0, t.id = claimedBy'[m]
        PROVE  updatedAge'[m] <= TASK_TIME_LIMIT + waited'[t.id]
    <3>1. broker[t] > 0 /\ t.id \in TaskIds
      BY <1>3, <2>1 DEF Tick, Task
    <3>2. waited'[t.id] = waited[t.id] + 1
      BY <1>3, <3>1 DEF Tick, Waiting
    <3>3. updatedAge[m] <= TASK_TIME_LIMIT + waited[t.id]
      BY <1>3, <2>1, <3>1 DEF Recent
    <3> QED
      BY <1>0, <1>3, <3>2, <3>3, ThresholdsAssumption
  <2>2. ASSUME NEW w \in Workers, Busy(w)', run'[w].task.id = claimedBy'[m]
        PROVE  updatedAge'[m] <= run'[w].age
    <3>1. Busy(w)
      BY <1>3, <2>2 DEF Tick, Busy
    <3>2. run'[w].task = run[w].task /\ run'[w].age = run[w].age + 1
      BY <1>0, <1>3, <3>1 DEF Tick, Run
    <3>3. updatedAge[m] <= run[w].age
      BY <1>3, <2>2, <3>1, <3>2 DEF Recent
    <3> QED
      BY <1>0, <1>3, <3>1, <3>2, <3>3, ThresholdsAssumption
  <2> QED
    BY <2>1, <2>2
<1>4. CASE /\ status[m] = "sending"
           /\ claimedBy'[m] = claimedBy[m]
           /\ updatedAge'[m] = updatedAge[m]
           /\ ~ Tick
           /\ ~ \E w \in Workers, t \in Task : Claim(w, t) /\ t.msg = m
  <2>1. ASSUME NEW w \in Workers, Busy(w), run[w].task.id = claimedBy[m]
        PROVE  updatedAge[m] <= run[w].age
    BY <1>4, <2>1 DEF Recent
  <2>2. ASSUME NEW t \in Task, broker'[t] > 0, t.id = claimedBy'[m]
        PROVE  updatedAge'[m] <= TASK_TIME_LIMIT + waited'[t.id]
    <3>1. ~ Fresh(t.id)
      BY <1>4, <2>2 DEF Fresh
    <3>2. CASE broker[t] > 0 /\ waited'[t.id] = waited[t.id]
      BY <1>4, <2>2, <3>2 DEF Recent
    <3>3. CASE \E w \in Workers : Busy(w) /\ run[w].task.id = t.id
      BY <1>0, <1>4, <2>1, <2>2, <3>3, ThresholdsAssumption
    <3> QED
      BY <1>4, <2>2, <3>1, <3>2, <3>3, WaitComes
  <2>3. ASSUME NEW w \in Workers, Busy(w)', run'[w].task.id = claimedBy'[m]
        PROVE  updatedAge'[m] <= run'[w].age
    <3>1. CASE Busy(w) /\ run'[w].task = run[w].task /\ run'[w].age >= run[w].age
      BY <1>0, <1>4, <2>1, <2>3, <3>1
    <3>2. CASE broker[run'[w].task] > 0 /\ Claim(w, run'[w].task)
      <4>1. run'[w].task \in Task
        BY <1>0, <2>3 DEF TypeOK, Busy, Idle, Run
      <4>2. run'[w].task.msg = m
        BY <1>4, <2>3, <3>2, <4>1 DEF IdsUnique, Live
      <4> QED
        BY <1>4, <3>2, <4>1, <4>2
    <3> QED
      BY <2>3, <3>1, <3>2, RunsComeStep DEF RunsCome
  <2> QED
    BY <2>2, <2>3
<1> QED
  BY <1>0, <1>2, <1>3, <1>4, AgeComes

\* Nothing but the stale pass takes a sending row back to queued.
LEMMA StalePassPutsBack ==
  ASSUME Typed, [Next]_vars, NEW m \in Messages, status[m] = "sending", status'[m] = "queued"
  PROVE  updatedAge[m] > STALE_SENDING_AFTER
<1> USE DEF rowVars
<1>0. TypeOK
  BY DEF Typed
<1>1. ASSUME UNCHANGED status PROVE FALSE
  BY <1>1
<1>2. ASSUME NEW k \in Messages, NEW s \in Schedules, Create(k, s) PROVE FALSE
  BY <1>0, <1>2 DEF Create, TypeOK
<1>3. ASSUME NEW d \in Dispatchers, Dispatch(d) PROVE updatedAge[m] > STALE_SENDING_AFTER
  BY <1>3 DEF Dispatch, Batches, Eligible, Stale
<1>4. CASE CleanupDelete
  BY <1>4 DEF CleanupDelete
<1>5. ASSUME NEW w \in Workers, NEW t \in Task, Claim(w, t) PROVE FALSE
  BY <1>0, <1>5 DEF Claim, TypeOK
<1>6. ASSUME NEW w \in Workers, Settle(w) PROVE FALSE
  <2>1. Outcome(run[w]) # "queued"
    BY DEF Outcome
  <2> QED
    BY <1>0, <1>6, <2>1 DEF Settle, TypeOK
<1> QED
  BY <1>1, <1>2, <1>3, <1>4, <1>5, <1>6
  DEF Next, WorkerStep, Publish, EnqueueAfterCommitFails, EnqueueAllFails,
      CleanupSelect, Skip, Send, RecordAttempt, AttemptConflict, SaveFails, Retry, Ack,
      RetryPublishFails, TaskFails, WorkerLost, Redeliver, BrokerRestart, Tick, ComeDue,
      Expire, vars

\* dispatch_scheduled puts back only messages whose task is gone, for any number
\* of messages, workers and failures, if STALE_SENDING_AFTER covers the longest
\* run and the longest wait of a task between two runs.
THEOREM StaleTaskIsGoneHolds ==
  TASK_TIME_LIMIT + MAX_WAIT <= STALE_SENDING_AFTER => (Spec => StaleTaskIsGone)
<1> SUFFICES ASSUME TASK_TIME_LIMIT + MAX_WAIT <= STALE_SENDING_AFTER
             PROVE  Spec => StaleTaskIsGone
  OBVIOUS
<1> DEFINE Inv == Typed /\ IdsUnique /\ Recent
<1>1. Init => Inv
  <2> SUFFICES ASSUME Init PROVE IdsUnique /\ Recent
    BY InitTyped
  <2>1. \A t \in Task : ~ Live(t)
    BY DEF Init, Live, Busy, Idle
  <2> QED
    BY <2>1 DEF Init, IdsUnique, Recent
<1>2. Inv /\ [Next]_vars => Inv'
  BY NextTyped, IdsUniqueStep, RecentStep
<1>3. Inv /\ [Next]_vars =>
        [\A m \in Messages :
           status[m] = "sending" /\ status'[m] = "queued" =>
             /\ ~ Waiting(claimedBy[m])
             /\ \A w \in Workers : Busy(w) => run[w].task.id # claimedBy[m]]_vars
  <2> SUFFICES ASSUME Inv, [Next]_vars, NEW m \in Messages,
                      status[m] = "sending", status'[m] = "queued"
               PROVE  /\ ~ Waiting(claimedBy[m])
                      /\ \A w \in Workers : Busy(w) => run[w].task.id # claimedBy[m]
    OBVIOUS
  <2>1. updatedAge[m] > STALE_SENDING_AFTER /\ updatedAge[m] \in Nat
    BY StalePassPutsBack, ThresholdsAssumption DEF Typed, TypeOK
  <2>2. ASSUME NEW t \in Task, t.id = claimedBy[m], broker[t] > 0 PROVE FALSE
    <3>1. updatedAge[m] <= TASK_TIME_LIMIT + waited[t.id]
      BY <2>2 DEF Recent
    <3>2. waited[t.id] \in 0..MAX_WAIT
      BY DEF Typed, TypeOK, Task
    <3> QED
      BY <2>1, <3>1, <3>2, ThresholdsAssumption
  <2>3. ASSUME NEW w \in Workers, Busy(w), run[w].task.id = claimedBy[m] PROVE FALSE
    <3>1. updatedAge[m] <= run[w].age
      BY <2>3 DEF Recent
    <3>2. run[w].age \in 0..TASK_TIME_LIMIT
      BY <2>3, BusyIsRun DEF Typed, Run
    <3> QED
      BY <2>1, <3>1, <3>2, ThresholdsAssumption
  <2> QED
    BY <2>2, <2>3 DEF Waiting
<1> QED
  BY <1>1, <1>2, <1>3, PTL DEF Spec, StaleTaskIsGone

-----------------------------------------------------------------------------
(***************************************************************************)
(* Evidence.                                                               *)
(***************************************************************************)

\* Every retry stands for a transient attempt that was recorded.
Transients(m) == Cardinality(WithResult(m, "transient_error"))

Evidenced ==
  /\ StatusHasEvidence
  /\ \A t \in Task :
       Live(t) /\ status[t.msg] # "deleted" => t.retries <= Transients(t.msg)
  /\ \A w \in Workers :
       run[w].pc = "finish" /\ status[run[w].task.msg] # "deleted" =>
         /\ WithResult(run[w].task.msg, run[w].result) # {}
         /\ run[w].result = "transient_error" =>
              run[w].task.retries < Transients(run[w].task.msg)

\* Attempts of a row that is not deleted are only added.
LEMMA AttemptsGrow ==
  ASSUME Typed, [Next]_vars, NEW m \in Messages, status'[m] # "deleted"
  PROVE  attempts[m] \subseteq attempts'[m]
<1>0. TypeOK
  BY DEF Typed
<1>1. ASSUME NEW w \in Workers, RecordAttempt(w) PROVE attempts[m] \subseteq attempts'[m]
  BY <1>1, RecordAttemptAdds
<1>2. CASE CleanupDelete
  BY <1>2 DEF CleanupDelete
<1>3. CASE UNCHANGED attempts
  BY <1>3
<1>4. ASSUME NEW w \in Workers, Send(w) PROVE UNCHANGED attempts
  BY <1>4 DEF Send
<1> QED
  BY <1>1, <1>2, <1>3, <1>4, InsertsComeFromSend

\* So their numbers only grow.
LEMMA TransientsGrow ==
  ASSUME Typed, [Next]_vars, NEW m \in Messages, status'[m] # "deleted"
  PROVE  /\ Transients(m) \in Nat
         /\ Transients(m)' \in Nat
         /\ Transients(m) <= Transients(m)'
         /\ \A res : WithResult(m, res) \subseteq WithResult(m, res)'
<1>1. IsFiniteSet(attempts[m]) /\ IsFiniteSet(attempts'[m])
  BY NextTyped DEF Typed, AttemptsFinite
<1>2. \A res : WithResult(m, res) \subseteq WithResult(m, res)'
  BY AttemptsGrow DEF WithResult
<1>3. /\ WithResult(m, "transient_error") \in SUBSET attempts[m]
      /\ WithResult(m, "transient_error")' \in SUBSET attempts'[m]
  BY DEF WithResult
<1>4. /\ IsFiniteSet(WithResult(m, "transient_error"))
      /\ IsFiniteSet(WithResult(m, "transient_error")')
  BY <1>1, <1>3, FS_Subset
<1>5. Transients(m) \in Nat /\ Transients(m)' \in Nat
  BY <1>4, FS_CardinalityType DEF Transients
<1>6. Transients(m) <= Transients(m)'
  BY <1>2, <1>4, FS_Subset DEF Transients
<1> QED
  BY <1>2, <1>5, <1>6

\* A recorded attempt is there, and counts if it is transient.
LEMMA RecordIsEvidence ==
  ASSUME Typed, NEW w \in Workers, RecordAttempt(w),
         NEW m \in Messages, m = run[w].task.msg, NEW res, res = run[w].result
  PROVE  /\ WithResult(m, res)' # {}
         /\ res = "transient_error" => Transients(m)' = Transients(m) + 1
<1>1. PICK a \in Attempt :
        /\ a.result = res
        /\ a \notin attempts[m]
        /\ attempts'[m] = attempts[m] \union {a}
        /\ IsFiniteSet(attempts[m])
  BY RecordAttemptAdds
<1>2. WithResult(m, res)' # {}
  BY <1>1 DEF WithResult
<1>3. ASSUME res = "transient_error" PROVE Transients(m)' = Transients(m) + 1
  <2>1. WithResult(m, "transient_error")' = WithResult(m, "transient_error") \union {a}
    BY <1>1, <1>3 DEF WithResult
  <2>2. a \notin WithResult(m, "transient_error")
    BY <1>1 DEF WithResult
  <2>3. WithResult(m, "transient_error") \in SUBSET attempts[m]
    BY DEF WithResult
  <2>4. IsFiniteSet(WithResult(m, "transient_error"))
    BY <1>1, <2>3, FS_Subset
  <2> QED
    BY <2>1, <2>2, <2>4, FS_AddElement DEF Transients
<1> QED
  BY <1>2, <1>3

\* A run that is about to act on its result was, or has just recorded it.
LEMMA FinishComes ==
  ASSUME Typed, [Next]_vars, NEW w \in Workers, run'[w].pc = "finish"
  PROVE  /\ run'[w].task = run[w].task
         /\ run'[w].result = run[w].result
         /\ run[w].pc = "finish" \/ RecordAttempt(w)
<1> DEFINE Same == /\ run'[w].task = run[w].task
                   /\ run'[w].result = run[w].result
                   /\ run[w].pc = "finish" \/ RecordAttempt(w)
<1>0. TypeOK
  BY DEF Typed
<1>1. ASSUME UNCHANGED run PROVE Same
  BY <1>1
<1>2. ASSUME NEW v \in Workers, NEW t \in Task, Claim(v, t) PROVE Same
  BY <1>0, <1>2 DEF Claim, TypeOK
<1>3. ASSUME NEW v \in Workers, Send(v) PROVE Same
  BY <1>0, <1>3 DEF Send, TypeOK
<1>4. ASSUME NEW v \in Workers, RecordAttempt(v) PROVE Same
  <2>1. run[v] \in Run
    BY <1>0, <1>4, BusyIsRun DEF RecordAttempt, Busy
  <2> QED
    BY <1>0, <1>4, <2>1 DEF RecordAttempt, TypeOK, Run
<1>5. ASSUME \A v \in Workers : run'[v] = run[v] \/ run'[v].pc \in {"idle", "ack"} PROVE Same
  BY <1>5
<1>6. ASSUME NEW v \in Workers,
             \/ AttemptConflict(v) \/ Settle(v) \/ SaveFails(v) \/ Retry(v) \/ Ack(v)
             \/ RetryPublishFails(v) \/ TaskFails(v) \/ WorkerLost(v)
      PROVE  Same
  <2>1. \/ run' = [run EXCEPT ![v] = Idle]
        \/ Busy(v) /\ run' = [run EXCEPT ![v].pc = "ack"]
    BY <1>6 DEF AttemptConflict, Settle, SaveFails, Retry, Ack, RetryPublishFails,
                TaskFails, WorkerLost, Busy
  <2> QED
    BY <1>0, <1>5, <2>1, RunEnds
<1>7. CASE Tick
  <2>1. Busy(w)
    BY <1>7 DEF Tick, Busy
  <2> QED
    BY <1>0, <1>7, <2>1, BusyIsRun DEF Tick, Run
<1> QED
  BY <1>1, <1>2, <1>3, <1>4, <1>6, <1>7
  DEF Next, WorkerStep, Create, Publish, EnqueueAfterCommitFails, EnqueueAllFails,
      Dispatch, CleanupSelect, CleanupDelete, Skip, Redeliver, BrokerRestart, ComeDue,
      Expire, vars

\* A status becomes final only when a run settles it.
LEMMA FinalComes ==
  ASSUME Typed, [Next]_vars, NEW m \in Messages, status'[m] \in Terminal
  PROVE  \/ status'[m] = status[m]
         \/ \E w \in Workers : /\ Settle(w)
                              /\ run[w].task.msg = m
                              /\ status'[m] = Outcome(run[w])
<1> USE DEF rowVars, Terminal
<1>0. TypeOK
  BY DEF Typed
<1>1. ASSUME NEW k \in Messages, NEW s \in Schedules, Create(k, s) PROVE status'[m] = status[m]
  BY <1>0, <1>1 DEF Create, TypeOK
<1>2. ASSUME NEW d \in Dispatchers, Dispatch(d) PROVE status'[m] = status[m]
  BY <1>2 DEF Dispatch
<1>3. CASE CleanupDelete
  BY <1>3 DEF CleanupDelete
<1>4. ASSUME NEW w \in Workers, NEW t \in Task, Claim(w, t) PROVE status'[m] = status[m]
  BY <1>0, <1>4 DEF Claim, TypeOK
<1>5. ASSUME NEW w \in Workers, Settle(w)
      PROVE  \/ status'[m] = status[m]
             \/ run[w].task.msg = m /\ status'[m] = Outcome(run[w])
  BY <1>0, <1>5 DEF Settle, TypeOK
<1> QED
  BY <1>1, <1>2, <1>3, <1>4, <1>5
  DEF Next, WorkerStep, Publish, EnqueueAfterCommitFails, EnqueueAllFails,
      CleanupSelect, Skip, Send, RecordAttempt, AttemptConflict, SaveFails, Retry, Ack,
      RetryPublishFails, TaskFails, WorkerLost, Redeliver, BrokerRestart, Tick, ComeDue,
      Expire, vars

LEMMA EvidencedStep == Typed /\ Evidenced /\ [Next]_vars => Evidenced'
<1> SUFFICES ASSUME Typed, Evidenced, [Next]_vars PROVE Evidenced'
  OBVIOUS
<1>0. /\ TypeOK /\ StatusMoves /\ TasksCome /\ RunsCome /\ Typed'
      /\ \A t \in Task : t.msg \in Messages /\ t.retries \in Nat
      /\ \A w \in Workers : Busy(w) => run[w] \in Run /\ run[w].task \in Task
  BY StatusMovesStep, TasksComeStep, RunsComeStep, NextTyped, BusyIsRun, ThresholdsAssumption
  DEF Typed, Task
<1>1. ASSUME NEW m \in Messages, status'[m] # "deleted"
      PROVE  /\ status[m] # "deleted"
             /\ Transients(m) \in Nat /\ Transients(m)' \in Nat
             /\ Transients(m) <= Transients(m)'
             /\ \A res : WithResult(m, res) \subseteq WithResult(m, res)'
  BY <1>0, <1>1, TransientsGrow DEF StatusMoves
<1>2. ASSUME NEW m \in Messages
      PROVE  /\ status'[m] = "sent" => WithResult(m, "success")' # {}
             /\ status'[m] = "failed" => WithResult(m, "permanent_error")' # {}
             /\ status'[m] = "dead" => Transients(m)' > MAX_RETRIES
  <2> SUFFICES ASSUME status'[m] \in Terminal
               PROVE  /\ status'[m] = "sent" => WithResult(m, "success") # {}
                      /\ status'[m] = "failed" => WithResult(m, "permanent_error") # {}
                      /\ status'[m] = "dead" => Transients(m) > MAX_RETRIES
    BY <1>1, ThresholdsAssumption DEF Terminal
  <2>1. CASE status'[m] = status[m]
    BY <2>1 DEF Evidenced, StatusHasEvidence, Transients
  <2>2. ASSUME NEW w \in Workers, Settle(w), run[w].task.msg = m,
               status'[m] = Outcome(run[w])
        PROVE  /\ status'[m] = "sent" => WithResult(m, "success") # {}
               /\ status'[m] = "failed" => WithResult(m, "permanent_error") # {}
               /\ status'[m] = "dead" => Transients(m) > MAX_RETRIES
    <3>1. /\ WithResult(m, run[w].result) # {}
          /\ run[w].result = "transient_error" => run[w].task.retries < Transients(m)
      BY <2>2 DEF Evidenced, Settle
    <3>2. /\ status'[m] = "sent" => run[w].result = "success"
          /\ status'[m] = "failed" => run[w].result = "permanent_error"
          /\ status'[m] = "dead" => /\ run[w].result = "transient_error"
                                    /\ run[w].task.retries >= MAX_RETRIES
      BY <2>2 DEF Outcome
    <3>3. run[w].task.retries \in Nat /\ Transients(m) \in Nat
      BY <1>0, <1>1, <2>2 DEF Settle, Busy, Terminal
    <3> QED
      BY <3>1, <3>2, <3>3, ThresholdsAssumption
  <2> QED
    BY <2>1, <2>2, FinalComes
<1>3. ASSUME NEW t \in Task, Live(t), status'[t.msg] # "deleted"
      PROVE  t.retries <= Transients(t.msg)'
  <2>1. status[t.msg] # "deleted"
    BY <1>0, <1>1, <1>3
  <2>2. t.retries <= Transients(t.msg)
    BY <1>3, <2>1 DEF Evidenced
  <2> QED
    BY <1>0, <1>1, <1>3, <2>2
<1>4. ASSUME NEW t \in Task, Live(t)', status'[t.msg] # "deleted"
      PROVE  t.retries <= Transients(t.msg)'
  <2>1. CASE Live(t)
    BY <1>3, <1>4, <2>1
  <2>2. ASSUME NEW w \in Workers, Retry(w), t = [run[w].task EXCEPT !.retries = @ + 1]
        PROVE  t.retries <= Transients(t.msg)'
    <3>1. /\ run[w].pc = "finish" /\ run[w].result = "transient_error"
          /\ run[w].task \in Task
      BY <1>0, <2>2, RetryIsTask DEF Retry, Busy
    <3>2. t.msg = run[w].task.msg /\ t.retries = run[w].task.retries + 1
      BY <2>2, <3>1 DEF Task
    <3>3. run[w].task.retries < Transients(t.msg)
      BY <1>0, <1>1, <1>4, <3>1, <3>2 DEF Evidenced
    <3> QED
      BY <1>0, <1>1, <1>4, <3>1, <3>2, <3>3
  <2>3. CASE t.retries = 0
    BY <1>0, <1>1, <1>4, <2>3
  <2> QED
    BY <1>0, <1>4, <2>1, <2>2, <2>3 DEF Live, TasksCome, RunsCome
<1>5. ASSUME NEW w \in Workers, NEW m \in Messages, NEW res,
             run'[w].pc = "finish", run'[w].task.msg = m, run'[w].result = res,
             status'[m] # "deleted"
      PROVE  /\ WithResult(m, res)' # {}
             /\ res = "transient_error" => run'[w].task.retries < Transients(m)'
  <2>1. /\ run'[w].task = run[w].task /\ run'[w].result = run[w].result
        /\ run[w].pc = "finish" \/ RecordAttempt(w)
    BY <1>5, FinishComes
  <2>2. CASE run[w].pc = "finish"
    <3>1. /\ WithResult(m, res) # {}
          /\ res = "transient_error" => run[w].task.retries < Transients(m)
      BY <1>1, <1>5, <2>1, <2>2 DEF Evidenced
    <3>2. run[w].task.retries \in Nat
      BY <1>0, <2>2 DEF Busy
    <3> QED
      BY <1>1, <1>5, <2>1, <3>1, <3>2
  <2>3. CASE RecordAttempt(w)
    <3>1. Busy(w)
      BY <2>3 DEF RecordAttempt, Busy
    <3>2. run[w].task \in Task /\ Live(run[w].task) /\ run[w].task.retries \in Nat
      BY <1>0, <3>1 DEF Live
    <3>3. run[w].task.retries <= Transients(m)
      BY <1>1, <1>5, <2>1, <3>2 DEF Evidenced
    <3>4. /\ WithResult(m, res)' # {}
          /\ res = "transient_error" => Transients(m)' = Transients(m) + 1
      BY <1>5, <2>1, <2>3, RecordIsEvidence
    <3> QED
      BY <1>1, <1>5, <2>1, <3>2, <3>3, <3>4
  <2> QED
    BY <2>1, <2>2, <2>3
<1>6. StatusHasEvidence'
  BY <1>2 DEF StatusHasEvidence, Transients
<1>7. ASSUME NEW w \in Workers, run'[w].pc = "finish", status'[run'[w].task.msg] # "deleted"
      PROVE  /\ WithResult(run[w].task.msg, run[w].result)' # {}
             /\ run'[w].result = "transient_error" =>
                  run'[w].task.retries < Transients(run[w].task.msg)'
  <2>1. run'[w].task.msg \in Messages
    BY <1>0, <1>7 DEF Typed, TypeOK, Idle, Run
  <2> QED
    BY <1>5, <1>7, <2>1 DEF WithResult, Transients
<1>8. (\A t \in Task : Live(t) /\ status[t.msg] # "deleted" => t.retries <= Transients(t.msg))'
  BY <1>4
<1> QED
  BY <1>6, <1>7, <1>8 DEF Evidenced

\* A status is only reported with the evidence for it, whichever runs of a task
\* overlap, are lost or are delivered twice.
THEOREM StatusHasEvidenceHolds == Spec => []StatusHasEvidence
<1>1. Init => Typed /\ Evidenced
  <2> SUFFICES ASSUME Init PROVE Evidenced
    BY InitTyped
  <2>1. \A t \in Task : ~ Live(t)
    BY DEF Init, Live, Busy, Idle
  <2> QED
    BY <2>1 DEF Init, Evidenced, StatusHasEvidence, Idle
<1>2. Typed /\ Evidenced /\ [Next]_vars => (Typed /\ Evidenced)'
  BY NextTyped, EvidencedStep
<1>3. Evidenced => StatusHasEvidence
  BY DEF Evidenced
<1> QED
  BY <1>1, <1>2, <1>3, PTL DEF Spec

\* A message given up on has its dead_letter row, in whichever order runs of the
\* same task finish.
THEOREM GivenUpHasDeadLetterHolds == Spec => []GivenUpHasDeadLetter
<1>1. Init => Typed /\ GivenUpHasDeadLetter
  BY InitTyped DEF Init, GivenUpHasDeadLetter
<1>2. Typed /\ GivenUpHasDeadLetter /\ [Next]_vars => (Typed /\ GivenUpHasDeadLetter)'
  <2> SUFFICES ASSUME Typed, GivenUpHasDeadLetter, [Next]_vars,
                      NEW m \in Messages, status'[m] \in {"failed", "dead"}
               PROVE  m \in deadLetters'
    BY NextTyped DEF GivenUpHasDeadLetter
  <2>1. ASSUME m \in deadLetters PROVE m \in deadLetters'
    <3>1. CASE CleanupDelete
      BY <2>1, <3>1 DEF CleanupDelete
    <3>2. ASSUME NEW w \in Workers, Settle(w) PROVE m \in deadLetters'
      BY <2>1, <3>2 DEF Settle
    <3> QED
      BY <2>1, <3>1, <3>2
      DEF Next, WorkerStep, Create, Publish, EnqueueAfterCommitFails, EnqueueAllFails,
          Dispatch, CleanupSelect, Skip, Claim, Send, RecordAttempt, AttemptConflict,
          SaveFails, Retry, Ack, RetryPublishFails, TaskFails, WorkerLost, Redeliver,
          BrokerRestart, Tick, ComeDue, Expire, vars
  <2>2. ASSUME NEW w \in Workers, Settle(w), run[w].task.msg = m,
               status'[m] = Outcome(run[w])
        PROVE  m \in deadLetters'
    BY <2>2 DEF Settle, GivesUp
  <2> QED
    BY <2>1, <2>2, FinalComes DEF GivenUpHasDeadLetter, Terminal
<1> QED
  BY <1>1, <1>2, PTL DEF Spec
=============================================================================
