--------------------------- MODULE DeliveryProofs ---------------------------
(***************************************************************************)
(* Theorems about Delivery, for every set of messages, workers and task    *)
(* ids, every threshold and every combination and number of failures.      *)
(***************************************************************************)
EXTENDS Delivery, TLAPS, FiniteSetTheorems

-----------------------------------------------------------------------------
(***************************************************************************)
(* Type correctness.  That attempt numbers are numbers needs the attempts  *)
(* of a message to be finitely many.                                       *)
(***************************************************************************)
AttemptsFinite == \A m \in Messages : IsFiniteSet(attempts[m])

Typed == TypeOK /\ AttemptsFinite

\* A busy worker's record is a run, and the task it names is a task.
LEMMA BusyIsRun ==
  ASSUME TypeOK, NEW w \in Workers, Busy(w)
  PROVE  /\ run[w] \in Run
         /\ run[w].task \in Task
         /\ run[w].task.msg \in Messages
         /\ run[w].task.id \in TaskIds
         /\ run[w].task.retries \in 0..MAX_RETRIES
<1>1. run[w] \in Run
  BY DEF TypeOK, Busy, Idle
<1>2. run[w].task \in Task
  BY <1>1 DEF Run
<1> QED
  BY <1>1, <1>2 DEF Task

\* Adding a task to the broker, or taking one that waits, keeps its type.
LEMMA PutTyped ==
  ASSUME TypeOK, NEW t \in Task, Put(t)
  PROVE  broker' \in [Task -> Nat] /\ waited' \in [TaskIds -> 0..MAX_WAIT]
<1>1. t.id \in TaskIds
  BY DEF Task
<1>2. 0 \in 0..MAX_WAIT
  BY ThresholdsAssumption
<1> QED
  BY <1>1, <1>2 DEF TypeOK, Put

LEMMA TakeTyped ==
  ASSUME TypeOK, NEW t \in Task, Take(t)
  PROVE  broker' \in [Task -> Nat] /\ waited' \in [TaskIds -> 0..MAX_WAIT]
<1>1. t.id \in TaskIds
  BY DEF Task
<1>2. 0 \in 0..MAX_WAIT
  BY ThresholdsAssumption
<1> QED
  BY <1>1, <1>2 DEF TypeOK, Take

LEMMA InitTyped == Init => Typed
<1> SUFFICES ASSUME Init PROVE Typed
  OBVIOUS
<1>1. TypeOK
  BY ThresholdsAssumption DEF Init, TypeOK, NULL, MessageStatus, Terminal, Idle
<1>2. AttemptsFinite
  BY FS_EmptySet DEF Init, AttemptsFinite
<1> QED
  BY <1>1, <1>2 DEF Typed

\* Every step keeps the types.
LEMMA NextTyped == Typed /\ [Next]_vars => Typed'
<1> SUFFICES ASSUME Typed, [Next]_vars PROVE Typed'
  OBVIOUS
<1> USE DEF NULL, Terminal, MessageStatus, rowVars, brokerVars
<1>0. TypeOK /\ AttemptsFinite
  BY DEF Typed
<1>1. ASSUME NEW m \in Messages, NEW s \in Schedules, Create(m, s) PROVE Typed'
  BY <1>0, <1>1, ThresholdsAssumption, NamesAssumption
  DEF Typed, TypeOK, AttemptsFinite, Create, EnqueuedAt, Publishers
<1>2. ASSUME NEW p \in Publishers, NEW m \in Messages, Publish(p, m) PROVE Typed'
  <2>1. PICK i \in TaskIds : Put([id |-> i, msg |-> m, retries |-> 0])
    BY <1>2 DEF Publish
  <2>2. [id |-> i, msg |-> m, retries |-> 0] \in Task
    BY ThresholdsAssumption DEF Task
  <2>3. broker' \in [Task -> Nat] /\ waited' \in [TaskIds -> 0..MAX_WAIT]
    BY <1>0, <2>1, <2>2, PutTyped
  <2> QED
    BY <1>0, <1>2, <2>3 DEF Typed, TypeOK, AttemptsFinite, Publish
<1>3. ASSUME NEW m \in Messages, EnqueueAfterCommitFails(m) PROVE Typed'
  BY <1>0, <1>3, ThresholdsAssumption
  DEF Typed, TypeOK, AttemptsFinite, EnqueueAfterCommitFails, Fault, Publishers
<1>4. ASSUME NEW d \in Dispatchers, Dispatch(d) PROVE Typed'
  <2>1. PICK batch \in SUBSET Messages :
          /\ status' = [m \in Messages |-> IF m \in batch THEN "queued" ELSE status[m]]
          /\ claimedBy' = [m \in Messages |-> IF m \in batch THEN NoOwner ELSE claimedBy[m]]
          /\ enqueuedAge' = [m \in Messages |-> IF m \in batch THEN 0 ELSE enqueuedAge[m]]
          /\ updatedAge' = [m \in Messages |-> IF m \in batch THEN 0 ELSE updatedAge[m]]
          /\ pending' = [pending EXCEPT ![d] = batch]
    BY <1>4 DEF Dispatch, Batches, Eligible
  <2>2. UNCHANGED <<scheduled, expired, attempts, deadLetters, brokerVars, run, doomed, faults>>
    BY <1>4 DEF Dispatch
  <2>3. /\ status' \in [Messages -> MessageStatus \union {"absent", "deleted"}]
        /\ claimedBy' \in [Messages -> TaskIds \union {NoOwner}]
        /\ enqueuedAge' \in [Messages -> {NULL} \union 0..(REENQUEUE_AFTER + 1)]
        /\ updatedAge' \in [Messages -> 0..(STALE_SENDING_AFTER + 1)]
        /\ pending' \in [Publishers -> SUBSET Messages]
    BY <1>0, <2>1, ThresholdsAssumption DEF TypeOK, Publishers
  <2> QED
    BY <1>0, <2>2, <2>3 DEF Typed, TypeOK, AttemptsFinite
<1>5. ASSUME NEW d \in Dispatchers, EnqueueAllFails(d) PROVE Typed'
  BY <1>0, <1>5, ThresholdsAssumption
  DEF Typed, TypeOK, AttemptsFinite, EnqueueAllFails, Fault, Publishers
<1>6. CASE CleanupSelect
  BY <1>0, <1>6 DEF Typed, TypeOK, AttemptsFinite, CleanupSelect
<1>7. CASE CleanupDelete
  <2>1. TypeOK'
    BY <1>0, <1>7 DEF TypeOK, CleanupDelete
  <2>2. AttemptsFinite'
    BY <1>0, <1>7, FS_EmptySet DEF AttemptsFinite, CleanupDelete
  <2> QED
    BY <2>1, <2>2 DEF Typed
<1>8. ASSUME NEW w \in Workers, NEW t \in Task, Skip(w, t) PROVE Typed'
  <2>1. broker' \in [Task -> Nat] /\ waited' \in [TaskIds -> 0..MAX_WAIT]
    BY <1>0, <1>8, TakeTyped DEF Skip
  <2> QED
    BY <1>0, <1>8, <2>1 DEF Typed, TypeOK, AttemptsFinite, Skip
<1>9. ASSUME NEW w \in Workers, NEW t \in Task, Claim(w, t) PROVE Typed'
  <2>1. broker' \in [Task -> Nat] /\ waited' \in [TaskIds -> 0..MAX_WAIT]
    BY <1>0, <1>9, TakeTyped DEF Claim
  <2>2. [pc |-> "send", task |-> t, result |-> "none", no |-> 0, age |-> 0] \in Run
    BY ThresholdsAssumption DEF Run
  <2>3. run' \in [Workers -> Run \union {Idle}]
    BY <1>0, <1>9, <2>2 DEF TypeOK, Claim
  <2>4. t.id \in TaskIds /\ t.msg \in Messages
    BY DEF Task
  <2> QED
    BY <1>0, <1>9, <2>1, <2>3, <2>4, ThresholdsAssumption
    DEF Typed, TypeOK, AttemptsFinite, Claim
<1>10. ASSUME NEW w \in Workers, Send(w) PROVE Typed'
  <2>1. run[w] \in Run /\ run[w].task.msg \in Messages
    BY <1>0, <1>10, BusyIsRun DEF Send, Busy
  <2>2. Cardinality(attempts[run[w].task.msg]) \in Nat
    BY <1>0, <2>1, FS_CardinalityType DEF AttemptsFinite
  <2> DEFINE r(result) == [pc |-> "insert", task |-> run[w].task, result |-> result,
                            no |-> Cardinality(attempts[run[w].task.msg]) + 1,
                            age |-> run[w].age]
  <2>3. PICK result \in AttemptResult : run' = [run EXCEPT ![w] = r(result)]
    BY <1>0, <1>10 DEF TypeOK, Send
  <2>4. r(result) \in Run
    BY <2>1, <2>2 DEF Run
  <2>5. run' \in [Workers -> Run \union {Idle}]
    BY <1>0, <2>3, <2>4 DEF TypeOK
  <2> QED
    BY <1>0, <1>10, <2>5 DEF Typed, TypeOK, AttemptsFinite, Send
<1>11. ASSUME NEW w \in Workers, RecordAttempt(w) PROVE Typed'
  <2> DEFINE m == run[w].task.msg
             a == [no |-> run[w].no, result |-> run[w].result]
  <2>1. run[w] \in Run /\ m \in Messages
    BY <1>0, <1>11, BusyIsRun DEF RecordAttempt, Busy
  <2>2. run' \in [Workers -> Run \union {Idle}]
    BY <1>0, <1>11, <2>1 DEF TypeOK, RecordAttempt, Run
  <2>3. a \in Attempt
    BY <1>11, <2>1 DEF RecordAttempt, Run, Attempt
  <2>4. attempts' = [attempts EXCEPT ![m] = @ \union {a}]
    BY <1>11 DEF RecordAttempt
  <2>5. attempts' \in [Messages -> SUBSET Attempt]
    BY <1>0, <2>1, <2>3, <2>4 DEF TypeOK
  <2>6. AttemptsFinite'
    <3> SUFFICES ASSUME NEW k \in Messages PROVE IsFiniteSet(attempts'[k])
      BY DEF AttemptsFinite
    <3>1. attempts'[k] = IF k = m THEN attempts[k] \union {a} ELSE attempts[k]
      BY <1>0, <2>1, <2>4 DEF TypeOK
    <3> QED
      BY <1>0, <3>1, FS_AddElement DEF AttemptsFinite
  <2> QED
    BY <1>0, <1>11, <2>2, <2>5, <2>6 DEF Typed, TypeOK, RecordAttempt
<1>12. ASSUME NEW w \in Workers, AttemptConflict(w) PROVE Typed'
  BY <1>0, <1>12 DEF Typed, TypeOK, AttemptsFinite, AttemptConflict
<1>13. ASSUME NEW w \in Workers, Settle(w) PROVE Typed'
  <2>1. run[w].task.msg \in Messages
    BY <1>0, <1>13, BusyIsRun DEF Settle, Busy
  <2>2. Outcome(run[w]) \in Terminal
    BY <1>13 DEF Settle, Outcome
  <2> QED
    BY <1>0, <1>13, <2>1, <2>2, ThresholdsAssumption
    DEF Typed, TypeOK, AttemptsFinite, Settle
<1>14. ASSUME NEW w \in Workers, SaveFails(w) PROVE Typed'
  BY <1>0, <1>14 DEF Typed, TypeOK, AttemptsFinite, SaveFails
<1>15. ASSUME NEW w \in Workers, Retry(w) PROVE Typed'
  <2>1. run[w] \in Run
    BY <1>0, <1>15, BusyIsRun DEF Retry, Busy
  <2> DEFINE t == [run[w].task EXCEPT !.retries = @ + 1]
  <2>2. run[w].task \in Task /\ run[w].task.retries < MAX_RETRIES
    BY <1>15, <2>1, ThresholdsAssumption DEF Retry, Run, Outcome, AttemptResult, Task
  <2>3. t \in Task
    BY <2>2, ThresholdsAssumption DEF Task
  <2>4. broker' \in [Task -> Nat] /\ waited' \in [TaskIds -> 0..MAX_WAIT]
    BY <1>0, <1>15, <2>3, PutTyped DEF Retry
  <2>5. run' \in [Workers -> Run \union {Idle}]
    BY <1>0, <1>15, <2>1 DEF TypeOK, Retry, Run
  <2> QED
    BY <1>0, <1>15, <2>4, <2>5 DEF Typed, TypeOK, AttemptsFinite, Retry
<1>16. ASSUME NEW w \in Workers, Ack(w) PROVE Typed'
  BY <1>0, <1>16 DEF Typed, TypeOK, AttemptsFinite, Ack
<1>17. ASSUME NEW w \in Workers, RetryPublishFails(w) PROVE Typed'
  BY <1>0, <1>17, ThresholdsAssumption
  DEF Typed, TypeOK, AttemptsFinite, RetryPublishFails, Fault
<1>18. ASSUME NEW w \in Workers, TaskFails(w) PROVE Typed'
  BY <1>0, <1>18, ThresholdsAssumption
  DEF Typed, TypeOK, AttemptsFinite, TaskFails, Fault
<1>19. ASSUME NEW w \in Workers, WorkerLost(w) PROVE Typed'
  <2>1. broker' \in [Task -> Nat] /\ waited' \in [TaskIds -> 0..MAX_WAIT]
    BY <1>0, <1>19, BusyIsRun, PutTyped DEF WorkerLost
  <2> QED
    BY <1>0, <1>19, <2>1, ThresholdsAssumption
    DEF Typed, TypeOK, AttemptsFinite, WorkerLost, Fault
<1>20. ASSUME NEW w \in Workers, Redeliver(w) PROVE Typed'
  <2>1. broker' \in [Task -> Nat] /\ waited' \in [TaskIds -> 0..MAX_WAIT]
    BY <1>0, <1>20, BusyIsRun, PutTyped DEF Redeliver
  <2> QED
    BY <1>0, <1>20, <2>1, ThresholdsAssumption
    DEF Typed, TypeOK, AttemptsFinite, Redeliver, Fault
<1>21. CASE BrokerRestart
  BY <1>0, <1>21, ThresholdsAssumption
  DEF Typed, TypeOK, AttemptsFinite, BrokerRestart, Fault
<1>22. CASE Tick
  <2>1. enqueuedAge' \in [Messages -> {NULL} \union 0..(REENQUEUE_AFTER + 1)]
    BY <1>0, <1>22, ThresholdsAssumption DEF TypeOK, Tick, Older
  <2>2. updatedAge' \in [Messages -> 0..(STALE_SENDING_AFTER + 1)]
    BY <1>0, <1>22, ThresholdsAssumption DEF TypeOK, Tick, Older
  <2>3. waited' \in [TaskIds -> 0..MAX_WAIT]
    BY <1>0, <1>22, ThresholdsAssumption DEF TypeOK, Tick
  <2>4. ASSUME NEW w \in Workers PROVE run'[w] \in Run \union {Idle}
    <3>1. CASE Busy(w)
      <4>1. run[w] \in Run /\ run[w].age < TASK_TIME_LIMIT
        BY <1>0, <1>22, <3>1, BusyIsRun DEF Tick, WithinLimit
      <4>2. run'[w] = [run[w] EXCEPT !.age = @ + 1]
        BY <1>22, <3>1 DEF Tick
      <4> QED
        BY <4>1, <4>2, ThresholdsAssumption DEF Run
    <3>2. CASE ~ Busy(w)
      BY <1>0, <1>22, <3>2 DEF Tick, TypeOK
    <3> QED
      BY <3>1, <3>2
  <2>5. run' \in [Workers -> Run \union {Idle}]
    BY <1>22, <2>4 DEF Tick
  <2> QED
    BY <1>0, <1>22, <2>1, <2>2, <2>3, <2>5 DEF Typed, TypeOK, AttemptsFinite, Tick
<1>23. ASSUME NEW m \in Messages, ComeDue(m) PROVE Typed'
  BY <1>0, <1>23 DEF Typed, TypeOK, AttemptsFinite, ComeDue
<1>24. ASSUME NEW m \in Messages, Expire(m) PROVE Typed'
  BY <1>0, <1>24 DEF Typed, TypeOK, AttemptsFinite, Expire
<1>25. CASE UNCHANGED vars
  BY <1>0, <1>25 DEF Typed, TypeOK, AttemptsFinite, vars
<1> QED
  BY <1>1, <1>2, <1>3, <1>4, <1>5, <1>6, <1>7, <1>8, <1>9, <1>10, <1>11, <1>12,
     <1>13, <1>14, <1>15, <1>16, <1>17, <1>18, <1>19, <1>20, <1>21, <1>22, <1>23,
     <1>24, <1>25
  DEF Next, WorkerStep

\* Rows, attempts, tasks and runs always have their types, and no task is ever
\* published with more retries than MAX_RETRIES.
THEOREM TypeCorrect == Spec => []TypeOK
<1>1. Spec => []Typed
  BY InitTyped, NextTyped, PTL DEF Spec
<1>2. Typed => TypeOK
  BY DEF Typed
<1> QED
  BY <1>1, <1>2, PTL

-----------------------------------------------------------------------------
(***************************************************************************)
(* The inductive invariant, one part per property.                         *)
(***************************************************************************)

\* A working run owns its message: its task id is in claimed_by, and while the
\* row is sending it was written after the run began.
Owned ==
  \A w \in Workers :
    Active(w) =>
      /\ claimedBy[run[w].task.msg] = run[w].task.id
      /\ status[run[w].task.msg] \in {"sending", "deleted"} \union Terminal
      /\ status[run[w].task.msg] = "sending" =>
           updatedAge[run[w].task.msg] <= run[w].age

\* The number a run is about to insert is the next one or already taken.
Numbered ==
  /\ AttemptsNumbered
  /\ \A w \in Workers :
       run[w].pc = "insert" /\ status[run[w].task.msg] # "deleted" =>
         run[w].no \in 1..(Cardinality(attempts[run[w].task.msg]) + 1)

\* What cleanup has selected stays settled.
DoomedSettled == \A m \in doomed : status[m] \in Terminal \union {"deleted"}

-----------------------------------------------------------------------------
(***************************************************************************)
(* One owner.                                                              *)
(***************************************************************************)

\* A step that ends a run, or moves it to "ack", leaves every other run alone.
LEMMA RunEnds ==
  ASSUME TypeOK, NEW w \in Workers,
         \/ run' = [run EXCEPT ![w] = Idle]
         \/ Busy(w) /\ run' = [run EXCEPT ![w].pc = "ack"]
  PROVE  \A v \in Workers : run'[v] = run[v] \/ run'[v].pc \in {"idle", "ack"}
<1>1. Busy(w) => run[w] \in Run
  BY BusyIsRun
<1> QED
  BY <1>1 DEF TypeOK, Idle, Run

LEMMA OwnedStep == Typed /\ Owned /\ [Next]_vars => Owned'
<1> SUFFICES ASSUME Typed, Owned, [Next]_vars PROVE Owned'
  OBVIOUS
<1> USE DEF Terminal, rowVars, brokerVars
<1>0. TypeOK
  BY DEF Typed
<1>1. ASSUME NEW m \in Messages, NEW s \in Schedules, Create(m, s) PROVE Owned'
  BY <1>0, <1>1 DEF Create, Owned, Active, TypeOK
<1>2. ASSUME UNCHANGED <<status, claimedBy, updatedAge, run>> PROVE Owned'
  BY <1>2 DEF Owned, Active
<1>3. ASSUME NEW d \in Dispatchers, Dispatch(d) PROVE Owned'
  <2>1. PICK batch \in SUBSET Eligible :
          /\ status' = [m \in Messages |-> IF m \in batch THEN "queued" ELSE status[m]]
          /\ claimedBy' = [m \in Messages |-> IF m \in batch THEN NoOwner ELSE claimedBy[m]]
          /\ updatedAge' = [m \in Messages |-> IF m \in batch THEN 0 ELSE updatedAge[m]]
    BY <1>3 DEF Dispatch, Batches
  <2>2. run' = run
    BY <1>3 DEF Dispatch
  <2>3. ASSUME NEW w \in Workers, Active(w) PROVE run[w].task.msg \in Messages \ Eligible
    <3>1. run[w] \in Run /\ run[w].task.msg \in Messages
      BY <1>0, <2>3, BusyIsRun DEF Active, Busy
    <3>2. run[w].age <= STALE_SENDING_AFTER
      BY <3>1, TimeLimitAssumption, ThresholdsAssumption DEF Run
    <3>3. /\ status[run[w].task.msg] # "queued"
          /\ status[run[w].task.msg] = "sending" => updatedAge[run[w].task.msg] <= run[w].age
      BY <2>3 DEF Owned
    <3>4. updatedAge[run[w].task.msg] \in Nat /\ run[w].age \in Nat
      BY <1>0, <3>1, ThresholdsAssumption DEF TypeOK, Run
    <3> QED
      BY <3>1, <3>2, <3>3, <3>4, ThresholdsAssumption DEF Eligible, Stale
  <2> QED
    BY <2>1, <2>2, <2>3 DEF Owned, Active
<1>4. CASE CleanupDelete
  <2>1. ASSUME NEW w \in Workers, Active(w) PROVE run[w].task.msg \in Messages
    BY <1>0, <2>1, BusyIsRun DEF Active, Busy
  <2> QED
    BY <1>4, <2>1 DEF CleanupDelete, Owned, Active
<1>5. ASSUME NEW w \in Workers, NEW t \in Task, Claim(w, t) PROVE Owned'
  <2>1. t.msg \in Messages
    BY DEF Task
  <2>2. ASSUME NEW v \in Workers, v # w, Active(v)
        PROVE  /\ run[v].task.msg \in Messages
               /\ run[v].task.msg = t.msg => run[v].task.id = t.id
               /\ run[v].age \in Nat
    <3>1. run[v] \in Run /\ run[v].task.msg \in Messages
      BY <1>0, <2>2, BusyIsRun DEF Active, Busy
    <3> QED
      BY <1>5, <2>2, <3>1, ThresholdsAssumption DEF Claim, Refused, Owned, Run
  <2>3. ASSUME NEW v \in Workers, v # w PROVE run'[v] = run[v]
    BY <1>0, <1>5, <2>3 DEF Claim, TypeOK
  <2>4. run'[w] = [pc |-> "send", task |-> t, result |-> "none", no |-> 0, age |-> 0]
    BY <1>0, <1>5 DEF Claim, TypeOK
  <2>5. /\ status' = [status EXCEPT ![t.msg] = "sending"]
        /\ claimedBy' = [claimedBy EXCEPT ![t.msg] = t.id]
        /\ updatedAge' = [updatedAge EXCEPT ![t.msg] = 0]
    BY <1>5 DEF Claim
  <2> QED
    BY <1>0, <2>1, <2>2, <2>3, <2>4, <2>5 DEF Owned, Active, TypeOK
<1>6. ASSUME NEW w \in Workers, Send(w) \/ RecordAttempt(w) PROVE Owned'
  <2>1. /\ Active(w)
        /\ run'[w].task = run[w].task /\ run'[w].age = run[w].age
        /\ \A v \in Workers : v # w => run'[v] = run[v]
        /\ UNCHANGED <<status, claimedBy, updatedAge>>
    <3>1. run[w] \in Run
      BY <1>0, <1>6, BusyIsRun DEF Send, RecordAttempt, Busy
    <3> QED
      BY <1>0, <1>6, <3>1 DEF Send, RecordAttempt, Active, TypeOK, Run
  <2> QED
    BY <2>1 DEF Owned, Active
<1>7. ASSUME \A v \in Workers : run'[v] = run[v] \/ run'[v].pc \in {"idle", "ack"},
             UNCHANGED <<status, claimedBy, updatedAge>>
      PROVE  Owned'
  BY <1>7 DEF Owned, Active
<1>8. ASSUME NEW w \in Workers, Settle(w) PROVE Owned'
  <2>1. run[w].task.msg \in Messages
    BY <1>0, <1>8, BusyIsRun DEF Settle, Busy
  <2>2. Outcome(run[w]) \in Terminal
    BY <1>8 DEF Settle, Outcome
  <2>3. /\ status' = [status EXCEPT ![run[w].task.msg] = Outcome(run[w])]
        /\ updatedAge' = [updatedAge EXCEPT ![run[w].task.msg] = 0]
        /\ run' = [run EXCEPT ![w] = Idle]
        /\ claimedBy' = claimedBy
    BY <1>8 DEF Settle
  <2> QED
    BY <1>0, <2>1, <2>2, <2>3 DEF Owned, Active, TypeOK, Idle
<1>9. ASSUME NEW w \in Workers,
             \/ AttemptConflict(w) \/ SaveFails(w) \/ Ack(w)
             \/ RetryPublishFails(w) \/ TaskFails(w) \/ WorkerLost(w)
      PROVE  Owned'
  <2>1. run' = [run EXCEPT ![w] = Idle] /\ UNCHANGED <<status, claimedBy, updatedAge>>
    BY <1>9 DEF AttemptConflict, SaveFails, Ack, RetryPublishFails, TaskFails, WorkerLost
  <2> QED
    BY <1>0, <1>7, <2>1, RunEnds
<1>10. ASSUME NEW w \in Workers, Retry(w) PROVE Owned'
  BY <1>0, <1>7, <1>10, RunEnds DEF Retry, Busy
<1>11. CASE Tick
  <2> SUFFICES ASSUME NEW w \in Workers, Active(w)'
               PROVE  /\ claimedBy'[run'[w].task.msg] = run'[w].task.id
                      /\ status'[run'[w].task.msg] \in {"sending", "deleted"} \union Terminal
                      /\ status'[run'[w].task.msg] = "sending" =>
                           updatedAge'[run'[w].task.msg] <= run'[w].age
    BY DEF Owned
  <2>1. Busy(w)
    BY <1>11 DEF Tick, Active, Busy
  <2>2. run[w] \in Run /\ run[w].task.msg \in Messages
    BY <1>0, <2>1, BusyIsRun
  <2>3. run'[w] = [run[w] EXCEPT !.age = @ + 1]
    BY <1>11, <2>1 DEF Tick
  <2>4. Active(w) /\ run'[w].task = run[w].task /\ run'[w].age = run[w].age + 1
    BY <2>2, <2>3 DEF Active, Run
  <2>5. run[w].age \in Nat /\ updatedAge[run[w].task.msg] \in Nat
    BY <1>0, <2>2, ThresholdsAssumption DEF Run, TypeOK
  <2>6. updatedAge'[run[w].task.msg] <= updatedAge[run[w].task.msg] + 1
    BY <1>11, <2>2, <2>5, ThresholdsAssumption DEF Tick, Older
  <2>7. updatedAge'[run[w].task.msg] \in Nat
    BY <1>11, <2>2, <2>5 DEF Tick, Older
  <2> QED
    BY <1>11, <2>2, <2>4, <2>5, <2>6, <2>7 DEF Tick, Owned
<1> QED
  BY <1>1, <1>2, <1>3, <1>4, <1>5, <1>6, <1>7, <1>8, <1>9, <1>10, <1>11
  DEF Next, WorkerStep, Publish, EnqueueAfterCommitFails, EnqueueAllFails,
      CleanupSelect, Skip, Redeliver, BrokerRestart, ComeDue, Expire, vars

\* claimed_by is a lock, for any number of workers, tasks and failures.  The
\* only assumption on the timing is that a run cannot outlast
\* STALE_SENDING_AFTER; how long tasks wait does not matter.
THEOREM OneOwnerHolds == Spec => []OneOwner
<1>1. Init => Typed /\ Owned
  <2>1. Init => Owned
    BY DEF Init, Owned, Active, Idle
  <2> QED
    BY <2>1, InitTyped
<1>2. Typed /\ Owned /\ [Next]_vars => (Typed /\ Owned)'
  BY NextTyped, OwnedStep
<1>3. Typed /\ Owned => OneOwner
  <2> SUFFICES ASSUME Owned, NEW v \in Workers, NEW w \in Workers, Active(v), Active(w),
                      run[v].task.msg = run[w].task.msg
               PROVE  run[v].task.id = run[w].task.id
    BY DEF OneOwner
  <2> QED
    BY DEF Owned
<1> QED
  BY <1>1, <1>2, <1>3, PTL DEF Spec

-----------------------------------------------------------------------------
(***************************************************************************)
(* Settled messages stay settled.                                          *)
(***************************************************************************)

\* What a step may do to the status of a row.
StatusMoves ==
  \A m \in Messages :
    /\ status[m] \in Terminal => status'[m] \in Terminal \union {"deleted"}
    /\ status[m] = "deleted" => status'[m] = "deleted"
    /\ status'[m] = "deleted" => status[m] = "deleted" \/ m \in doomed

LEMMA StatusMovesStep == Typed /\ [Next]_vars => StatusMoves
<1> SUFFICES ASSUME Typed, [Next]_vars PROVE StatusMoves
  OBVIOUS
<1> USE DEF Terminal, rowVars, brokerVars
<1>0. TypeOK
  BY DEF Typed
<1>1. ASSUME NEW m \in Messages, NEW s \in Schedules, Create(m, s) PROVE StatusMoves
  BY <1>0, <1>1 DEF Create, StatusMoves, TypeOK
<1>2. ASSUME UNCHANGED status PROVE StatusMoves
  BY <1>2 DEF StatusMoves
<1>3. ASSUME NEW d \in Dispatchers, Dispatch(d) PROVE StatusMoves
  <2>1. PICK batch \in SUBSET Eligible :
          status' = [m \in Messages |-> IF m \in batch THEN "queued" ELSE status[m]]
    BY <1>3 DEF Dispatch, Batches
  <2>2. \A m \in batch : status[m] \in {"queued", "sending"}
    BY DEF Eligible, Stale
  <2> QED
    BY <2>1, <2>2 DEF StatusMoves
<1>4. CASE CleanupDelete
  BY <1>4 DEF CleanupDelete, StatusMoves
<1>5. ASSUME NEW w \in Workers, NEW t \in Task, Claim(w, t) PROVE StatusMoves
  BY <1>0, <1>5 DEF Claim, Refused, StatusMoves, TypeOK
<1>6. ASSUME NEW w \in Workers, Settle(w) PROVE StatusMoves
  <2>1. Outcome(run[w]) \in Terminal
    BY <1>6 DEF Settle, Outcome
  <2> QED
    BY <1>0, <1>6, <2>1 DEF Settle, StatusMoves, TypeOK
<1> QED
  BY <1>1, <1>2, <1>3, <1>4, <1>5, <1>6
  DEF Next, WorkerStep, Publish, EnqueueAfterCommitFails, EnqueueAllFails,
      CleanupSelect, Skip, Send, RecordAttempt, AttemptConflict, SaveFails, Retry,
      Ack, RetryPublishFails, TaskFails, WorkerLost, Redeliver, BrokerRestart,
      Tick, ComeDue, Expire, vars

LEMMA DoomedStep == Typed /\ DoomedSettled /\ [Next]_vars => DoomedSettled'
<1> SUFFICES ASSUME Typed, DoomedSettled, [Next]_vars PROVE DoomedSettled'
  OBVIOUS
<1>1. StatusMoves /\ doomed \subseteq Messages
  BY StatusMovesStep DEF Typed, TypeOK
<1>2. CASE CleanupSelect
  BY <1>2 DEF CleanupSelect, DoomedSettled, rowVars
<1>3. CASE CleanupDelete
  BY <1>3 DEF CleanupDelete, DoomedSettled
<1>4. CASE UNCHANGED doomed
  BY <1>1, <1>4 DEF StatusMoves, DoomedSettled
<1> QED
  BY <1>2, <1>3, <1>4
  DEF Next, WorkerStep, Create, Publish, EnqueueAfterCommitFails, EnqueueAllFails,
      Dispatch, Skip, Claim, Send, RecordAttempt, AttemptConflict, Settle, SaveFails,
      Retry, Ack, RetryPublishFails, TaskFails, WorkerLost, Redeliver, BrokerRestart,
      Tick, ComeDue, Expire, vars

\* A settled message is never taken up again, and cleanup_old_messages deletes
\* settled rows only, although it deletes by id what it selected earlier.
THEOREM SettledStaysSettledHolds == Spec => SettledStaysSettled
<1>1. Init => Typed /\ DoomedSettled
  <2>1. Init => DoomedSettled
    BY DEF Init, DoomedSettled
  <2> QED
    BY <2>1, InitTyped
<1>2. Typed /\ DoomedSettled /\ [Next]_vars => (Typed /\ DoomedSettled)'
  BY NextTyped, DoomedStep
<1>3. Typed /\ DoomedSettled /\ [Next]_vars =>
        [\A m \in Messages :
           /\ status[m] \in Terminal => status'[m] \in Terminal \union {"deleted"}
           /\ status'[m] = "deleted" => status[m] \in Terminal \union {"deleted"}]_vars
  BY StatusMovesStep DEF StatusMoves, DoomedSettled
<1> QED
  BY <1>1, <1>2, <1>3, PTL DEF Spec, SettledStaysSettled

-----------------------------------------------------------------------------
(***************************************************************************)
(* Attempts are numbered without gaps.                                     *)
(***************************************************************************)

\* Recording an attempt adds one row, with a number that was free.
LEMMA RecordAttemptAdds ==
  ASSUME Typed, NEW w \in Workers, RecordAttempt(w)
  PROVE  LET m == run[w].task.msg
             a == [no |-> run[w].no, result |-> run[w].result]
         IN /\ m \in Messages
            /\ a \in Attempt
            /\ a \notin attempts[m]
            /\ attempts'[m] = attempts[m] \union {a}
            /\ \A k \in Messages : k # m => attempts'[k] = attempts[k]
            /\ IsFiniteSet(attempts[m])
            /\ Cardinality(attempts'[m]) = Cardinality(attempts[m]) + 1
            /\ Cardinality(attempts[m]) \in Nat
            /\ status[m] # "deleted"
<1> DEFINE m == run[w].task.msg
           a == [no |-> run[w].no, result |-> run[w].result]
<1>1. run[w] \in Run /\ m \in Messages
  BY BusyIsRun DEF Typed, RecordAttempt, Busy
<1>2. a \in Attempt
  BY <1>1 DEF RecordAttempt, Run, Attempt
<1>3. a \notin attempts[m] /\ status[m] # "deleted"
  BY DEF RecordAttempt, AttemptFits
<1>4. /\ attempts'[m] = attempts[m] \union {a}
      /\ \A k \in Messages : k # m => attempts'[k] = attempts[k]
  BY <1>1 DEF Typed, TypeOK, RecordAttempt
<1>5. IsFiniteSet(attempts[m])
  BY <1>1 DEF Typed, AttemptsFinite
<1>6. /\ Cardinality(attempts'[m]) = Cardinality(attempts[m]) + 1
      /\ Cardinality(attempts[m]) \in Nat
  BY <1>3, <1>4, <1>5, FS_AddElement, FS_CardinalityType
<1> QED
  BY <1>1, <1>2, <1>3, <1>4, <1>5, <1>6

\* Only Send starts an insert, and only two actions change the attempts.
LEMMA InsertsComeFromSend ==
  ASSUME Typed, [Next]_vars
  PROVE  \/ \E w \in Workers : Send(w)
         \/ \E w \in Workers : RecordAttempt(w)
         \/ CleanupDelete
         \/ /\ UNCHANGED attempts
            /\ \A v \in Workers : run'[v].pc = "insert" =>
                 /\ run[v].pc = "insert"
                 /\ run'[v].task = run[v].task
                 /\ run'[v].no = run[v].no
<1> DEFINE Same == /\ UNCHANGED attempts
                   /\ \A v \in Workers : run'[v].pc = "insert" =>
                        /\ run[v].pc = "insert"
                        /\ run'[v].task = run[v].task
                        /\ run'[v].no = run[v].no
<1> USE DEF rowVars, brokerVars
<1>0. TypeOK
  BY DEF Typed
<1>1. ASSUME UNCHANGED <<attempts, run>> PROVE Same
  BY <1>1
<1>2. ASSUME NEW w \in Workers, NEW t \in Task, Claim(w, t) PROVE Same
  BY <1>0, <1>2 DEF Claim, TypeOK
<1>3. ASSUME NEW w \in Workers,
             \/ AttemptConflict(w) \/ Settle(w) \/ SaveFails(w) \/ Ack(w)
             \/ RetryPublishFails(w) \/ TaskFails(w) \/ WorkerLost(w)
      PROVE  Same
  <2>1. run' = [run EXCEPT ![w] = Idle] /\ UNCHANGED attempts
    BY <1>3 DEF AttemptConflict, Settle, SaveFails, Ack, RetryPublishFails, TaskFails,
                WorkerLost
  <2> QED
    BY <1>0, <2>1, RunEnds
<1>4. ASSUME NEW w \in Workers, Retry(w) PROVE Same
  BY <1>0, <1>4, RunEnds DEF Retry, Busy
<1>5. CASE Tick
  <2>1. ASSUME NEW v \in Workers, run'[v].pc = "insert"
        PROVE  run[v].pc = "insert" /\ run'[v].task = run[v].task /\ run'[v].no = run[v].no
    <3>1. CASE Busy(v)
      <4>1. run[v] \in Run
        BY <1>0, <3>1, BusyIsRun
      <4>2. run'[v] = [run[v] EXCEPT !.age = @ + 1]
        BY <1>5, <3>1 DEF Tick
      <4> QED
        BY <2>1, <4>1, <4>2 DEF Run
    <3>2. CASE ~ Busy(v)
      BY <1>5, <2>1, <3>2 DEF Tick
    <3> QED
      BY <3>1, <3>2
  <2> QED
    BY <1>5, <2>1 DEF Tick
<1> QED
  BY <1>1, <1>2, <1>3, <1>4, <1>5
  DEF Next, WorkerStep, Create, Publish, EnqueueAfterCommitFails, EnqueueAllFails,
      Dispatch, CleanupSelect, Skip, Redeliver, BrokerRestart, ComeDue, Expire, vars

LEMMA NumberedStep == Typed /\ Numbered /\ [Next]_vars => Numbered'
<1> SUFFICES ASSUME Typed, Numbered, [Next]_vars PROVE Numbered'
  OBVIOUS
<1> DEFINE InsertFits(v) ==
             run[v].pc = "insert" /\ status[run[v].task.msg] # "deleted" =>
               run[v].no \in 1..(Cardinality(attempts[run[v].task.msg]) + 1)
<1>0. TypeOK /\ StatusMoves
  BY StatusMovesStep DEF Typed
<1>1. ASSUME NEW w \in Workers, Send(w) PROVE Numbered'
  <2>1. run[w] \in Run /\ run[w].task.msg \in Messages
    BY <1>0, <1>1, BusyIsRun DEF Send, Busy
  <2>2. Cardinality(attempts[run[w].task.msg]) \in Nat
    BY <2>1, FS_CardinalityType DEF Typed, AttemptsFinite
  <2>3. UNCHANGED <<attempts, status>>
    BY <1>1 DEF Send, rowVars
  <2>4. /\ run'[w].task = run[w].task
        /\ run'[w].no = Cardinality(attempts[run[w].task.msg]) + 1
        /\ \A v \in Workers : v # w => run'[v] = run[v]
    BY <1>0, <1>1 DEF Send, TypeOK
  <2>5. ASSUME NEW v \in Workers PROVE InsertFits(v)'
    BY <2>2, <2>3, <2>4 DEF Numbered
  <2> QED
    BY <2>3, <2>5 DEF Numbered, AttemptsNumbered, Numbers
<1>2. ASSUME NEW w \in Workers, RecordAttempt(w) PROVE Numbered'
  <2>1. PICK m \in Messages, n \in Nat, a \in Attempt :
          /\ m = run[w].task.msg
          /\ n = Cardinality(attempts[m])
          /\ a.no = run[w].no
          /\ status[m] # "deleted"
          /\ attempts'[m] = attempts[m] \union {a}
          /\ \A k \in Messages : k # m => attempts'[k] = attempts[k]
          /\ Cardinality(attempts'[m]) = n + 1
    BY <1>2, RecordAttemptAdds
  <2>2. run[w].no = n + 1
    <3>1. run[w].no \in 1..(n + 1)
      BY <1>2, <2>1 DEF RecordAttempt, Numbered
    <3>2. run[w].no \notin Numbers(m)
      BY <1>2, <2>1 DEF RecordAttempt, AttemptFits, Numbers
    <3>3. Numbers(m) = 1..n
      BY <2>1 DEF Numbered, AttemptsNumbered
    <3> QED
      BY <2>1, <3>1, <3>2, <3>3
  <2>3. Numbers(m)' = Numbers(m) \union {n + 1}
    BY <2>1, <2>2 DEF Numbers
  <2>4. Numbers(m)' = 1..Cardinality(attempts'[m])
    BY <2>1, <2>3 DEF Numbered, AttemptsNumbered
  <2>5. AttemptsNumbered'
    BY <2>1, <2>4 DEF Numbered, AttemptsNumbered, Numbers
  <2>6. ASSUME NEW v \in Workers PROVE InsertFits(v)'
    <3> SUFFICES ASSUME run'[v].pc = "insert", status'[run'[v].task.msg] # "deleted"
                 PROVE  run'[v].no \in 1..(Cardinality(attempts'[run'[v].task.msg]) + 1)
      OBVIOUS
    <3>1. v # w /\ run'[v] = run[v] /\ status' = status
      <4>1. run[w] \in Run
        BY <1>0, <1>2, BusyIsRun DEF RecordAttempt, Busy
      <4> QED
        BY <1>0, <1>2, <4>1 DEF RecordAttempt, TypeOK, Run, rowVars
    <3>2. run[v].task.msg \in Messages
      BY <1>0, <3>1, BusyIsRun DEF Busy
    <3>3. run[v].no \in 1..(Cardinality(attempts[run[v].task.msg]) + 1)
      BY <3>1 DEF Numbered
    <3>4. Cardinality(attempts[run[v].task.msg]) \in Nat
      BY <3>2, FS_CardinalityType DEF Typed, AttemptsFinite
    <3>5. \/ Cardinality(attempts'[run[v].task.msg]) = Cardinality(attempts[run[v].task.msg])
          \/ Cardinality(attempts'[run[v].task.msg]) = Cardinality(attempts[run[v].task.msg]) + 1
      BY <2>1, <3>2
    <3> QED
      BY <3>1, <3>3, <3>4, <3>5
  <2> QED
    BY <2>5, <2>6 DEF Numbered
<1>3. CASE CleanupDelete
  <2>1. UNCHANGED run
    BY <1>3 DEF CleanupDelete
  <2>2. ASSUME NEW m \in Messages
        PROVE  \/ attempts'[m] = {} /\ status'[m] = "deleted"
               \/ attempts'[m] = attempts[m] /\ status'[m] = status[m]
    <3>1. CASE m \in doomed
      BY <1>3, <3>1 DEF CleanupDelete
    <3>2. CASE m \notin doomed
      BY <1>3, <3>2 DEF CleanupDelete
    <3> QED
      BY <3>1, <3>2
  <2>3. AttemptsNumbered'
    <3> SUFFICES ASSUME NEW m \in Messages PROVE Numbers(m)' = 1..Cardinality(attempts'[m])
      BY DEF AttemptsNumbered
    <3>1. CASE attempts'[m] = {}
      <4>1. Numbers(m)' = {}
        BY <3>1 DEF Numbers
      <4>2. Cardinality(attempts'[m]) = 0
        BY <3>1, FS_EmptySet
      <4> QED
        BY <4>1, <4>2
    <3>2. CASE attempts'[m] = attempts[m]
      BY <3>2 DEF Numbered, AttemptsNumbered, Numbers
    <3> QED
      BY <2>2, <3>1, <3>2
  <2>4. ASSUME NEW v \in Workers PROVE InsertFits(v)'
    <3>1. run[v].pc = "insert" => run[v].task.msg \in Messages
      BY <1>0, BusyIsRun DEF Busy
    <3> QED
      BY <2>1, <2>2, <3>1 DEF Numbered
  <2> QED
    BY <2>3, <2>4 DEF Numbered
<1>4. CASE /\ UNCHANGED attempts
           /\ \A v \in Workers : run'[v].pc = "insert" =>
                /\ run[v].pc = "insert"
                /\ run'[v].task = run[v].task
                /\ run'[v].no = run[v].no
  <2>1. ASSUME NEW v \in Workers PROVE InsertFits(v)'
    <3>1. run[v].pc = "insert" => run[v].task.msg \in Messages
      BY <1>0, BusyIsRun DEF Busy
    <3> QED
      BY <1>0, <1>4, <3>1 DEF Numbered, StatusMoves
  <2> QED
    BY <1>4, <2>1 DEF Numbered, AttemptsNumbered, Numbers
<1> QED
  BY <1>1, <1>2, <1>3, <1>4, InsertsComeFromSend

\* The attempts of a message are numbered 1, 2, ... without a gap or a double,
\* whichever runs of the same task count and insert at the same time.
THEOREM AttemptsNumberedHolds == Spec => []AttemptsNumbered
<1>1. Init => Typed /\ Numbered
  <2> SUFFICES ASSUME Init PROVE Numbered
    BY InitTyped
  <2>1. AttemptsNumbered
    BY FS_EmptySet DEF Init, AttemptsNumbered, Numbers
  <2> QED
    BY <2>1 DEF Init, Numbered, Idle
<1>2. Typed /\ Numbered /\ [Next]_vars => (Typed /\ Numbered)'
  BY NextTyped, NumberedStep
<1>3. Numbered => AttemptsNumbered
  BY DEF Numbered
<1> QED
  BY <1>1, <1>2, <1>3, PTL DEF Spec
=============================================================================
