----------------------------- MODULE LeaseProofs -----------------------------
(***************************************************************************)
(* Delivery implements Lease, for every set of messages, workers and task  *)
(* ids, every threshold and every combination and number of failures; and, *)
(* while no task is delivered twice, what is settled stays as it was       *)
(* settled, and if no run fails either, nothing is sent after a success.   *)
(***************************************************************************)
EXTENDS TaskProofs

-----------------------------------------------------------------------------
(***************************************************************************)
(* What one message's part of a step has to look like, in terms of its     *)
(* row and of the tasks that work on it.                                   *)
(***************************************************************************)

\* An abstract step of one message, with the refinement mapping carried out.
LEMMA MappedStep ==
  ASSUME NEW m \in Messages,
         \/ /\ LeaseState(status'[m]) = LeaseState(status[m])
            /\ LeaseHolder(m)' = LeaseHolder(m)
            /\ \/ WorksOn(m)' = WorksOn(m)
               \/ WorksOn(m) # {} /\ WorksOn(m)' = {}
         \/ \E i \in TaskIds :
              /\ WorksOn(m) \subseteq {i}
              /\ \/ LeaseState(status[m]) = "free"
                 \/ LeaseState(status[m]) = "held" /\ LeaseHolder(m) = i
              /\ LeaseState(status'[m]) = "held"
              /\ LeaseHolder(m)' = i
              /\ WorksOn(m)' = {i}
         \/ \E i \in TaskIds :
              /\ WorksOn(m) = {i}
              /\ \/ LeaseState(status[m]) = "done"
                 \/ LeaseState(status[m]) = "held" /\ LeaseHolder(m) = i
              /\ LeaseState(status'[m]) = "done"
              /\ LeaseHolder(m)' = NoOwner
              /\ WorksOn(m)' \in {{}, {i}}
         \/ /\ LeaseState(status[m]) = "held"
            /\ WorksOn(m) = {}
            /\ LeaseState(status'[m]) = "free"
            /\ LeaseHolder(m)' = NoOwner
            /\ WorksOn(m)' = {}
         \/ /\ LeaseState(status[m]) = "done"
            /\ LeaseState(status'[m]) = "gone"
            /\ LeaseHolder(m)' = NoOwner
            /\ WorksOn(m)' = WorksOn(m)
  PROVE  L!Step(m)
  BY DEF L!Step, L!TakeUp, L!Finish, L!Stop, L!Withdraw, L!Forget, L!Becomes

\* Who works on a message owns it, so at most one task does; and its row is
\* sending, settled or gone.
LEMMA WorkersOwn ==
  ASSUME Typed, Owned, NEW m \in Messages
  PROVE  /\ WorksOn(m) \subseteq {claimedBy[m]}
         /\ WorksOn(m) \subseteq TaskIds
         /\ WorksOn(m) # {} => status[m] \in {"sending", "deleted"} \union Terminal
<1>1. ASSUME NEW i \in WorksOn(m)
      PROVE  /\ i = claimedBy[m]
             /\ i \in TaskIds
             /\ status[m] \in {"sending", "deleted"} \union Terminal
  <2>1. PICK w \in Workers : Active(w) /\ run[w].task.msg = m /\ i = run[w].task.id
    BY <1>1 DEF WorksOn
  <2>2. run[w].task.id \in TaskIds
    BY <2>1, BusyIsRun DEF Typed, Active, Busy
  <2> QED
    BY <2>1, <2>2 DEF Owned
<1> QED
  BY <1>1

\* Runs that do not change what they work on leave WorksOn as it is.
LEMMA WorksOnSame ==
  ASSUME NEW m \in Messages,
         \A v \in Workers :
           /\ Active(v)' /\ run'[v].task.msg = m <=> Active(v) /\ run[v].task.msg = m
           /\ Active(v) /\ run[v].task.msg = m => run'[v].task.id = run[v].task.id
  PROVE  WorksOn(m)' = WorksOn(m)
  BY DEF WorksOn

\* When a run ends, its task works on no other message and perhaps no longer
\* on its own.
LEMMA WorksOnEnds ==
  ASSUME \A v \in Workers : run'[v] = run[v] \/ run'[v].pc \in {"idle", "ack"}
  PROVE  \A m \in Messages : WorksOn(m)' \subseteq WorksOn(m)
<1> SUFFICES ASSUME NEW m \in Messages, NEW i \in WorksOn(m)'
             PROVE  i \in WorksOn(m)
  OBVIOUS
<1>1. PICK w \in Workers : Active(w)' /\ run'[w].task.msg = m /\ i = run'[w].task.id
  BY DEF WorksOn
<1>2. run'[w] = run[w]
  BY <1>1 DEF Active
<1> QED
  BY <1>1, <1>2 DEF WorksOn, Active

\* A step that touches no row and only ends runs is a stutter or a Stop of every
\* message.
LEMMA EndIsStop ==
  ASSUME Typed, Owned, NEW m \in Messages, UNCHANGED <<status, claimedBy>>,
         WorksOn(m)' \subseteq WorksOn(m)
  PROVE  L!Step(m)
<1>1. LeaseState(status'[m]) = LeaseState(status[m]) /\ LeaseHolder(m)' = LeaseHolder(m)
  BY DEF LeaseHolder
<1>2. WorksOn(m)' = WorksOn(m) \/ (WorksOn(m) # {} /\ WorksOn(m)' = {})
  BY WorkersOwn
<1> QED
  BY <1>1, <1>2, MappedStep

-----------------------------------------------------------------------------
(***************************************************************************)
(* Every step of Delivery is a step of the lease.                          *)
(***************************************************************************)

LEMMA ClaimTakesUp ==
  ASSUME Typed, Owned, NEW w \in Workers, NEW t \in Task, Claim(w, t), NEW m \in Messages
  PROVE  L!Step(m)
<1> USE DEF Terminal
<1>0. TypeOK /\ t.id \in TaskIds /\ t.msg \in Messages
  BY DEF Typed, Task
<1>1. /\ run'[w].pc = "send" /\ run'[w].task = t
      /\ \A v \in Workers : v # w => run'[v] = run[v]
      /\ ~ Active(w)
  BY <1>0 DEF Claim, TypeOK, Active, Busy
<1>2. CASE m = t.msg
  <2>1. /\ status'[m] = "sending" /\ claimedBy'[m] = t.id
        /\ status[m] \in {"absent", "queued", "sending"}
        /\ status[m] = "sending" => claimedBy[m] = t.id
    BY <1>0, <1>2 DEF Claim, Refused, TypeOK, MessageStatus
  <2>2. WorksOn(m) \subseteq {t.id}
    BY <2>1, WorkersOwn
  <2>3. WorksOn(m)' = {t.id}
    <3>1. t.id \in WorksOn(m)'
      BY <1>1, <1>2 DEF WorksOn, Active
    <3>2. ASSUME NEW v \in Workers, v # w, Active(v)', run'[v].task.msg = m
          PROVE  run'[v].task.id = t.id
      <4>1. Active(v) /\ run[v].task.msg = m
        BY <1>1, <3>2 DEF Active
      <4> QED
        BY <1>1, <2>2, <3>2, <4>1 DEF WorksOn
    <3> QED
      BY <1>1, <3>1, <3>2 DEF WorksOn
  <2>4. /\ LeaseState(status[m]) = "free" \/ (LeaseState(status[m]) = "held" /\ LeaseHolder(m) = t.id)
        /\ LeaseState(status'[m]) = "held"
        /\ LeaseHolder(m)' = t.id
    BY <2>1 DEF LeaseState, LeaseHolder
  <2> QED
    BY <1>0, <2>2, <2>3, <2>4, MappedStep
<1>3. CASE m # t.msg
  <2>1. status'[m] = status[m] /\ claimedBy'[m] = claimedBy[m]
    BY <1>0, <1>3 DEF Claim, TypeOK
  <2>2. WorksOn(m)' = WorksOn(m)
    BY <1>1, <1>3, WorksOnSame DEF Active
  <2> QED
    BY <2>1, <2>2, MappedStep DEF LeaseHolder
<1> QED
  BY <1>2, <1>3

LEMMA SettleFinishes ==
  ASSUME Typed, Owned, NEW w \in Workers, Settle(w), NEW m \in Messages
  PROVE  L!Step(m)
<1> USE DEF Terminal
<1> DEFINE k == run[w].task.msg
<1>0. TypeOK /\ Active(w)
  BY DEF Typed, Settle, Active
<1>1. k \in Messages /\ run[w].task.id \in TaskIds
  BY <1>0, BusyIsRun DEF Active, Busy
<1>2. run' = [run EXCEPT ![w] = Idle]
  BY DEF Settle
<1>3. \A v \in Workers : run'[v] = run[v] \/ run'[v].pc \in {"idle", "ack"}
  BY <1>0, <1>2, RunEnds
<1>4. CASE m = k
  <2>1. Outcome(run[w]) \in Terminal
    BY DEF Settle, Outcome
  <2>2. status'[m] \in Terminal /\ status[m] # "deleted" /\ claimedBy' = claimedBy
    BY <1>0, <1>4, <2>1 DEF Settle, TypeOK
  <2>3. WorksOn(m) = {claimedBy[m]} /\ claimedBy[m] \in TaskIds
    <3>1. run[w].task.id \in WorksOn(m)
      BY <1>0, <1>4 DEF WorksOn
    <3> QED
      BY <3>1, WorkersOwn
  <2>4. status[m] \in {"sending"} \union Terminal
    BY <2>2, <2>3, WorkersOwn
  <2>5. WorksOn(m)' \in {{}, {claimedBy[m]}}
    BY <1>3, <2>3, WorksOnEnds
  <2>6. /\ LeaseState(status[m]) = "done"
           \/ (LeaseState(status[m]) = "held" /\ LeaseHolder(m) = claimedBy[m])
        /\ LeaseState(status'[m]) = "done"
        /\ LeaseHolder(m)' = NoOwner
    BY <2>2, <2>4 DEF LeaseState, LeaseHolder
  <2> QED
    BY <2>3, <2>5, <2>6, MappedStep
<1>5. CASE m # k
  <2>1. status'[m] = status[m] /\ claimedBy'[m] = claimedBy[m]
    BY <1>0, <1>5 DEF Settle, TypeOK
  <2>2. \A v \in Workers : v # w => run'[v] = run[v]
    BY <1>0, <1>2 DEF TypeOK
  <2>3. run'[w].pc = "idle"
    BY <1>0, <1>2 DEF TypeOK, Idle
  <2>4. WorksOn(m)' = WorksOn(m)
    BY <1>5, <2>2, <2>3, WorksOnSame DEF Active
  <2> QED
    BY <2>1, <2>4, MappedStep DEF LeaseHolder
<1> QED
  BY <1>4, <1>5

\* The stale pass takes a message only from a task that does not work on it.
LEMMA DispatchWithdraws ==
  ASSUME Typed, Owned, NEW d \in Dispatchers, Dispatch(d), NEW m \in Messages
  PROVE  L!Step(m)
<1> USE DEF Terminal
<1>0. TypeOK
  BY DEF Typed
<1>1. PICK batch \in SUBSET Eligible :
        /\ status' = [k \in Messages |-> IF k \in batch THEN "queued" ELSE status[k]]
        /\ claimedBy' = [k \in Messages |-> IF k \in batch THEN NoOwner ELSE claimedBy[k]]
  BY DEF Dispatch, Batches
<1>2. run' = run
  BY DEF Dispatch
<1>3. WorksOn(m)' = WorksOn(m)
  BY <1>2 DEF WorksOn, Active
<1>4. CASE m \in batch
  <2>1. status[m] \in {"queued", "sending"} /\ status'[m] = "queued"
    BY <1>1, <1>4 DEF Eligible, Stale
  <2>2. ASSUME status[m] = "sending" PROVE WorksOn(m) = {}
    <3>1. updatedAge[m] > STALE_SENDING_AFTER
      BY <1>1, <1>4, <2>2 DEF Eligible, Stale
    <3>2. ASSUME NEW w \in Workers, Active(w), run[w].task.msg = m PROVE FALSE
      <4>1. run[w] \in Run
        BY <1>0, <3>2, BusyIsRun DEF Active, Busy
      <4>2. run[w].age <= STALE_SENDING_AFTER /\ run[w].age \in Nat
        BY <4>1, TimeLimitAssumption, ThresholdsAssumption DEF Run
      <4>3. updatedAge[m] <= run[w].age /\ updatedAge[m] \in Nat
        BY <1>0, <2>2, <3>2, ThresholdsAssumption DEF Owned, TypeOK
      <4> QED
        BY <3>1, <4>2, <4>3, ThresholdsAssumption
    <3> QED
      BY <3>2 DEF WorksOn
  <2>3. CASE status[m] = "queued"
    <3>1. LeaseState(status'[m]) = LeaseState(status[m]) /\ LeaseHolder(m)' = LeaseHolder(m)
      BY <2>1, <2>3 DEF LeaseState, LeaseHolder
    <3> QED
      BY <1>3, <3>1, MappedStep
  <2>4. CASE status[m] = "sending"
    <3>1. /\ LeaseState(status[m]) = "held" /\ LeaseState(status'[m]) = "free"
          /\ LeaseHolder(m)' = NoOwner
      BY <2>1, <2>4 DEF LeaseState, LeaseHolder
    <3> QED
      BY <1>3, <2>2, <2>4, <3>1, MappedStep
  <2> QED
    BY <2>1, <2>3, <2>4
<1>5. CASE m \notin batch
  <2>1. status'[m] = status[m] /\ claimedBy'[m] = claimedBy[m]
    BY <1>1, <1>5
  <2> QED
    BY <1>3, <2>1, MappedStep DEF LeaseHolder
<1> QED
  BY <1>4, <1>5

\* Cleanup removes rows that were selected, and those stay settled.
LEMMA DeleteForgets ==
  ASSUME Typed, Owned, DoomedSettled, CleanupDelete, NEW m \in Messages
  PROVE  L!Step(m)
<1>1. WorksOn(m)' = WorksOn(m) /\ claimedBy' = claimedBy
  BY DEF CleanupDelete, WorksOn, Active
<1>2. CASE m \in doomed /\ status[m] \in Terminal
  <2>1. /\ LeaseState(status[m]) = "done" /\ LeaseState(status'[m]) = "gone"
        /\ LeaseHolder(m)' = NoOwner
    BY <1>2 DEF CleanupDelete, LeaseState, LeaseHolder, Terminal
  <2> QED
    BY <1>1, <2>1, MappedStep
<1>3. CASE m \notin doomed \/ status[m] = "deleted"
  <2>1. status'[m] = status[m]
    BY <1>3 DEF CleanupDelete
  <2> QED
    BY <1>1, <2>1, MappedStep DEF LeaseHolder
<1> QED
  BY <1>2, <1>3 DEF DoomedSettled

LEMMA LeaseStep ==
  ASSUME Typed, Owned, DoomedSettled, [Next]_vars, NEW m \in Messages
  PROVE  L!Step(m)
<1> USE DEF rowVars, brokerVars
<1>0. TypeOK
  BY DEF Typed
<1>1. ASSUME UNCHANGED <<status, claimedBy, run>> PROVE L!Step(m)
  <2>1. WorksOn(m)' = WorksOn(m)
    BY <1>1 DEF WorksOn, Active
  <2> QED
    BY <1>1, <2>1, EndIsStop
<1>2. ASSUME NEW k \in Messages, NEW s \in Schedules, Create(k, s) PROVE L!Step(m)
  <2>1. UNCHANGED <<claimedBy, run>>
    BY <1>2 DEF Create
  <2>2. WorksOn(m)' = WorksOn(m)
    BY <2>1 DEF WorksOn, Active
  <2>3. LeaseState(status'[m]) = LeaseState(status[m]) /\ LeaseHolder(m)' = LeaseHolder(m)
    <3>1. \/ status'[m] = status[m]
          \/ status[m] = "absent" /\ status'[m] = "queued"
      BY <1>0, <1>2 DEF Create, TypeOK
    <3> QED
      BY <2>1, <3>1 DEF LeaseState, LeaseHolder, Terminal
  <2> QED
    BY <2>2, <2>3, MappedStep
<1>3. ASSUME NEW w \in Workers, Send(w) \/ RecordAttempt(w) PROVE L!Step(m)
  <2>1. run[w] \in Run
    BY <1>0, <1>3, BusyIsRun DEF Send, RecordAttempt, Busy
  <2>2. /\ Active(w) /\ Active(w)' /\ run'[w].task = run[w].task
        /\ \A v \in Workers : v # w => run'[v] = run[v]
        /\ UNCHANGED <<status, claimedBy>>
    BY <1>0, <1>3, <2>1 DEF Send, RecordAttempt, Active, TypeOK, Run
  <2>3. WorksOn(m)' = WorksOn(m)
    BY <2>2, WorksOnSame DEF Active
  <2> QED
    BY <2>2, <2>3, EndIsStop
<1>4. ASSUME NEW w \in Workers,
             \/ AttemptConflict(w) \/ SaveFails(w) \/ Retry(w) \/ Ack(w)
             \/ RetryPublishFails(w) \/ TaskFails(w) \/ WorkerLost(w)
      PROVE  L!Step(m)
  <2>1. \/ run' = [run EXCEPT ![w] = Idle]
        \/ Busy(w) /\ run' = [run EXCEPT ![w].pc = "ack"]
    BY <1>4 DEF AttemptConflict, SaveFails, Retry, Ack, RetryPublishFails, TaskFails,
                WorkerLost, Busy
  <2>2. UNCHANGED <<status, claimedBy>>
    BY <1>4 DEF AttemptConflict, SaveFails, Retry, Ack, RetryPublishFails, TaskFails,
                WorkerLost
  <2>3. WorksOn(m)' \subseteq WorksOn(m)
    BY <1>0, <2>1, RunEnds, WorksOnEnds
  <2> QED
    BY <2>2, <2>3, EndIsStop
<1>5. CASE Tick
  <2>1. ASSUME NEW v \in Workers
        PROVE  run'[v].pc = run[v].pc /\ (Active(v) => run'[v].task = run[v].task)
    <3>1. CASE Busy(v)
      BY <1>0, <1>5, <3>1, BusyIsRun DEF Tick, Run
    <3>2. CASE ~ Busy(v)
      BY <1>5, <3>2 DEF Tick, Busy, Active
    <3> QED
      BY <3>1, <3>2
  <2>2. WorksOn(m)' = WorksOn(m)
    BY <2>1, WorksOnSame DEF Active
  <2> QED
    BY <1>5, <2>2, EndIsStop DEF Tick
<1>6. ASSUME NEW d \in Dispatchers, Dispatch(d) PROVE L!Step(m)
  BY <1>6, DispatchWithdraws
<1>7. ASSUME NEW w \in Workers, NEW t \in Task, Claim(w, t) PROVE L!Step(m)
  BY <1>7, ClaimTakesUp
<1>8. ASSUME NEW w \in Workers, Settle(w) PROVE L!Step(m)
  BY <1>8, SettleFinishes
<1>9. CASE CleanupDelete
  BY <1>9, DeleteForgets
<1> QED
  BY <1>1, <1>2, <1>3, <1>4, <1>5, <1>6, <1>7, <1>8, <1>9
  DEF Next, WorkerStep, Publish, EnqueueAfterCommitFails, EnqueueAllFails,
      CleanupSelect, Skip, Redeliver, BrokerRestart, ComeDue, Expire, vars

\* claimed_by and status implement the lease, for any number of workers, tasks
\* and failures: Beat withdraws a message only from a task that does not work on
\* it, only the task that holds it settles it, only settled rows are removed.
THEOREM DeliveryImplementsLease == Spec => ImplementsLease
<1> DEFINE Inv == Typed /\ Owned /\ DoomedSettled
<1>1. Init => Inv
  BY InitTyped DEF Init, Owned, DoomedSettled, Active, Idle
<1>2. Inv /\ [Next]_vars => Inv'
  BY NextTyped, OwnedStep, DoomedStep
<1>3. Init => L!Init
  <2> SUFFICES ASSUME Init PROVE L!Init
    OBVIOUS
  <2>1. \A m \in Messages : WorksOn(m) = {}
    BY DEF Init, WorksOn, Active, Idle
  <2>2. \A m \in Messages : LeaseState(status[m]) = "free" /\ LeaseHolder(m) = NoOwner
    BY DEF Init, LeaseState, LeaseHolder, Terminal
  <2> QED
    BY <2>1, <2>2 DEF L!Init
<1>4. Inv /\ [Next]_vars => [L!Next]_(L!vars)
  BY LeaseStep DEF L!Next
<1> QED
  BY <1>1, <1>2, <1>3, <1>4, PTL DEF Spec, ImplementsLease, L!Spec

-----------------------------------------------------------------------------
(***************************************************************************)
(* At most once: while no task is delivered twice, the lease leaves room   *)
(* for one final status, and if no run fails either, for one delivery.     *)
(* Publishes may still be lost, Redis may restart, tasks may wait for ever *)
(* and Beat may publish a message again at any time.                       *)
(***************************************************************************)

\* A task id waits once or is worked on once.
OneCopy ==
  /\ \A t \in Task : broker[t] <= 1
  /\ \A t, u \in Task : broker[t] > 0 /\ broker[u] > 0 /\ t.id = u.id => t = u
  /\ \A w \in Workers, t \in Task : Active(w) /\ broker[t] > 0 => run[w].task.id # t.id
  /\ \A v, w \in Workers :
       Active(v) /\ Active(w) /\ run[v].task.id = run[w].task.id => v = w

\* Nobody works on a settled message.
ActiveSends == \A w \in Workers : Active(w) => status[run[w].task.msg] = "sending"

\* A recorded success is settled, or its run is about to settle it and no other
\* run is under way.
SuccessSettles ==
  /\ \A m \in Messages : \A a, b \in WithResult(m, "success") : a = b
  /\ \A m \in Messages, w \in Workers :
       WithResult(m, "success") # {} /\ Active(w) /\ run[w].task.msg = m =>
         run[w].pc = "finish" /\ run[w].result = "success"
  /\ \A m \in Messages :
       WithResult(m, "success") # {} /\ status[m] \notin Terminal \union {"deleted"} =>
         \E w \in Workers : Active(w) /\ run[w].task.msg = m

\* No worker is lost and no unacknowledged task is delivered again.
NoSecondDelivery == Faults \subseteq {"outage", "fail"}

\* Only outages: no run fails either.
OnlyOutages == Faults \subseteq {"outage"}

\* A run is at work because it was, or because it has just claimed its message.
LEMMA ActiveComes ==
  ASSUME Typed, [Next]_vars, NEW w \in Workers, Active(w)'
  PROVE  \/ Active(w) /\ run'[w].task = run[w].task
         \/ \E t \in Task : Claim(w, t) /\ run'[w].task = t
<1> DEFINE Goal == \/ Active(w) /\ run'[w].task = run[w].task
                   \/ \E t \in Task : Claim(w, t) /\ run'[w].task = t
<1>0. TypeOK
  BY DEF Typed
<1>1. ASSUME UNCHANGED run PROVE Goal
  BY <1>1 DEF Active
<1>2. ASSUME NEW v \in Workers, NEW t \in Task, Claim(v, t) PROVE Goal
  <2>1. run' = [run EXCEPT ![v] = [pc |-> "send", task |-> t, result |-> "none",
                                   no |-> 0, age |-> 0]]
    BY <1>2 DEF Claim
  <2>2. CASE v = w
    BY <1>0, <1>2, <2>1, <2>2 DEF TypeOK
  <2>3. CASE v # w
    BY <1>0, <2>1, <2>3 DEF TypeOK, Active
  <2> QED
    BY <2>2, <2>3
<1>3. ASSUME NEW v \in Workers, Send(v) \/ RecordAttempt(v) PROVE Goal
  <2>1. run[v] \in Run
    BY <1>0, <1>3, BusyIsRun DEF Send, RecordAttempt, Busy
  <2>2. Active(v) /\ run'[v].task = run[v].task /\ \A u \in Workers : u # v => run'[u] = run[u]
    BY <1>0, <1>3, <2>1 DEF Send, RecordAttempt, Active, TypeOK, Run
  <2> QED
    BY <2>2 DEF Active
<1>4. ASSUME NEW v \in Workers,
             \/ AttemptConflict(v) \/ Settle(v) \/ SaveFails(v) \/ Retry(v) \/ Ack(v)
             \/ RetryPublishFails(v) \/ TaskFails(v) \/ WorkerLost(v)
      PROVE  Goal
  <2>1. \/ run' = [run EXCEPT ![v] = Idle]
        \/ Busy(v) /\ run' = [run EXCEPT ![v].pc = "ack"]
    BY <1>4 DEF AttemptConflict, Settle, SaveFails, Retry, Ack, RetryPublishFails,
                TaskFails, WorkerLost, Busy
  <2>2. run'[w] = run[w] \/ run'[w].pc \in {"idle", "ack"}
    BY <1>0, <2>1, RunEnds
  <2> QED
    BY <2>2 DEF Active
<1>5. CASE Tick
  <2>1. Busy(w)
    BY <1>5 DEF Tick, Active, Busy
  <2> QED
    BY <1>0, <1>5, <2>1, BusyIsRun DEF Tick, Run, Active
<1> QED
  BY <1>1, <1>2, <1>3, <1>4, <1>5
  DEF Next, WorkerStep, Create, Publish, EnqueueAfterCommitFails, EnqueueAllFails,
      Dispatch, CleanupSelect, CleanupDelete, Skip, Redeliver, BrokerRestart, ComeDue,
      Expire, vars

LEMMA OneCopyStep == NoSecondDelivery /\ Typed /\ OneCopy /\ [Next]_vars => OneCopy'
<1> SUFFICES ASSUME NoSecondDelivery, Typed, OneCopy, [Next]_vars PROVE OneCopy'
  OBVIOUS
<1> USE DEF brokerVars
<1>0. TypeOK
  BY DEF Typed
<1>1. ASSUME UNCHANGED broker, \A w \in Workers : Active(w)' => Active(w) /\ run'[w].task = run[w].task
      PROVE  OneCopy'
  BY <1>1 DEF OneCopy
<1>2. ASSUME NEW p \in Publishers, NEW m \in Messages, Publish(p, m) PROVE OneCopy'
  <2>1. PICK i \in TaskIds : Fresh(i) /\ Put([id |-> i, msg |-> m, retries |-> 0])
    BY <1>2 DEF Publish
  <2> DEFINE n == [id |-> i, msg |-> m, retries |-> 0]
  <2>2. n \in Task
    BY ThresholdsAssumption DEF Task
  <2>3. /\ \A t \in Task : t.id = i => broker[t] = 0
        /\ \A w \in Workers : Active(w) => run[w].task.id # i
    BY <1>0, <2>1 DEF Fresh, Waiting, Active, Busy, TypeOK
  <2>4. broker' = [broker EXCEPT ![n] = @ + 1] /\ UNCHANGED run
    BY <1>2, <2>1 DEF Put, Publish
  <2> QED
    BY <1>0, <2>2, <2>3, <2>4 DEF OneCopy, Active, TypeOK
<1>3. ASSUME NEW w \in Workers, NEW t \in Task, Skip(w, t) PROVE OneCopy'
  BY <1>0, <1>3 DEF Skip, Take, OneCopy, Active, TypeOK
<1>4. ASSUME NEW w \in Workers, NEW t \in Task, Claim(w, t) PROVE OneCopy'
  <2>1. /\ broker[t] = 1 /\ broker' = [broker EXCEPT ![t] = @ - 1]
        /\ run'[w].task = t
        /\ \A v \in Workers : v # w => run'[v] = run[v]
    BY <1>0, <1>4 DEF Claim, Take, OneCopy, TypeOK
  <2>2. \A u \in Task : u.id = t.id => broker'[u] = 0
    BY <1>0, <2>1 DEF OneCopy, TypeOK
  <2>3. \A v \in Workers : v # w /\ Active(v)' => run'[v].task.id # t.id /\ Active(v)
    BY <1>0, <2>1 DEF OneCopy, Active
  <2>4. \A u \in Task : broker'[u] > 0 => broker[u] > 0 /\ broker'[u] = broker[u]
    BY <1>0, <2>1 DEF TypeOK
  <2>5. \A u \in Task : broker'[u] <= 1
    BY <1>0, <2>1 DEF OneCopy, TypeOK
  <2> QED
    BY <2>1, <2>2, <2>3, <2>4, <2>5 DEF OneCopy
<1>5. ASSUME NEW w \in Workers, Retry(w) PROVE OneCopy'
  <2> DEFINE n == [run[w].task EXCEPT !.retries = @ + 1]
  <2>1. Active(w) /\ n \in Task /\ run[w].task \in Task /\ run[w] \in Run
    BY <1>0, <1>5, RetryIsTask DEF Retry, Active, Run
  <2>2. n.id = run[w].task.id
    BY <2>1 DEF Task
  <2>3. broker' = [broker EXCEPT ![n] = @ + 1] /\ run' = [run EXCEPT ![w].pc = "ack"]
    BY <1>5 DEF Retry, Put
  <2> HIDE DEF n
  <2>4. ~ Active(w)' /\ \A v \in Workers : v # w => run'[v] = run[v]
    BY <1>0, <2>1, <2>3 DEF TypeOK, Active, Run
  <2>5. \A t \in Task : t.id = n.id => broker[t] = 0
    BY <1>0, <2>1, <2>2 DEF OneCopy, TypeOK
  <2>6. \A v \in Workers : v # w /\ Active(v) => run[v].task.id # n.id
    BY <2>1, <2>2 DEF OneCopy
  <2>7. \A v \in Workers : Active(v)' => v # w /\ Active(v) /\ run'[v] = run[v]
    BY <2>4 DEF Active
  <2>8. /\ broker' \in [Task -> Nat]
        /\ broker'[n] = 1
        /\ \A t \in Task : t # n => broker'[t] = broker[t]
    BY <1>0, <2>1, <2>3, <2>5 DEF TypeOK
  <2>9. \A t \in Task : broker'[t] > 0 => t = n \/ (broker[t] > 0 /\ t.id # n.id)
    BY <2>5, <2>8
  <2>10. \A t \in Task : broker'[t] <= 1
    BY <2>8 DEF OneCopy
  <2>11. \A t, u \in Task : broker'[t] > 0 /\ broker'[u] > 0 /\ t.id = u.id => t = u
    BY <2>9 DEF OneCopy
  <2>12. \A v \in Workers, t \in Task : Active(v)' /\ broker'[t] > 0 => run'[v].task.id # t.id
    BY <2>6, <2>7, <2>9 DEF OneCopy
  <2>13. \A u, v \in Workers :
           Active(u)' /\ Active(v)' /\ run'[u].task.id = run'[v].task.id => u = v
    BY <2>7 DEF OneCopy
  <2> QED
    BY <2>10, <2>11, <2>12, <2>13 DEF OneCopy
<1>6. CASE BrokerRestart
  BY <1>6 DEF BrokerRestart, OneCopy, Active
<1>7. ASSUME NEW w \in Workers, WorkerLost(w) \/ Redeliver(w) PROVE FALSE
  BY <1>7 DEF WorkerLost, Redeliver, Fault, NoSecondDelivery
<1>8. ASSUME UNCHANGED broker, ~ \E w \in Workers, t \in Task : Claim(w, t) PROVE OneCopy'
  BY <1>1, <1>8, ActiveComes
<1> QED
  BY <1>2, <1>3, <1>4, <1>5, <1>6, <1>7, <1>8
  DEF Next, WorkerStep, Create, EnqueueAfterCommitFails, EnqueueAllFails, Dispatch,
      CleanupSelect, CleanupDelete, Send, RecordAttempt, AttemptConflict, Settle,
      SaveFails, Ack, RetryPublishFails, TaskFails, Tick, ComeDue, Expire, vars

\* Two runs at work on one message are one.
LEMMA OneRun ==
  ASSUME Owned, OneCopy, NEW v \in Workers, NEW w \in Workers, Active(v), Active(w),
         run[v].task.msg = run[w].task.msg
  PROVE  v = w
  BY DEF Owned, OneCopy

\* A success is recorded by RecordAttempt only.
LEMMA SuccessComes ==
  ASSUME Typed, [Next]_vars, NEW m \in Messages, NEW a \in WithResult(m, "success")'
  PROVE  \/ a \in WithResult(m, "success")
         \/ \E w \in Workers : /\ RecordAttempt(w)
                              /\ run[w].task.msg = m
                              /\ run[w].result = "success"
                              /\ a = [no |-> run[w].no, result |-> run[w].result]
<1> USE DEF WithResult
<1>1. ASSUME NEW w \in Workers, Send(w) PROVE UNCHANGED attempts
  BY <1>1 DEF Send
<1>2. ASSUME NEW w \in Workers, RecordAttempt(w), a \notin attempts[m]
      PROVE  run[w].task.msg = m /\ a = [no |-> run[w].no, result |-> run[w].result]
  <2> DEFINE k == run[w].task.msg
             b == [no |-> run[w].no, result |-> run[w].result]
  <2>1. /\ attempts'[k] = attempts[k] \union {b}
        /\ \A j \in Messages : j # k => attempts'[j] = attempts[j]
    BY <1>2, RecordAttemptAdds
  <2> QED
    BY <1>2, <2>1
<1>3. CASE CleanupDelete
  BY <1>3 DEF CleanupDelete
<1> QED
  BY <1>1, <1>2, <1>3, InsertsComeFromSend

\* While no run fails, a success that is recorded is settled next.
LEMMA FinishStays ==
  ASSUME OnlyOutages, Typed, [Next]_vars, NEW w \in Workers,
         run[w].pc = "finish", run[w].result = "success"
  PROVE  \/ /\ run'[w].pc = "finish"
            /\ run'[w].result = "success"
            /\ run'[w].task = run[w].task
         \/ Settle(w) \/ SaveFails(w)
<1> DEFINE Same == /\ run'[w].pc = "finish"
                   /\ run'[w].result = "success"
                   /\ run'[w].task = run[w].task
<1>0. TypeOK /\ Busy(w) /\ run[w] \in Run
  BY BusyIsRun DEF Typed, Busy
<1>1. ASSUME run'[w] = run[w] PROVE Same
  BY <1>1
<1>2. ASSUME NEW v \in Workers, v # w, WorkerStep(v) \/ RetryPublishFails(v)
      PROVE  run'[w] = run[w]
  BY <1>0, <1>2
  DEF WorkerStep, Skip, Claim, Send, RecordAttempt, AttemptConflict, Settle, SaveFails,
      Retry, Ack, RetryPublishFails, TypeOK
<1>3. ASSUME WorkerStep(w) \/ RetryPublishFails(w) PROVE Settle(w) \/ SaveFails(w)
  <2>1. Outcome(run[w]) = "sent"
    BY DEF Outcome
  <2> QED
    BY <1>0, <1>3, <2>1
    DEF WorkerStep, Skip, Claim, Send, RecordAttempt, AttemptConflict, Retry, Ack,
        RetryPublishFails
<1>4. CASE Tick
  BY <1>0, <1>4 DEF Tick, Run
<1>5. ASSUME NEW v \in Workers, TaskFails(v) \/ WorkerLost(v) PROVE FALSE
  BY <1>5 DEF TaskFails, WorkerLost, Fault, OnlyOutages
<1> QED
  BY <1>1, <1>2, <1>3, <1>4, <1>5
  DEF Next, Create, Publish, EnqueueAfterCommitFails, EnqueueAllFails, Dispatch,
      CleanupSelect, CleanupDelete, Redeliver, BrokerRestart, ComeDue, Expire, vars

\* Only the run that settles a message ends its sending, and no other works then.
LEMMA ActiveSendsStep ==
  ASSUME Typed, Owned, DoomedSettled, OneCopy, ActiveSends, [Next]_vars
  PROVE  ActiveSends'
<1>0. TypeOK /\ StatusMoves /\ Owned' /\ Typed'
  BY StatusMovesStep, OwnedStep, NextTyped DEF Typed
<1>1. ASSUME NEW w \in Workers, Active(w)'
      PROVE  status'[run'[w].task.msg] = "sending"
  <2>1. CASE Active(w) /\ run'[w].task = run[w].task
    <3> DEFINE m == run[w].task.msg
    <3>1. m \in Messages /\ status[m] = "sending"
      BY <1>0, <2>1, BusyIsRun DEF Active, Busy, ActiveSends
    <3>2. status'[m] \in {"sending", "deleted"} \union Terminal
      BY <1>0, <1>1, <2>1 DEF Owned
    <3>3. status'[m] # "deleted"
      BY <1>0, <3>1 DEF StatusMoves, DoomedSettled, Terminal
    <3>4. status'[m] \notin Terminal
      <4> SUFFICES ASSUME status'[m] \in Terminal PROVE FALSE
        OBVIOUS
      <4>1. PICK v \in Workers : Settle(v) /\ run[v].task.msg = m
        BY <3>1, FinalComes DEF Terminal
      <4>2. v = w
        BY <2>1, <4>1, OneRun DEF Settle, Active
      <4> QED
        BY <1>0, <1>1, <4>1, <4>2 DEF Settle, Active, Idle, TypeOK
    <3> QED
      BY <2>1, <3>1, <3>2, <3>3, <3>4
  <2>2. ASSUME NEW t \in Task, Claim(w, t), run'[w].task = t
        PROVE  status'[t.msg] = "sending"
    BY <1>0, <2>2 DEF Claim, Task, TypeOK
  <2> QED
    BY <1>1, <2>1, <2>2, ActiveComes
<1> QED
  BY <1>1 DEF ActiveSends

LEMMA SuccessSettlesStep ==
  OnlyOutages /\ Typed /\ Owned /\ DoomedSettled /\ OneCopy /\ ActiveSends
    /\ SuccessSettles /\ [Next]_vars => SuccessSettles'
<1> SUFFICES ASSUME OnlyOutages, Typed, Owned, DoomedSettled, OneCopy, ActiveSends,
                    SuccessSettles, [Next]_vars
             PROVE  SuccessSettles'
  OBVIOUS
<1>0. TypeOK /\ StatusMoves /\ Owned' /\ Typed'
  BY StatusMovesStep, OwnedStep, NextTyped DEF Typed
<1> DEFINE Success(m) == WithResult(m, "success")
\* The run that records a success is the only one at work, and the first to.
<1>2. ASSUME NEW w \in Workers, RecordAttempt(w),
             NEW m \in Messages, run[w].task.msg = m, run[w].result = "success"
      PROVE  /\ Success(m) = {}
             /\ \A v \in Workers : Active(v)' /\ run'[v].task.msg = m => v = w
             /\ run'[w].pc = "finish" /\ run'[w].result = "success" /\ run'[w].task.msg = m
  <2>1. Active(w) /\ run[w] \in Run /\ run[w].pc = "insert"
    BY <1>0, <1>2, BusyIsRun DEF RecordAttempt, Active, Busy
  <2>2. Success(m) = {}
    BY <1>2, <2>1 DEF SuccessSettles
  <2>3. run'[w].pc = "finish" /\ run'[w].task = run[w].task /\ run'[w].result = run[w].result
    BY <1>0, <1>2, <2>1 DEF RecordAttempt, TypeOK, Run
  <2>4. ASSUME NEW v \in Workers, v # w, Active(v)', run'[v].task.msg = m PROVE FALSE
    <3>1. run'[v] = run[v]
      BY <1>0, <1>2, <2>4 DEF RecordAttempt, TypeOK
    <3> QED
      BY <1>2, <2>1, <2>4, <3>1, OneRun DEF Active
  <2> QED
    BY <1>2, <2>2, <2>3, <2>4
\* While a success is recorded, no other run begins.
<1>3. ASSUME NEW m \in Messages, Success(m) # {},
             NEW w \in Workers, Active(w)', run'[w].task.msg = m
      PROVE  run'[w].pc = "finish" /\ run'[w].result = "success"
  <2>1. CASE Active(w) /\ run'[w].task = run[w].task
    <3>1. run[w].pc = "finish" /\ run[w].result = "success" /\ run[w] \in Run
      BY <1>0, <1>3, <2>1, BusyIsRun DEF SuccessSettles, Active, Busy
    <3>2. run'[w].pc = "finish" /\ run'[w].result = run[w].result
      BY <1>0, <1>3, <3>1, FinishStays DEF Settle, SaveFails, Active, Idle, TypeOK
    <3> QED
      BY <3>1, <3>2
  <2>2. ASSUME NEW t \in Task, Claim(w, t), run'[w].task = t PROVE FALSE
    <3>1. t.msg = m /\ ~ Refused(t) /\ broker[t] > 0
      BY <1>3, <2>2 DEF Claim, Take
    <3>2. PICK v \in Workers : Active(v) /\ run[v].task.msg = m
      BY <1>3, <3>1 DEF Refused, SuccessSettles
    <3>3. status[m] = "sending" /\ claimedBy[m] = run[v].task.id
      BY <3>2 DEF ActiveSends, Owned
    <3>4. run[v].task.id # t.id
      BY <3>1, <3>2 DEF OneCopy
    <3> QED
      BY <3>1, <3>3, <3>4 DEF Refused
  <2> QED
    BY <1>3, <2>1, <2>2, ActiveComes
<1>4. ASSUME NEW m \in Messages, NEW a \in Success(m)', NEW b \in Success(m)' PROVE a = b
  <2>1. CASE \E w \in Workers : /\ RecordAttempt(w)
                                /\ run[w].task.msg = m
                                /\ run[w].result = "success"
    <3>1. PICK w \in Workers : /\ RecordAttempt(w)
                               /\ run[w].task.msg = m
                               /\ run[w].result = "success"
      BY <2>1
    <3> DEFINE c == [no |-> run[w].no, result |-> run[w].result]
    <3>2. Success(m) = {} /\ attempts'[m] = attempts[m] \union {c}
      BY <1>2, <3>1, RecordAttemptAdds
    <3> HIDE DEF c
    <3>3. a = c /\ b = c
      BY <3>2 DEF WithResult
    <3> QED
      BY <3>3
  <2>2. CASE a \in Success(m) /\ b \in Success(m)
    BY <2>2 DEF SuccessSettles
  <2> QED
    BY <2>1, <2>2, SuccessComes
<1>5. ASSUME NEW m \in Messages, Success(m)' # {},
             NEW w \in Workers, Active(w)', run'[w].task.msg = m
      PROVE  run'[w].pc = "finish" /\ run'[w].result = "success"
  <2>1. PICK a : a \in Success(m)'
    BY <1>5
  <2>2. CASE a \in Success(m)
    BY <1>3, <1>5, <2>2
  <2>3. CASE \E v \in Workers : /\ RecordAttempt(v)
                                /\ run[v].task.msg = m
                                /\ run[v].result = "success"
    BY <1>2, <1>5, <2>3
  <2> QED
    BY <2>1, <2>2, <2>3, SuccessComes
<1>6. ASSUME NEW m \in Messages, Success(m)' # {},
             status'[m] \notin Terminal \union {"deleted"}
      PROVE  \E w \in Workers : Active(w)' /\ run'[w].task.msg = m
  <2>1. PICK a : a \in Success(m)'
    BY <1>6
  <2>2. CASE a \in Success(m)
    <3>1. status[m] \notin Terminal \union {"deleted"}
      BY <1>0, <1>6 DEF StatusMoves
    <3>2. PICK w \in Workers : Active(w) /\ run[w].task.msg = m
      BY <2>2, <3>1 DEF SuccessSettles
    <3>3. run[w].pc = "finish" /\ run[w].result = "success"
      BY <2>2, <3>2 DEF SuccessSettles
    <3>4. ~ SaveFails(w)
      BY <3>1, <3>2 DEF SaveFails
    <3>5. ~ Settle(w)
      <4> SUFFICES ASSUME Settle(w) PROVE FALSE
        OBVIOUS
      <4>1. status' = [status EXCEPT ![m] = "sent"]
        BY <3>2, <3>3 DEF Settle, Outcome
      <4> QED
        BY <1>0, <1>6, <4>1 DEF TypeOK, Terminal
    <3> QED
      BY <3>2, <3>3, <3>4, <3>5, FinishStays DEF Active
  <2>3. CASE \E v \in Workers : /\ RecordAttempt(v)
                                /\ run[v].task.msg = m
                                /\ run[v].result = "success"
    BY <1>2, <2>3 DEF Active
  <2> QED
    BY <2>1, <2>2, <2>3, SuccessComes
<1> QED
  BY <1>4, <1>5, <1>6 DEF SuccessSettles

FinalInv == Typed /\ Owned /\ DoomedSettled /\ OneCopy /\ ActiveSends

LEMMA FinalInvInit == Init => FinalInv
<1> SUFFICES ASSUME Init PROVE FinalInv
  OBVIOUS
<1>1. /\ \A w \in Workers : ~ Active(w)
      /\ \A t \in Task : broker[t] = 0
      /\ doomed = {}
  BY DEF Init, Active, Idle
<1> QED
  BY <1>1, InitTyped DEF FinalInv, Owned, DoomedSettled, OneCopy, ActiveSends

LEMMA FinalInvStep == NoSecondDelivery /\ FinalInv /\ [Next]_vars => FinalInv'
  BY NextTyped, OwnedStep, DoomedStep, OneCopyStep, ActiveSendsStep DEF FinalInv

\* While no worker is lost and no task is delivered again, sent, failed and dead
\* are final: the row keeps its status until cleanup_old_messages deletes it, also
\* if runs fail at any statement and however often Beat publishes again.  (Two
\* runs of one task could both settle: the save at the end of _dispatch overwrites.)
THEOREM TerminalIsFinalHolds == NoSecondDelivery => (Spec => TerminalIsFinal)
<1> SUFFICES ASSUME NoSecondDelivery PROVE Spec => TerminalIsFinal
  OBVIOUS
<1>1. FinalInv /\ [Next]_vars =>
        [\A m \in Messages : status[m] \in Terminal => status'[m] \in {status[m], "deleted"}]_vars
  <2> SUFFICES ASSUME FinalInv, [Next]_vars, NEW m \in Messages, status[m] \in Terminal
               PROVE  status'[m] \in {status[m], "deleted"}
    OBVIOUS
  <2>1. status'[m] \in Terminal \union {"deleted"}
    BY StatusMovesStep DEF StatusMoves, FinalInv
  <2>2. ASSUME NEW w \in Workers, Settle(w), run[w].task.msg = m PROVE FALSE
    BY <2>2 DEF FinalInv, ActiveSends, Settle, Active, Terminal
  <2> QED
    BY <2>1, <2>2, FinalComes DEF FinalInv
<1> QED
  BY <1>1, FinalInvInit, FinalInvStep, PTL DEF Spec, TerminalIsFinal

OnceInv == FinalInv /\ SuccessSettles

LEMMA OnceInvHolds == OnlyOutages => (Spec => []OnceInv)
<1> SUFFICES ASSUME OnlyOutages PROVE Spec => []OnceInv
  OBVIOUS
<1>0. NoSecondDelivery
  BY DEF OnlyOutages, NoSecondDelivery
<1>1. Init => OnceInv
  <2> SUFFICES ASSUME Init PROVE OnceInv
    OBVIOUS
  <2>1. /\ \A w \in Workers : ~ Active(w)
        /\ \A m \in Messages : WithResult(m, "success") = {}
    BY DEF Init, Active, Idle, WithResult
  <2> QED
    BY <2>1, FinalInvInit DEF OnceInv, SuccessSettles
<1>2. OnceInv /\ [Next]_vars => OnceInv'
  BY <1>0, FinalInvStep, SuccessSettlesStep DEF OnceInv, FinalInv
<1> QED
  BY <1>1, <1>2, PTL DEF Spec

\* While no run fails, no worker is lost and no task is delivered twice, a
\* message whose send has succeeded is not sent again (_dispatch's claim under the
\* row lock), however often publishes fail, the broker restarts and Beat publishes
\* again.  Sends that the receiver took without an answer are not successes.
THEOREM NotSentAfterSuccessHolds == OnlyOutages => (Spec => []NotSentAfterSuccess)
<1> SUFFICES ASSUME OnlyOutages PROVE Spec => []NotSentAfterSuccess
  OBVIOUS
<1>1. OnceInv => NotSentAfterSuccess
  <2> SUFFICES ASSUME OnceInv, NEW w \in Workers, run[w].pc = "send",
                      Succeeded(run[w].task.msg)
               PROVE  FALSE
    BY DEF NotSentAfterSuccess
  <2>1. Active(w) /\ run[w].task.msg \in Messages
    BY BusyIsRun DEF OnceInv, FinalInv, Typed, Active, Busy
  <2>2. CASE WithResult(run[w].task.msg, "success") # {}
    BY <2>1, <2>2 DEF OnceInv, SuccessSettles
  <2>3. CASE \E v \in Workers : /\ run[v].pc = "insert"
                                /\ run[v].result = "success"
                                /\ run[v].task.msg = run[w].task.msg
    <3>1. PICK v \in Workers : /\ run[v].pc = "insert"
                               /\ run[v].task.msg = run[w].task.msg
      BY <2>3
    <3>2. v = w
      BY <2>1, <3>1, OneRun DEF OnceInv, FinalInv, Active
    <3> QED
      BY <3>1, <3>2
  <2> QED
    BY <2>2, <2>3 DEF Succeeded
<1> QED
  BY <1>1, OnceInvHolds, PTL
=============================================================================
