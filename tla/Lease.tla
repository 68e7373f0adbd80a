------------------------------- MODULE Lease --------------------------------
(***************************************************************************)
(* What claimed_by promises: a message is a lease.  A task that takes it   *)
(* up holds it; the holder may stop and take it up again, and nobody else  *)
(* works on it meanwhile; only a holder that works finishes it; it is      *)
(* withdrawn only from a holder that does not work, and forgotten only     *)
(* when it is done.                                                        *)
(***************************************************************************)
CONSTANTS Messages, Owners, Nobody

VARIABLES
  state,    \* of each message: free, held, done or gone
  holder,   \* who holds it, Nobody unless it is held
  working   \* who works on it

vars == <<state, holder, working>>

Init ==
  /\ state = [m \in Messages |-> "free"]
  /\ holder = [m \in Messages |-> Nobody]
  /\ working = [m \in Messages |-> {}]

\* state, holder and working of one message after a step.
Becomes(m, s, h, w) == state'[m] = s /\ holder'[m] = h /\ working'[m] = w

TakeUp(m, i) ==
  /\ working[m] \subseteq {i}
  /\ state[m] = "free" \/ (state[m] = "held" /\ holder[m] = i)
  /\ Becomes(m, "held", i, {i})

\* The holder's last run stops without a result, whatever became of the message.
Stop(m) == working[m] # {} /\ Becomes(m, state[m], holder[m], {})

\* A run of the holder finishes; another run of the same holder may go on, and
\* finish too.
Finish(m, i) ==
  /\ working[m] = {i}
  /\ state[m] = "done" \/ (state[m] = "held" /\ holder[m] = i)
  /\ \E w \in {{}, {i}} : Becomes(m, "done", Nobody, w)

Withdraw(m) ==
  /\ state[m] = "held"
  /\ working[m] = {}
  /\ Becomes(m, "free", Nobody, {})

Forget(m) == state[m] = "done" /\ Becomes(m, "gone", Nobody, working[m])

Step(m) ==
  \/ \E i \in Owners : TakeUp(m, i) \/ Finish(m, i)
  \/ Stop(m)
  \/ Withdraw(m)
  \/ Forget(m)
  \/ Becomes(m, state[m], holder[m], working[m])

\* Messages are independent: one transaction may move several.
Next == \A m \in Messages : Step(m)

Spec == Init /\ [][Next]_vars
=============================================================================
