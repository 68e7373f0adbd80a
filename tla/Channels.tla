------------------------------ MODULE Channels ------------------------------
(***************************************************************************)
(* Where a message may go and what its channel makes of the answer: the    *)
(* recipient check of the API with its bounded DNS lookups                 *)
(* (messages_api/validators.py), and the sends of the workers through      *)
(* channels/webhook.py and channels/email.py as _dispatch calls them.  A   *)
(* name server answers when and what it likes, differently each time.      *)
(* How often a send is tried again is the subject of Delivery.             *)
(***************************************************************************)
EXTENDS Naturals, Sequences, FiniteSets, Functions

CONSTANTS
  Messages,
  Addresses,        \* IP addresses
  BlockedAddresses, \* those that _is_blocked_ip refuses
  THREADS           \* _RESOLVER_THREADS

ASSUME ChannelsAssumption ==
  /\ BlockedAddresses \subseteq Addresses
  /\ THREADS \in Nat

VARIABLES
  pc,         \* where each message is
  target,     \* its recipient
  lookup,     \* the lookup that the API started for it
  slots,      \* free _resolver_slots
  infos,      \* what its last lookup found
  phase,      \* where its SMTP conversation is
  reason,     \* history: what ended its last send, if that was final
  connected   \* history: addresses ever connected to

vars == <<pc, target, lookup, slots, infos, phase, reason, connected>>

-----------------------------------------------------------------------------
Target == [kind : {"email", "malformed", "name"}] \union [kind : {"literal"}, at : Addresses]

\* The API checks (slot, wait), the message waits for a worker (accepted), its
\* send is under way (post, smtp), or it is done with.
PCs == {"new", "slot", "wait", "accepted", "refused", "post", "smtp", "sent", "failed"}

Phases == <<"connect", "helo", "auth", "mail", "rcpt", "data">>

\* "6xx" is any status beyond the 500s.
HttpReplies == {"2xx", "3xx", "4xx", "408", "425", "429", "5xx", "6xx", "timeout", "error"}

\* "smtp other" is a code that fits neither: -1, which smtplib makes of a reply it
\* cannot read, or a 2xx or 3xx that the phase does not expect.
SmtpFailures == {"smtp 4xx", "smtp 5xx", "smtp other", "dropped"}

\* Why the check of a webhook's URL raises.
CheckFailures == {"unresolved", "blocked"}

\* What getaddrinfo may find, nothing (gaierror) included: up to two addresses,
\* repetitions dropped as the code does.
Answers == UNION {{f \in [1..n -> Addresses] : IsInjective(f)} : n \in 0..2}

\* Every variable holds what the code's objects hold; the semaphore never
\* counts more slots than it was made with.
TypeOK ==
  /\ pc \in [Messages -> PCs]
  /\ \A m \in Messages : target[m] \in Target
  /\ lookup \in [Messages -> {"none", "queued", "running", "released", "ended"}]
  /\ slots \in 0..THREADS
  /\ infos \in [Messages -> Answers]
  /\ phase \in [Messages -> DOMAIN Phases]
  /\ reason \in [Messages -> HttpReplies \union SmtpFailures \union CheckFailures \union {"none"}]
  /\ connected \subseteq Addresses

Init ==
  /\ pc = [m \in Messages |-> "new"]
  /\ target \in [Messages -> Target]
  /\ lookup = [m \in Messages |-> "none"]
  /\ slots = THREADS
  /\ infos = [m \in Messages |-> <<>>]
  /\ phase = [m \in Messages |-> 1]
  /\ reason = [m \in Messages |-> "none"]
  /\ connected = {}

Go(m, where) == pc' = [pc EXCEPT ![m] = where]

In(states) == Cardinality({m \in Messages : lookup[m] \in states})

-----------------------------------------------------------------------------
(***************************************************************************)
(* POST /messages/: validate_recipient, with at most THREADS lookups.      *)
(***************************************************************************)
\* Every address must be allowed, and there must be one.
Passes(found) ==
  /\ found # <<>>
  /\ \A i \in DOMAIN found : found[i] \notin BlockedAddresses

Verdict(found) == IF Passes(found) THEN "accepted" ELSE "refused"

ValidateRecipient(m) ==
  /\ pc[m] = "new"
  /\ Go(m, CASE target[m].kind = "email"     -> "accepted"
             [] target[m].kind = "malformed" -> "refused"
             [] target[m].kind = "literal"   -> Verdict(<<target[m].at>>)
             [] target[m].kind = "name"      -> "slot")
  /\ UNCHANGED <<target, lookup, slots, infos, phase, reason, connected>>

\* Mutant: the request waits for a slot.
WithoutSlotWaits == "slot"
WithoutSlot == "accepted"

AcquireSlot(m) ==
  /\ pc[m] = "slot"
  /\ \/ /\ slots > 0
        /\ slots' = slots - 1
        /\ lookup' = [lookup EXCEPT ![m] = "queued"]
        /\ Go(m, "wait")
     \/ /\ slots = 0
        /\ Go(m, WithoutSlot)
        /\ UNCHANGED <<slots, lookup>>
  /\ UNCHANGED <<target, infos, phase, reason, connected>>

\* A thread of the pool takes the lookup up.
LookupStarts(m) ==
  /\ lookup[m] = "queued"
  /\ In({"running", "released"}) < THREADS
  /\ lookup' = [lookup EXCEPT ![m] = "running"]
  /\ UNCHANGED <<pc, target, slots, infos, phase, reason, connected>>

\* Mutants: the slot is given back only to a request that still waits; twice.
ReleasedIfWaited(m) == slots' = IF pc[m] = "wait" THEN slots + 1 ELSE slots
ReleasedTwice(m) == slots' = slots + 2
Released(m) == slots' = slots + 1

\* getaddrinfo returns or raises, and finally the slot is released.  Nobody
\* sees the result if the request is no longer waiting.
LookupAnswers(m) ==
  /\ lookup[m] = "running"
  /\ lookup' = [lookup EXCEPT ![m] = "released"]
  /\ Released(m)
  /\ \E found \in Answers :
       infos' = IF pc[m] = "wait" THEN [infos EXCEPT ![m] = found] ELSE infos
  /\ UNCHANGED <<pc, target, phase, reason, connected>>

\* The future has its result and the thread is free.
LookupEnds(m) ==
  /\ lookup[m] = "released"
  /\ lookup' = [lookup EXCEPT ![m] = "ended"]
  /\ UNCHANGED <<pc, target, slots, infos, phase, reason, connected>>

WaitEnds(m) ==
  /\ pc[m] = "wait"
  /\ lookup[m] = "ended"
  /\ Go(m, Verdict(infos[m]))
  /\ infos' = [infos EXCEPT ![m] = <<>>]
  /\ UNCHANGED <<target, lookup, slots, phase, reason, connected>>

\* API_RESOLVE_TIMEOUT_S: the lookup goes on without its request.
WaitTimesOut(m) ==
  /\ pc[m] = "wait"
  /\ lookup[m] # "ended"
  /\ Go(m, "accepted")
  /\ infos' = [infos EXCEPT ![m] = <<>>]
  /\ UNCHANGED <<target, lookup, slots, phase, reason, connected>>

Wait(m) == WaitEnds(m) \/ WaitTimesOut(m)

-----------------------------------------------------------------------------
(***************************************************************************)
(* A send of a worker.                                                     *)
(***************************************************************************)
\* How _dispatch goes on from a ChannelResult: a transient failure is tried
\* again, and only a final one keeps its reason.
Conclude(m, where, why) ==
  /\ Go(m, where)
  /\ reason' = [reason EXCEPT ![m] = IF where = "failed" THEN why ELSE "none"]
  /\ infos' = [infos EXCEPT ![m] = <<>>]
  /\ phase' = [phase EXCEPT ![m] = 1]
  /\ UNCHANGED <<target, lookup, slots>>

\* Which ValidationError it is: no address, also if the name server only failed for
\* the moment (gaierror), or a blocked one among those found.
Refusal(found) == IF found = <<>> THEN "unresolved" ELSE "blocked"

\* WebhookChannel.send checks the URL again and waits for the lookup.  It does not
\* look at which ValidationError it gets.
WebhookResolve(m) ==
  /\ pc[m] = "accepted"
  /\ target[m].kind \in {"name", "literal"}
  /\ \E found \in IF target[m].kind = "name" THEN Answers ELSE {<<target[m].at>>} :
       \/ ~ Passes(found) /\ Conclude(m, "failed", Refusal(found))
       \/ /\ Passes(found)
          /\ Go(m, "post")
          /\ infos' = [infos EXCEPT ![m] = found]
          /\ UNCHANGED <<target, lookup, slots, phase, reason>>
  /\ UNCHANGED connected

\* Mutant: httpx resolves the name once more.
ConnectsToAny(m) == IF target[m].kind = "name" THEN Addresses ELSE {infos[m][1]}
ConnectsTo(m) == {infos[m][1]}

\* Mutant: every status of the 400s is final.
HttpTransientIfServer(r) == r \in {"5xx", "timeout", "error"}
HttpTransient(r) == r \in {"408", "425", "429", "5xx", "timeout", "error"}

\* The connection is made, and ends with a status, a timeout or an error.
WebhookPost(m) ==
  /\ pc[m] = "post"
  /\ \E a \in ConnectsTo(m) : connected' = connected \union {a}
  /\ \E r \in HttpReplies :
       Conclude(m, CASE r = "2xx"        -> "sent"
                     [] HttpTransient(r) -> "accepted"
                     [] OTHER            -> "failed", r)

EmailStart(m) ==
  /\ pc[m] = "accepted"
  /\ target[m].kind = "email"
  /\ Go(m, "smtp")
  /\ UNCHANGED <<target, lookup, slots, infos, phase, reason, connected>>

\* The server accepts what this phase asks for.
SmtpAccepts(m) ==
  /\ pc[m] = "smtp"
  /\ \/ /\ phase[m] < Len(Phases)
        /\ phase' = [phase EXCEPT ![m] = @ + 1]
        /\ UNCHANGED <<pc, target, lookup, slots, infos, reason>>
     \/ phase[m] = Len(Phases) /\ Conclude(m, "sent", "none")
  /\ UNCHANGED connected

\* smtplib raises SMTPResponseException with the code, but for two cases: a lost
\* connection has no code, and SMTPRecipientsRefused is another exception, which
\* keeps the codes in a dictionary of recipients.
RaisesCode(ph, r) == r # "dropped" /\ ph # "rcpt"

SmtpTransient(ph, r) == RaisesCode(ph, r) => r = "smtp 4xx"

SmtpFails(m, r) ==
  /\ pc[m] = "smtp"
  /\ Conclude(m, IF SmtpTransient(Phases[phase[m]], r) THEN "accepted" ELSE "failed", r)
  /\ UNCHANGED connected

\* Anything else that send raises, the soft time limit of the task included,
\* counts as a transient failure, wherever it strikes.
SendRaises(m) ==
  /\ pc[m] \in {"post", "smtp"}
  /\ Conclude(m, "accepted", "none")
  /\ UNCHANGED connected

-----------------------------------------------------------------------------
Check(m) == ValidateRecipient(m) \/ AcquireSlot(m) \/ Wait(m)
Lookup(m) == LookupStarts(m) \/ LookupAnswers(m) \/ LookupEnds(m)
Webhook(m) == WebhookResolve(m) \/ WebhookPost(m)
Email(m) == EmailStart(m) \/ SmtpAccepts(m) \/ \E r \in SmtpFailures : SmtpFails(m, r)

Next == \E m \in Messages : Check(m) \/ Lookup(m) \/ Webhook(m) \/ Email(m) \/ SendRaises(m)

Spec == Init /\ [][Next]_vars

\* The request's own steps go on, the timeout of its wait included.  Nothing is
\* assumed of name servers, of the pool or of workers.
FairSpec == Spec /\ \A m \in Messages : WF_vars(AcquireSlot(m)) /\ WF_vars(Wait(m))

-----------------------------------------------------------------------------
(***************************************************************************)
(* Properties.                                                             *)
(***************************************************************************)
\* Slots are conserved, also when requests give up before their lookup: each
\* one is free or held by a lookup that is queued or runs.  So no lookup queues
\* behind lookups that hang ("never queues", _getaddrinfo), and slow ones do not
\* switch the check off for good.
SlotsConserved == slots + In({"queued", "running"}) = THREADS

\* A worker never connects to a blocked address, although the API may accept a
\* name unchecked and DNS may answer each lookup differently (webhook.py:
\* "a second DNS answer can't point the request somewhere internal").
OnlyVettedAddresses == connected \intersect BlockedAddresses = {}

\* A message is given up at once only for what its own channel reads as permanent
\* (table in ARCHITECTURE.md): a name that resolves to a blocked address, or to none
\* at that moment, at the check of the send; an HTTP status that is neither
\* 2xx nor 408, 425, 429 or 5xx; an SMTP code that is not 4xx.  A literal address
\* was judged for good when the message was accepted.  No timeout, lost connection,
\* temporary status or other exception of the send itself gives a message up, in
\* whichever phase it comes.
GivenUpForCause ==
  \A m \in Messages : pc[m] = "failed" =>
    \/ target[m].kind = "name" /\ reason[m] \in CheckFailures
    \/ target[m].kind \in {"name", "literal"} /\ reason[m] \in {"3xx", "4xx", "6xx"}
    \/ target[m].kind = "email" /\ reason[m] \in {"smtp 5xx", "smtp other"}

\* Every check of a request ends, although name servers may never answer and
\* hung lookups may hold all slots (comment at validators.py:51).
ChecksEnd == \A m \in Messages : pc[m] \in {"slot", "wait"} ~> pc[m] \notin {"slot", "wait"}

\* "We map SMTP 4xx to transient and 5xx to permanent" (docstring of email.py):
\* a conversation that ends on a 5xx, in any phase, fails the message.
PermanentIsFinal ==
  [][\A m \in Messages : SmtpFails(m, "smtp 5xx") => pc'[m] = "failed"]_vars
=============================================================================
