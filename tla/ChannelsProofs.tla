--------------------------- MODULE ChannelsProofs ---------------------------
(***************************************************************************)
(* Theorems about Channels, for any number of messages, addresses and      *)
(* resolver threads and whatever name servers and receivers answer.        *)
(***************************************************************************)
EXTENDS Channels, FiniteSetTheorems, TLAPS

-----------------------------------------------------------------------------
(***************************************************************************)
(* What a lookup may find.                                                 *)
(***************************************************************************)
LEMMA NoAnswer == <<>> \in Answers
<1>1. <<>> \in [1..0 -> Addresses] /\ IsInjective(<<>>)
  BY DEF IsInjective
<1>2. 0 \in 0..2
  OBVIOUS
<1> QED
  BY <1>1, <1>2 DEF Answers

LEMMA OneAnswer == ASSUME NEW a \in Addresses PROVE <<a>> \in Answers
<1>1. <<a>> \in [1..1 -> Addresses] /\ IsInjective(<<a>>)
  BY DEF IsInjective
<1>2. 1 \in 0..2
  OBVIOUS
<1> QED
  BY <1>1, <1>2 DEF Answers

\* What passes has a first address, and none that is blocked.
LEMMA PassesFirst ==
  ASSUME NEW found \in Answers, Passes(found)
  PROVE  found[1] \in Addresses /\ found[1] \notin BlockedAddresses
<1>1. PICK n \in 0..2 : found \in [1..n -> Addresses]
  BY DEF Answers
<1>2. n # 0
  <2>1. SUFFICES ASSUME n = 0 PROVE FALSE
    OBVIOUS
  <2>2. found = <<>>
    BY <1>1, <2>1
  <2> QED
    BY <2>2 DEF Passes
<1>3. 1 \in DOMAIN found
  BY <1>1, <1>2
<1> QED
  BY <1>1, <1>3 DEF Passes

-----------------------------------------------------------------------------
(***************************************************************************)
(* Type correctness, but for the slots and the addresses connected to.     *)
(***************************************************************************)
Reasons == HttpReplies \union SmtpFailures \union CheckFailures \union {"none"}

Shape ==
  /\ pc \in [Messages -> PCs]
  /\ target \in [Messages -> Target]
  /\ lookup \in [Messages -> {"none", "queued", "running", "released", "ended"}]
  /\ infos \in [Messages -> Answers]
  /\ phase \in [Messages -> 1..6]
  /\ reason \in [Messages -> Reasons]

LEMMA SixPhases == DOMAIN Phases = 1..6 /\ Len(Phases) = 6
  BY DEF Phases

LEMMA TargetKinds ==
  ASSUME NEW t \in Target
  PROVE  /\ t.kind \in {"email", "malformed", "name", "literal"}
         /\ t.kind = "literal" => t.at \in Addresses
  BY DEF Target

LEMMA VerdictTyped == \A found : Verdict(found) \in {"accepted", "refused"}
  BY DEF Verdict

LEMMA ConcludeTyped ==
  ASSUME Shape, NEW m \in Messages, NEW where \in PCs, NEW why \in Reasons,
         Conclude(m, where, why)
  PROVE  /\ pc' \in [Messages -> PCs]
         /\ target' \in [Messages -> Target]
         /\ lookup' \in [Messages -> {"none", "queued", "running", "released", "ended"}]
         /\ infos' \in [Messages -> Answers]
         /\ phase' \in [Messages -> 1..6]
         /\ reason' \in [Messages -> Reasons]
<1>1. "none" \in Reasons /\ 1 \in 1..6
  BY DEF Reasons
<1> QED
  BY <1>1, NoAnswer DEF Shape, Conclude, Go

LEMMA ShapeInit == Init => Shape
  BY NoAnswer DEF Init, Shape, PCs, Reasons

LEMMA ShapeStep == Shape /\ [Next]_vars => Shape'
<1> SUFFICES ASSUME Shape, [Next]_vars PROVE Shape'
  OBVIOUS
<1>0. ASSUME NEW m \in Messages
      PROVE  /\ pc[m] \in PCs /\ infos[m] \in Answers /\ phase[m] \in 1..6
             /\ target[m].kind \in {"email", "malformed", "name", "literal"}
             /\ target[m].kind = "literal" => target[m].at \in Addresses
  BY TargetKinds DEF Shape
<1>1. ASSUME NEW m \in Messages, ValidateRecipient(m) PROVE Shape'
  <2>1. PICK w \in PCs : Go(m, w)
    BY <1>0, <1>1, VerdictTyped DEF ValidateRecipient, PCs
  <2> QED
    BY <1>1, <2>1 DEF ValidateRecipient, Go, Shape
<1>2. ASSUME NEW m \in Messages, AcquireSlot(m) PROVE Shape'
  BY <1>2 DEF AcquireSlot, Go, Shape, PCs, WithoutSlot
<1>3. ASSUME NEW m \in Messages, Wait(m) PROVE Shape'
  BY <1>3, VerdictTyped, NoAnswer DEF Wait, WaitEnds, WaitTimesOut, Go, Shape, PCs
<1>4. ASSUME NEW m \in Messages, Lookup(m) PROVE Shape'
  BY <1>4 DEF Lookup, LookupStarts, LookupAnswers, LookupEnds, Shape
<1>5. ASSUME NEW m \in Messages, WebhookResolve(m) PROVE Shape'
  <2>1. PICK found \in Answers :
          \/ Conclude(m, "failed", Refusal(found))
          \/ /\ Go(m, "post")
             /\ infos' = [infos EXCEPT ![m] = found]
             /\ UNCHANGED <<target, lookup, slots, phase, reason>>
    BY <1>0, <1>5, OneAnswer DEF WebhookResolve
  <2>2. "failed" \in PCs /\ Refusal(found) \in Reasons
    BY DEF PCs, Reasons, Refusal, CheckFailures
  <2>3. CASE Conclude(m, "failed", Refusal(found))
    BY <2>2, <2>3, ConcludeTyped DEF Shape
  <2>4. CASE ~ Conclude(m, "failed", Refusal(found))
    BY <2>1, <2>4 DEF Shape, Go, PCs
  <2> QED
    BY <2>3, <2>4
<1>6. ASSUME NEW m \in Messages, WebhookPost(m) PROVE Shape'
  <2>1. PICK w \in PCs, r \in Reasons : Conclude(m, w, r)
    <3>1. PICK r \in HttpReplies :
            Conclude(m, CASE r = "2xx"        -> "sent"
                          [] HttpTransient(r) -> "accepted"
                          [] OTHER            -> "failed", r)
      BY <1>6 DEF WebhookPost
    <3>2. r \in Reasons
      BY DEF Reasons
    <3>3. (CASE r = "2xx"        -> "sent"
             [] HttpTransient(r) -> "accepted"
             [] OTHER            -> "failed") \in PCs
      BY DEF PCs
    <3> QED
      BY <3>1, <3>2, <3>3
  <2> QED
    BY <2>1, ConcludeTyped DEF Shape
<1>7. ASSUME NEW m \in Messages, EmailStart(m) PROVE Shape'
  BY <1>7 DEF EmailStart, Go, Shape, PCs
<1>8. ASSUME NEW m \in Messages, SmtpAccepts(m) PROVE Shape'
  <2>1. CASE phase[m] < 6
    <3>1. phase[m] + 1 \in 1..6
      BY <1>0, <2>1
    <3> QED
      BY <1>8, <2>1, <3>1, SixPhases DEF SmtpAccepts, Shape
  <2>2. CASE ~ (phase[m] < 6)
    <3>1. "sent" \in PCs /\ "none" \in Reasons /\ Conclude(m, "sent", "none")
      BY <1>8, <2>2, SixPhases DEF SmtpAccepts, PCs, Reasons
    <3> QED
      BY <3>1, ConcludeTyped DEF Shape
  <2> QED
    BY <2>1, <2>2
<1>9. ASSUME NEW m \in Messages, NEW r \in SmtpFailures, SmtpFails(m, r) PROVE Shape'
  <2>1. PICK w \in PCs : Conclude(m, w, r)
    BY <1>9 DEF SmtpFails, PCs
  <2>2. r \in Reasons
    BY DEF Reasons
  <2> QED
    BY <2>1, <2>2, ConcludeTyped DEF Shape
<1>10. ASSUME NEW m \in Messages, SendRaises(m) PROVE Shape'
  <2>1. "accepted" \in PCs /\ "none" \in Reasons /\ Conclude(m, "accepted", "none")
    BY <1>10 DEF SendRaises, PCs, Reasons
  <2> QED
    BY <2>1, ConcludeTyped DEF Shape
<1>11. CASE UNCHANGED vars
  BY <1>11 DEF vars, Shape
<1> QED
  BY <1>1, <1>2, <1>3, <1>4, <1>5, <1>6, <1>7, <1>8, <1>9, <1>10, <1>11
     DEF Next, Check, Webhook, Email

LEMMA AlwaysShape == Spec => []Shape
  BY ShapeInit, ShapeStep, PTL DEF Spec

-----------------------------------------------------------------------------
(***************************************************************************)
(* Where a worker connects.                                                *)
(***************************************************************************)

\* Between the check and the connection the addresses found stay as they were:
\* nothing but the send itself writes them, a late answer to a request that gave
\* up waiting included.
Vetted ==
  /\ \A m \in Messages : pc[m] = "post" => Passes(infos[m])
  /\ connected \subseteq Addresses \ BlockedAddresses

LEMMA VettedStep == Shape /\ Vetted /\ [Next]_vars => Vetted'
<1> SUFFICES ASSUME Shape, Vetted, [Next]_vars PROVE Vetted'
  OBVIOUS
<1> USE DEF Shape
<1>0. ASSUME NEW m \in Messages, NEW where, where # "post", Go(m, where),
             infos' = [infos EXCEPT ![m] = <<>>] \/ infos' = infos
      PROVE  \A k \in Messages : pc'[k] = "post" => Passes(infos'[k])
  BY <1>0 DEF Vetted, Go
<1>1. ASSUME NEW m \in Messages, NEW where, where # "post", NEW why,
             Conclude(m, where, why)
      PROVE  \A k \in Messages : pc'[k] = "post" => Passes(infos'[k])
  BY <1>0, <1>1 DEF Conclude
<1>2. ASSUME NEW m \in Messages, Check(m) PROVE Vetted'
  <2>1. connected' = connected
    BY <1>2 DEF Check, ValidateRecipient, AcquireSlot, Wait, WaitEnds, WaitTimesOut
  <2>2. CASE ValidateRecipient(m)
    <3>1. PICK w : Go(m, w) /\ w # "post"
      <4>1. target[m].kind \in {"email", "malformed", "name", "literal"}
        BY TargetKinds
      <4> QED
        BY <2>2, <4>1, VerdictTyped DEF ValidateRecipient
    <3> QED
      BY <1>0, <2>1, <2>2, <3>1 DEF ValidateRecipient, Vetted
  <2>3. CASE AcquireSlot(m)
    BY <1>0, <2>1, <2>3 DEF AcquireSlot, Vetted, WithoutSlot
  <2>4. CASE Wait(m)
    <3>1. PICK w : Go(m, w) /\ w # "post"
      BY <2>4, VerdictTyped DEF Wait, WaitEnds, WaitTimesOut
    <3>2. infos' = [infos EXCEPT ![m] = <<>>]
      BY <2>4 DEF Wait, WaitEnds, WaitTimesOut
    <3> QED
      BY <1>0, <2>1, <3>1, <3>2 DEF Vetted
  <2> QED
    BY <1>2, <2>2, <2>3, <2>4 DEF Check
<1>3. ASSUME NEW m \in Messages, Lookup(m) PROVE Vetted'
  BY <1>3 DEF Lookup, LookupStarts, LookupAnswers, LookupEnds, Vetted
<1>4. ASSUME NEW m \in Messages, WebhookResolve(m) PROVE Vetted'
  <2>1. connected' = connected
    BY <1>4 DEF WebhookResolve
  <2>2. PICK found :
          \/ Conclude(m, "failed", Refusal(found))
          \/ Passes(found) /\ Go(m, "post") /\ infos' = [infos EXCEPT ![m] = found]
    BY <1>4 DEF WebhookResolve
  <2>3. CASE Conclude(m, "failed", Refusal(found))
    BY <1>1, <2>1, <2>3 DEF Vetted
  <2>4. CASE Passes(found) /\ Go(m, "post") /\ infos' = [infos EXCEPT ![m] = found]
    BY <2>1, <2>4 DEF Vetted, Go
  <2> QED
    BY <2>2, <2>3, <2>4
<1>5. ASSUME NEW m \in Messages, WebhookPost(m) PROVE Vetted'
  <2>1. connected' = connected \union {infos[m][1]} /\ Passes(infos[m]) /\ infos[m] \in Answers
    BY <1>5 DEF WebhookPost, ConnectsTo, Vetted
  <2>2. connected' \subseteq Addresses \ BlockedAddresses
    BY <2>1, PassesFirst DEF Vetted
  <2>3. PICK w, r : w # "post" /\ Conclude(m, w, r)
    <3>1. PICK r \in HttpReplies :
            Conclude(m, CASE r = "2xx"        -> "sent"
                          [] HttpTransient(r) -> "accepted"
                          [] OTHER            -> "failed", r)
      BY <1>5 DEF WebhookPost
    <3>2. (CASE r = "2xx"        -> "sent"
             [] HttpTransient(r) -> "accepted"
             [] OTHER            -> "failed") # "post"
      OBVIOUS
    <3> QED
      BY <3>1, <3>2
  <2> QED
    BY <1>1, <2>2, <2>3 DEF Vetted
<1>6. ASSUME NEW m \in Messages, Email(m) \/ SendRaises(m) PROVE Vetted'
  <2>1. connected' = connected
    BY <1>6 DEF Email, EmailStart, SmtpAccepts, SmtpFails, SendRaises
  <2>2. CASE EmailStart(m)
    BY <1>0, <2>1, <2>2 DEF EmailStart, Vetted
  <2>3. CASE SmtpAccepts(m)
    <3>1. CASE Conclude(m, "sent", "none")
      BY <1>1, <2>1, <3>1 DEF Vetted
    <3>2. CASE ~ Conclude(m, "sent", "none")
      BY <2>1, <2>3, <3>2 DEF SmtpAccepts, Vetted
    <3> QED
      BY <3>1, <3>2
  <2>4. ASSUME NEW r \in SmtpFailures, SmtpFails(m, r) PROVE Vetted'
    <3>1. PICK w : w # "post" /\ Conclude(m, w, r)
      BY <2>4 DEF SmtpFails
    <3> QED
      BY <1>1, <2>1, <3>1 DEF Vetted
  <2>5. CASE SendRaises(m)
    BY <1>1, <2>1, <2>5 DEF SendRaises, Vetted
  <2> QED
    BY <1>6, <2>2, <2>3, <2>4, <2>5 DEF Email
<1>7. CASE UNCHANGED vars
  BY <1>7 DEF vars, Vetted
<1> QED
  BY <1>2, <1>3, <1>4, <1>5, <1>6, <1>7 DEF Next, Webhook

\* A worker connects only to addresses that passed the check of that same send,
\* whatever the API accepted unchecked and however DNS answers: it posts to the
\* first address the check found.
THEOREM OnlyVettedAddressesHolds == Spec => []OnlyVettedAddresses
<1>1. Init => Vetted
  BY DEF Init, Vetted
<1>2. Vetted => OnlyVettedAddresses
  BY DEF Vetted, OnlyVettedAddresses
<1> QED
  BY <1>1, <1>2, AlwaysShape, VettedStep, PTL DEF Spec

-----------------------------------------------------------------------------
(***************************************************************************)
(* The resolver's slots.                                                   *)
(***************************************************************************)
Held == {m \in Messages : lookup[m] \in {"queued", "running"}}

\* However many messages there are, the lookups that hold a slot are finitely
\* many, and with the free slots they make up the semaphore.
SlotsCounted ==
  /\ slots \in Nat
  /\ IsFiniteSet(Held)
  /\ slots + Cardinality(Held) = THREADS

\* A message looks its name up once at most.
Fresh == \A m \in Messages : pc[m] \in {"new", "slot"} => lookup[m] = "none"

LEMMA FreshStep == Shape /\ Fresh /\ [Next]_vars => Fresh'
<1> SUFFICES ASSUME Shape, Fresh, [Next]_vars PROVE Fresh'
  OBVIOUS
<1> USE DEF Shape
<1>1. ASSUME NEW m \in Messages, NEW where, Go(m, where), lookup' = lookup,
             where \notin {"new", "slot"} \/ pc[m] = "new"
      PROVE  Fresh'
  BY <1>1 DEF Fresh, Go
<1>2. ASSUME NEW m \in Messages, NEW where, NEW why, Conclude(m, where, why),
             where \notin {"new", "slot"}
      PROVE  Fresh'
  BY <1>1, <1>2 DEF Conclude
<1>3. ASSUME NEW m \in Messages, Check(m) PROVE Fresh'
  <2>1. CASE ValidateRecipient(m)
    BY <1>1, <2>1 DEF ValidateRecipient
  <2>2. CASE AcquireSlot(m)
    BY <2>2 DEF AcquireSlot, WithoutSlot, Fresh, Go
  <2>3. CASE Wait(m)
    BY <1>1, <2>3, VerdictTyped DEF Wait, WaitEnds, WaitTimesOut
  <2> QED
    BY <1>3, <2>1, <2>2, <2>3 DEF Check
<1>4. ASSUME NEW m \in Messages, Lookup(m) PROVE Fresh'
  BY <1>4 DEF Lookup, LookupStarts, LookupAnswers, LookupEnds, Fresh
<1>5. ASSUME NEW m \in Messages, Webhook(m) \/ Email(m) \/ SendRaises(m) PROVE Fresh'
  <2>1. CASE WebhookResolve(m)
    BY <1>1, <1>2, <2>1 DEF WebhookResolve
  <2>2. CASE WebhookPost(m)
    <3>1. PICK r \in HttpReplies :
            Conclude(m, CASE r = "2xx"        -> "sent"
                          [] HttpTransient(r) -> "accepted"
                          [] OTHER            -> "failed", r)
      BY <2>2 DEF WebhookPost
    <3>2. (CASE r = "2xx"        -> "sent"
             [] HttpTransient(r) -> "accepted"
             [] OTHER            -> "failed") \notin {"new", "slot"}
      OBVIOUS
    <3> QED
      BY <1>2, <3>1, <3>2
  <2>3. CASE Email(m) \/ SendRaises(m)
    <3>1. CASE EmailStart(m)
      BY <1>1, <3>1 DEF EmailStart
    <3>2. CASE SmtpAccepts(m)
      <4>1. CASE Conclude(m, "sent", "none")
        BY <1>2, <4>1
      <4>2. CASE ~ Conclude(m, "sent", "none")
        BY <3>2, <4>2 DEF SmtpAccepts, Fresh
      <4> QED
        BY <4>1, <4>2
    <3>3. ASSUME NEW r \in SmtpFailures, SmtpFails(m, r) PROVE Fresh'
      <4>1. PICK w : w \notin {"new", "slot"} /\ Conclude(m, w, r)
        BY <3>3 DEF SmtpFails
      <4> QED
        BY <1>2, <4>1
    <3>4. CASE SendRaises(m)
      BY <1>2, <3>4 DEF SendRaises
    <3> QED
      BY <2>3, <3>1, <3>2, <3>3, <3>4 DEF Email
  <2> QED
    BY <1>5, <2>1, <2>2, <2>3 DEF Webhook
<1>6. CASE UNCHANGED vars
  BY <1>6 DEF vars, Fresh
<1> QED
  BY <1>3, <1>4, <1>5, <1>6 DEF Next

LEMMA SlotsInit == Init => SlotsCounted
<1> SUFFICES ASSUME Init PROVE SlotsCounted
  OBVIOUS
<1>1. Held = {} /\ slots = THREADS /\ THREADS \in Nat
  BY ChannelsAssumption DEF Init, Held
<1>2. IsFiniteSet({}) /\ Cardinality({}) = 0
  BY FS_EmptySet
<1> QED
  BY <1>1, <1>2 DEF SlotsCounted

LEMMA SlotsStep == Shape /\ Fresh /\ SlotsCounted /\ [Next]_vars => SlotsCounted'
<1> SUFFICES ASSUME Shape, Fresh, SlotsCounted, [Next]_vars PROVE SlotsCounted'
  OBVIOUS
<1>0. /\ slots \in Nat /\ THREADS \in Nat /\ IsFiniteSet(Held)
      /\ Cardinality(Held) \in Nat /\ slots + Cardinality(Held) = THREADS
  BY ChannelsAssumption, FS_CardinalityType DEF SlotsCounted
<1>1. ASSUME slots' = slots, Held' = Held PROVE SlotsCounted'
  BY <1>1 DEF SlotsCounted
<1>2. ASSUME slots' = slots, lookup' = lookup PROVE SlotsCounted'
  BY <1>1, <1>2 DEF Held
<1>3. ASSUME NEW m \in Messages, AcquireSlot(m) PROVE SlotsCounted'
  <2>1. CASE slots > 0
    <3>1. slots' = slots - 1 /\ Held' = Held \union {m} /\ m \notin Held
      BY <1>3, <2>1 DEF AcquireSlot, Fresh, Held, Shape
    <3>2. IsFiniteSet(Held') /\ Cardinality(Held') = Cardinality(Held) + 1
      BY <1>0, <3>1, FS_AddElement
    <3> QED
      BY <1>0, <2>1, <3>1, <3>2 DEF SlotsCounted
  <2>2. CASE ~ (slots > 0)
    BY <1>2, <1>3, <2>2 DEF AcquireSlot
  <2> QED
    BY <2>1, <2>2
<1>4. ASSUME NEW m \in Messages, LookupAnswers(m) PROVE SlotsCounted'
  <2>1. slots' = slots + 1 /\ Held' = Held \ {m} /\ m \in Held
    BY <1>4 DEF LookupAnswers, Released, Held, Shape
  <2>2. IsFiniteSet(Held') /\ Cardinality(Held') = Cardinality(Held) - 1
    BY <1>0, <2>1, FS_RemoveElement
  <2> QED
    BY <1>0, <2>1, <2>2 DEF SlotsCounted
<1>5. ASSUME NEW m \in Messages, Check(m) PROVE SlotsCounted'
  <2>1. CASE ValidateRecipient(m) \/ Wait(m)
    BY <1>2, <2>1 DEF ValidateRecipient, Wait, WaitEnds, WaitTimesOut
  <2> QED
    BY <1>3, <1>5, <2>1 DEF Check
<1>6. ASSUME NEW m \in Messages, Lookup(m) PROVE SlotsCounted'
  <2>1. CASE LookupStarts(m) \/ LookupEnds(m)
    <3>1. slots' = slots /\ Held' = Held
      BY <2>1 DEF LookupStarts, LookupEnds, Held, Shape
    <3> QED
      BY <1>1, <3>1
  <2> QED
    BY <1>4, <1>6, <2>1 DEF Lookup
<1>7. ASSUME NEW m \in Messages, Webhook(m) \/ Email(m) \/ SendRaises(m)
      PROVE  slots' = slots /\ lookup' = lookup
  <2>1. CASE Webhook(m)
    BY <2>1 DEF Webhook, WebhookResolve, WebhookPost, Conclude
  <2>2. CASE Email(m)
    BY <2>2 DEF Email, EmailStart, SmtpAccepts, SmtpFails, Conclude
  <2>3. CASE SendRaises(m)
    BY <2>3 DEF SendRaises, Conclude
  <2> QED
    BY <1>7, <2>1, <2>2, <2>3
<1>8. CASE UNCHANGED vars
  BY <1>2, <1>8 DEF vars
<1> QED
  BY <1>2, <1>5, <1>6, <1>7, <1>8 DEF Next

LEMMA AlwaysCounted == Spec => []SlotsCounted
<1>1. Init => Fresh
  BY DEF Init, Fresh
<1> QED
  BY <1>1, AlwaysShape, FreshStep, SlotsInit, SlotsStep, PTL DEF Spec

\* Every slot is free or held by one lookup that is queued or runs, although a
\* request may give up before its lookup starts, while it runs or when it has
\* answered: the lookup, not the request, gives the slot back.
THEOREM SlotsConservedHolds == Spec => []SlotsConserved
<1>1. SlotsCounted => SlotsConserved
  BY DEF SlotsCounted, SlotsConserved, In, Held
<1> QED
  BY <1>1, AlwaysCounted, PTL

\* Every variable holds what the code's objects hold; the semaphore is never
\* released more often than acquired.
THEOREM TypeCorrect == Spec => []TypeOK
<1>1. Init => Vetted
  BY DEF Init, Vetted
<1>2. Shape /\ Vetted /\ SlotsCounted => TypeOK
  <2> SUFFICES ASSUME Shape, Vetted, SlotsCounted PROVE TypeOK
    OBVIOUS
  <2>1. slots \in 0..THREADS
    <3>1. Cardinality(Held) \in Nat /\ THREADS \in Nat
      BY FS_CardinalityType, ChannelsAssumption DEF SlotsCounted
    <3> QED
      BY <3>1 DEF SlotsCounted
  <2> QED
    BY <2>1, SixPhases DEF Shape, Vetted, TypeOK, Reasons
<1> QED
  BY <1>1, <1>2, AlwaysShape, AlwaysCounted, VettedStep, PTL DEF Spec

-----------------------------------------------------------------------------
(***************************************************************************)
(* Messages given up.                                                      *)
(***************************************************************************)

\* What is known of a message with target t, at p and given up for w: only names
\* are looked up, each channel gets its own targets, a literal address was judged
\* when it was accepted, and who failed did so for a cause.
Placed(p, t, w) ==
  /\ p \in {"slot", "wait"} => t.kind = "name"
  /\ p = "smtp" => t.kind = "email"
  /\ p = "post" => t.kind \in {"name", "literal"}
  /\ p \in {"accepted", "post"} /\ t.kind = "literal" => t.at \notin BlockedAddresses
  /\ p = "failed" =>
       \/ t.kind = "name" /\ w \in CheckFailures
       \/ t.kind \in {"name", "literal"} /\ w \in {"3xx", "4xx", "6xx"}
       \/ t.kind = "email" /\ w \in {"smtp 5xx", "smtp other"}

AllPlaced == \A m \in Messages : Placed(pc[m], target[m], reason[m])

LEMMA LiteralJudged ==
  ASSUME NEW a, Passes(<<a>>)
  PROVE  a \notin BlockedAddresses
<1>1. 1 \in DOMAIN <<a>> /\ <<a>>[1] = a
  OBVIOUS
<1> QED
  BY <1>1 DEF Passes

LEMMA LiteralRefused ==
  ASSUME NEW a, ~ Passes(<<a>>)
  PROVE  a \in BlockedAddresses
<1>1. <<a>> # <<>> /\ \A i \in DOMAIN <<a>> : <<a>>[i] = a
  OBVIOUS
<1> QED
  BY <1>1 DEF Passes

LEMMA AllPlacedStep == Shape /\ AllPlaced /\ [Next]_vars => AllPlaced'
<1> SUFFICES ASSUME Shape, AllPlaced, [Next]_vars PROVE AllPlaced'
  OBVIOUS
<1>0. ASSUME NEW m \in Messages
      PROVE  /\ target[m].kind \in {"email", "malformed", "name", "literal"}
             /\ Placed(pc[m], target[m], reason[m])
  BY TargetKinds DEF Shape, AllPlaced
<1>1. ASSUME NEW m \in Messages, NEW where, Go(m, where),
             UNCHANGED <<target, reason>>, Placed(where, target[m], reason[m])
      PROVE  AllPlaced'
  BY <1>1 DEF AllPlaced, Go, Shape
<1>2. ASSUME NEW m \in Messages, NEW where, NEW why, Conclude(m, where, why),
             Placed(where, target[m], why), where \notin {"slot", "wait", "smtp", "post"}
      PROVE  AllPlaced'
  <2>1. Placed(where, target[m], IF where = "failed" THEN why ELSE "none")
    BY <1>2 DEF Placed
  <2>2. target' = target /\ pc' = [pc EXCEPT ![m] = where]
    BY <1>2 DEF Conclude, Go
  <2>3. reason' = [reason EXCEPT ![m] = IF where = "failed" THEN why ELSE "none"]
    BY <1>2 DEF Conclude
  <2> QED
    BY <2>1, <2>2, <2>3 DEF AllPlaced, Shape
<1>3. ASSUME NEW m \in Messages, Check(m) PROVE AllPlaced'
  <2>1. CASE ValidateRecipient(m)
    <3>1. UNCHANGED <<target, reason>>
      BY <2>1 DEF ValidateRecipient
    <3>2. PICK w : /\ Go(m, w)
                   /\ w = CASE target[m].kind = "email"     -> "accepted"
                            [] target[m].kind = "malformed" -> "refused"
                            [] target[m].kind = "literal"   -> Verdict(<<target[m].at>>)
                            [] target[m].kind = "name"      -> "slot"
      BY <2>1 DEF ValidateRecipient
    <3>3. CASE target[m].kind = "literal"
      BY <1>1, <3>1, <3>2, <3>3, LiteralJudged DEF Verdict, Placed
    <3>4. CASE target[m].kind # "literal"
      BY <1>0, <1>1, <3>1, <3>2, <3>4 DEF Placed
    <3> QED
      BY <3>3, <3>4
  <2>2. CASE AcquireSlot(m)
    BY <1>0, <1>1, <2>2 DEF AcquireSlot, WithoutSlot, Placed
  <2>3. CASE Wait(m)
    <3>1. PICK w : Go(m, w) /\ w \in {"accepted", "refused"}
      BY <2>3, VerdictTyped DEF Wait, WaitEnds, WaitTimesOut
    <3>2. target[m].kind = "name" /\ UNCHANGED <<target, reason>>
      BY <1>0, <2>3 DEF Wait, WaitEnds, WaitTimesOut, Placed
    <3> QED
      BY <1>1, <3>1, <3>2 DEF Placed
  <2> QED
    BY <1>3, <2>1, <2>2, <2>3 DEF Check
<1>4. ASSUME NEW m \in Messages, Lookup(m) PROVE AllPlaced'
  BY <1>4 DEF Lookup, LookupStarts, LookupAnswers, LookupEnds, AllPlaced
<1>5. ASSUME NEW m \in Messages, WebhookResolve(m) PROVE AllPlaced'
  <2>1. /\ target[m].kind \in {"name", "literal"}
        /\ target[m].kind = "literal" => target[m].at \notin BlockedAddresses
    BY <1>0, <1>5 DEF WebhookResolve, Placed
  <2>2. PICK found \in IF target[m].kind = "name" THEN Answers ELSE {<<target[m].at>>} :
          \/ ~ Passes(found) /\ Conclude(m, "failed", Refusal(found))
          \/ Passes(found) /\ Go(m, "post") /\ UNCHANGED <<target, reason>>
    BY <1>5 DEF WebhookResolve
  <2>3. CASE ~ Passes(found) /\ Conclude(m, "failed", Refusal(found))
    <3>1. target[m].kind = "name"
      BY <2>1, <2>2, <2>3, LiteralRefused
    <3>2. Refusal(found) \in CheckFailures
      BY DEF Refusal, CheckFailures
    <3> QED
      BY <1>2, <2>3, <3>1, <3>2 DEF Placed
  <2>4. CASE Passes(found) /\ Go(m, "post") /\ UNCHANGED <<target, reason>>
    BY <1>1, <2>1, <2>4 DEF Placed
  <2> QED
    BY <2>2, <2>3, <2>4
<1>6. ASSUME NEW m \in Messages, WebhookPost(m) PROVE AllPlaced'
  <2>1. PICK r \in HttpReplies :
          Conclude(m, CASE r = "2xx"        -> "sent"
                        [] HttpTransient(r) -> "accepted"
                        [] OTHER            -> "failed", r)
    BY <1>6 DEF WebhookPost
  <2>2. PICK w : w = CASE r = "2xx"        -> "sent"
                       [] HttpTransient(r) -> "accepted"
                       [] OTHER            -> "failed"
    OBVIOUS
  <2>3. w \in {"sent", "accepted", "failed"} /\ (w = "failed" => r \in {"3xx", "4xx", "6xx"})
    BY <2>2 DEF HttpTransient, HttpReplies
  <2>4. /\ target[m].kind \in {"name", "literal"}
        /\ target[m].kind = "literal" => target[m].at \notin BlockedAddresses
    BY <1>0, <1>6 DEF WebhookPost, Placed
  <2>5. Placed(w, target[m], r)
    BY <2>3, <2>4 DEF Placed
  <2> QED
    BY <1>2, <2>1, <2>2, <2>3, <2>5
<1>7. ASSUME NEW m \in Messages, EmailStart(m) PROVE AllPlaced'
  BY <1>1, <1>7 DEF EmailStart, Placed
<1>8. ASSUME NEW m \in Messages, SmtpAccepts(m) PROVE AllPlaced'
  <2>1. CASE Conclude(m, "sent", "none")
    BY <1>2, <2>1 DEF Placed
  <2>2. CASE ~ Conclude(m, "sent", "none")
    BY <1>8, <2>2 DEF SmtpAccepts, AllPlaced
  <2> QED
    BY <2>1, <2>2
<1>9. ASSUME NEW m \in Messages, NEW r \in SmtpFailures, SmtpFails(m, r) PROVE AllPlaced'
  <2>1. PICK ph :
          Conclude(m, IF SmtpTransient(ph, r) THEN "accepted" ELSE "failed", r)
    BY <1>9 DEF SmtpFails
  <2>2. target[m].kind = "email"
    BY <1>0, <1>9 DEF SmtpFails, Placed
  <2>3. ~ SmtpTransient(ph, r) => r \in {"smtp 5xx", "smtp other"}
    BY DEF SmtpTransient, RaisesCode, SmtpFailures
  <2> QED
    BY <1>2, <2>1, <2>2, <2>3 DEF Placed
<1>10. ASSUME NEW m \in Messages, SendRaises(m) PROVE AllPlaced'
  <2>1. Conclude(m, "accepted", "none") /\ Placed("accepted", target[m], "none")
    BY <1>0, <1>10 DEF SendRaises, Placed
  <2> QED
    BY <1>2, <2>1
<1>11. CASE UNCHANGED vars
  BY <1>11 DEF vars, AllPlaced
<1> QED
  BY <1>3, <1>4, <1>5, <1>6, <1>7, <1>8, <1>9, <1>10, <1>11 DEF Next, Webhook, Email

\* A message is failed only for what its channel reads as permanent: a name that
\* does not pass the check of that send (blocked, or not resolved then), a permanent
\* HTTP status, an SMTP code that is not 4xx; a literal address never at the check.
\* A timeout, a lost connection, a temporary answer or any other exception of the
\* conversation never fails it, in whichever phase it comes.
THEOREM GivenUpForCauseHolds == Spec => []GivenUpForCause
<1>1. Init => AllPlaced
  BY DEF Init, AllPlaced, Placed
<1>2. AllPlaced => GivenUpForCause
  BY DEF AllPlaced, Placed, GivenUpForCause
<1> QED
  BY <1>1, <1>2, AlwaysShape, AllPlacedStep, PTL DEF Spec
=============================================================================
