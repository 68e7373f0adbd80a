# A TLA+ development of notify-relay

notify-relay accepts transactional messages over HTTP, stores them in PostgreSQL, and delivers them
by e-mail or webhook through Celery workers with Redis as the broker. This directory holds TLA+
models of the parts whose correctness depends on ordering, failure and time, the TLC configurations
that check them, and TLAPS proofs. `PROJECT.json` maps every definition to the lines it models.

## 1. The system

| Component | State | Operations | Talks to |
|---|---|---|---|
| Acceptance (`messages_api/services.py`, `views.py`) | message rows, unique on (api_key, idempotency_key) | `create_message`: look up the key, resolve and render the template, insert, or replay | database; after the commit publishes a task |
| Delivery task (`tasks/delivery.py`) | `status`, `claimed_by`, attempts, dead letters | `_dispatch`: claim, send, record the attempt, settle or retry | database, channel, broker (autoretry) |
| Beat tasks (`tasks/scheduler.py`) | `enqueued_at`, `updated_at` | `dispatch_scheduled` (due, stranded, stale), `cleanup_old_messages` | database; after the commit publishes tasks |
| Celery and Redis (external) | waiting and unacknowledged tasks | deliver, redeliver, retry, time limits | everything above |
| Rate limiter (`ratelimit/`, `core/middleware.py`) | one Redis hash per identity; the script's hash per process | `token_bucket.lua`, `consume`, `_derive` | every request, Redis |
| Templates (`templating/`) | templates, versions | upsert adds a version, soft delete, lookups | read by acceptance |
| Channels (`channels/`) | none | `send` answers success, transient or permanent | called by the task; mail and web servers |
| Webhook validation (`validators.py`) | four lookup slots | `validate_webhook_url` | acceptance and the webhook channel; name servers |
| API keys (`core/`) | key rows | create, revoke, resolve per request | limiter and authentication |
| Health probes (`core/health.py`) | none | `live`, `ready` | database, Redis |

What is hard here: the database and the broker are updated in separate steps, so any process may die
or any publish may fail between them; tasks are delivered at least once and keep their id; Beat puts
messages back by age, not by knowing what became of their task; clients repeat requests whose answer
they did not get; lookups and upserts are several statements; every call to Redis, DNS, SMTP or HTTP may
fail, hang, or succeed without anybody hearing of it. `PROJECT.json` lists each hazard at the line where it bites, with the properties
that would catch it.

## 2. Modules

| Module | Models | Relies on |
|---|---|---|
| `Delivery`, refining `Lease` | a row from acceptance to removal | any result of a send (`Channels` says which) |
| `Accept`, refining `IdempotentStore` | POST /messages/ from the first lookup to the answer | template lookups in one step (`Templates` shows they are linearizable) |
| `Templates` | POST, DELETE and lookups of templates | |
| `Gateway` | a request on its way to the view; key management; probes | a bucket grants or denies (`TokenBucket` says when) |
| `TokenBucket` | the Lua script, one bucket | |
| `Channels` | recipient check, DNS lookups, one send | how often a send is repeated (`Delivery`) |

### Delivery (`Delivery.tla`, `Lease.tla`, `MCDelivery.tla`)

State: one function per column of the message row (`status`, `claimedBy`, `scheduled`, and the ages of
`enqueued_at` and `updated_at`), the attempt rows, the dead letters, the publishes each process still
owes after its commit (`pending`), the broker's copies of each task, what each worker runs, and the ids
cleanup has selected. Timestamps are ages in ticks, capped one above the threshold the code compares
them with: time is unbounded and the state space is not. Rows, tasks and runs carry no payload, because
no property tells payloads apart.

What the receiver got is not state of this program. A send that it took and whose answer was lost is a
transient error and is repeated (webhook.py:81, delivery.py:93), with or without any other failure: deliveries are
at-least-once, as GETTING_STARTED.md says. `NotSentAfterSuccess` therefore speaks of sends that were answered with success.

Steps follow the code's transactions and statements:

* `Create`, then `Publish` or `EnqueueAfterCommitFails`: the insert, and the on-commit publish whose
  broker error is swallowed.
* `Dispatch`, then `Publish` or `EnqueueAllFails`: one transaction selects and stamps the batch; the
  publishes come after the commit and stop at the first error. `SKIP LOCKED` needs no step: a row locked
  by a claim, a save or another dispatcher is skipped exactly as if that transaction had come first.
* `CleanupSelect`, `CleanupDelete`: two statements, the second by primary key only.
* `Skip` or `Claim`, `Send`, `RecordAttempt` or `AttemptConflict`, `Settle` or `SaveFails` or `Retry`
  then `Ack`: `_dispatch` cut at each of its statements. `Send` includes the count of attempts, since
  sending itself changes nothing in the database. `Retry` publishes before `Ack`, as Celery does with
  late acknowledgement; a worker lost in between leaves two tasks with one id.
* Failures, each bounded by `MaxFaults` and chosen by `Faults`: `outage` (a publish fails, Redis restarts
  empty), `fail` (a run ends with a time limit or database error and is acknowledged), `crash` (a worker
  is lost, its task comes back), `redeliver` (the broker delivers again a task that is still running).
* `Tick`: no run exceeds `TASK_TIME_LIMIT`, no waiting task exceeds `MAX_WAIT`. `MAX_WAIT` is an assumption
  about the installation (backlog, countdowns, visibility timeout); the runs take it below and above
  `STALE_SENDING_AFTER`.

`Lease` is what `claimed_by` promises, in five actions: a task takes a message up, stops, finishes it; Beat
withdraws it from a task that does not work; cleanup forgets it. `Delivery!ImplementsLease` maps status and
`claimed_by` to the lease and the runs that are between claim and settlement to who works on it. One transaction of
Beat may move several messages, so a step of `Lease` is a step of each message or none.

Two remarks about the documents that no run checks: after a transient failure the row stays `sending`
until the retry runs, where the diagram of ARCHITECTURE.md draws an arrow back to `queued`; and a late retry that comes
before the task that replaced it claims the queued row, where the comment at scheduler.py:55 has it stop as a
duplicate (the replacement stops then, and `OneOwner` holds).

Not in the model: priorities (one bag stands for the three queues), the channel's reasons, metrics.

### Accept and IdempotentStore (`Accept.tla`, `IdempotentStore.tla`)

`Accept` is `create_message` with its two lookups, template resolution and insert as separate steps of
concurrent requests. Retention removes a row only if it is `Old`: it was there before any request that runs now
began, as it is 90 days old and no request lasts that long. A key stands for a pair (api_key, Idempotency-Key); a content for the fields that
`_payload_matches` compares. Clients send a request again at any point, retention removes rows, templates
gain versions and are deleted. Requests the view refuses before it reads the database are left out: they
touch no state. `IdempotentStore` states what ADR-0001 promises, with every request answered in one step
and no server error. `Accept!ImplementsStore` maps rows to the store
and takes the answer of a request as given from the commit of its row.

### Templates (`Templates.tla`)

Every SQL statement is a step. The POST runs in a transaction: `UpsertLook` starts the SELECT FOR UPDATE,
`UpsertLock` ends it when the row lock is free (PostgreSQL then evaluates the WHERE clause again, so a row deleted
meanwhile does not match), `UpsertNumber` reads the latest number, `UpsertCreate` and `UpsertInsert` insert; the
insert of a row waits for an uncommitted row of the same name. The DELETE reads the row and saves it by
primary key; `_resolve_template` and staff GETs read the template and then its version, without a transaction. A
body is known by what it renders to, JSON or other text; any render may fail. `window` is a history variable: what
was current for a lookup while it ran.

### Gateway (`Gateway.tla`)

One request at a time per handler, through `HealthProbeMiddleware`, `RateLimitMiddleware` (`_derive`, `consume` with the
loading of the script), `resolve_api_key` with its memo, and `ApiKeyAuthentication`, each call to Redis or to the
database one step. An address is a network and a host in it: `_bucket_address` keeps the network (an IPv4 address, an IPv6
/64). The proxies in front append to X-Forwarded-For, the client may have put one entry there. A request may also come
without the header, straight from inside the proxies' network, and an `edge` may append something that is no address ("unknown", an
address with a port): these are the short and the garbled chain for which `_client_ip` falls back to the peer. A
NUM_PROXIES larger than the number of proxies is a wrong setting and not modelled. A key is absent,
active or revoked; a header is missing, malformed, or carries the wrong or the right secret. Staff create keys and revoke them in
two statements. Redis and the database stop and start, the script cache is emptied, an answer of Redis is
lost after the script ran. `charged`, `late`, `trouble` and `lost` are history. redis-py may repeat a command whose answer was lost, so a
request can take one token more for each lost answer; `OneToken` says so. 202 stands for the call of `create_message`.

### Channels (`Channels.tla`)

The recipient check of the API: a literal is judged at once; a name needs a slot, then a pool thread, then an
answer. The slot is given back before the thread is free, so a lookup may wait briefly for a thread. A request
that times out leaves its lookup behind. Then the send of a worker: the webhook is checked again without a
timeout and posted to the first address that check returned. A check that fails is final, and `reason` tells a blocked
address from a name that did not resolve, be it for a moment only: validate_webhook_url raises one exception for both, so a
failing name server gives the message up. An email goes through the phases of smtplib, each of which may end in 4xx, 5xx, another
code (smtplib's -1 for a reply it cannot read, an unexpected 2xx or 3xx) or a lost connection, raised as the exception smtplib uses there. Any other exception, the soft
time limit included, may strike at any moment. `connected` and `reason` are history. An address is blocked or not; URL parsing yields a
malformed target, a literal or a name. Signatures, headers and bodies are left out, and so is "zero sent": Django's
backend returns it only without recipients. The pool is that of one API process.

### TokenBucket (`TokenBucket.tla`)

The Lua script as two actions (`Allow`, `Deny`) over one bucket, with the expiry of its key. A tick is the script's
millisecond; amounts are integers in a unit finer than the last digit it writes. With 1/(3 * 10^14) token as the unit a
millisecond refills 5 * 10^9 * `rate_per_min` of them exactly. What the script computes in doubles is any amount within `FLOAT` of the exact one
(`Near`). What it stores went through `tostring`, which keeps 14 digits: `Written` rounds to the last of them, whose value
(`Grains`) depends on the size of the number: 3 units between 0.1 and 1 token, 30 up to 10, and so on. The model takes any grain at any time. Numbers
below 0.1 keep more digits than a unit has; what the unit drops of them is part of `FLOAT`. Redis' clock may be
set ahead or back and Redis may lose its data. `excess` is a history variable: the largest amount, over all
windows that end now, granted beyond `RATE` per tick and beyond the `Rounding` that each request may gain. `promised` counts down
the header Retry-After and one tick more. That tick is needed: the wait is computed before the digits are
dropped. At 10 per minute, with denials 4500 and 5000 ms after the bucket was emptied, the second stores 0.83333333333333 and promises
1 s; a second later there are 0.9999999999999967 tokens and a client that comes at that very millisecond is denied again (docs/GETTING_STARTED.md:94 has clients
wait `Retry-After` seconds). Requests let through because Redis is unreachable
are not counted; `Gateway` says when that happens.

## 3. Runs

| Run | Instance | Shows |
|---|---|---|
| `delivery_faults` | 1 message, 2 workers, 3 task ids, 1 retry, 2 failures of any kind | `OneOwner`, `AttemptsNumbered`, `StatusHasEvidence`, `GivenUpHasDeadLetter`, `SettledStaysSettled`, `StaleTaskIsGone` (after a lost retry or a failed run), `ImplementsLease` (refinement), `TypeOK` |
| `delivery_backlog` | 2 overlapping dispatchers, tasks waiting up to 4 ticks with stale after 1, lost publishes | `NotSentAfterSuccess`, `TerminalIsFinal` |
| `delivery_batch` | 2 messages, 2 dispatchers, batches of 2 that may be published in part, scheduled messages | `NotSentEarly` |
| `delivery_live` | 1 message, 1 worker, 2 failures, fairness | `EventuallySettled` |
| `accept` | 2 requests, 2 keys, 2 repeats, 1 removal, fairness | `SameMessage`, `OneTask`, `RaceLoserIsAnswered`, `ImplementsStore` (refinement), `EveryRequestAnswered`, `TypeOK` |
| `templates` | 1 name, 3 POSTs, 1 DELETE, 1 lookup (latest or version 2), fairness | `OneLiveRow`, `OnlyCreatorsFail`, `ReadsWhatWasCurrent` (linearizability), `SnapshotFits`, `VersionsGoToLiveRows`, `StaffIsAnswered`, `TypeOK` |
| `gateway` | 2 requests, 1 key, 1 revocation, 1 process, up to 2 proxies with a chain that is whole, short or garbled, 2 failures, fairness | `RevokedStaysOut`, `OneToken`, `ChargedToItsOwner`, `UnlimitedOnlyInTrouble`, `EveryRequestAnswered`, `TypeOK` |
| `channels` | 3 messages of any kind, 2 slots, a public and a blocked address, fairness | `SlotsConserved`, `OnlyVettedAddresses`, `GivenUpForCause`, `ChecksEnd`, `TypeOK` |
| `bucket` | burst 3, 5 units per tick, 30 per token, results off by 1, digits of 1 or 3 units | `RateBound`, `RetryAfterSuffices`, `ExpiryIsInvisible`, `TypeOK` |

Runs that end in a violation, each about one sentence of the repository:

| Run | Sentence | What happens |
|---|---|---|
| `delivery_final_twice` | the lifecycle diagram: sent, failed and dead are final | a redelivered task and its first run share the id, both pass the claim, and the second overwrites the final status (sent becomes failed, with a dead letter) |
| `accept_template` | "a repeat with a different payload returns `409`" | template and version are not compared; the repeat gets 202 |
| `email_refused` | "We map SMTP 4xx → transient (worth retrying) and 5xx → permanent (give up)" | a refused recipient raises SMTPRecipientsRefused, which is no SMTPResponseException: the 5xx is retried until the message is dead |

Bounds. One message is enough for the ownership properties, since messages share nothing but workers and
batches; `delivery_batch` has two. Two workers allow two runs of one task or of two tasks. Three ids are the
original task, its replacement and one more. `MaxAttempts` in `delivery_faults` cuts off behaviours with more than four attempts;
in `delivery_live` it is never reached. The thresholds keep the order of the real ones: re-enqueue < longest
wait < stale. `MAX_RETRIES = 1` tells the first run, a retry and exhaustion apart. In `Accept`, `MaxId` is the
number of keys plus the removals, so it never stops an insert. In `Templates` three POSTs allow a creator, a loser of that
race and one that appends; one DELETE lets a name be given to another channel; names do not interact. In `Gateway`
requests meet only through the key, the script and the failures, so two are enough; two proxies tell the leftmost, the
right and the rightmost entry of X-Forwarded-For apart. `bucket` has a token that is six ticks of refill, so that
amounts between two digits occur, and the clock may go two ticks back and two ahead. In `Channels` three lookups compete for two slots. The thread that waits for its message and
the thread that is left behind are both there.

Fairness. `Delivery!Fairness` assumes that workers take their next step, that processes publish what
they owe, that Beat runs `dispatch_scheduled` (every 60 s), and that time passes; failures are finitely many.
Nothing obliges a cleanup or a new message. Without failures stopping, no delivery system can settle a
message. `Accept!FairSpec`, `Gateway!FairSpec` and
`Templates!FairSpec` assume that handlers run on, a blocked one once its lock is free; no outage has to end.
`Channels!FairSpec` assumes only that a request takes its next step, the 2 s timeout included: name servers, pool
threads and workers may hang for good. If tasks wait longer than `STALE_SENDING_AFTER` between runs, a message may be put back
and tried for ever: `EventuallySettled` needs the threshold, and is checked with it.

Deadlock is checked in TokenBucket only, which never stops. Elsewhere the system may: with every message settled or
deleted and every request answered nothing is left to do. The liveness properties show that it does not stop earlier.

## 4. Proofs

Every invariant and every action property of the passing runs, and both refinements, are theorems: for every
value of the constants, where TLC has one small instance. A module of theorems goes with each component:
`DeliveryProofs`, `TaskProofs` (which extends it) and `LeaseProofs` (which extends both) with `Delivery`; `AcceptProofs`,
`TemplatesProofs`, `GatewayProofs`, `ChannelsProofs` and `TokenBucketProofs` with theirs. They rest on the `ASSUME`s of the
components, which TLC evaluates on every run, and on these hypotheses, which are part of the statements:

| Theorem | Hypothesis | Why |
|---|---|---|
| `StaleTaskIsGoneHolds` | `TASK_TIME_LIMIT + MAX_WAIT <= STALE_SENDING_AFTER` | Beat judges by age alone; a task that waits longer than two hours is put back although it lives |
| `TerminalIsFinalHolds` | `NoSecondDelivery`: no lost worker, no task delivered again | otherwise false: run `delivery_final_twice` |
| `NotSentAfterSuccessHolds` | `OnlyOutages`: no failing run either | a run that dies between the answer and its record leaves a success nobody knows of |
| `RetryAfterSufficesHolds` | `TickOutweighsRounding`: a tick refills at least `GRAIN \div 2 + 2 * FLOAT` | the additional millisecond has to make up for the lost digits; at one token a minute it refills 5 * 10^9 units, against some hundreds |
| `ExpiryIsInvisibleHolds` | `MaxAhead <= SECOND` | the script adds one second to the time to fill; a clock that skips more expires the key early |

The assumptions on constants: thresholds and bounds are natural numbers; `TASK_TIME_LIMIT <= STALE_SENDING_AFTER` (60 s and two
hours in the settings); "" is no task id; a template has at least one version (`MaxVersion`); pinned versions are numbers;
what fails to parse as an address (`Garbage`) is none; rate, burst, cost and a second are positive.

**DeliveryProofs**, for every set of messages, workers, dispatchers and task ids and any failures:

* `TypeCorrect`. Typing is inductive together with the finiteness of each message's attempts, which
  makes the next attempt number a number. It includes that no task carries more than `MAX_RETRIES` retries,
  so that Celery's own limit never acts before the code marks the message dead.
* `OneOwnerHolds`. `OneOwner` alone is not inductive: a stale pass could free a message whose owner still
  runs. `Owned` adds that a working run's id is in `claimed_by`, that its row is sending or settled, and that
  a sending row was written after the run began. As a run cannot outlast `STALE_SENDING_AFTER`, the stale pass never
  frees it. How long tasks wait does not matter, so the theorem covers any backlog.
* `SettledStaysSettledHolds`. `StatusMoves` says what any step may do to a status; with `DoomedSettled` (what
  cleanup selected stays settled) the second, unconditional DELETE is safe.
* `AttemptsNumberedHolds`. `Numbered` adds that the number a run is about to insert is the next one or taken.

**TaskProofs** begins with where tasks and runs come from (`TasksCome`, `RunsCome`), and then:

* `NotSentEarlyHolds`, from `NoTraceYet`: a message that is absent or not due has no task, publish, run or attempt, and no
  `enqueued_at` by which Beat would find it.
* `StaleTaskIsGoneHolds`, from `IdsUnique` (a task id belongs to one message) and `Recent` (while the owning task waits or runs,
  the row was written no longer ago than that wait and a run can last).
* `StatusHasEvidenceHolds`, from `Evidenced`: every retry count that a waiting or running task carries stands for as many
  recorded transient errors, so that "dead" has all of them.
* `GivenUpHasDeadLetterHolds`, inductive with the types: the dead letter is written with the status and goes with the row.

**LeaseProofs**: `DeliveryImplementsLease` shows for each action what it does to the lease of each message (`MappedStep` is the
abstract step with the mapping carried out), from `Owned`, `StatusMoves` and `DoomedSettled`. `TerminalIsFinalHolds` adds `OneCopy` (a task id
waits once or is worked on once) and `ActiveSends` (nobody works on a settled message). It holds with failing runs, where the run that checks
it has outages only. `NotSentAfterSuccessHolds` adds `SuccessSettles`: a recorded success is settled or about to be, and nobody else can claim meanwhile.

**AcceptProofs**: `TypeCorrect` with `Filled` (what a handler has at each of its points); `SameMessageHolds` from `RowsUnique` and
`TellsItsKey` (the id that a request was or will be told belongs to its key's row, as long as there is one); `OneTaskHolds` from
`PublishedOnce` (only the request that inserted a row owes its publish); `RaceLoserIsAnsweredHolds` from `LoserHasRow` (a key that a
running request looked up in vain has only rows younger than that request, which retention leaves alone);
`AcceptImplementsStore`, action by action, from all of these.

**TemplatesProofs**: one inductive invariant, `TableInv`. Its core is `Fits` (who holds a row's lock has a live row and the next
number; who is about to commit a new row has a name without one) and `NoClash` (no two such POSTs on one row or name). From it
`OneLiveRowHolds`, `SnapshotFitsHolds`, `VersionsGoToLiveRowsHolds`, `OnlyCreatorsFailHolds`. `ReadsWhatWasCurrentHolds`, the linearizability
of lookups, adds `Seen`: the template a running lookup found was current, with its present latest version, at some moment of the
lookup's window; once deleted it gets no further version.

**GatewayProofs**: one invariant per request (`Tokens`, `Excluded`, `Owed`, `Rated`), shown for each of its steps and kept by
those of everybody else. `ChargedToItsOwnerHolds` rests on the lemma `ClientIpIsTheClients`: behind n trusted proxies the n-th entry from
the right is the client's address, for every n and whatever the client put into the header, and where that entry is missing or no
address, the peer's is taken. `RevokedStaysOutHolds` needs that a
revoked row stays revoked and that the memo of a late request holds no key.

**ChannelsProofs**: `OnlyVettedAddressesHolds` from `Vetted` (between check and connection nothing writes the addresses, a late answer to
a request that gave up included); `SlotsConservedHolds` from `SlotsCounted` (the held lookups are finitely many, even if messages are
not) and `Fresh`; `GivenUpForCauseHolds` from `AllPlaced` (only accepted targets are sent, so a literal that was judged once
is never refused later, and each way out of a send has its reasons).

**TokenBucketProofs**: `RateBoundHolds` from `WithinBudget`: what was granted beyond the rate together with what the bucket would hold now
stays within one burst per loss of data and what the clock skipped; each request may gain `Rounding`, which `excess` leaves out. `RetryAfterSufficesHolds`
from `PromiseKept`: what is stored and what the rest of the wait refills make up the cost, with enough to spare for one more rounding. The roundings
are in lemmas (`RoundedNear`, `WrittenRange`, `FoundRange`, `WaitCovers`). `ExpiryIsInvisibleHolds` from the time that `Ttl` leaves.

Only model-checked: the liveness properties `EventuallySettled`, `EveryRequestAnswered` (of `Accept` and of `Gateway`), `StaffIsAnswered`
and `ChecksEnd`, because fairness and ENABLED are outside what TLAPS proves here; and the three violations, which are counterexamples.

## 5. Plan

The components named in section 1 are modelled as far as the last paragraph allows, and what the runs check is proved where it can
be. What could follow: facts about `Lease` and `IdempotentStore` themselves, from which the refinements would give
`OneOwner` and `SameMessage` a second time; and a bound on the sends of a message by its retries and the number of failures.

Not modelled: Jinja2 and its sandbox, hashing of keys, HMAC signatures, JWT and sessions (libraries without state
of this program); request ids, logs and metrics (they only report); settings profiles, URL routing, the OpenAPI
schema; the operator's SQL of DEPLOYMENT.md, which moves rows out of final states on purpose; rows older than
migration 0003, whose `enqueued_at` is NULL and which no pass of `dispatch_scheduled` finds if their task is lost;
`Accept` and `Delivery` as one module: they share the row and the first publish, which each of them has.
