---------------------------- MODULE TokenBucket ----------------------------
(***************************************************************************)
(* One rate-limit bucket in Redis: lua/token_bucket.lua, which bucket.py   *)
(* runs as one atomic step per request, the key's expiry, and what may     *)
(* happen to Redis and its clock in between.                               *)
(*                                                                         *)
(* A tick is the script's millisecond, and amounts are counted in units    *)
(* finer than the last digit that the script writes.  A unit of 1/(3*10^14)*)
(* token, with 5*10^9 * rate_per_min units a tick, makes the refill of     *)
(* every tick and the last of 14 decimals whole numbers of units.  What    *)
(* the script computes in doubles is any amount within FLOAT of the exact  *)
(* one; what it stores has been rounded by tostring.                       *)
(***************************************************************************)
EXTENDS Integers

CONSTANTS
  RATE,         \* units refilled per tick
  TOKEN,        \* units per token
  BURST,        \* tokens the bucket holds
  REQ,          \* tokens a request takes
  SECOND,       \* ticks per second, the unit of EXPIRE and Retry-After
  FLOAT,        \* units by which a result in doubles may be off
  Grains,       \* units of the last digit tostring keeps, by size of the number
  GRAIN,        \* the largest of them
  MaxBack,      \* bound: ticks the clock is set back behind last_refill
  MaxAhead,     \* bound: ticks the clock is set ahead in all
  MaxFlushes    \* bound: losses of Redis' data

ASSUME BucketAssumption ==
  /\ RATE \in Nat \ {0}
  /\ TOKEN \in Nat \ {0}
  /\ BURST \in Nat \ {0}
  /\ REQ \in Nat \ {0}
  /\ SECOND \in Nat \ {0}
  /\ FLOAT \in Nat
  /\ GRAIN \in Nat
  /\ Grains \subseteq 1..GRAIN
  /\ \A g \in Grains : TOKEN % g = 0
  /\ MaxBack \in Nat
  /\ MaxAhead \in Nat
  /\ MaxFlushes \in Nat

VARIABLES
  tokens,    \* units in the hash, ABSENT if the key does not exist
  since,     \* Redis' clock minus last_refill; negative once it was set back
  ttl,       \* ticks until the key expires
  excess,    \* the most any window so far was granted beyond RATE per tick
             \* and Rounding per request
  promised,  \* ticks until one after the last Retry-After is up, NONE if a
             \* grant followed it
  ahead,     \* ticks the clock was set ahead so far
  flushes    \* losses of Redis' data so far

vars == <<tokens, since, ttl, excess, promised, ahead, flushes>>

-----------------------------------------------------------------------------
ABSENT == -1
NONE == -1

Full == BURST * TOKEN
Cost == REQ * TOKEN

\* The most a request gains by what it computes and writes.
Rounding == FLOAT + GRAIN \div 2

CeilDiv(a, b) == (a + b - 1) \div b

\* Mutant: one second whatever the rate.
TtlTooShort == SECOND

\* ceil(burst / rate) + 1 seconds.
Ttl == (CeilDiv(Full, RATE * SECOND) + 1) * SECOND

\* A clock set back behind last_refill adds nothing.
Elapsed == IF since < 0 THEN 0 ELSE since

\* Mutant: refill without the cap.
Uncapped(t) == t
Capped(t) == IF t > Full THEN Full ELSE t

\* What the bucket has earned.
Refilled == IF tokens = ABSENT THEN Full ELSE Capped(tokens + Elapsed * RATE)

\* A result computed in doubles.
Near(t) == {n \in (t - FLOAT)..(t + FLOAT) : n >= 0}

\* What the script finds after refilling.
Found ==
  IF tokens = ABSENT THEN {Full}
  ELSE {Capped(n) : n \in Near(tokens + Elapsed * RATE)}

\* tostring keeps 14 digits, so how many decimals depends on the size of the number.
Rounded(t, g) == ((t + g \div 2) \div g) * g
Written(t) == {Rounded(t, g) : g \in Grains}

Init ==
  /\ tokens = ABSENT
  /\ since = 0
  /\ ttl = 0
  /\ excess = 0
  /\ promised = NONE
  /\ ahead = 0
  /\ flushes = 0

\* Mutant: last_refill is not written.
SaveTokensOnly(t) ==
  /\ tokens' \in Written(t)
  /\ since' = IF tokens = ABSENT THEN 0 ELSE since
  /\ ttl' = Ttl

\* The hash is written, with last_refill = now, and its expiry set again.
Save(t) ==
  /\ tokens' \in Written(t)
  /\ since' = 0
  /\ ttl' = Ttl

Less(a, b) == IF a > b THEN a - b ELSE 0

Allow ==
  /\ \E found \in Found : found >= Cost /\ Save(found - Cost)
  /\ excess' = Less(excess + Cost, Rounding)
  /\ promised' = NONE
  /\ UNCHANGED <<ahead, flushes>>

\* Mutant: the milliseconds are rounded down.
RetryAfterRoundedDown(need) == need \div RATE

\* retry_after_ms, of what is missing.
RetryAfter(need) == CeilDiv(need, RATE)

\* retry_after_seconds, the header.
RetryAfterSeconds(ms) == IF ms > SECOND THEN CeilDiv(ms, SECOND) ELSE 1

Deny ==
  /\ \E found \in Found :
       /\ found < Cost
       /\ Save(found)
       /\ \E need \in Near(Cost - found) \ {0} :
            promised' = RetryAfterSeconds(RetryAfter(need)) * SECOND + 1
  /\ excess' = Less(excess, Rounding)
  /\ UNCHANGED <<ahead, flushes>>

\* Redis' clock moves n ticks on; a key whose time is up is gone.
ClockMoves(n) ==
  IF tokens # ABSENT /\ ttl > n
  THEN since' = since + n /\ ttl' = ttl - n /\ UNCHANGED tokens
  ELSE tokens' = ABSENT /\ since' = 0 /\ ttl' = 0

Tick ==
  /\ ClockMoves(1)
  /\ excess' = Less(excess, RATE)
  /\ promised' = IF promised > 0 THEN promised - 1 ELSE promised
  /\ UNCHANGED <<ahead, flushes>>

\* The wall clock behind TIME is corrected, or differs after a failover.
SetAhead(n) ==
  /\ ahead + n <= MaxAhead
  /\ ahead' = ahead + n
  /\ ClockMoves(n)
  /\ UNCHANGED <<excess, promised, flushes>>

SetBack(n) ==
  /\ tokens # ABSENT
  /\ since - n >= -MaxBack
  /\ ClockMoves(-n)
  /\ promised' = NONE
  /\ UNCHANGED <<excess, ahead, flushes>>

\* Redis restarts empty.
Flush ==
  /\ tokens # ABSENT
  /\ flushes < MaxFlushes
  /\ flushes' = flushes + 1
  /\ tokens' = ABSENT
  /\ since' = 0
  /\ ttl' = 0
  /\ UNCHANGED <<excess, promised, ahead>>

Next ==
  \/ Allow
  \/ Deny
  \/ Tick
  \/ \E n \in 1..MaxAhead : SetAhead(n)
  \/ \E n \in 1..MaxBack : SetBack(n)
  \/ Flush

Spec == Init /\ [][Next]_vars

-----------------------------------------------------------------------------
\* The hash holds between nothing and a full bucket, and the key lives exactly as
\* long after last_refill as the script asked for.
TypeOK ==
  /\ tokens \in {ABSENT} \union 0..Full
  /\ since \in -MaxBack..Ttl
  /\ ttl \in Nat
  /\ tokens # ABSENT => since + ttl = Ttl
  /\ excess \in Nat
  /\ promised \in {NONE} \union Nat
  /\ ahead \in 0..MaxAhead
  /\ flushes \in 0..MaxFlushes

\* No client is granted more than burst + rate * T tokens in any window of T
\* ticks (ADR-0002, "without oversubscription"), however its requests, the expiry
\* of the key and corrections of the clock interleave, beyond what the lost digits
\* of each request in it may add.  A clock set ahead adds what it skipped, a loss of
\* Redis' data one burst; a clock set back, nothing.
RateBound == excess <= (1 + flushes) * Full + ahead * RATE

\* Retry-After is long enough but for the last tick: a client that waits for it
\* and one millisecond more is let through, unless another request was granted
\* meanwhile, although both the wait and the amount it was computed from are rounded.
\* Without that millisecond it may be denied once more: the wait is computed before
\* tostring drops digits of the amount.
RetryAfterSuffices ==
  promised = 0 => REQ > BURST \/ \A found \in Found : found >= Cost

\* Expiry is invisible: a key only expires once its bucket is full again.
ExpiryIsInvisible ==
  [][tokens # ABSENT /\ tokens' = ABSENT /\ flushes' = flushes => Refilled = Full]_vars
=============================================================================
