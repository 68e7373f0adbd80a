------------------------- MODULE TokenBucketProofs -------------------------
(***************************************************************************)
(* Theorems about TokenBucket, for every rate, burst, cost and grain of    *)
(* the expiry, and any corrections of the clock and losses of data.        *)
(***************************************************************************)
EXTENDS TokenBucket, TLAPS

-----------------------------------------------------------------------------
(***************************************************************************)
(* Arithmetic.                                                             *)
(***************************************************************************)
LEMMA ProductNat ==
  ASSUME NEW a \in Nat, NEW b \in Nat
  PROVE  a * b \in Nat
  OBVIOUS

LEMMA ProductMonotone ==
  ASSUME NEW a \in Int, NEW b \in Int, NEW c \in Nat, a <= b
  PROVE  a * c <= b * c /\ a * c \in Int /\ b * c \in Int
  OBVIOUS

LEMMA ProductOfSum ==
  ASSUME NEW a \in Int, NEW b \in Int, NEW c \in Int
  PROVE  (a + b) * c = a * c + b * c /\ (a + b) * c \in Int
  OBVIOUS

\* A wait that n ticks of time shorten by no more than n stays long enough.
LEMMA StaysEnough ==
  ASSUME NEW R \in Nat, NEW t \in Int, NEW c \in Int, NEW x \in Int, NEW n \in Nat,
         NEW p \in Nat, NEW q \in Nat, p <= q + n,
         t + (x + p) * R >= c
  PROVE  t + ((x + n) + q) * R >= c
<1>1. x + p \in Int /\ (x + n) + q \in Int /\ x + p <= (x + n) + q
  OBVIOUS
<1>2. PICK a \in Int, b \in Int : a = (x + p) * R /\ b = ((x + n) + q) * R /\ a <= b
  BY <1>1, ProductMonotone
<1>3. t + a >= c
  BY <1>2
<1>4. t + b >= c
  BY <1>2, <1>3
<1> QED
  BY <1>2, <1>4

\* The sum of a denial: d missing tokens, with an error of f each in what was found and
\* what is missing, and of h in what is stored.
LEMMA EnoughStored ==
  ASSUME NEW R \in Nat, NEW f \in Nat, NEW h \in Nat, NEW c \in Nat, NEW found \in Nat,
         NEW need \in Nat, NEW w \in Nat, NEW p \in Nat,
         need >= c - found - f, w >= found - h, p >= need + R, R >= h + 2 * f
  PROVE  w + p >= c + f
  OBVIOUS

\* The budget of a request: r was there, at most f more was found, c was taken, and at
\* most h more stored.
LEMMA BudgetKept ==
  ASSUME NEW x \in Nat, NEW r \in Nat, NEW f \in Nat, NEW h \in Nat, NEW c \in Nat,
         NEW found \in Nat, NEW s \in Nat, NEW B \in Nat,
         x + r <= B, found <= r + f, s <= (found - c) + h, s <= B
  PROVE  Less(x + c, f + h) + s <= B
  BY DEF Less

\* A rounded-up quotient covers what it was rounded up from.
LEMMA CeilDivCovers ==
  ASSUME NEW a \in Nat, NEW b \in Nat \ {0}
  PROVE  CeilDiv(a, b) \in Nat /\ CeilDiv(a, b) * b >= a
  BY DEF CeilDiv

LEMMA MultipleOf ==
  ASSUME NEW k \in Nat, NEW g \in Nat \ {0}
  PROVE  (k * g) % g = 0
  OBVIOUS

\* The constants of the script are numbers, and the expiry leaves a bucket
\* that is empty the time to fill, and a second more.
LEMMA ConstantsTyped ==
  /\ Full \in Nat /\ Cost \in Nat /\ RATE \in Nat /\ SECOND \in Nat
  /\ Ttl \in Nat /\ Ttl >= 1
  /\ (Ttl - SECOND) * RATE >= Full
  /\ Ttl * RATE >= Full
  /\ REQ <= BURST => Cost <= Full
<1> USE BucketAssumption
<1>1. Full \in Nat /\ Cost \in Nat /\ RATE \in Nat \ {0} /\ SECOND \in Nat \ {0}
  BY ProductNat DEF Full, Cost
<1>2. REQ <= BURST => Cost <= Full
  BY ProductMonotone DEF Full, Cost
<1> DEFINE C == CeilDiv(Full, RATE * SECOND)
<1>3. RATE * SECOND \in Nat \ {0}
  BY <1>1
<1>4. C \in Nat /\ C * (RATE * SECOND) >= Full
  BY <1>1, <1>3, CeilDivCovers
<1>5. Ttl = (C + 1) * SECOND
  BY DEF Ttl
<1> HIDE DEF C
<1>6. Ttl = C * SECOND + SECOND /\ C * SECOND \in Nat
  BY <1>1, <1>4, <1>5
<1>7. (C * SECOND) * RATE = C * (RATE * SECOND)
  BY <1>1, <1>4
<1>8. Ttl \in Nat /\ Ttl >= 1 /\ Ttl - SECOND = C * SECOND
  BY <1>1, <1>6
<1>9. (Ttl - SECOND) * RATE >= Full
  BY <1>4, <1>7, <1>8
<1>10. Ttl * RATE >= Full
  <2>1. (C * SECOND) * RATE <= Ttl * RATE
    BY <1>1, <1>6, <1>8, ProductMonotone
  <2> QED
    BY <1>1, <1>4, <1>7, <1>8, <2>1
<1> QED
  BY <1>1, <1>2, <1>8, <1>9, <1>10

LEMMA RoundingTyped == GRAIN \div 2 \in Nat /\ Rounding \in Nat /\ FLOAT \in Nat
  BY BucketAssumption DEF Rounding

\* The wait, rounded up twice and with one tick more, covers what was missing.
LEMMA WaitCovers ==
  ASSUME NEW need \in Nat
  PROVE  LET wait == RetryAfterSeconds(RetryAfter(need)) * SECOND + 1
         IN  wait \in Nat /\ wait * RATE >= need + RATE
<1> DEFINE ms == RetryAfter(need)
           s == RetryAfterSeconds(ms)
           wait == s * SECOND + 1
<1>0. RATE \in Nat \ {0} /\ SECOND \in Nat \ {0}
  BY BucketAssumption
<1>1. ms \in Nat /\ ms * RATE >= need
  BY <1>0, CeilDivCovers DEF RetryAfter
<1> HIDE DEF ms
<1>2. s \in Nat /\ s * SECOND >= ms
  <2>1. CASE ms > SECOND
    BY <1>0, <1>1, <2>1, CeilDivCovers DEF RetryAfterSeconds
  <2>2. CASE ~ (ms > SECOND)
    BY <1>0, <1>1, <2>2 DEF RetryAfterSeconds
  <2> QED
    BY <2>1, <2>2
<1> HIDE DEF s
<1>3. wait \in Nat /\ wait >= ms + 1
  <2>1. PICK p \in Nat : p = s * SECOND
    BY <1>0, <1>2, ProductNat
  <2> QED
    BY <1>1, <1>2, <2>1
<1> HIDE DEF wait
<1>4. (ms + 1) * RATE <= wait * RATE
  BY <1>0, <1>1, <1>3, ProductMonotone
<1>5. (ms + 1) * RATE = ms * RATE + RATE /\ ms * RATE \in Nat
  BY <1>0, <1>1
<1>6. wait * RATE >= need + RATE
  BY <1>0, <1>1, <1>3, <1>4, <1>5
<1> QED
  BY <1>3, <1>6 DEF wait, s, ms

-----------------------------------------------------------------------------
(***************************************************************************)
(* Type correctness.                                                       *)
(***************************************************************************)

\* What the bucket has earned, before and after a step.
LEMMA RefilledIs ==
  ASSUME TypeOK
  PROVE  /\ Elapsed \in Nat /\ Elapsed * RATE \in Nat
         /\ tokens = ABSENT => Refilled = Full
         /\ tokens # ABSENT =>
              /\ tokens \in 0..Full
              /\ Refilled = Capped(tokens + Elapsed * RATE)
<1>1. Elapsed \in Nat /\ RATE \in Nat
  BY BucketAssumption, ConstantsTyped DEF TypeOK, Elapsed
<1>2. Elapsed * RATE \in Nat
  BY <1>1, ProductNat
<1>3. tokens # ABSENT => tokens \in 0..Full
  BY DEF TypeOK
<1> QED
  BY <1>1, <1>2, <1>3 DEF Refilled

LEMMA RefilledRange == TypeOK => Refilled \in 0..Full
<1> SUFFICES ASSUME TypeOK PROVE Refilled \in 0..Full
  OBVIOUS
<1>1. PICK e \in Nat : e = Elapsed * RATE
  BY RefilledIs
<1>2. Full \in Nat
  BY ConstantsTyped
<1>3. CASE tokens = ABSENT
  BY <1>2, <1>3, RefilledIs
<1>4. CASE tokens # ABSENT
  <2>1. tokens \in 0..Full /\ Refilled = Capped(tokens + e)
    BY <1>1, <1>4, RefilledIs
  <2> QED
    BY <1>2, <2>1 DEF Capped
<1> QED
  BY <1>3, <1>4

LEMMA RefilledNext == TypeOK' => Refilled' \in 0..Full
<1>1. (TypeOK => Refilled \in 0..Full)'
  BY RefilledRange, PTL
<1>2. Full' = Full
  BY DEF Full
<1> QED
  BY <1>1, <1>2

\* What the script finds is what the bucket has earned, give or take FLOAT, and never
\* more than a full bucket.
LEMMA FoundRange ==
  ASSUME TypeOK, NEW found \in Found
  PROVE  /\ found \in 0..Full
         /\ found <= Refilled + FLOAT
         /\ found >= Refilled - FLOAT
<1>0. Full \in Nat /\ FLOAT \in Nat
  BY ConstantsTyped, BucketAssumption
<1>1. CASE tokens = ABSENT
  BY <1>0, <1>1, RefilledIs DEF Found
<1>2. CASE tokens # ABSENT
  <2>1. PICK e \in Nat : e = Elapsed * RATE
    BY RefilledIs
  <2>2. tokens \in 0..Full /\ Refilled = Capped(tokens + e)
    BY <1>2, <2>1, RefilledIs
  <2>3. PICK n \in Near(tokens + e) : found = Capped(n)
    BY <1>2, <2>1 DEF Found
  <2>4. n \in Nat /\ n <= tokens + e + FLOAT /\ n >= tokens + e - FLOAT
    BY <1>0, <2>1, <2>2, <2>3 DEF Near
  <2> QED
    BY <1>0, <2>1, <2>2, <2>3, <2>4 DEF Capped
<1> QED
  BY <1>1, <1>2

\* A number rounded to its last digit has moved by half of it, and not beyond a
\* multiple of it.
LEMMA RoundedNear ==
  ASSUME NEW t \in Nat, NEW g \in Nat \ {0}, NEW F \in Nat, t <= F, F % g = 0
  PROVE  /\ Rounded(t, g) \in 0..F
         /\ Rounded(t, g) <= t + g \div 2
         /\ Rounded(t, g) >= t - g \div 2
<1> DEFINE h == g \div 2
           q == (t + h) \div g
           m == F \div g
<1>1. h \in Nat /\ h + h <= g /\ g <= h + h + 1
  OBVIOUS
<1> HIDE DEF h
<1>2. q \in Nat /\ q * g <= t + h /\ t + h < q * g + g
  BY <1>1
<1>3. m \in Nat /\ m * g = F
  OBVIOUS
<1>4. Rounded(t, g) = q * g
  BY DEF Rounded, h
<1> HIDE DEF q, m
<1>5. PICK p \in Nat : p = q * g
  BY <1>2
<1>6. q <= m
  <2> SUFFICES ASSUME q >= m + 1 PROVE FALSE
    BY <1>2, <1>3
  <2>1. (m + 1) * g <= q * g /\ (m + 1) * g = m * g + g
    BY <1>2, <1>3
  <2> QED
    BY <1>1, <1>2, <1>3, <1>5, <2>1
<1>7. p <= F
  BY <1>2, <1>3, <1>5, <1>6, ProductMonotone
<1> QED
  BY <1>1, <1>2, <1>4, <1>5, <1>7 DEF h

\* What is stored is the number meant, give or take half a last digit.
LEMMA WrittenRange ==
  ASSUME NEW t \in 0..Full, NEW w \in Written(t)
  PROVE  /\ w \in 0..Full
         /\ w <= t + GRAIN \div 2
         /\ w >= t - GRAIN \div 2
<1>1. PICK g \in Grains : w = Rounded(t, g)
  BY DEF Written
<1>2. g \in Nat \ {0} /\ g <= GRAIN /\ GRAIN \in Nat /\ TOKEN % g = 0
  BY BucketAssumption
<1>3. Full \in Nat /\ Full % g = 0
  <2>1. TOKEN = (TOKEN \div g) * g /\ TOKEN \div g \in Nat
    BY <1>2, BucketAssumption
  <2>2. PICK k \in Nat : TOKEN = k * g
    BY <2>1
  <2>3. Full = (BURST * k) * g /\ BURST * k \in Nat
    BY <1>2, <2>2, BucketAssumption DEF Full
  <2> QED
    BY <1>2, <2>3, MultipleOf, ConstantsTyped
<1>4. g \div 2 <= GRAIN \div 2 /\ g \div 2 \in Nat /\ GRAIN \div 2 \in Nat
  BY <1>2
<1>5. /\ w \in 0..Full
      /\ w <= t + g \div 2
      /\ w >= t - g \div 2
  <2>1. t \in Nat /\ t <= Full
    BY <1>3
  <2> QED
    BY <1>1, <1>2, <1>3, <2>1, RoundedNear
<1> QED
  BY <1>3, <1>4, <1>5

\* Moving the clock keeps the distance between last_refill and the expiry.
LEMMA ClockMovesTyped ==
  ASSUME TypeOK, NEW n \in Int, ClockMoves(n), since + n >= -MaxBack
  PROVE  /\ tokens' \in {ABSENT} \union 0..Full
         /\ since' \in -MaxBack..Ttl
         /\ ttl' \in Nat
         /\ tokens' # ABSENT => since' + ttl' = Ttl
<1> USE BucketAssumption, ConstantsTyped
<1>1. CASE tokens # ABSENT /\ ttl > n
  BY <1>1 DEF TypeOK, ClockMoves
<1>2. CASE ~ (tokens # ABSENT /\ ttl > n)
  BY <1>2 DEF TypeOK, ClockMoves
<1> QED
  BY <1>1, <1>2

LEMMA SaveTyped ==
  ASSUME NEW t \in 0..Full, Save(t)
  PROVE  /\ tokens' \in {ABSENT} \union 0..Full
         /\ since' \in -MaxBack..Ttl
         /\ ttl' \in Nat
         /\ tokens' # ABSENT => since' + ttl' = Ttl
  BY BucketAssumption, ConstantsTyped, WrittenRange DEF Save

LEMMA InitTyped == Init => TypeOK
  BY BucketAssumption, ConstantsTyped DEF Init, TypeOK, NONE

LEMMA NextTyped == TypeOK /\ [Next]_vars => TypeOK'
<1> SUFFICES ASSUME TypeOK, [Next]_vars PROVE TypeOK'
  OBVIOUS
<1> USE BucketAssumption, ConstantsTyped
<1>1. CASE Allow
  <2>1. PICK found \in Found : found >= Cost /\ Save(found - Cost)
    BY <1>1 DEF Allow
  <2>2. found - Cost \in 0..Full
    BY <2>1, FoundRange
  <2>3. excess' \in Nat
    BY <1>1, RoundingTyped DEF Allow, Less, TypeOK
  <2> QED
    BY <1>1, <2>1, <2>2, <2>3, SaveTyped DEF Allow, TypeOK
<1>2. CASE Deny
  <2>0. PICK found \in Found :
          /\ found < Cost
          /\ Save(found)
          /\ \E need \in Near(Cost - found) \ {0} :
               promised' = RetryAfterSeconds(RetryAfter(need)) * SECOND + 1
    BY <1>2 DEF Deny
  <2>1. PICK need \in Near(Cost - found) :
          promised' = RetryAfterSeconds(RetryAfter(need)) * SECOND + 1
    BY <2>0
  <2>2. found \in 0..Full
    BY FoundRange
  <2>3. promised' \in Nat
    <3>1. need \in Nat
      BY <2>2 DEF Near
    <3> QED
      BY <2>1, <3>1, WaitCovers
  <2>4. excess' \in Nat
    BY <1>2, RoundingTyped DEF Deny, Less, TypeOK
  <2> QED
    BY <1>2, <2>0, <2>2, <2>3, <2>4, SaveTyped DEF Deny, TypeOK
<1>3. CASE Tick
  <2>1. ClockMoves(1) /\ since + 1 >= -MaxBack
    BY <1>3 DEF Tick, TypeOK
  <2> QED
    BY <1>3, <2>1, ClockMovesTyped DEF Tick, Less, TypeOK, NONE
<1>4. ASSUME NEW n \in 1..MaxAhead, SetAhead(n) PROVE TypeOK'
  <2>1. ClockMoves(n) /\ since + n >= -MaxBack
    BY <1>4 DEF SetAhead, TypeOK
  <2> QED
    BY <1>4, <2>1, ClockMovesTyped DEF SetAhead, TypeOK
<1>5. ASSUME NEW n \in 1..MaxBack, SetBack(n) PROVE TypeOK'
  <2>1. ClockMoves(-n) /\ since + (-n) >= -MaxBack
    BY <1>5 DEF SetBack, TypeOK
  <2>2. -n \in Int
    OBVIOUS
  <2> QED
    BY <1>5, <2>1, <2>2, ClockMovesTyped DEF SetBack, TypeOK
<1>6. CASE Flush
  BY <1>6 DEF Flush, TypeOK
<1>7. CASE UNCHANGED vars
  BY <1>7 DEF vars, TypeOK
<1> QED
  BY <1>1, <1>2, <1>3, <1>4, <1>5, <1>6, <1>7 DEF Next

\* The hash never holds less than nothing or more than a full bucket, and the
\* key lives exactly as long after last_refill as the script asked for.
THEOREM TypeCorrect == Spec => []TypeOK
  BY InitTyped, NextTyped, PTL DEF Spec

-----------------------------------------------------------------------------
(***************************************************************************)
(* What a step does to the tokens the script would find.                   *)
(***************************************************************************)
LEMMA SaveSets ==
  ASSUME NEW t \in 0..Full, Save(t)
  PROVE  /\ Refilled' \in 0..Full
         /\ Refilled' = tokens' /\ tokens' # ABSENT
         /\ since' = 0
         /\ Refilled' <= t + GRAIN \div 2
         /\ Refilled' >= t - GRAIN \div 2
<1>1. PICK w \in Written(t) : tokens' = w /\ since' = 0
  BY DEF Save
<1>2. w \in 0..Full /\ w <= t + GRAIN \div 2 /\ w >= t - GRAIN \div 2
  BY WrittenRange
<1>3. w # ABSENT /\ 0 * RATE = 0 /\ w + 0 = w /\ ~ (w > Full)
  BY <1>2, BucketAssumption, ConstantsTyped DEF ABSENT
<1>4. Refilled' = w
  BY <1>1, <1>3 DEF Refilled, Elapsed, Capped, Full
<1> QED
  BY <1>1, <1>2, <1>3, <1>4

\* Two fillings of a bucket of size F that holds t, with e and with f more.
LEMMA TwoFillings ==
  ASSUME NEW F \in Nat, NEW t \in 0..F, NEW e \in Nat, NEW f \in Nat, e <= f,
         NEW R, R = IF t + e > F THEN F ELSE t + e,
         NEW S, S = IF t + f > F THEN F ELSE t + f
  PROVE  /\ R \in 0..F /\ S \in 0..F
         /\ R <= S /\ S <= R + (f - e)
         /\ S = F \/ S = R + (f - e)
  OBVIOUS

\* Time adds what the rate allows and no more, also when the key expires.
LEMMA MoveAdds ==
  ASSUME TypeOK, TypeOK', NEW n \in Nat, ClockMoves(n)
  PROVE  /\ n * RATE \in Nat
         /\ Refilled' <= Refilled + n * RATE
         /\ Refilled' >= Refilled
         /\ since >= 0 => Refilled' = Full \/ Refilled' >= Refilled + n * RATE
<1>0. Full \in Nat /\ RATE \in Nat /\ Ttl \in Nat /\ since \in Int /\ ttl \in Nat
  BY ConstantsTyped, BucketAssumption DEF TypeOK
<1>1. PICK d \in Nat : d = n * RATE
  BY <1>0, ProductNat
<1>2. PICK x \in Nat, e \in Nat : x = Elapsed /\ e = x * RATE
  BY RefilledIs
<1>3. PICK R \in 0..Full : R = Refilled
  BY RefilledRange
<1>4. PICK S \in 0..Full : S = Refilled'
  BY RefilledNext
<1> SUFFICES /\ S <= R + d
             /\ S >= R
             /\ since >= 0 => S = Full \/ S >= R + d
  BY <1>1, <1>3, <1>4
<1>5. CASE tokens = ABSENT
  <2>1. R = Full /\ S = Full
    BY <1>3, <1>4, <1>5 DEF ClockMoves, Refilled
  <2> QED
    BY <1>0, <1>1, <2>1
<1>6. CASE tokens # ABSENT /\ ttl > n
  <2>1. tokens' = tokens /\ since' = since + n
    BY <1>6 DEF ClockMoves
  <2>2. PICK y \in Nat : y = Elapsed' /\ x <= y /\ y <= x + n /\ (since >= 0 => y = x + n)
    BY <1>0, <1>2, <2>1 DEF Elapsed
  <2>3. PICK f \in Nat : f = y * RATE
    BY <1>0, ProductNat
  <2>4. e <= f
    <3>0. x \in Int /\ y \in Int /\ x <= y
      BY <2>2
    <3>1. x * RATE <= y * RATE
      BY <1>0, <3>0, ProductMonotone
    <3> QED
      BY <1>2, <2>3, <3>1
  <2>5. (x + n) * RATE = e + d
    BY <1>0, <1>1, <1>2, ProductOfSum
  <2>6. f <= e + d /\ (since >= 0 => f = e + d)
    <3>1. y * RATE <= (x + n) * RATE
      <4>1. x + n \in Int /\ y \in Int /\ y <= x + n
        BY <2>2
      <4> QED
        BY <1>0, <4>1, ProductMonotone
    <3> QED
      BY <2>2, <2>3, <2>5, <3>1
  <2>7. tokens \in 0..Full /\ R = IF tokens + e > Full THEN Full ELSE tokens + e
    BY <1>2, <1>3, <1>6, RefilledIs DEF Capped
  <2>8. S = IF tokens + f > Full THEN Full ELSE tokens + f
    BY <1>4, <1>6, <2>1, <2>2, <2>3 DEF Refilled, Elapsed, Capped, Full
  <2>9. /\ R <= S /\ S <= R + (f - e)
        /\ S = Full \/ S = R + (f - e)
    BY <1>0, <2>4, <2>7, <2>8, TwoFillings
  <2> QED
    BY <1>0, <2>6, <2>9
<1>7. CASE tokens # ABSENT /\ ~ (ttl > n)
  <2>1. S = Full
    BY <1>4, <1>7 DEF ClockMoves, Refilled
  <2>2. Ttl <= x + n
    BY <1>0, <1>2, <1>7 DEF TypeOK, Elapsed
  <2>3. (x + n) * RATE = e + d
    BY <1>0, <1>1, <1>2, ProductOfSum
  <2>4. PICK z \in Nat : z = Ttl * RATE /\ z >= Full
    BY <1>0, ConstantsTyped, ProductNat
  <2>5. z <= e + d
    <3>1. Ttl * RATE <= (x + n) * RATE
      BY <1>0, <2>2, ProductMonotone
    <3> QED
      BY <2>3, <2>4, <3>1
  <2>6. tokens \in 0..Full /\ R = IF tokens + e > Full THEN Full ELSE tokens + e
    BY <1>2, <1>3, <1>7, RefilledIs DEF Capped
  <2> QED
    BY <1>0, <2>1, <2>4, <2>5, <2>6
<1> QED
  BY <1>5, <1>6, <1>7

\* A clock set back adds nothing.
LEMMA SetBackAdds ==
  ASSUME TypeOK, TypeOK', NEW n \in 1..MaxBack, SetBack(n)
  PROVE  Refilled' <= Refilled
<1>0. /\ Full \in Nat /\ RATE \in Nat /\ since \in Int /\ ttl \in Nat
      /\ tokens # ABSENT /\ ttl > -n
  BY ConstantsTyped, BucketAssumption DEF TypeOK, SetBack
<1>1. tokens' = tokens /\ since' = since + (-n)
  BY <1>0 DEF SetBack, ClockMoves
<1>2. PICK x \in Nat, y \in Nat : x = Elapsed /\ y = Elapsed' /\ y <= x
  BY <1>0, <1>1, BucketAssumption DEF Elapsed
<1>3. PICK e \in Nat, f \in Nat : e = x * RATE /\ f = y * RATE
  BY <1>0, ProductNat
<1>4. f <= e
  <2>0. x \in Int /\ y \in Int /\ y <= x
    BY <1>2
  <2>1. y * RATE <= x * RATE
    BY <1>0, <2>0, ProductMonotone
  <2> QED
    BY <1>3, <2>1
<1>5. tokens \in 0..Full /\ Refilled = IF tokens + e > Full THEN Full ELSE tokens + e
  BY <1>0, <1>2, <1>3, RefilledIs DEF Capped
<1>6. Refilled' = IF tokens + f > Full THEN Full ELSE tokens + f
  BY <1>0, <1>1, <1>2, <1>3 DEF Refilled, Elapsed, Capped, Full
<1> QED
  BY <1>0, <1>4, <1>5, <1>6, TwoFillings

-----------------------------------------------------------------------------
(***************************************************************************)
(* The rate.                                                               *)
(***************************************************************************)

\* What was granted beyond the rate, together with what may still be taken at
\* once, is no more than the bucket and the clock gave.
Budget == (1 + flushes) * Full + ahead * RATE

WithinBudget == excess + Refilled <= Budget

LEMMA BudgetTyped == TypeOK => Budget \in Nat /\ flushes \in Nat /\ ahead \in Nat
<1> SUFFICES ASSUME TypeOK
             PROVE  Budget \in Nat /\ flushes \in Nat /\ ahead \in Nat
  OBVIOUS
<1>1. flushes \in Nat /\ ahead \in Nat /\ Full \in Nat /\ RATE \in Nat
  BY ConstantsTyped, BucketAssumption DEF TypeOK
<1>2. (1 + flushes) * Full \in Nat /\ ahead * RATE \in Nat
  BY <1>1, ProductNat
<1> QED
  BY <1>1, <1>2 DEF Budget

LEMMA BudgetCovers == TypeOK => Full <= Budget
<1> SUFFICES ASSUME TypeOK PROVE Full <= Budget
  OBVIOUS
<1>1. flushes \in Nat /\ ahead \in Nat /\ Full \in Nat /\ RATE \in Nat
  BY ConstantsTyped, BudgetTyped
<1>2. flushes * Full \in Nat /\ ahead * RATE \in Nat
  BY <1>1, ProductNat
<1>3. (1 + flushes) * Full = 1 * Full + flushes * Full /\ 1 * Full = Full
  BY <1>1, ProductOfSum
<1> QED
  BY <1>1, <1>2, <1>3 DEF Budget

LEMMA WithinBudgetInit == Init => WithinBudget
<1> SUFFICES ASSUME Init PROVE WithinBudget
  OBVIOUS
<1>1. Refilled = Full /\ excess = 0 /\ flushes = 0 /\ ahead = 0
  BY DEF Init, Refilled
<1>2. (1 + 0) * Full = Full /\ 0 * RATE = 0 /\ Full \in Nat
  BY ConstantsTyped
<1> QED
  BY <1>1, <1>2 DEF WithinBudget, Budget

LEMMA WithinBudgetStep ==
  TypeOK /\ TypeOK' /\ WithinBudget /\ [Next]_vars => WithinBudget'
<1> SUFFICES ASSUME TypeOK, TypeOK', WithinBudget, [Next]_vars PROVE WithinBudget'
  OBVIOUS
<1>0. /\ Full \in Nat /\ Cost \in Nat /\ RATE \in Nat
      /\ excess \in Nat /\ Budget \in Nat
      /\ flushes \in Nat /\ ahead \in Nat
      /\ Refilled \in 0..Full
  BY ConstantsTyped, BudgetTyped, RefilledRange DEF TypeOK
<1>1. excess + Refilled <= Budget
  BY DEF WithinBudget
<1>2. ASSUME flushes' = flushes, ahead' = ahead PROVE Budget' = Budget
  BY <1>2 DEF Budget, Full
<1>3. CASE Allow
  <2>1. PICK found \in Found : found >= Cost /\ Save(found - Cost)
    BY <1>3 DEF Allow
  <2>2. found \in 0..Full /\ found <= Refilled + FLOAT /\ found - Cost \in 0..Full
    BY <1>0, <2>1, FoundRange
  <2>3. Refilled' \in 0..Full /\ Refilled' <= (found - Cost) + GRAIN \div 2
    BY <2>1, <2>2, SaveSets
  <2>4. excess' = Less(excess + Cost, FLOAT + GRAIN \div 2) /\ Budget' = Budget
    BY <1>2, <1>3 DEF Allow, Rounding
  <2>5. PICK h \in Nat, r \in Nat, s \in Nat :
          h = GRAIN \div 2 /\ r = Refilled /\ s = Refilled' /\ s <= Full
    BY <1>0, <2>3, RoundingTyped
  <2>6. found \in Nat /\ found <= r + FLOAT /\ s <= (found - Cost) + h /\ s <= Budget
    BY <1>0, <2>2, <2>3, <2>5, BudgetCovers
  <2>7. Less(excess + Cost, FLOAT + h) + s <= Budget
    BY <1>0, <1>1, <2>5, <2>6, RoundingTyped, BudgetKept
  <2> QED
    BY <2>4, <2>5, <2>7 DEF WithinBudget
<1>4. CASE Deny
  <2>1. PICK found \in Found : Save(found)
    BY <1>4 DEF Deny
  <2>2. found \in 0..Full /\ found <= Refilled + FLOAT
    BY <1>0, <2>1, FoundRange
  <2>3. Refilled' \in 0..Full /\ Refilled' <= found + GRAIN \div 2
    BY <2>1, <2>2, SaveSets
  <2>4. excess' = Less(excess, FLOAT + GRAIN \div 2) /\ Budget' = Budget
    BY <1>2, <1>4 DEF Deny, Rounding
  <2>5. PICK h \in Nat, r \in Nat, s \in Nat :
          h = GRAIN \div 2 /\ r = Refilled /\ s = Refilled' /\ s <= Full
    BY <1>0, <2>3, RoundingTyped
  <2>6. found \in Nat /\ found <= r + FLOAT /\ s <= (found - 0) + h /\ s <= Budget
    BY <1>0, <2>2, <2>3, <2>5, BudgetCovers
  <2>7. Less(excess + 0, FLOAT + h) + s <= Budget
    BY <1>0, <1>1, <2>5, <2>6, RoundingTyped, BudgetKept
  <2> QED
    BY <1>0, <2>4, <2>5, <2>7 DEF WithinBudget
<1>5. CASE Tick
  <2>1. Refilled' <= Refilled + 1 * RATE
    BY <1>5, MoveAdds DEF Tick
  <2>2. excess' = IF excess > RATE THEN excess - RATE ELSE 0
    BY <1>5 DEF Tick, Less
  <2>3. Budget' = Budget
    BY <1>2, <1>5 DEF Tick
  <2>4. Refilled' \in 0..Full
    BY RefilledNext
  <2>5. Full <= Budget
    BY BudgetCovers
  <2>6. PICK s \in Nat, r \in Nat : s = Refilled' /\ r = Refilled /\ s <= Full
    BY <1>0, <2>4
  <2>7. s <= r + RATE /\ excess + r <= Budget /\ s <= Budget
    BY <1>0, <1>1, <2>1, <2>5, <2>6
  <2>8. excess' + s <= Budget
    BY <1>0, <2>2, <2>7
  <2> QED
    BY <2>3, <2>6, <2>8 DEF WithinBudget
<1>6. ASSUME NEW n \in 1..MaxAhead, SetAhead(n) PROVE WithinBudget'
  <2>0. n \in Nat
    BY BucketAssumption
  <2>1. Refilled' <= Refilled + n * RATE /\ n * RATE \in Nat
    BY <1>6, <2>0, MoveAdds DEF SetAhead
  <2>2. excess' = excess /\ flushes' = flushes /\ ahead' = ahead + n
    BY <1>6 DEF SetAhead
  <2>3. Budget' = Budget + n * RATE
    <3>1. (ahead + n) * RATE = ahead * RATE + n * RATE
      BY <1>0, <2>0, ProductOfSum
    <3>2. (1 + flushes) * Full \in Nat /\ ahead * RATE \in Nat
      BY <1>0, ProductNat
    <3>3. Budget' = (1 + flushes) * Full + (ahead + n) * RATE
      BY <2>2 DEF Budget, Full
    <3>4. Budget = (1 + flushes) * Full + ahead * RATE
      BY DEF Budget
    <3> QED
      BY <2>1, <3>1, <3>2, <3>3, <3>4
  <2>4. Refilled' \in 0..Full
    BY RefilledNext
  <2>5. PICK s \in Nat, r \in Nat, d \in Nat :
          s = Refilled' /\ r = Refilled /\ d = n * RATE
    BY <1>0, <2>1, <2>4
  <2>6. s <= r + d /\ excess + r <= Budget
    BY <1>1, <2>1, <2>5
  <2>7. excess + s <= Budget + d
    BY <1>0, <2>6
  <2> QED
    BY <2>2, <2>3, <2>5, <2>7 DEF WithinBudget
<1>7. ASSUME NEW n \in 1..MaxBack, SetBack(n) PROVE WithinBudget'
  <2>1. Refilled' <= Refilled
    BY <1>7, SetBackAdds
  <2>2. excess' = excess /\ Budget' = Budget
    BY <1>2, <1>7 DEF SetBack
  <2>3. Refilled' \in 0..Full
    BY RefilledNext
  <2>4. PICK s \in Nat, r \in Nat : s = Refilled' /\ r = Refilled
    BY <1>0, <2>3
  <2>5. s <= r /\ excess + r <= Budget
    BY <1>1, <2>1, <2>4
  <2>6. excess + s <= Budget
    BY <1>0, <2>5
  <2> QED
    BY <2>2, <2>4, <2>6 DEF WithinBudget
<1>8. CASE Flush
  <2>1. Refilled' = Full
    BY <1>8 DEF Flush, Refilled, Full
  <2>2. excess' = excess /\ flushes' = flushes + 1 /\ ahead' = ahead
    BY <1>8 DEF Flush
  <2>3. Budget' = Budget + Full
    <3>1. (1 + (flushes + 1)) * Full = (1 + flushes) * Full + 1 * Full
      <4>1. 1 + (flushes + 1) = (1 + flushes) + 1
        BY <1>0
      <4> QED
        BY <1>0, <4>1, ProductOfSum
    <3>2. (1 + flushes) * Full \in Nat /\ ahead * RATE \in Nat /\ 1 * Full = Full
      BY <1>0, ProductNat
    <3>3. Budget' = (1 + (flushes + 1)) * Full + ahead * RATE
      BY <2>2 DEF Budget, Full
    <3>4. Budget = (1 + flushes) * Full + ahead * RATE
      BY DEF Budget
    <3> QED
      BY <1>0, <3>1, <3>2, <3>3, <3>4
  <2> QED
    BY <1>0, <1>1, <2>1, <2>2, <2>3 DEF WithinBudget
<1>9. CASE UNCHANGED vars
  BY <1>1, <1>9 DEF vars, WithinBudget, Budget, Refilled, Capped, Elapsed, Full
<1> QED
  BY <1>3, <1>4, <1>5, <1>6, <1>7, <1>8, <1>9 DEF Next

\* No client is granted more than burst + rate * T tokens and the rounding of its
\* requests in a window of T ticks, whatever the rate, the burst, the cost of a
\* request and the expiry: the script saves what it refilled and what it took in one
\* step.  A loss of Redis' data adds a burst, a clock set ahead what it skipped.
THEOREM RateBoundHolds == Spec => []RateBound
<1>1. TypeOK /\ WithinBudget => RateBound
  <2> SUFFICES ASSUME TypeOK, WithinBudget PROVE RateBound
    OBVIOUS
  <2>1. excess \in Nat /\ Refilled \in Nat /\ Budget \in Nat /\ excess + Refilled <= Budget
    BY RefilledRange, ConstantsTyped, BudgetTyped DEF TypeOK, WithinBudget
  <2>2. excess <= Budget
    BY <2>1
  <2> QED
    BY <2>2 DEF RateBound, Budget
<1> QED
  BY <1>1, TypeCorrect, WithinBudgetInit, WithinBudgetStep, PTL DEF Spec

-----------------------------------------------------------------------------
(***************************************************************************)
(* Retry-After.                                                            *)
(***************************************************************************)

\* One tick adds more than the digits of two requests can take away.
TickOutweighsRounding == RATE >= GRAIN \div 2 + 2 * FLOAT

\* As long as a promise stands, what the bucket holds and what the rate adds until
\* it is due is enough, also for a refill that is FLOAT short, and no correction has
\* put the clock behind last_refill, where time would add nothing.
PromiseKept ==
  promised # NONE =>
    /\ since >= 0
    /\ \/ REQ > BURST
       \/ tokens = ABSENT
       \/ tokens + (since + promised) * RATE >= Cost + FLOAT

LEMMA PromiseKeptStep ==
  ASSUME TickOutweighsRounding, TypeOK, TypeOK', PromiseKept, [Next]_vars
  PROVE  PromiseKept'
<1> SUFFICES ASSUME promised' # NONE
             PROVE  /\ since' >= 0
                    /\ \/ REQ > BURST
                       \/ tokens' = ABSENT
                       \/ tokens' + (since' + promised') * RATE >= Cost + FLOAT
  BY DEF PromiseKept, NONE, Cost
<1>0. /\ Full \in Nat /\ Cost \in Nat /\ RATE \in Nat /\ FLOAT \in Nat
      /\ promised' \in Nat
      /\ since \in Int /\ since' \in Int /\ tokens \in Int /\ tokens' \in Int
  BY ConstantsTyped, BucketAssumption DEF TypeOK, ABSENT
<1>1. CASE Allow
  BY <1>1 DEF Allow
<1>2. CASE Deny
  <2>0. PICK found \in Found :
          /\ found < Cost
          /\ Save(found)
          /\ \E need \in Near(Cost - found) \ {0} :
               promised' = RetryAfterSeconds(RetryAfter(need)) * SECOND + 1
    BY <1>2 DEF Deny
  <2>1. PICK need \in Near(Cost - found) :
          promised' = RetryAfterSeconds(RetryAfter(need)) * SECOND + 1
    BY <2>0
  <2>2. found \in 0..Full
    BY FoundRange
  <2>3. need \in Nat /\ need >= Cost - found - FLOAT
    BY <1>0, <2>2 DEF Near
  <2>4. promised' * RATE >= need + RATE
    BY <2>1, <2>3, WaitCovers
  <2>5. since' = 0 /\ tokens' >= found - GRAIN \div 2
    BY <2>0, <2>2, SaveSets
  <2>6. PICK p \in Nat : p = promised' * RATE
    BY <1>0, ProductNat
  <2>7. PICK h \in Nat : h = GRAIN \div 2 /\ RATE >= h + 2 * FLOAT
    BY RoundingTyped DEF TickOutweighsRounding
  <2>8. tokens' + p >= Cost + FLOAT
    <3>1. PICK w \in Nat : w = tokens'
      BY <1>0, <2>0, <2>2, SaveSets, ConstantsTyped
    <3>2. found \in Nat /\ w >= found - h /\ p >= need + RATE
      BY <1>0, <2>2, <2>4, <2>5, <2>6, <2>7, <3>1
    <3>3. w + p >= Cost + FLOAT
      BY <1>0, <2>3, <2>7, <3>2, EnoughStored
    <3> QED
      BY <3>1, <3>3
  <2>9. PICK q \in Nat : q = promised' /\ 0 + q = q
    BY <1>0
  <2> QED
    BY <2>5, <2>6, <2>8, <2>9
<1>3. ASSUME NEW n \in Nat, ClockMoves(n), promised \in Nat, promised' + n >= promised
      PROVE  /\ since' >= 0
             /\ \/ REQ > BURST
                \/ tokens' = ABSENT
                \/ tokens' + (since' + promised') * RATE >= Cost + FLOAT
  <2>1. /\ since >= 0
        /\ \/ REQ > BURST
           \/ tokens = ABSENT
           \/ tokens + (since + promised) * RATE >= Cost + FLOAT
    BY <1>3 DEF PromiseKept, NONE
  <2>2. CASE tokens # ABSENT /\ ttl > n
    <3>1. tokens' = tokens /\ since' = since + n
      BY <1>3, <2>2 DEF ClockMoves
    <3>2. PICK x \in Int, t \in Int, p \in Nat, q \in Nat, c \in Int :
            /\ x = since /\ t = tokens /\ p = promised /\ q = promised' /\ c = Cost + FLOAT
      BY <1>0, <1>3
    <3>3. x >= 0 /\ (REQ > BURST \/ t + (x + p) * RATE >= c)
      BY <2>1, <2>2, <3>2
    <3>4. p <= q + n
      BY <1>3, <3>2
    <3>5. REQ > BURST \/ t + ((x + n) + q) * RATE >= c
      BY <1>0, <3>3, <3>4, StaysEnough
    <3>6. x + n >= 0
      BY <3>3
    <3> QED
      BY <3>1, <3>2, <3>5, <3>6
  <2>3. CASE ~ (tokens # ABSENT /\ ttl > n)
    BY <1>3, <2>3 DEF ClockMoves
  <2> QED
    BY <2>2, <2>3
<1>4. CASE Tick
  <2>1. ClockMoves(1) /\ promised' = IF promised > 0 THEN promised - 1 ELSE promised
    BY <1>4 DEF Tick
  <2>2. promised \in Nat
    BY <2>1 DEF TypeOK, NONE
  <2>3. promised' + 1 >= promised
    BY <2>1, <2>2
  <2> QED
    BY <1>3, <2>1, <2>2, <2>3
<1>5. ASSUME NEW n \in 1..MaxAhead, SetAhead(n)
      PROVE  /\ since' >= 0
             /\ \/ REQ > BURST
                \/ tokens' = ABSENT
                \/ tokens' + (since' + promised') * RATE >= Cost + FLOAT
  <2>1. n \in Nat /\ ClockMoves(n) /\ promised' = promised
    BY <1>5, BucketAssumption DEF SetAhead
  <2>2. promised \in Nat /\ promised' + n >= promised
    BY <1>0, <2>1
  <2> QED
    BY <1>3, <2>1, <2>2
<1>6. ASSUME NEW n \in 1..MaxBack, SetBack(n) PROVE FALSE
  BY <1>6 DEF SetBack
<1>7. CASE Flush
  BY <1>7 DEF Flush
<1>8. CASE UNCHANGED vars
  BY <1>8 DEF vars, PromiseKept
<1> QED
  BY <1>1, <1>2, <1>4, <1>5, <1>6, <1>7, <1>8 DEF Next

\* A client that waits for its Retry-After and one tick more is let through, unless
\* the request is larger than the bucket or another one was granted meanwhile, also
\* when the rate does not divide a token, the key expires or Redis loses its data.
\* What doubles and tostring lose must be less than what a tick refills: it is by
\* seven orders of magnitude at one request per minute.
THEOREM RetryAfterSufficesHolds ==
  TickOutweighsRounding => (Spec => []RetryAfterSuffices)
<1> SUFFICES ASSUME TickOutweighsRounding PROVE Spec => []RetryAfterSuffices
  OBVIOUS
<1>1. Init => PromiseKept
  BY DEF Init, PromiseKept
<1>2. TypeOK /\ PromiseKept => RetryAfterSuffices
  <2> SUFFICES ASSUME TypeOK, PromiseKept, promised = 0, ~ (REQ > BURST),
                      NEW found \in Found
               PROVE  found >= Cost
    BY DEF RetryAfterSuffices
  <2>0. /\ RATE \in Nat /\ FLOAT \in Nat /\ Full \in Nat /\ Cost \in Nat
        /\ Cost <= Full /\ since \in Int
    BY ConstantsTyped, BucketAssumption DEF TypeOK
  <2>1. CASE tokens = ABSENT
    BY <2>0, <2>1 DEF Found
  <2>2. CASE tokens # ABSENT
    <3>1. since >= 0 /\ tokens + (since + 0) * RATE >= Cost + FLOAT
      BY <2>2 DEF PromiseKept, NONE
    <3>2. PICK e \in Nat : e = Elapsed * RATE /\ tokens + e >= Cost + FLOAT
      BY <2>0, <3>1, RefilledIs DEF Elapsed
    <3>3. PICK n \in Near(tokens + e) : found = Capped(n)
      BY <2>2, <3>2 DEF Found
    <3>4. tokens \in 0..Full
      BY <2>2 DEF TypeOK
    <3>5. n \in Int /\ n >= Cost
      BY <2>0, <3>2, <3>3, <3>4 DEF Near
    <3> QED
      BY <2>0, <3>3, <3>5 DEF Capped
  <2> QED
    BY <2>1, <2>2
<1>3. TypeOK /\ TypeOK' /\ PromiseKept /\ [Next]_vars => PromiseKept'
  BY PromiseKeptStep
<1> QED
  BY <1>1, <1>2, <1>3, TypeCorrect, PTL DEF Spec

-----------------------------------------------------------------------------
(***************************************************************************)
(* The expiry.                                                             *)
(***************************************************************************)

\* Moved by no more than the second the script adds, the clock takes away only
\* a key whose bucket is full.
LEMMA ExpiresFull ==
  ASSUME TypeOK, NEW n \in Nat, n <= SECOND, ClockMoves(n),
         tokens # ABSENT, tokens' = ABSENT
  PROVE  Refilled = Full
<1>0. /\ Full \in Nat /\ RATE \in Nat /\ Ttl \in Nat /\ SECOND \in Nat
      /\ since \in Int /\ ttl \in Nat /\ since + ttl = Ttl
  BY ConstantsTyped, BucketAssumption DEF TypeOK
<1>1. ttl <= n
  BY <1>0 DEF ClockMoves
<1>2. PICK x \in Nat : x = Elapsed /\ Ttl - SECOND <= x
  BY <1>0, <1>1, RefilledIs DEF Elapsed
<1>3. PICK e \in Nat : e = x * RATE
  BY <1>0, ProductNat
<1>4. (Ttl - SECOND) * RATE <= x * RATE /\ (Ttl - SECOND) * RATE \in Int
  <2>1. Ttl - SECOND \in Int /\ x \in Int /\ Ttl - SECOND <= x
    BY <1>0, <1>2
  <2> QED
    BY <1>0, <2>1, ProductMonotone
<1>5. Full <= e
  BY <1>0, <1>3, <1>4, ConstantsTyped
<1>6. tokens \in 0..Full /\ Refilled = IF tokens + e > Full THEN Full ELSE tokens + e
  BY <1>2, <1>3, RefilledIs DEF Capped
<1> QED
  BY <1>0, <1>5, <1>6

\* EXPIRE gives nothing away: a key goes only once its bucket is full again, for
\* every rate and burst, as long as no correction of the clock skips more than
\* the second that is added to the time the bucket takes to fill.
THEOREM ExpiryIsInvisibleHolds == MaxAhead <= SECOND => (Spec => ExpiryIsInvisible)
<1>1. ASSUME MaxAhead <= SECOND, TypeOK, [Next]_vars,
             tokens # ABSENT, tokens' = ABSENT, flushes' = flushes
      PROVE  Refilled = Full
  <2>0. Refilled \in Nat /\ Cost \in Nat /\ SECOND \in Nat \ {0} /\ MaxAhead \in Nat
    BY <1>1, RefilledRange, ConstantsTyped, BucketAssumption
  <2>1. ASSUME NEW t \in 0..Full, Save(t) PROVE FALSE
    BY <1>1, <2>1, SaveSets
  <2>2. CASE Allow
    <3>1. PICK found \in Found : found >= Cost /\ Save(found - Cost)
      BY <2>2 DEF Allow
    <3>2. found - Cost \in 0..Full
      BY <1>1, <2>0, <3>1, FoundRange, ConstantsTyped
    <3> QED
      BY <2>1, <3>1, <3>2
  <2>8. CASE Deny
    BY <1>1, <2>1, <2>8, FoundRange DEF Deny
  <2>3. CASE Tick
    BY <1>1, <2>0, <2>3, ExpiresFull DEF Tick
  <2>4. ASSUME NEW n \in 1..MaxAhead, SetAhead(n) PROVE Refilled = Full
    <3>1. n \in Nat /\ n <= SECOND /\ ClockMoves(n)
      BY <1>1, <2>0, <2>4 DEF SetAhead
    <3> QED
      BY <1>1, <3>1, ExpiresFull
  <2>5. ASSUME NEW n \in 1..MaxBack, SetBack(n) PROVE Refilled = Full
    <3>1. ttl \in Nat /\ ttl > -n
      BY <1>1, BucketAssumption DEF TypeOK
    <3> QED
      BY <1>1, <2>5, <3>1 DEF SetBack, ClockMoves
  <2>6. CASE Flush
    BY <1>1, <2>6 DEF Flush, TypeOK
  <2>7. CASE UNCHANGED vars
    BY <1>1, <2>7 DEF vars
  <2> QED
    BY <1>1, <2>2, <2>8, <2>3, <2>4, <2>5, <2>6, <2>7 DEF Next
<1>2. ASSUME MaxAhead <= SECOND PROVE Spec => ExpiryIsInvisible
  <2>1. TypeOK /\ [Next]_vars =>
          [tokens # ABSENT /\ tokens' = ABSENT /\ flushes' = flushes => Refilled = Full]_vars
    BY <1>1, <1>2
  <2> QED
    BY <2>1, TypeCorrect, PTL DEF Spec, ExpiryIsInvisible
<1> QED
  BY <1>2
=============================================================================
