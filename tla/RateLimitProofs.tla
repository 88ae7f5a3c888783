--------------------------- MODULE RateLimitProofs ---------------------------
(***************************************************************************)
(* The token bucket keeps its promises for every capacity, every rate of   *)
(* at least one token a second and every delay of a reading.               *)
(***************************************************************************)
EXTENDS RateLimit, TLAPS

\* The rate the script is given is an integer of at least one token a second.
LEMMA RateIsInteger ==
    refill_milli_per_sec \in Nat /\ refill_milli_per_sec >= 1000
<1>1. 1000 * Num >= 1000 * Den
    BY RateAssumption
<1>2. \A x \in Nat, d \in Nat \ {0} : x >= 1000 * d => x \div d \in Nat /\ x \div d >= 1000
    <2> SUFFICES ASSUME NEW x \in Nat, NEW d \in Nat \ {0}, x >= 1000 * d
                 PROVE  x \div d \in Nat /\ x \div d >= 1000
        OBVIOUS
    <2> DEFINE q == x \div d
    <2>1. /\ q \in Int
          /\ x = d * q + (x % d)
          /\ x % d \in 0 .. (d - 1)
        OBVIOUS
    <2>2. d * q > d * 999
        BY <2>1
    <2>3. q > 999
        BY <2>1, <2>2
    <2> QED BY <2>1, <2>3
<1> QED BY <1>1, <1>2, RateAssumption DEF refill_milli_per_sec

\* Rounding down: never more than the exact refill, never less than a
\* milli-token for a millisecond.
LEMMA RefillBounds ==
    ASSUME NEW e \in Nat, NEW r \in Nat, r >= 1000
    PROVE  /\ (e * r) \div 1000 \in Nat
           /\ 1000 * ((e * r) \div 1000) <= e * r
           /\ (e * r) \div 1000 >= e
<1> DEFINE p == e * r
<1>1. p \in Nat /\ p >= 1000 * e
    OBVIOUS
<1> HIDE DEF p
<1>2. /\ p \div 1000 \in Nat
      /\ 1000 * (p \div 1000) <= p
      /\ p \div 1000 >= e
    BY <1>1
<1> QED BY <1>2 DEF p

-----------------------------------------------------------------------------
\* What a check finds in Redis: a well-formed bucket, expired or not.
LEMMA StoredType ==
    ASSUME TypeOK, NEW clock \in Int
    PROVE  Stored(clock) \in [count : 0 .. Full, ts : Int, expires : Nat]
BY RateAssumption DEF TypeOK, Stored, Full

\* What the refill returns: between the count and the capacity, at most the
\* exact refill above the count, and short of the capacity only if every
\* elapsed millisecond brought a milli-token.
LEMMA RefilledBounds ==
    ASSUME NEW b \in [count : 0 .. Full, ts : Int, expires : Nat],
           NEW clock \in Int
    PROVE  /\ Elapsed(b, clock) \in Nat
           /\ Refilled(b, clock) \in b.count .. Full
           /\ 1000 * (Refilled(b, clock) - b.count)
                <= Elapsed(b, clock) * refill_milli_per_sec
           /\ \/ Refilled(b, clock) = Full
              \/ Refilled(b, clock) >= b.count + Elapsed(b, clock)
<1> DEFINE e == Elapsed(b, clock)
           more == (e * refill_milli_per_sec) \div 1000
<1>1. e \in Nat
    BY DEF Elapsed
<1>2. Full \in Nat /\ b.count \in 0 .. Full
    BY RateAssumption DEF Full
<1>3. /\ more \in Nat
      /\ 1000 * more <= e * refill_milli_per_sec
      /\ more >= e
    BY <1>1, RateIsInteger, RefillBounds
<1>4. e * refill_milli_per_sec \in Nat
    BY <1>1, RateIsInteger
<1>5. Refilled(b, clock) = IF b.count + more > Full THEN Full ELSE b.count + more
    BY DEF Refilled
<1> HIDE DEF e, more
<1>6. /\ Refilled(b, clock) \in b.count .. Full
      /\ 1000 * (Refilled(b, clock) - b.count) <= e * refill_milli_per_sec
      /\ Refilled(b, clock) = Full \/ Refilled(b, clock) >= b.count + e
    BY <1>1, <1>2, <1>3, <1>4, <1>5
<1> QED BY <1>1, <1>6 DEF e

\* The hint is at least one second, in whole seconds.
LEMMA HintIsPositive ==
    ASSUME NEW remaining \in 0 .. 999
    PROVE  /\ retry_after_secs(remaining) \in Nat
           /\ retry_after_secs(remaining) >= 1
<1> DEFINE x == (1000 - remaining) * Den + 1000 * Num - 1
           d == 1000 * Num
<1>1. (1000 - remaining) * Den \in Nat /\ Num \in Nat \ {0}
    BY RateAssumption
<1>2. x \in Nat /\ d \in Nat \ {0}
    BY <1>1
<1>3. retry_after_secs(remaining) = IF x \div d < 1 THEN 1 ELSE x \div d
    BY DEF retry_after_secs
<1> HIDE DEF x, d
<1>4. x \div d \in Int
    BY <1>2
<1> QED BY <1>3, <1>4

-----------------------------------------------------------------------------
\* A denied caller's deadline: the milliseconds left until it are enough to
\* complete the token, even at one milli-token each.
DeadlineIsCovered ==
    told # NULL => bucket.count + (told - bucket.ts) >= 1000

\* The strengthening that is inductive.
IInv == TypeOK /\ GrantsAreBounded /\ DeadlineIsCovered

THEOREM InitIInv == Init => IInv
BY RateAssumption, RateIsInteger
DEF Init, IInv, TypeOK, GrantsAreBounded, DeadlineIsCovered, Full

\* The refill a check credits is paid for by the time the timestamp moves.
LEMMA CheckKeepsBound ==
    ASSUME TypeOK, GrantsAreBounded, NEW clock \in Int,
           Live, since' = since,
           slip' = IF bucket.ts > clock THEN slip + (bucket.ts - clock) ELSE slip
    PROVE  1000 * (1000 * granted + Refilled(bucket, clock))
               <= 1000 * Full + refill_milli_per_sec * (clock - since' + slip')
<1> DEFINE R == refill_milli_per_sec
           e == Elapsed(bucket, clock)
           span == bucket.ts - since + slip
<1>1. /\ R \in Nat /\ Full \in Nat /\ granted \in Nat
      /\ bucket.ts \in Int /\ bucket.count \in 0 .. Full
      /\ since \in Int /\ slip \in Nat
      /\ bucket \in [count : 0 .. Full, ts : Int, expires : Nat]
    BY RateIsInteger, RateAssumption DEF TypeOK, Full
<1>2. /\ e \in Nat
      /\ Refilled(bucket, clock) \in Int
      /\ 1000 * (Refilled(bucket, clock) - bucket.count) <= e * R
    BY <1>1, RefilledBounds
<1>3. span \in Int /\ clock - since' + slip' = span + e
    BY <1>1 DEF Elapsed
<1>4. 1000 * (1000 * granted + bucket.count) <= 1000 * Full + R * span
    BY DEF GrantsAreBounded
<1>5. R * (span + e) = R * span + e * R /\ R * span \in Int /\ e * R \in Int
    BY <1>1, <1>2, <1>3
<1> HIDE DEF R, e, span
<1>6. 1000 * (1000 * granted + Refilled(bucket, clock)) <= 1000 * Full + R * (span + e)
    BY <1>1, <1>2, <1>3, <1>4, <1>5
<1> QED BY <1>3, <1>6 DEF R

\* The same for a bucket that has expired: nothing has been granted from the
\* new one, and its refill is the capacity.
LEMMA FreshIsFull ==
    ASSUME TypeOK, NEW clock \in Int, ~Live
    PROVE  Refilled(Stored(clock), clock) = Full /\ Full >= 1000
<1>1. Stored(clock) \in [count : 0 .. Full, ts : Int, expires : Nat]
      /\ Stored(clock).count = Full
    BY StoredType DEF Stored
<1>2. Full \in Nat /\ Full >= 1000
    BY RateAssumption DEF Full
<1> QED BY <1>1, <1>2, RefilledBounds

LEMMA AllowKeepsIInv ==
    ASSUME IInv, NEW clock \in Int, Allow(clock)
    PROVE  IInv'
<1> DEFINE refilled == Refilled(Stored(clock), clock)
<1>1. /\ refilled >= 1000
      /\ bucket' = [count |-> refilled - 1000, ts |-> clock, expires |-> now + Expiry]
      /\ since' = IF Live THEN since ELSE clock
      /\ slip' = IF ~Live THEN 0
                 ELSE IF bucket.ts > clock THEN slip + (bucket.ts - clock) ELSE slip
      /\ granted' = IF Live THEN granted + 1 ELSE 1
      /\ told' = NULL /\ now' = now
    BY DEF Allow, Write
<1>2. /\ refilled \in 0 .. Full /\ Full \in Nat
      /\ now \in Nat /\ since \in Int /\ slip \in Nat /\ granted \in Nat
      /\ bucket.ts \in Int /\ Expiry \in Nat
    BY StoredType, RefilledBounds, RateAssumption, SMTT(30) DEF IInv, TypeOK, Full
<1>3. TypeOK'
    <2> HIDE DEF refilled
    <2>1. refilled - 1000 \in 0 .. Full
        BY <1>1, <1>2
    <2>2. since' \in Int /\ slip' \in Nat /\ granted' \in Nat /\ now + Expiry \in Nat
        BY <1>1, <1>2
    <2>3. bucket' \in [count : 0 .. Full, ts : Int, expires : Nat]
        BY <1>1, <2>1, <2>2
    <2> QED BY <1>1, <1>2, <2>2, <2>3 DEF TypeOK, Full
<1>4. GrantsAreBounded'
    <2>1. CASE Live
        <3>1. 1000 * (1000 * granted + refilled)
                <= 1000 * Full + refill_milli_per_sec * (clock - since' + slip')
            BY <1>1, <2>1, CheckKeepsBound DEF IInv, Stored
        <3>2. 1000 * granted' + bucket'.count = 1000 * granted + refilled
            BY <1>1, <1>2, <2>1
        <3> QED BY <1>1, <3>1, <3>2 DEF GrantsAreBounded, Full, refill_milli_per_sec
    <2>2. CASE ~Live
        <3>1. refilled = Full
            BY <2>2, FreshIsFull DEF IInv
        <3>2. bucket'.ts - since' + slip' = 0 /\ 1000 * granted' + bucket'.count = Full
            BY <1>1, <1>2, <2>2, <3>1
        <3>3. refill_milli_per_sec * 0 = 0
            BY RateIsInteger
        <3> QED BY <1>2, <3>2, <3>3 DEF GrantsAreBounded, Full, refill_milli_per_sec
    <2> QED BY <2>1, <2>2
<1> QED BY <1>1, <1>3, <1>4 DEF IInv, DeadlineIsCovered

LEMMA DenyKeepsIInv ==
    ASSUME IInv, NEW clock \in Int, Deny(clock)
    PROVE  IInv'
<1> DEFINE refilled == Refilled(Stored(clock), clock)
<1>1. /\ refilled < 1000
      /\ bucket' = [count |-> refilled, ts |-> clock, expires |-> now + Expiry]
      /\ since' = IF Live THEN since ELSE clock
      /\ slip' = IF ~Live THEN 0
                 ELSE IF bucket.ts > clock THEN slip + (bucket.ts - clock) ELSE slip
      /\ granted' = granted /\ now' = now
      /\ told' = IF told # NULL THEN told ELSE clock + 1000 * retry_after_secs(refilled)
    BY DEF Deny, Write
<1>2. /\ refilled \in 0 .. Full /\ Full \in Nat
      /\ now \in Nat /\ since \in Int /\ slip \in Nat /\ granted \in Nat
      /\ bucket.ts \in Int /\ bucket.count \in 0 .. Full /\ Expiry \in Nat
      /\ told \in Int \cup {NULL} /\ NULL \notin Int
      /\ bucket \in [count : 0 .. Full, ts : Int, expires : Nat]
    BY StoredType, RefilledBounds, RateAssumption, SMTT(30) DEF IInv, TypeOK, Full
<1>3. Live /\ Stored(clock) = bucket
    BY <1>1, <1>2, FreshIsFull DEF IInv, Stored
<1>4. retry_after_secs(refilled) \in Nat /\ retry_after_secs(refilled) >= 1
    BY <1>1, <1>2, HintIsPositive, SMTT(30)
<1>5. TypeOK'
    <2> HIDE DEF refilled
    <2>1. since' \in Int /\ slip' \in Nat /\ told' \in Int \cup {NULL} /\ now + Expiry \in Nat
        BY <1>1, <1>2, <1>4
    <2>2. bucket' \in [count : 0 .. Full, ts : Int, expires : Nat]
        BY <1>1, <1>2, <2>1
    <2> QED BY <1>1, <1>2, <2>1, <2>2 DEF TypeOK, Full
<1>6. GrantsAreBounded'
    <2>1. 1000 * (1000 * granted + refilled)
            <= 1000 * Full + refill_milli_per_sec * (clock - since' + slip')
        BY <1>1, <1>3, CheckKeepsBound DEF IInv
    <2> QED BY <1>1, <2>1 DEF GrantsAreBounded, Full, refill_milli_per_sec
<1>7. DeadlineIsCovered'
    <2>1. /\ Elapsed(bucket, clock) \in Nat
          /\ refilled >= bucket.count
          /\ refilled = Full \/ refilled >= bucket.count + Elapsed(bucket, clock)
        BY <1>2, <1>3, RefilledBounds
    <2>2. Full >= 1000
        BY RateAssumption DEF Full
    <2>3. refilled >= bucket.count + Elapsed(bucket, clock)
        BY <1>1, <1>2, <2>1, <2>2
    <2>4. CASE told = NULL
        BY <1>1, <1>2, <1>4, <2>4 DEF DeadlineIsCovered
    <2>5. CASE told # NULL
        <3>1. Elapsed(bucket, clock) >= clock - bucket.ts
            BY <1>2 DEF Elapsed
        <3>2. bucket.count + (told - bucket.ts) >= 1000 /\ told \in Int
            BY <1>2, <2>5 DEF IInv, DeadlineIsCovered
        <3>3. refilled + (told - clock) >= 1000
            BY <1>2, <2>1, <2>3, <3>1, <3>2
        <3> QED BY <1>1, <2>5, <3>3 DEF DeadlineIsCovered
    <2> QED BY <2>4, <2>5
<1> QED BY <1>5, <1>6, <1>7 DEF IInv

THEOREM NextIInv == IInv /\ [Next]_vars => IInv'
<1> SUFFICES ASSUME IInv, [Next]_vars PROVE IInv'
    OBVIOUS
<1>1. ASSUME NEW lag \in Lags, check(lag) PROVE IInv'
    <2>1. now - lag \in Int
        BY RateAssumption DEF IInv, TypeOK
    <2> QED BY <1>1, <2>1, AllowKeepsIInv, DenyKeepsIInv DEF check
<1>2. ASSUME NEW d \in Ticks, Tick(d) PROVE IInv'
    BY <1>2, RateAssumption
    DEF Tick, IInv, TypeOK, GrantsAreBounded, DeadlineIsCovered, Full, refill_milli_per_sec
<1>3. CASE UNCHANGED vars
    BY <1>3
    DEF vars, IInv, TypeOK, GrantsAreBounded, DeadlineIsCovered, Full, refill_milli_per_sec
<1> QED BY <1>1, <1>2, <1>3 DEF Next

THEOREM SpecIInv == Spec => []IInv
BY InitIInv, NextIInv, PTL DEF Spec

\* The script keeps the bucket within its bounds for every capacity, rate and
\* sequence of readings.
THEOREM BucketTypeCorrect == Spec => []TypeOK
<1>1. IInv => TypeOK
    BY DEF IInv
<1> QED BY <1>1, SpecIInv, PTL

\* No sequence of checks gets more than the capacity and the refill, plus the
\* refill for the time the timestamp moved back.
THEOREM BucketGrantsAreBounded == Spec => []GrantsAreBounded
<1>1. IInv => GrantsAreBounded
    BY DEF IInv
<1> QED BY <1>1, SpecIInv, PTL

\* The Retry-After hint is kept at every rate of at least a token a second.
THEOREM RetryAfterHintIsKept == Spec => []RetryAfterIsEnough
<1>1. IInv => RetryAfterIsEnough
    <2> SUFFICES ASSUME IInv, NEW lag \in Lags, told # NULL, now - lag >= told
                 PROVE  Refilled(Stored(now - lag), now - lag) >= 1000
        BY DEF RetryAfterIsEnough
    <2>1. /\ now - lag \in Int /\ told \in Int /\ bucket.ts \in Int
          /\ bucket.count \in 0 .. Full /\ Full \in Nat /\ Full >= 1000
          /\ bucket \in [count : 0 .. Full, ts : Int, expires : Nat]
        BY RateAssumption DEF IInv, TypeOK, Full
    <2>2. CASE ~Live
        BY <2>1, <2>2, FreshIsFull DEF IInv
    <2>3. CASE Live
        <3> DEFINE clock == now - lag
        <3>1. Stored(clock) = bucket
            BY <2>3 DEF Stored
        <3>2. /\ Elapsed(bucket, clock) \in Nat
              /\ Refilled(bucket, clock) \in Int
              /\ \/ Refilled(bucket, clock) = Full
                 \/ Refilled(bucket, clock) >= bucket.count + Elapsed(bucket, clock)
            BY <2>1, RefilledBounds
        <3>3. Elapsed(bucket, clock) >= clock - bucket.ts
            BY <2>1 DEF Elapsed
        <3>4. bucket.count + (told - bucket.ts) >= 1000
            BY DEF IInv, DeadlineIsCovered
        <3> HIDE DEF clock
        <3>5. clock \in Int /\ clock >= told
            BY <2>1 DEF clock
        <3>6. Refilled(bucket, clock) >= 1000
            BY <2>1, <3>2, <3>3, <3>4, <3>5
        <3> QED BY <3>1, <3>6 DEF clock
    <2> QED BY <2>2, <2>3
<1> QED BY <1>1, SpecIInv, PTL

=============================================================================
