------------------------------ MODULE RateLimit ------------------------------
(***************************************************************************)
(* The token bucket of one (class, api_key_id) pair: rate_limit::check in  *)
(* every CAS process and the script it runs in Redis.  Redis runs a script *)
(* atomically, so a check is one step; what is not atomic is time.  A      *)
(* process reads its own clock before it sends the script, so the reading  *)
(* the script is given may be behind real time, by the delay or by a clock *)
(* that is slow or was set back, and readings may arrive out of order.     *)
(*                                                                         *)
(* Tokens are counted in thousandths and time in milliseconds, as there.   *)
(***************************************************************************)
EXTENDS Integers

CONSTANTS
    Capacity,     \* tokens of a full bucket
    Num, Den,     \* refill_per_sec = Num / Den, at least 1 in every class
    Expiry,       \* EX 3600, in milliseconds
    Ticks,        \* amounts of time that may pass between two steps
    Lags,         \* how far behind real time a reading may be
    MaxNow,       \* bound on real time
    MaxSlip,      \* bound on how far the timestamp moves back in all
    NULL

ASSUME RateAssumption ==
    /\ Capacity \in Nat \ {0}
    /\ Num \in Nat /\ Den \in Nat \ {0} /\ Num >= Den
    /\ Expiry \in Nat /\ MaxNow \in Nat /\ MaxSlip \in Nat
    /\ Ticks \subseteq Nat /\ Lags \subseteq Nat
    /\ NULL \notin Int

VARIABLES
    now,      \* real time, from the bucket's first possible check
    bucket,   \* the two keys and when they expire
    told,     \* the reading at which the first caller denied since the last
              \* check that was allowed was told to come back, NULL if none
    since,    \* history: the reading of the first check of this bucket
    granted,  \* history: the checks it has allowed
    slip      \* history: how far its timestamp has moved backwards in all

vars == <<now, bucket, told, since, granted, slip>>

-----------------------------------------------------------------------------
\* eval_bucket: (refill_per_sec * 1000.0) as i64 drops the fraction.
refill_milli_per_sec == (1000 * Num) \div Den

Full == 1000 * Capacity

\* Both keys are written together and expire together.
Live == now < bucket.expires

\* The keys as the script reads them: full and no refill credit by default.
Stored(clock) ==
    IF Live THEN bucket ELSE [count |-> Full, ts |-> clock, expires |-> 0]

Elapsed(b, clock) == IF clock > b.ts THEN clock - b.ts ELSE 0

\* Mutant of Refilled: without the clamp to capacity.
RefilledUnclamped(b, clock) ==
    b.count + (Elapsed(b, clock) * refill_milli_per_sec) \div 1000

\* Mutant of Refilled: the fraction is rounded up.
RefilledRoundsUp(b, clock) ==
    LET sum == b.count + (Elapsed(b, clock) * refill_milli_per_sec + 999) \div 1000
    IN  IF sum > Full THEN Full ELSE sum

\* Mutant of Refilled: only whole seconds count.
RefilledWholeSeconds(b, clock) ==
    LET sum == b.count + (Elapsed(b, clock) \div 1000) * refill_milli_per_sec
    IN  IF sum > Full THEN Full ELSE sum

\* The script's refill: elapsed time clamped at 0, the sum at the capacity.
Refilled(b, clock) ==
    LET sum == b.count + (Elapsed(b, clock) * refill_milli_per_sec) \div 1000
    IN  IF sum > Full THEN Full ELSE sum

\* retry_after_secs: the ceiling, from the rate with its fraction.
retry_after_secs(remaining) ==
    LET secs == ((1000 - remaining) * Den + 1000 * Num - 1) \div (1000 * Num)
    IN  IF secs < 1 THEN 1 ELSE secs

\* Both keys are written whatever the outcome, for another Expiry.
Write(clock, count) ==
    /\ bucket' = [count |-> count, ts |-> clock, expires |-> now + Expiry]
    /\ since' = IF Live THEN since ELSE clock
    /\ slip' = IF ~Live THEN 0
               ELSE IF bucket.ts > clock THEN slip + (bucket.ts - clock)
               ELSE slip
    /\ slip' <= MaxSlip
    /\ UNCHANGED now

\* check, allowed: one token is taken.
Allow(clock) ==
    LET refilled == Refilled(Stored(clock), clock)
    IN  /\ refilled >= 1000
        /\ Write(clock, refilled - 1000)
        /\ granted' = IF Live THEN granted + 1 ELSE 1
        /\ told' = NULL

\* check, 429 with a Retry-After.
Deny(clock) ==
    LET refilled == Refilled(Stored(clock), clock)
    IN  /\ refilled < 1000
        /\ Write(clock, refilled)
        /\ told' = IF told # NULL THEN told
                   ELSE clock + 1000 * retry_after_secs(refilled)
        /\ UNCHANGED granted

\* check, with a reading that is lag behind.
check(lag) == Allow(now - lag) \/ Deny(now - lag)

Tick(d) ==
    /\ now + d <= MaxNow
    /\ now' = now + d
    /\ UNCHANGED <<bucket, told, since, granted, slip>>

Init ==
    /\ now = 0
    /\ bucket = [count |-> Full, ts |-> 0, expires |-> 0]
    /\ told = NULL
    /\ since = 0
    /\ granted = 0
    /\ slip = 0

Next ==
    \/ \E lag \in Lags : check(lag)
    \/ \E d \in Ticks : Tick(d)

Spec == Init /\ [][Next]_vars

-----------------------------------------------------------------------------
\* Every variable stays in its type: in particular the script never leaves a
\* negative count, nor one above the capacity, whatever the clocks do.
TypeOK ==
    /\ now \in Nat
    /\ bucket \in [count : 0 .. Full, ts : Int, expires : Nat]
    /\ told \in Int \cup {NULL}
    /\ since \in Int
    /\ granted \in Nat
    /\ slip \in Nat

\* What a bucket has granted, plus what it still holds, is at most its
\* capacity and the refill for the time since its first check; readings that
\* arrive out of order add the refill for every millisecond the timestamp
\* moved back and nothing else, and rounding adds nothing however often one
\* checks.
GrantsAreBounded ==
    1000 * (1000 * granted + bucket.count)
        <= 1000 * Full + refill_milli_per_sec * (bucket.ts - since + slip)

\* A caller that was denied and comes back when Retry-After says is allowed,
\* unless another was allowed in between, however often it and others have
\* polled meanwhile: each denied poll moves the timestamp and drops a fraction
\* of a milli-token, and the drops never add up to the token it waits for.
RetryAfterIsEnough ==
    \A lag \in Lags :
        (told # NULL /\ now - lag >= told) =>
            Refilled(Stored(now - lag), now - lag) >= 1000

\* rate_limit.lua: "huge negative skew yields at most one extra grant".
AtMostOneExtraGrant ==
    1000 * 1000 * (granted - 1) <= 1000 * Full + refill_milli_per_sec * (now - since)

=============================================================================
