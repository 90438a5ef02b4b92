---------------------------- MODULE RateLimiter ----------------------------
(***************************************************************************)
(* ratelimit::TokenBucketRateLimiter, LeakyBucketRateLimiter and           *)
(* FixedWindowRateLimiter (include/chwell/ratelimit/rate_limiter.h,        *)
(* src/ratelimit/rate_limiter.cpp).  Every method is one critical section  *)
(* of mutex_, but check() of the two buckets is two of them: it consumes   *)
(* and then asks for what remains, which refills a second time.            *)
(*                                                                         *)
(* The clock counts milliseconds and the rate is RateNum / RateDen tokens  *)
(* a millisecond; the double of the code is an exact fraction here, cut to *)
(* a whole number at the same place.  The two buckets are the same code    *)
(* under different names.                                                  *)
(***************************************************************************)
EXTENDS Integers

CONSTANTS
    Caller,     \* threads that call check
    Key,        \* keys that are limited
    Kinds,      \* classes that are used: a subset of {"token", "leaky", "window"}
    Capacity,   \* capacity_ of a bucket, max_requests_ of a window
    RateNum,    \* refill_rate_per_second_ / 1000 = RateNum / RateDen
    RateDen,
    WindowSize, \* window_size_ms_
    Counts,     \* the counts consume is called with
    MaxTime     \* bound of the model: the last instant of the clock

\* Holds of the constants of every instance.
LimiterAssumption ==
    /\ Kinds \subseteq {"token", "leaky", "window"}
    /\ {Capacity, RateNum, WindowSize, MaxTime} \subseteq Nat
    /\ RateDen \in Nat \ {0} /\ Counts \subseteq Nat

VARIABLES
    limiter,    \* the class of the limiter
    now,        \* current_timestamp_ms()
    levels,     \* buckets_ or windows_: tokens or count, and the time of the last refill or the start
    checking,   \* calls of check between their two critical sections
    granted     \* history: what was granted per key from each instant on, since its last reset

vars == <<limiter, now, levels, checking, granted>>

Instant == 0..MaxTime
NothingYet == [t \in Instant |-> 0]

\* What Init, reset and a new entry put into an entry of the map.
Full == [n |-> IF limiter = "window" THEN 0 ELSE Capacity, since |-> now]

Init ==
    /\ limiter \in Kinds
    /\ now = 0
    /\ levels = <<>>
    /\ checking = {}
    /\ granted = [k \in Key |-> NothingYet]

-----------------------------------------------------------------------------
\* Mutant of refill_tokens: the fraction of a token is rounded up.
RefillRoundedUp(b) ==
    IF now > b.since
    THEN LET all == b.n + ((now - b.since) * RateNum + RateDen - 1) \div RateDen
         IN  [n |-> IF all < Capacity THEN all ELSE Capacity, since |-> now]
    ELSE b

\* static_cast<int64_t> drops the fraction, and the time it stands for is
\* forgotten with last_refill_time_ms = now.
refill_tokens(b) ==
    IF now > b.since
    THEN LET all == b.n + ((now - b.since) * RateNum) \div RateDen
         IN  [n |-> IF all < Capacity THEN all ELSE Capacity, since |-> now]
    ELSE b

leak_tokens(b) == refill_tokens(b)

should_reset_window(w) == now - w.since >= WindowSize

Renewed(b) ==
    CASE limiter = "token"  -> refill_tokens(b)
      [] limiter = "leaky"  -> leak_tokens(b)
      [] limiter = "window" -> IF should_reset_window(b) THEN Full ELSE b

\* The entry of a key as a call that may create it finds it.
Entry(k) == Renewed(IF k \in DOMAIN levels THEN levels[k] ELSE Full)

Store(k, b) == levels' = [x \in DOMAIN levels \cup {k} |-> IF x = k THEN b ELSE levels[x]]

\* A bucket gives c tokens or none; a window counts requests, whatever c is.
Admits(b, c) == IF limiter = "window" THEN b.n < Capacity ELSE b.n >= c
Charged(b, c) == [b EXCEPT !.n = IF limiter = "window" THEN b.n + 1 ELSE b.n - c]
Price(c) == IF limiter = "window" THEN 1 ELSE c

consume(k, c) ==
    LET b == Entry(k)
    IN  /\ Store(k, IF Admits(b, c) THEN Charged(b, c) ELSE b)
        /\ granted' = [granted EXCEPT ![k] =
               [f \in Instant |-> IF f <= now /\ Admits(b, c) THEN @[f] + Price(c) ELSE @[f]]]

Consume == \E k \in Key, c \in Counts : consume(k, c) /\ UNCHANGED <<limiter, now, checking>>

\* check: the window answers at once, the buckets in a second critical section.
check(t, k) ==
    /\ \A p \in checking : p[1] # t
    /\ consume(k, 1)
    /\ checking' = IF limiter = "window" THEN checking ELSE checking \cup {<<t, k>>}
    /\ UNCHANGED <<limiter, now>>

\* get_remaining renews an entry that exists and creates none.
get_remaining(k) ==
    /\ levels' = IF k \in DOMAIN levels THEN [levels EXCEPT ![k] = Renewed(@)] ELSE levels
    /\ UNCHANGED <<limiter, now, granted>>

CheckRemaining == \E p \in checking : get_remaining(p[2]) /\ checking' = checking \ {p}

reset(k) ==
    /\ k \in DOMAIN levels
    /\ levels' = [levels EXCEPT ![k] = Full]
    /\ granted' = [granted EXCEPT ![k] = NothingYet]
    /\ UNCHANGED <<limiter, now, checking>>

reset_all ==
    /\ levels' = [k \in DOMAIN levels |-> Full]
    /\ granted' = [k \in Key |-> NothingYet]
    /\ UNCHANGED <<limiter, now, checking>>

Call ==
    \/ Consume
    \/ \E t \in Caller, k \in Key : check(t, k)
    \/ CheckRemaining
    \/ \E k \in Key : get_remaining(k) /\ UNCHANGED checking
    \/ \E k \in Key : reset(k)
    \/ reset_all

TokenBucket == limiter = "token" /\ Call
LeakyBucket == limiter = "leaky" /\ Call
FixedWindow == limiter = "window" /\ Call

Tick == now < MaxTime /\ now' = now + 1 /\ UNCHANGED <<limiter, levels, checking, granted>>

Next == TokenBucket \/ LeakyBucket \/ FixedWindow \/ Tick

Spec == Init /\ [][Next]_vars

-----------------------------------------------------------------------------
TypeOK ==
    /\ limiter \in Kinds /\ now \in Instant
    /\ DOMAIN levels \subseteq Key
    /\ \A k \in DOMAIN levels : levels[k] \in [n : 0..Capacity, since : 0..now]
    /\ granted \in [Key -> [Instant -> Nat]]
    /\ checking \subseteq Caller \X Key

\* At no time has an interval that ends now been granted more than the limiter
\* promises, however calls of check, consume, get_remaining and reset
\* interleave: of a bucket its capacity and what the interval adds at its rate,
\* of a window twice its maximum in any stretch shorter than the window (two
\* windows may touch it).
WithinLimit ==
    \A k \in Key, from \in 0..now :
        IF limiter = "window"
        THEN (now - from < WindowSize) => granted[k][from] <= 2 * Capacity
        ELSE granted[k][from] * RateDen <= Capacity * RateDen + (now - from) * RateNum

\* Does not hold: a key that was granted nothing for as long as a token takes
\* has one.  Each call drops the fraction it found, so a caller that asks more
\* often than once a token is refused for ever.
Replenished ==
    \A k \in DOMAIN levels :
        limiter # "window" /\ now >= RateDen /\ granted[k][now - RateDen] = 0 => Renewed(levels[k]).n > 0
=============================================================================
