--------------------------- MODULE CircuitBreaker ---------------------------
(***************************************************************************)
(* circuitbreaker::DefaultCircuitBreaker                                   *)
(* (include/chwell/circuitbreaker/circuit_breaker.h,                       *)
(* src/circuitbreaker/circuit_breaker.cpp): calls run through execute or   *)
(* execute_with_result, failures are counted and trip the breaker, and an  *)
(* operator may trip, recover or reset it.                                 *)
(*                                                                         *)
(* The fields are atomics without a common lock (reset takes mutex_, which *)
(* nobody else takes), so each access is a step, and threads that fail at  *)
(* the same time interleave between counting, judging and tripping.  Only  *)
(* the two loads of the sum in get_failure_rate, whose order C++ leaves    *)
(* open, are one step.  last_failure_time_ms_ is stored and never used.    *)
(*                                                                         *)
(* No statement of the code stores HALF_OPEN: should_attempt_reset, the    *)
(* test for it, is called by nothing.  The branches for that state are     *)
(* written in Admit and Succeed as in the code and are not reachable.      *)
(***************************************************************************)
EXTENDS Naturals

CONSTANTS
    Thread,         \* threads that call execute
    Strategies,     \* the values of config_.trip_strategy that are used
    Threshold,      \* config_.failure_threshold
    RateNum,        \* config_.failure_rate_threshold = RateNum / RateDen
    RateDen,
    HalfOpenCalls,  \* config_.half_open_calls
    Manual,         \* operator calls: a subset of {"trip", "recover", "reset"}
    MaxCalls        \* bound of the model: calls that are counted

\* Holds of the constants of every instance.
BreakerAssumption ==
    /\ Strategies \subseteq {"count", "rate", "count_or_rate"}
    /\ Threshold \in Nat /\ RateNum \in Nat /\ RateDen \in Nat \ {0}
    /\ HalfOpenCalls \in Nat /\ MaxCalls \in Nat
    /\ Manual \subseteq {"trip", "recover", "reset"}

VARIABLES
    strategy,   \* config_.trip_strategy, fixed when the breaker is made
    state,      \* state_
    failures,   \* failure_count_
    successes,  \* success_count_
    halfOpen,   \* half_open_count_
    pc,         \* where each thread is in execute
    seen,       \* the local variable failures of should_trip
    total,      \* its local variable total, then the one of get_failure_rate
    resetting,  \* how far reset() is: 0 outside, else the next field to clear
    calls,      \* calls admitted, for the bound
    overridden  \* history: what operators have called

vars == <<strategy, state, failures, successes, halfOpen, pc, seen, total, resetting, calls,
          overridden>>

Init ==
    /\ strategy \in Strategies
    /\ state = "CLOSED"
    /\ failures = 0 /\ successes = 0 /\ halfOpen = 0
    /\ pc = [t \in Thread |-> "idle"]
    /\ seen = [t \in Thread |-> 0] /\ total = [t \in Thread |-> 0]
    /\ resetting = 0
    /\ calls = 0
    /\ overridden = {}

Goto(t, from, to) == pc[t] = from /\ pc' = [pc EXCEPT ![t] = to]

-----------------------------------------------------------------------------
\* execute: refused when OPEN (see Refuse), and when HALF_OPEN has used up its
\* trial calls.
Admit(t) ==
    /\ calls < MaxCalls
    /\ state # "OPEN"
    /\ pc[t] = "idle"
    /\ pc' = [pc EXCEPT ![t] = IF state = "HALF_OPEN" /\ halfOpen >= HalfOpenCalls
                               THEN "idle" ELSE "calling"]
    /\ halfOpen' = IF state = "HALF_OPEN" THEN halfOpen + 1 ELSE halfOpen
    /\ calls' = calls + 1
    /\ UNCHANGED <<strategy, state, failures, successes, seen, total, resetting, overridden>>

\* record_success and record_failure: an outcome is reported from outside,
\* whatever the state; what follows is what execute does with an outcome.
Report(t) ==
    /\ calls < MaxCalls
    /\ Goto(t, "idle", "calling")
    /\ calls' = calls + 1
    /\ UNCHANGED <<strategy, state, failures, successes, halfOpen, seen, total, resetting, overridden>>

\* func() returns.
Succeed(t) ==
    /\ Goto(t, "calling", "idle")
    /\ successes' = successes + 1
    /\ state' = IF state = "HALF_OPEN" THEN "CLOSED" ELSE state
    /\ UNCHANGED <<strategy, failures, halfOpen, seen, total, resetting, calls, overridden>>

\* func() throws: failure_count_++ ...
Fail(t) ==
    /\ Goto(t, "calling", "failed")
    /\ failures' = failures + 1
    /\ UNCHANGED <<strategy, state, successes, halfOpen, seen, total, resetting, calls, overridden>>

\* Mutant of ReadFailures: the thread judges the count it had before its own
\* increment.
ReadStaleFailures(t) ==
    /\ Goto(t, "failed", "counted")
    /\ seen' = [seen EXCEPT ![t] = failures - 1]
    /\ UNCHANGED <<strategy, state, failures, successes, halfOpen, total, resetting, calls, overridden>>

\* ... should_trip loads the count ...
ReadFailures(t) ==
    /\ Goto(t, "failed", "counted")
    /\ seen' = [seen EXCEPT ![t] = failures]
    /\ UNCHANGED <<strategy, state, failures, successes, halfOpen, total, resetting, calls, overridden>>

\* ... and adds the successes ...
ReadSuccesses(t) ==
    /\ Goto(t, "counted", "judging")
    /\ total' = [total EXCEPT ![t] = seen[t] + successes]
    /\ UNCHANGED <<strategy, state, failures, successes, halfOpen, seen, resetting, calls, overridden>>

\* Mutant of Verdict: == for >=, which two failures at once step over, and no
\* minimum of samples for the rate.
VerdictExactly(f, n) ==
    CASE strategy = "count" -> IF f = Threshold THEN "tripping" ELSE "idle"
      [] OTHER -> "rating"

\* ... decides, or goes on to ask for the failure rate ...
Verdict(f, n) ==
    CASE strategy = "count" -> IF f >= Threshold THEN "tripping" ELSE "idle"
      [] strategy = "rate" -> IF n < Threshold THEN "idle" ELSE "rating"
      [] strategy = "count_or_rate" ->
            IF f >= Threshold THEN "tripping" ELSE IF n > 0 THEN "rating" ELSE "idle"

Judge(t) ==
    /\ Goto(t, "judging", Verdict(seen[t], total[t]))
    /\ UNCHANGED <<strategy, state, failures, successes, halfOpen, seen, total, resetting, calls, overridden>>

\* ... get_failure_rate: the total, then the failures again, and the comparison
\* of their quotient with failure_rate_threshold ...
RateTotal(t) ==
    /\ Goto(t, "rating", "dividing")
    /\ total' = [total EXCEPT ![t] = failures + successes]
    /\ UNCHANGED <<strategy, state, failures, successes, halfOpen, seen, resetting, calls, overridden>>

RateReached(n) == IF n = 0 THEN RateNum = 0 ELSE failures * RateDen >= RateNum * n

RateCompare(t) ==
    /\ \/ RateReached(total[t]) /\ Goto(t, "dividing", "tripping")
       \/ ~RateReached(total[t]) /\ Goto(t, "dividing", "idle")
    /\ UNCHANGED <<strategy, state, failures, successes, halfOpen, seen, total, resetting, calls, overridden>>

\* ... and stores OPEN, whatever has happened to the counts since.
Trip(t) ==
    /\ Goto(t, "tripping", "idle")
    /\ state' = "OPEN"
    /\ UNCHANGED <<strategy, failures, successes, halfOpen, seen, total, resetting, calls, overridden>>

-----------------------------------------------------------------------------
trip ==
    /\ "trip" \in Manual
    /\ state' = "OPEN"
    /\ overridden' = overridden \cup {"trip"}
    /\ UNCHANGED <<strategy, failures, successes, halfOpen, pc, seen, total, resetting, calls>>

\* recover() leaves the counts as they are.
recover ==
    /\ "recover" \in Manual
    /\ state' = "CLOSED"
    /\ overridden' = overridden \cup {"recover"}
    /\ UNCHANGED <<strategy, failures, successes, halfOpen, pc, seen, total, resetting, calls>>

\* reset() clears state_, then one count after the other.
ResetState ==
    /\ "reset" \in Manual
    /\ resetting = 0
    /\ state' = "CLOSED"
    /\ resetting' = 1
    /\ overridden' = overridden \cup {"reset"}
    /\ UNCHANGED <<strategy, failures, successes, halfOpen, pc, seen, total, calls>>

ResetFailures ==
    /\ resetting = 1
    /\ failures' = 0
    /\ resetting' = 2
    /\ UNCHANGED <<strategy, state, successes, halfOpen, pc, seen, total, calls, overridden>>

ResetSuccesses ==
    /\ resetting = 2
    /\ successes' = 0 /\ halfOpen' = 0
    /\ resetting' = 0
    /\ UNCHANGED <<strategy, state, failures, pc, seen, total, calls, overridden>>

\* execute refused by an OPEN breaker, or the bound of the model.
Refuse(t) ==
    /\ state = "OPEN" \/ calls = MaxCalls
    /\ pc[t] = "idle"
    /\ UNCHANGED vars

Step(t) ==
    \/ Succeed(t) \/ Fail(t)
    \/ ReadFailures(t) \/ ReadSuccesses(t) \/ Judge(t)
    \/ RateTotal(t) \/ RateCompare(t)
    \/ Trip(t)

Next ==
    \/ \E t \in Thread : Admit(t) \/ Report(t) \/ Refuse(t) \/ Step(t)
    \/ trip \/ recover
    \/ ResetState \/ ResetFailures \/ ResetSuccesses

Spec == Init /\ [][Next]_vars

\* Calls keep coming, they end, and a reset that began ends.
Fairness ==
    /\ \A t \in Thread : WF_vars(Admit(t)) /\ WF_vars(Step(t))
    /\ WF_vars(ResetFailures) /\ WF_vars(ResetSuccesses)

FairSpec == Spec /\ Fairness
-----------------------------------------------------------------------------
TypeOK ==
    /\ state \in {"CLOSED", "OPEN", "HALF_OPEN"}
    /\ failures \in Nat /\ successes \in Nat /\ halfOpen \in Nat
    /\ pc \in [Thread -> {"idle", "calling", "failed", "counted", "judging",
                          "rating", "dividing", "tripping"}]
    /\ seen \in [Thread -> Nat] /\ total \in [Thread -> Nat]
    /\ resetting \in 0..2
    /\ calls \in 0..MaxCalls
    /\ overridden \subseteq Manual /\ strategy \in Strategies

\* The failure that reaches the threshold is never missed, however the threads
\* that fail together interleave: once their recordings are over, the breaker
\* is OPEN.
NoMissedTrip ==
    /\ strategy \in {"count", "count_or_rate"}
    /\ failures >= Threshold /\ failures > 0
    /\ overridden \subseteq {"reset"} /\ resetting = 0
    /\ \A t \in Thread : pc[t] \in {"idle", "calling"}
    => state = "OPEN"

\* The breaker opens only for a reason that its counts show: the number of
\* failures, or, for the rate, the minimum of samples (README, "failure_threshold
\* 为最小样本数").  After reset() this does not hold: a thread that has judged the
\* old counts trips the breaker when they are cleared.
OpenHasCause ==
    state = "OPEN" /\ overridden = {} =>
        CASE strategy = "count" -> failures >= Threshold
          [] strategy = "rate" -> failures + successes >= Threshold
          [] OTHER -> failures > 0

\* Threads that count, judge and trip without a lock neither step over the
\* threshold nor trip without a cause.
BreakerSound == TypeOK /\ NoMissedTrip /\ OpenHasCause

\* circuit_breaker.h, timeout_ms ("熔断超时"): an OPEN breaker leaves that state
\* when the timeout is over.
OpenTimesOut == (state = "OPEN") ~> (state # "OPEN")
=============================================================================
