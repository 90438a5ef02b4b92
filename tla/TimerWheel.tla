----------------------------- MODULE TimerWheel -----------------------------
(***************************************************************************)
(* core::TimerWheel (include/chwell/core/timer_wheel.h,                    *)
(* src/core/timer_wheel.cpp): timers in the slots of a hierarchy of        *)
(* wheels.  A thread ticks: it runs the timers in the current slot of      *)
(* wheel 0, advances, and when a wheel has turned once it cascades the     *)
(* current slot of the next one downwards.                                 *)
(*                                                                         *)
(* add_timer and cancel_timer hold mutex_; the ticking thread takes it     *)
(* only to update task_map_.  Their steps interleave here as atomic        *)
(* operations on the slots, which is the best the data race on the lists   *)
(* can do.  A list is a set: the order in it is not modelled.              *)
(*                                                                         *)
(* Time is in milliseconds and passes between ticks only: the thread is    *)
(* punctual and a callback takes no time.  left[t] is expire_time less the *)
(* clock.  A timer value stands for a new id whenever its last timer is    *)
(* gone.  start and stop are called by one thread.                         *)
(***************************************************************************)
EXTENDS Integers, FiniteSets, FiniteSetsExt

CONSTANTS
    Timer,      \* timers
    Repeating,  \* those made by add_repeat_timer
    NoTimer,
    Delay,      \* delays and intervals that are used
    Tick,       \* tick_ms of wheel 0
    Size,       \* wheel_size
    Layers,     \* the number of wheels; tick() needs wheels_[1] and knows of 4
    LateCap,    \* bound of the model: lateness is not counted further
    Pauses      \* whether the wheel is stopped and started while time passes:
                \* {FALSE}, {TRUE} or both cases

\* What the code's types and the constructor's arguments give.
WheelAssumption ==
    /\ Repeating \subseteq Timer /\ NoTimer \notin Timer
    /\ Delay \subseteq Nat \ {0}
    /\ Tick \in Nat \ {0} /\ Size \in Nat \ {0, 1} /\ Layers \in 2..4
    /\ LateCap \in Nat /\ Pauses \subseteq BOOLEAN

ASSUME WheelConstants == WheelAssumption

Layer == 0..(Layers - 1)
Slot == 0..(Size - 1)

VARIABLES
    pauses,     \* this wheel is stopped and started
    slots,      \* the timers in each slot of each wheel
    current_slot, \* of each wheel
    left,       \* expire_time - current_time_ms() of each timer
    interval,   \* the interval of a repeating timer
    rounds,     \* rounds_left of each timer
    cancelled,  \* timers whose task has the flag cancelled
    known,      \* the keys of task_map_
    dropped,    \* history: timers for which cancel_timer has returned
    running,    \* running_
    pc,         \* where the thread is in tick
    layer,      \* the wheel that is cascaded or advanced
    hand,       \* the timer that expired and is being handled
    passed,     \* the timers this tick went past, with rounds left
    phase       \* milliseconds to the next tick

wheelVars == <<slots, current_slot>>
timerVars == <<left, interval, rounds, cancelled, known, dropped>>
threadVars == <<running, pc, layer, hand, passed, phase>>
timerWheelVars == <<pauses, wheelVars, timerVars, threadVars>>

WheelInit ==
    /\ pauses \in Pauses
    /\ slots = [i \in Layer |-> [s \in Slot |-> {}]]
    /\ current_slot = [i \in Layer |-> 0]
    /\ left = [t \in Timer |-> 0] /\ interval = [t \in Timer |-> 0]
    /\ rounds = [t \in Timer |-> 0]
    /\ cancelled = {} /\ known = {} /\ dropped = {}
    /\ running = FALSE /\ pc = "off" /\ layer = 0
    /\ hand = NoTimer /\ passed = {} /\ phase = 0

\* The constructor: a tick of a wheel is a turn of the wheel below.
TickMs[i \in Layer] == IF i = 0 THEN Tick ELSE TickMs[i - 1] * Size
TotalMs(i) == TickMs[i] * Size

Places(t) == {p \in Layer \X Slot : t \in slots[p[1]][p[2]]}
InWheel(t) == Places(t) # {}

\* Mutant of Place: one slot too early.
PlaceEarly(delay) ==
    LET d == IF delay <= 0 THEN 1 ELSE delay
        i == Min({j \in Layer : d < TotalMs(j)} \cup {Layers - 1})
    IN  <<i, (current_slot[i] + d \div TickMs[i] + Size - 1) % Size>>

\* Mutant of Place: a wheel is chosen by the span of one slot of it.
PlaceAbove(delay) ==
    LET d == IF delay <= 0 THEN 1 ELSE delay
        i == Min({j \in Layer : d < TickMs[j]} \cup {Layers - 1})
    IN  <<i, (current_slot[i] + d \div TickMs[i]) % Size>>

\* add_task_to_wheel: the first wheel that spans the delay, or the last one,
\* and the slot that many ticks ahead of its current one.
Place(delay) ==
    LET d == IF delay <= 0 THEN 1 ELSE delay
        i == Min({j \in Layer : d < TotalMs(j)} \cup {Layers - 1})
    IN  <<i, (current_slot[i] + d \div TickMs[i]) % Size>>

\* rounds_left, as add_task_to_wheel computes it.
Rounds(delay) ==
    LET d == IF delay <= 0 THEN 1 ELSE delay
    IN  (d \div TickMs[Place(d)[1]]) \div Size

Put(f, t, p) == [f EXCEPT ![p[1]][p[2]] = @ \cup {t}]
TakeOut(f, t, p) == [f EXCEPT ![p[1]][p[2]] = @ \ {t}]

-----------------------------------------------------------------------------
\* add_timer and add_repeat_timer.
add_timer(t, d) ==
    /\ ~InWheel(t) /\ hand # t
    /\ left' = [left EXCEPT ![t] = d]
    /\ interval' = [interval EXCEPT ![t] = IF t \in Repeating THEN d ELSE 0]
    /\ rounds' = [rounds EXCEPT ![t] = Rounds(d)]
    /\ slots' = Put(slots, t, Place(d))
    /\ known' = known \cup {t}
    /\ cancelled' = cancelled \ {t} /\ dropped' = dropped \ {t}
    /\ UNCHANGED <<pauses, current_slot, threadVars>>

\* cancel_timer: flags the task that task_map_ refers to.  While the thread has
\* put a copy into the wheel and not yet entered it in task_map_, that is the
\* old one; a one-shot timer that has expired has none.
cancel_timer(t) ==
    /\ t \in known
    /\ known' = known \ {t}
    /\ dropped' = dropped \cup {t}
    /\ cancelled' = IF InWheel(t) /\ ~(pc = "copied" /\ hand = t)
                    THEN cancelled \cup {t} ELSE cancelled
    /\ UNCHANGED <<pauses, wheelVars, left, interval, rounds, threadVars>>

-----------------------------------------------------------------------------
\* start(): every wheel at slot 0, whatever is in the slots.
start ==
    /\ pc = "off" /\ ~running
    /\ running' = TRUE
    /\ current_slot' = [i \in Layer |-> 0]
    /\ pc' = "sleep" /\ phase' = 0
    /\ UNCHANGED <<pauses, slots, timerVars, layer, hand, passed>>

\* stop(): running_ is cleared, the thread ends after its sleep and is joined.
stop ==
    /\ pauses /\ running
    /\ running' = FALSE
    /\ UNCHANGED <<pauses, wheelVars, timerVars, pc, layer, hand, passed, phase>>

ThreadEnds ==
    /\ pc = "sleep" /\ phase = 0 /\ ~running
    /\ pc' = "off"
    /\ UNCHANGED <<pauses, wheelVars, timerVars, running, layer, hand, passed, phase>>

\* The clock.  How late a timer is matters to the property of a wheel that is
\* not paused, and to nothing else.
Floor == IF pauses THEN 0 ELSE 0 - LateCap

Clock ==
    /\ (pc = "off" /\ pauses) \/ (pc = "sleep" /\ phase > 0)
    /\ phase' = IF pc = "off" THEN phase ELSE phase - 1
    /\ left' = [t \in Timer |-> IF InWheel(t) /\ left[t] > Floor
                                THEN left[t] - 1 ELSE left[t]]
    /\ UNCHANGED <<pauses, wheelVars, interval, rounds, cancelled, known, dropped,
                   running, pc, layer, hand, passed>>

\* run_loop: tick() every tick_ms.
BeginTick ==
    /\ pc = "sleep" /\ phase = 0 /\ running
    /\ pc' = "slot" /\ phase' = Tick /\ layer' = 0 /\ passed' = {}
    /\ UNCHANGED <<pauses, wheelVars, timerVars, running, hand>>

Here == <<0, current_slot[0]>>

\* The live timers of the current slot that this tick has not gone past.
Due == slots[0][current_slot[0]] \ (cancelled \cup passed)

\* process_slot: a cancelled timer is removed ...
RemoveCancelled(t) ==
    /\ pc = "slot" /\ t \in (slots[0][current_slot[0]] \cap cancelled) \ passed
    /\ slots' = TakeOut(slots, t, Here)
    /\ UNCHANGED <<pauses, current_slot, timerVars, threadVars>>

\* ... one with rounds left stays for another turn of the wheel ...
WaitARound(t) ==
    /\ pc = "slot" /\ t \in Due /\ rounds[t] > 0
    /\ rounds' = [rounds EXCEPT ![t] = @ - 1]
    /\ passed' = passed \cup {t}
    /\ UNCHANGED <<pauses, wheelVars, left, interval, cancelled, known, dropped,
                   running, pc, layer, hand, phase>>

\* ... a one-shot timer is removed and its callback is next ...
ExpireOnce(t) ==
    /\ pc = "slot" /\ t \in Due /\ rounds[t] = 0
    /\ interval[t] = 0
    /\ slots' = TakeOut(slots, t, Here)
    /\ hand' = t /\ pc' = "calling"
    /\ UNCHANGED <<pauses, current_slot, timerVars, running, layer, passed, phase>>

\* ... a repeating one is copied into the wheel for its next turn ...
ExpireRepeat(t) ==
    /\ pc = "slot" /\ t \in Due /\ rounds[t] = 0
    /\ interval[t] > 0
    /\ left' = [left EXCEPT ![t] = interval[t]]
    /\ rounds' = [rounds EXCEPT ![t] = Rounds(interval[t])]
    /\ slots' = Put(TakeOut(slots, t, Here), t, Place(interval[t]))
    /\ hand' = t /\ pc' = "copied"
    /\ UNCHANGED <<pauses, current_slot, interval, cancelled, known, dropped, running, layer, passed, phase>>

\* ... and the copy entered in task_map_ under mutex_ ...
UpdateMap ==
    /\ pc = "copied"
    /\ known' = known \cup {hand}
    /\ pc' = "calling"
    /\ UNCHANGED <<pauses, wheelVars, left, interval, rounds, cancelled, dropped,
                   running, layer, hand, passed, phase>>

\* ... then the callback runs, with no lock held.
Callback ==
    /\ pc = "calling"
    /\ hand' = NoTimer /\ pc' = "slot"
    /\ UNCHANGED <<pauses, wheelVars, timerVars, running, layer, passed, phase>>

SlotDone ==
    /\ pc = "slot" /\ slots[0][current_slot[0]] \subseteq passed
    /\ pc' = "advance"
    /\ UNCHANGED <<pauses, wheelVars, timerVars, running, layer, hand, passed, phase>>

\* Mutant of Advance: no modulo.
AdvanceUnwrapped ==
    /\ pc = "advance"
    /\ current_slot' = [current_slot EXCEPT ![layer] = @ + 1]
    /\ pc' = "sleep" /\ UNCHANGED layer
    /\ UNCHANGED <<pauses, slots, timerVars, running, hand, passed, phase>>

\* tick: the wheel advances; when it has turned once, the next one cascades.
Advance ==
    /\ pc = "advance"
    /\ current_slot' = [current_slot EXCEPT ![layer] = (@ + 1) % Size]
    /\ \/ /\ current_slot'[layer] = 0 /\ layer + 1 < Layers
          /\ pc' = "cascade" /\ layer' = layer + 1
       \/ /\ current_slot'[layer] # 0 \/ layer + 1 = Layers
          /\ pc' = "sleep" /\ UNCHANGED layer
    /\ UNCHANGED <<pauses, slots, timerVars, running, hand, passed, phase>>

\* Mutant of Cascade: the slot is copied, not moved.
CascadeKeeping ==
    /\ pc = "cascade"
    /\ rounds' = [t \in Timer |-> IF t \in slots[layer][current_slot[layer]] \ cancelled /\ left[t] > 0
                                  THEN Rounds(left[t]) ELSE rounds[t]]
    /\ LET moved == slots[layer][current_slot[layer]] \ cancelled
           target(t) == IF left[t] <= 0 THEN Here ELSE Place(left[t])
       IN  slots' = [i \in Layer |-> [s \in Slot |->
               slots[i][s] \cup {t \in moved : target(t) = <<i, s>>}]]
    /\ pc' = "advance"
    /\ UNCHANGED <<pauses, current_slot, left, interval, cancelled, known, dropped,
                   running, layer, hand, passed, phase>>

\* Mutant of Cascade: timers whose time is over are not put anywhere.
CascadeDropping ==
    /\ pc = "cascade"
    /\ rounds' = [t \in Timer |-> IF t \in slots[layer][current_slot[layer]] \ cancelled /\ left[t] > 0
                                  THEN Rounds(left[t]) ELSE rounds[t]]
    /\ LET moved == {t \in slots[layer][current_slot[layer]] \ cancelled : left[t] > 0}
           others(i, s) == IF <<i, s>> = <<layer, current_slot[layer]>> THEN {} ELSE slots[i][s]
       IN  slots' = [i \in Layer |-> [s \in Slot |->
               others(i, s) \cup {t \in moved : Place(left[t]) = <<i, s>>}]]
    /\ pc' = "advance"
    /\ UNCHANGED <<pauses, current_slot, left, interval, cancelled, known, dropped,
                   running, layer, hand, passed, phase>>

\* cascade: the timers in the current slot of the wheel are placed anew, those
\* whose time is over in the current slot of wheel 0.  The wheel itself
\* advances after that.
Cascade ==
    /\ pc = "cascade"
    /\ rounds' = [t \in Timer |-> IF t \in slots[layer][current_slot[layer]] \ cancelled /\ left[t] > 0
                                  THEN Rounds(left[t]) ELSE rounds[t]]
    /\ LET moved == slots[layer][current_slot[layer]] \ cancelled
           target(t) == IF left[t] <= 0 THEN Here ELSE Place(left[t])
           others(i, s) == IF <<i, s>> = <<layer, current_slot[layer]>> THEN {} ELSE slots[i][s]
       IN  slots' = [i \in Layer |-> [s \in Slot |->
               others(i, s) \cup {t \in moved : target(t) = <<i, s>>}]]
    /\ pc' = "advance"
    /\ UNCHANGED <<pauses, current_slot, left, interval, cancelled, known, dropped,
                   running, layer, hand, passed, phase>>

ThreadStep ==
    \/ BeginTick \/ SlotDone \/ UpdateMap \/ Callback \/ Advance \/ Cascade \/ ThreadEnds
    \/ \E t \in Timer : RemoveCancelled(t) \/ WaitARound(t) \/ ExpireOnce(t) \/ ExpireRepeat(t)

WheelNext ==
    \/ \E t \in Timer, d \in Delay : add_timer(t, d)
    \/ \E t \in Timer : cancel_timer(t)
    \/ start \/ stop
    \/ Clock
    \/ ThreadStep

WheelSpec == WheelInit /\ [][WheelNext]_timerWheelVars

\* The thread runs and time passes.  Nobody has to add, cancel, start or stop.
WheelFairness == WF_timerWheelVars(ThreadStep) /\ WF_timerWheelVars(Clock)

FairWheelSpec == WheelSpec /\ WheelFairness
-----------------------------------------------------------------------------
WheelTypeOK ==
    /\ pauses \in Pauses
    /\ slots \in [Layer -> [Slot -> SUBSET Timer]]
    /\ current_slot \in [Layer -> Slot]
    /\ left \in [Timer -> Int] /\ interval \in [Timer -> Delay \cup {0}]
    /\ \A t \in Timer : left[t] >= 0 - LateCap /\ \E d \in Delay \cup {0} : left[t] <= d
    /\ cancelled \subseteq Timer /\ known \subseteq Timer /\ dropped \subseteq Timer
    /\ running \in BOOLEAN
    /\ pc \in {"off", "sleep", "slot", "copied", "calling", "advance", "cascade"}
    /\ layer \in Layer
    /\ hand \in Timer \cup {NoTimer} /\ passed \subseteq Timer
    /\ rounds \in [Timer -> Nat]
    /\ phase \in 0..Tick

\* A timer is in one slot of one wheel, through cascades, repetitions and
\* restarts: it cannot expire twice in one turn.
OnePlace == \A t \in Timer : Cardinality(Places(t)) <= 1

\* add_timer, delay_ms: no timer expires a whole tick or more before its time.
NeverEarly ==
    [][\A t \in Timer : ~pauses /\ hand = NoTimer /\ hand' = t => left[t] < Tick]_timerWheelVars

\* A timer that is in the wheel is late by a turn of the wheel below the last
\* one and a tick, at most: a wheel cascades its current slot at the end of that
\* slot's time, not at its start, and what has expired waits for the next tick.
LatenessBounded ==
    \A t \in Timer : ~pauses /\ InWheel(t) /\ t \notin cancelled =>
        left[t] >= 0 - TotalMs(Layers - 2) - Tick

\* Through cascades, repetitions and restarts every timer stays in one place
\* and is on time.
WheelSound == WheelTypeOK /\ OnePlace /\ LatenessBounded

\* A timer that was added expires or is cancelled, while the wheel runs.
TimersExpire ==
    \A t \in Timer : (InWheel(t) /\ t \notin cancelled)
                        ~> (hand = t \/ t \in cancelled \/ pc = "off")

-----------------------------------------------------------------------------
(* What the documentation of the code says and the code does not do.       *)

\* timer_wheel.h, delay_ms: the delay of the timer.  The resolution is a tick,
\* so a timer is not late by more than one.
LateByATickAtMost ==
    \A t \in Timer : InWheel(t) /\ t \notin cancelled => left[t] >= 0 - Tick

\* README, cancel_timer ("取消"): a timer for which cancel_timer has returned is
\* over when the tick that was under way is over.
CancelledForGood ==
    pc = "sleep" => \A t \in dropped : InWheel(t) => t \in cancelled

\* timer_wheel.h, add_repeat_timer: the callback is called once per interval, so
\* a tick ends.
TickEnds == (pc = "slot") ~> (pc = "sleep")
=============================================================================
