------------------------------ MODULE Executor ------------------------------
(***************************************************************************)
(* What every task executor of the framework promises its callers,         *)
(* whatever threads, queues and condition variables it is built from: a    *)
(* task is accepted or refused once, an accepted task is started once and  *)
(* finished once, and an executor that has shut down has left nothing that *)
(* it accepted undone.  ThreadPool, TaskQueue and AsyncStorage are shown to*)
(* implement this module.                                                  *)
(***************************************************************************)
CONSTANT Task               \* the tasks callers may submit, each of them once

VARIABLES state,            \* state[t] is where task t is in its life
          phase             \* "open", "closing" or "closed"

vars == <<state, phase>>

TaskState == {"fresh", "queued", "running", "done", "rejected"}

Init ==
    /\ state = [t \in Task |-> "fresh"]
    /\ phase = "open"

Move(t, from, to) ==
    /\ state[t] = from
    /\ state' = [state EXCEPT ![t] = to]
    /\ UNCHANGED phase

Accept(t) == phase = "open" /\ Move(t, "fresh", "queued")
Reject(t) == phase # "closed" /\ Move(t, "fresh", "rejected")
Start(t)  == phase # "closed" /\ Move(t, "queued", "running")
Finish(t) == phase # "closed" /\ Move(t, "running", "done")

Close ==
    /\ phase = "open"
    /\ phase' = "closing"
    /\ UNCHANGED state

Terminate ==
    /\ phase = "closing"
    /\ \A t \in Task : state[t] \notin {"queued", "running"}
    /\ phase' = "closed"
    /\ UNCHANGED state

Next ==
    \/ \E t \in Task : Accept(t) \/ Reject(t) \/ Start(t) \/ Finish(t)
    \/ Close
    \/ Terminate

Spec == Init /\ [][Next]_vars

\* With fair scheduling an accepted task runs to its end, and an executor that
\* was asked to close does close.
Fairness ==
    /\ \A t \in Task : WF_vars(Start(t)) /\ WF_vars(Finish(t))
    /\ WF_vars(Terminate)

FairSpec == Spec /\ Fairness
=============================================================================
