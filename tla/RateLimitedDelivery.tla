------------------------- MODULE RateLimitedDelivery -------------------------
(***************************************************************************)
(* What the event pipeline promises, without queues, priorities, timers or *)
(* microtasks: a bag of accepted jobs, of which one at a time is started,  *)
(* at most Ceiling of them in any window, each at most once.  A job that   *)
(* has not started may be replaced by a newer one; nothing else removes it *)
(* short of the process stopping.                                          *)
(***************************************************************************)
EXTENDS Integers, FiniteSets

CONSTANTS Jobs, None, Ceiling, Window

VARIABLES
    waiting,    \* accepted and not started
    active,     \* started and not finished
    age,        \* per job, time since it started, Window once out of window
    finished,
    replaced

vars == <<waiting, active, age, finished, replaced>>

Init ==
    /\ waiting = {}
    /\ active = None
    /\ age = [j \in Jobs |-> Window]
    /\ finished = {}
    /\ replaced = {}

Fresh(j) == j \notin waiting \cup finished \cup replaced \cup {active}

Room == Cardinality({j \in Jobs : age[j] < Window}) < Ceiling

Accept(j) ==
    /\ Fresh(j)
    /\ waiting' = waiting \cup {j}
    /\ UNCHANGED <<active, age, finished, replaced>>

Replace(old, new) ==
    /\ old \in waiting
    /\ Fresh(new)
    /\ waiting' = (waiting \ {old}) \cup {new}
    /\ replaced' = replaced \cup {old}
    /\ UNCHANGED <<active, age, finished>>

Begin(j) ==
    /\ j \in waiting
    /\ Room
    /\ waiting' = waiting \ {j}
    /\ active' = j
    /\ age' = [age EXCEPT ![j] = 0]

Start(j) ==
    /\ active = None
    /\ Begin(j)
    /\ UNCHANGED <<finished, replaced>>

(* The next job may start in the step that finishes the one before.        *)
Finish ==
    /\ active # None
    /\ finished' = finished \cup {active}
    /\ UNCHANGED replaced
    /\ \/ active' = None /\ UNCHANGED <<waiting, age>>
       \/ \E j \in Jobs : Begin(j)

TimePasses ==
    /\ age' = [j \in Jobs |-> IF age[j] < Window THEN age[j] + 1 ELSE Window]
    /\ UNCHANGED <<waiting, active, finished, replaced>>

Next ==
    \/ \E j \in Jobs : Accept(j) \/ Start(j)
    \/ \E old, new \in Jobs : Replace(old, new)
    \/ Finish
    \/ TimePasses

Spec == Init /\ [][Next]_vars
=============================================================================
