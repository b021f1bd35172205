---------------------------- MODULE EventPipeline ----------------------------
(***************************************************************************)
(* The bot's event pipeline (apps/bot/src/runtime/event-pipeline.ts):      *)
(* priority queues drained by one loop under a sliding-window ceiling, a   *)
(* debounce table in front of them, a retry timer for the throttled case   *)
(* and a flush that shutdown awaits.                                       *)
(*                                                                         *)
(* The program runs on one thread, so a step of the model is the code      *)
(* between two awaits.  Timers are macrotasks: they cannot fire while the  *)
(* drain microtask is pending.  Time is discrete and relative: instead of  *)
(* a clock the state holds the age of every timestamp and the time each    *)
(* armed timer has left.  A timer whose time is up may fire late.          *)
(***************************************************************************)
EXTENDS Integers, FiniteSets, Sequences, SequencesExt

CONSTANTS
    Jobs,            \* the jobs callers may submit, each at most once
    Keys,            \* debounce keys
    None,            \* neither a job nor a number
    Lowest,          \* index of the last queue (4 in the code)
    Ceiling,         \* job starts allowed in one window
    Window,          \* windowMs, in ticks
    MinRetry,        \* the 250 ms floor of scheduleRetry, in ticks
    DebounceDelay,   \* delayMs of debounce, in ticks
    FlushBudget      \* timeoutMs of flush, in ticks

ASSUME NoneAssumption     == None \notin Jobs /\ None \notin Nat
ASSUME LowestAssumption   == Lowest \in Nat
ASSUME CeilingAssumption  == Ceiling \in Nat \ {0}
ASSUME WindowAssumption   == Window \in Nat \ {0}
ASSUME MinRetryAssumption == MinRetry \in Nat \ {0}
ASSUME DelayAssumption    == DebounceDelay \in Nat
ASSUME BudgetAssumption   == FlushBudget \in Nat

VARIABLES
    queues,          \* the waiting jobs of each level, level 0 served first
    pending,         \* the debounce table, in the insertion order of the Map
    running,         \* the job drain is awaiting; None iff draining is false
    passAt,          \* the level the drain loop has reached
    drainScheduled,  \* a drain microtask is queued
    retryIn,         \* time left on the retry timer, None when not armed
    age,             \* per job, time since it started; Window = none in window
    flush,           \* where flush and the shutdown that awaits it stand
    flushLeft,       \* time until the deadline of flush
    accepted,        \* history: every job handed to enqueue or debounce
    settled,         \* history: jobs whose run() resolved or rejected
    superseded,      \* history: jobs coalesced away by a later debounce
    promised         \* history: what was accepted when flush returned true

vars == <<queues, pending, running, passAt, drainScheduled, retryIn, age,
          flush, flushLeft, accepted, settled, superseded, promised>>

history == <<settled, superseded, promised>>

Levels  == 0 .. Lowest
Entry   == [key : Keys, job : Jobs, priority : Levels, due : 0 .. DebounceDelay]
Stages  == {"off", "awaiting", "resumed", "sleeping", "flushed", "gaveUp", "exited"}

TypeOK ==
    /\ queues \in [Levels -> Seq(Jobs)]
    /\ pending \in Seq(Entry)
    /\ running \in Jobs \cup {None}
    /\ passAt \in Levels
    /\ drainScheduled \in BOOLEAN
    /\ retryIn \in Nat \cup {None}
    /\ age \in [Jobs -> 0 .. Window]
    /\ flush \in Stages
    /\ flushLeft \in 0 .. FlushBudget
    /\ accepted \subseteq Jobs
    /\ settled \subseteq Jobs
    /\ superseded \subseteq Jobs
    /\ promised \subseteq Jobs

Init ==
    /\ queues = [p \in Levels |-> <<>>]
    /\ pending = <<>>
    /\ running = None
    /\ passAt = 0
    /\ drainScheduled = FALSE
    /\ retryIn = None
    /\ age = [j \in Jobs |-> Window]
    /\ flush = "off"
    /\ flushLeft = 0
    /\ accepted = {}
    /\ settled = {}
    /\ superseded = {}
    /\ promised = {}

Alive == flush # "exited"

-----------------------------------------------------------------------------
(* What the queues and the table hold.                                     *)

Loaded(q, from) == {p \in Levels : p >= from /\ q[p] # <<>>}
Queued          == UNION {Range(queues[p]) : p \in Levels}
Pending         == {pending[i].job : i \in DOMAIN pending}

(* Mutant: the debounce table left out of the count.                       *)
QueuesEmpty(q, held) == Loaded(q, 0) = {}

(* queued() = 0: it counts the queues and the table, not the running job.  *)
NothingQueued(q, held) == Loaded(q, 0) = {} /\ held = <<>>

-----------------------------------------------------------------------------
(* The sliding window.  The code filters its timestamps by age on every    *)
(* look; here a timestamp that has left the window has age Window.         *)

InWindow == {j \in Jobs : age[j] < Window}

(* Mutant: the ceiling tested with > instead of >=.                        *)
ThrottledLate == Cardinality(InWindow) > Ceiling

Throttled == Cardinality(InWindow) >= Ceiling

(* timestamps[0] is the oldest stamp left in the window.                   *)
OldestAge(a) == /\ \E j \in InWindow : age[j] = a
                /\ \A j \in InWindow : age[j] <= a

AtLeast(n, floor) == IF n >= floor THEN n ELSE floor

(* Mutant: no timer is armed.                                              *)
ScheduleNoRetry(retry) == retryIn' = retry

(* scheduleRetry; retry is the timer as the caller left it.  One already   *)
(* armed is left alone.                                                    *)
ScheduleRetry(retry) ==
    \/ retry # None /\ retryIn' = retry
    \/ /\ retry = None
       /\ \E a \in 0 .. Window :
             /\ OldestAge(a)
             /\ retryIn' = AtLeast(Window - a, MinRetry)

-----------------------------------------------------------------------------
(* The drain loop, from one await to the next.  q is the queues, sched the *)
(* pending microtask and retry the retry timer as the caller left them,    *)
(* from the level the loop is at.                                          *)

FirstLoaded(q, from, p) ==
    /\ p \in Loaded(q, from)
    /\ \A r \in Loaded(q, from) : p <= r

StartJob(q, p, sched, retry) ==
    /\ ~Throttled
    /\ running' = Head(q[p])
    /\ queues' = [q EXCEPT ![p] = Tail(@)]
    /\ passAt' = p
    /\ age' = [age EXCEPT ![Head(q[p])] = 0]
    /\ drainScheduled' = sched
    /\ retryIn' = retry

(* Mutant: the throttled pass reschedules like one that ran out of levels. *)
StopThrottledAndReschedule(q, sched, retry) ==
    /\ Throttled
    /\ ScheduleRetry(retry)
    /\ running' = None
    /\ passAt' = 0
    /\ queues' = q
    /\ drainScheduled' = TRUE
    /\ UNCHANGED age

(* The throttled pass ends without rescheduling: the retry timer will.     *)
StopThrottled(q, sched, retry) ==
    /\ Throttled
    /\ ScheduleRetry(retry)
    /\ running' = None
    /\ passAt' = 0
    /\ queues' = q
    /\ drainScheduled' = sched
    /\ UNCHANGED age

(* Mutant: the pass does not look at the queues again when it ends.        *)
PassOverBlind(q, sched, retry) ==
    /\ running' = None
    /\ passAt' = 0
    /\ queues' = q
    /\ drainScheduled' = sched
    /\ retryIn' = retry
    /\ UNCHANGED age

(* The pass that ran out of levels looks at every queue once more and      *)
(* schedules another pass for what arrived behind it.                      *)
PassOver(q, sched, retry) ==
    /\ running' = None
    /\ passAt' = 0
    /\ queues' = q
    /\ drainScheduled' = (sched \/ Loaded(q, 0) # {})
    /\ retryIn' = retry
    /\ UNCHANGED age

Advance(q, from, sched, retry) ==
    \/ /\ Loaded(q, from) = {}
       /\ PassOver(q, sched, retry)
    \/ \E p \in Levels :
          /\ FirstLoaded(q, from, p)
          /\ \/ StartJob(q, p, sched, retry)
             \/ StopThrottled(q, sched, retry)

(* Mutant: the draining flag is not looked at.                             *)
DrainAgain(q, sched, retry) == Advance(q, 0, sched, retry)

(* drain() while another pass is in flight returns at once.                *)
Drain(q, sched, retry) ==
    \/ /\ running = None
       /\ Advance(q, 0, sched, retry)
    \/ /\ running # None
       /\ queues' = q
       /\ drainScheduled' = sched
       /\ retryIn' = retry
       /\ UNCHANGED <<running, passAt, age>>

-----------------------------------------------------------------------------
(* Submitting work.  Nothing stops a caller during the flush: the gateway  *)
(* client is destroyed only after it, and handlers already in flight may   *)
(* submit even later.                                                      *)

Enqueue(p, j) ==
    /\ Alive
    /\ j \notin accepted
    /\ accepted' = accepted \cup {j}
    /\ queues' = [queues EXCEPT ![p] = Append(@, j)]
    /\ drainScheduled' = TRUE
    /\ UNCHANGED <<pending, running, passAt, retryIn, age, flush, flushLeft, history>>

Indices(k) == {i \in DOMAIN pending : pending[i].key = k}

(* Mutant: the job already held is kept and the new one dropped.           *)
DebounceKeepingFirst(p, k, j) ==
    /\ Alive
    /\ j \notin accepted
    /\ accepted' = accepted \cup {j}
    /\ IF Indices(k) = {}
       THEN /\ pending' = Append(pending, [key |-> k, job |-> j, priority |-> p,
                                           due |-> DebounceDelay])
            /\ UNCHANGED superseded
       ELSE /\ superseded' = superseded \cup {j}
            /\ UNCHANGED pending
    /\ UNCHANGED <<queues, running, passAt, drainScheduled, retryIn, age,
                   flush, flushLeft, settled, promised>>

(* A new key is appended; a known one keeps its place, and its new timer   *)
(* replaces the old one together with the job that timer held.             *)
Debounce(p, k, j) ==
    /\ Alive
    /\ j \notin accepted
    /\ accepted' = accepted \cup {j}
    /\ LET entry == [key |-> k, job |-> j, priority |-> p, due |-> DebounceDelay]
       IN \/ /\ Indices(k) = {}
             /\ pending' = Append(pending, entry)
             /\ UNCHANGED superseded
          \/ \E i \in Indices(k) :
                /\ pending' = [pending EXCEPT ![i] = entry]
                /\ superseded' = superseded \cup {pending[i].job}
    /\ UNCHANGED <<queues, running, passAt, drainScheduled, retryIn, age,
                   flush, flushLeft, settled, promised>>

-----------------------------------------------------------------------------
(* Microtasks and timers.                                                  *)

DrainMicrotask ==
    /\ Alive
    /\ drainScheduled
    /\ Drain(queues, FALSE, retryIn)
    /\ UNCHANGED <<pending, flush, flushLeft, accepted, history>>

RetryFire ==
    /\ Alive
    /\ ~drainScheduled
    /\ retryIn = 0
    /\ Drain(queues, FALSE, None)
    /\ UNCHANGED <<pending, flush, flushLeft, accepted, history>>

DebounceFire(i) ==
    /\ Alive
    /\ ~drainScheduled
    /\ pending[i].due = 0
    /\ pending' = RemoveAt(pending, i)
    /\ queues' = [queues EXCEPT ![pending[i].priority] = Append(@, pending[i].job)]
    /\ drainScheduled' = TRUE
    /\ UNCHANGED <<running, passAt, retryIn, age, flush, flushLeft, accepted, history>>

(* Mutant: a flush resumes only if nothing is left to schedule.            *)
PassAwaitedToTheEnd == IF flush = "awaiting" /\ running' = None /\ ~drainScheduled'
                       THEN "resumed" ELSE flush

(* A flush that awaits the pass resumes with its end.                      *)
PassAwaited == IF flush = "awaiting" /\ running' = None THEN "resumed" ELSE flush

(* run() resolves or rejects, which the loop treats alike, and the loop    *)
(* goes on at its level.                                                   *)
JobFinish ==
    /\ Alive
    /\ running # None
    /\ settled' = settled \cup {running}
    /\ Advance(queues, passAt, drainScheduled, retryIn)
    /\ flush' = PassAwaited
    /\ UNCHANGED <<pending, flushLeft, accepted, superseded, promised>>

Older(n) == IF n = None \/ n = 0 THEN n ELSE n - 1

Tick ==
    /\ Alive
    /\ age' = [j \in Jobs |-> IF age[j] < Window THEN age[j] + 1 ELSE Window]
    /\ retryIn' = Older(retryIn)
    /\ pending' = [i \in DOMAIN pending |-> [pending[i] EXCEPT !.due = Older(@)]]
    /\ flushLeft' = Older(flushLeft)
    /\ UNCHANGED <<queues, running, passAt, drainScheduled, flush, accepted, history>>

-----------------------------------------------------------------------------
(* flush(), as the shutdown handler calls it, and the exit behind it.      *)

(* flush returns queued() === 0.                                           *)
FlushReturn(held) ==
    \/ /\ NothingQueued(queues', held)
       /\ flush' = "flushed"
       /\ promised' = accepted
    \/ /\ ~NothingQueued(queues', held)
       /\ flush' = "gaveUp"
       /\ UNCHANGED promised

(* The loop test, then drain().  Its promise is settled when it returns at *)
(* once or its pass ends before the first await.                           *)
FlushLoop(q, held, sched, left) ==
    \/ /\ NothingQueued(q, held) \/ left = 0
       /\ queues' = q
       /\ drainScheduled' = sched
       /\ FlushReturn(held)
       /\ UNCHANGED <<running, passAt, age, retryIn>>
    \/ /\ ~NothingQueued(q, held) /\ left > 0
       /\ Drain(q, sched, retryIn)
       /\ flush' = IF running = None /\ running' # None THEN "awaiting" ELSE "resumed"
       /\ UNCHANGED promised

(* Every debounced job is enqueued at the lowest level, at once.           *)
FlushStart ==
    /\ flush = "off"
    /\ flushLeft' = FlushBudget
    /\ pending' = <<>>
    /\ FlushLoop([queues EXCEPT ![Lowest] = @ \o [i \in DOMAIN pending |-> pending[i].job]],
                 <<>>, drainScheduled \/ pending # <<>>, FlushBudget)
    /\ UNCHANGED <<accepted, settled, superseded>>

(* After drain: return if nothing is queued, else sleep for 50 ms.         *)
FlushResume ==
    /\ flush = "resumed"
    /\ \/ /\ NothingQueued(queues, pending)
          /\ flush' = "flushed"
          /\ promised' = accepted
       \/ /\ ~NothingQueued(queues, pending)
          /\ flush' = "sleeping"
          /\ UNCHANGED promised
    /\ UNCHANGED <<queues, pending, running, passAt, drainScheduled, retryIn, age,
                   flushLeft, accepted, settled, superseded>>

FlushWake ==
    /\ flush = "sleeping"
    /\ ~drainScheduled
    /\ FlushLoop(queues, pending, drainScheduled, flushLeft)
    /\ UNCHANGED <<pending, flushLeft, accepted, settled, superseded>>

(* process.exit(0): whatever is not settled by now never will be.          *)
Exit ==
    /\ flush \in {"flushed", "gaveUp"}
    /\ flush' = "exited"
    /\ UNCHANGED <<queues, pending, running, passAt, drainScheduled, retryIn, age,
                   flushLeft, accepted, history>>

-----------------------------------------------------------------------------

Submit == \E j \in Jobs, p \in Levels :
              Enqueue(p, j) \/ \E k \in Keys : Debounce(p, k, j)

Timers == RetryFire \/ \E i \in DOMAIN pending : DebounceFire(i)

Shutdown == FlushStart \/ FlushResume \/ FlushWake \/ Exit

Next == Submit \/ DrainMicrotask \/ Timers \/ JobFinish \/ Tick \/ Shutdown

(* The event loop runs every microtask and every timer that is due, time   *)
(* passes and a job's promise settles.  Nobody has to submit or shut down. *)
Fairness ==
    /\ WF_vars(DrainMicrotask)
    /\ WF_vars(RetryFire)
    /\ WF_vars(\E i \in DOMAIN pending : DebounceFire(i))
    /\ WF_vars(JobFinish)
    /\ WF_vars(Tick)
    /\ WF_vars(FlushResume)
    /\ WF_vars(FlushWake)
    /\ WF_vars(Exit)

Spec == Init /\ [][Next]_vars /\ Fairness

-----------------------------------------------------------------------------
(* Properties                                                              *)

(* A queued job always has something that will drain it: the pass in       *)
(* flight, a scheduled microtask or the retry timer.  (The tail of a burst *)
(* once waited for the next arrival: the comment in drain's finally.)      *)
NoLostWakeup ==
    Alive /\ Loaded(queues, 0) # {} =>
        running # None \/ drainScheduled \/ retryIn # None

(* The gateway ceiling: in no window do more than Ceiling jobs start.      *)
CeilingRespected == Cardinality(InWindow) <= Ceiling

(* A pass that starts nothing does not schedule the next one: a throttled  *)
(* pipeline waits for its timer and does not spin on microtasks against a  *)
(* clock that has not moved.                                               *)
NoMicrotaskSpin ==
    [][DrainMicrotask /\ running' = None => ~drainScheduled']_vars

(* When flush has returned true, at most one job it had accepted is not    *)
(* settled yet: the one that was in flight.                                *)
FlushLosesAtMostOne ==
    Cardinality(promised \ (settled \cup superseded)) <= 1

(* Every accepted job is eventually run, or replaced, or the process has   *)
(* been shut down: no job is deferred for ever by the ceiling.             *)
EveryJobSettles ==
    \A j \in Jobs : j \in accepted ~> j \in settled \cup superseded \/ ~Alive

(* A flush that was started returns and the process exits, whatever the    *)
(* window and the retry timer are doing.                                   *)
ShutdownEnds == flush # "off" ~> ~Alive

-----------------------------------------------------------------------------
(* The pipeline implements rate-limited delivery: the waiting jobs are the *)
(* ones in the queues and in the debounce table.                           *)
Delivery == INSTANCE RateLimitedDelivery WITH
                waiting  <- Queued \cup Pending,
                active   <- running,
                finished <- settled,
                replaced <- superseded

DeliversAtTheCeiling == Delivery!Spec
=============================================================================
