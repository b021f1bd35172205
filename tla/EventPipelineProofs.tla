------------------------- MODULE EventPipelineProofs -------------------------
(***************************************************************************)
(* Theorems about EventPipeline, for every number of jobs, levels and      *)
(* ticks.  The module extends Dispatch, whose steps are the pipeline's, so *)
(* that they can be cited of MCEvents.                                     *)
(***************************************************************************)
EXTENDS Dispatch, SequenceTheorems, FiniteSetTheorems, TLAPS

-----------------------------------------------------------------------------
(* The part of TypeOK that the drain loop writes.                          *)
LoopOK ==
    /\ queues \in [Levels -> Seq(Jobs)]
    /\ running \in Jobs \cup {None}
    /\ passAt \in Levels
    /\ drainScheduled \in BOOLEAN
    /\ retryIn \in Nat \cup {None}
    /\ age \in [Jobs -> 0 .. Window]

(* An armed or newly armed retry timer holds a number.                     *)
LEMMA ScheduleRetryArms ==
    ASSUME NEW retry \in Nat \cup {None}, ScheduleRetry(retry)
    PROVE  retryIn' \in Nat
<1>1. CASE retry # None
  BY <1>1 DEF ScheduleRetry
<1>2. CASE retry = None
  BY <1>2, WindowAssumption, MinRetryAssumption DEF ScheduleRetry, AtLeast
<1>3. QED
  BY <1>1, <1>2

(* Whatever the loop does between two awaits, its variables keep their     *)
(* types and a non-empty queue keeps something that will drain it.         *)
LEMMA AdvanceIsSafe ==
    ASSUME LoopOK,
           NEW q \in [Levels -> Seq(Jobs)],
           NEW from \in Levels,
           NEW sched \in BOOLEAN,
           NEW retry \in Nat \cup {None},
           Advance(q, from, sched, retry)
    PROVE  LoopOK' /\ NoLostWakeup'
<1>1. 0 \in Levels
  BY LowestAssumption DEF Levels
<1>2. CASE Loaded(q, from) = {} /\ PassOver(q, sched, retry)
  <2>1. LoopOK'
    BY <1>1, <1>2 DEF LoopOK, PassOver, Levels
  <2>2. Loaded(queues', 0) # {} => drainScheduled'
    BY <1>2 DEF PassOver
  <2>3. QED
    BY <2>1, <2>2 DEF NoLostWakeup, Loaded
<1>3. ASSUME NEW p \in Levels, FirstLoaded(q, from, p), StartJob(q, p, sched, retry)
      PROVE  LoopOK' /\ NoLostWakeup'
  <2>1. q[p] \in Seq(Jobs) /\ q[p] # <<>>
    BY <1>3 DEF FirstLoaded, Loaded
  <2>2. Head(q[p]) \in Jobs /\ Tail(q[p]) \in Seq(Jobs)
    BY <2>1
  <2>3. LoopOK'
    BY <1>3, <2>2, WindowAssumption DEF LoopOK, StartJob
  <2>4. running' # None
    BY <1>3, <2>2, NoneAssumption DEF StartJob
  <2>5. QED
    BY <2>3, <2>4 DEF NoLostWakeup
<1>4. CASE StopThrottled(q, sched, retry)
  <2>1. retryIn' \in Nat
    BY <1>4, ScheduleRetryArms DEF StopThrottled
  <2>2. LoopOK'
    BY <1>1, <1>4, <2>1 DEF LoopOK, StopThrottled
  <2>3. QED
    BY <2>1, <2>2, NoneAssumption DEF NoLostWakeup
<1>5. QED
  BY <1>2, <1>3, <1>4 DEF Advance

(* The same of a call of drain.                                            *)
LEMMA DrainIsSafe ==
    ASSUME LoopOK,
           NEW q \in [Levels -> Seq(Jobs)],
           NEW sched \in BOOLEAN,
           NEW retry \in Nat \cup {None},
           Drain(q, sched, retry)
    PROVE  LoopOK' /\ NoLostWakeup'
<1>1. CASE running = None /\ Advance(q, 0, sched, retry)
  BY <1>1, AdvanceIsSafe, LowestAssumption DEF Levels
<1>2. CASE running # None /\ ~(running = None /\ Advance(q, 0, sched, retry))
  BY <1>2 DEF Drain, LoopOK, NoLostWakeup
<1>3. QED
  BY <1>1, <1>2 DEF Drain

-----------------------------------------------------------------------------

(* The invariant: it is inductive as it stands.                            *)
WakeInv == TypeOK /\ NoLostWakeup

LEMMA InitWakeInv == Init => WakeInv
<1> SUFFICES ASSUME Init PROVE WakeInv
  OBVIOUS
<1>1. TypeOK
  BY LowestAssumption, WindowAssumption, BudgetAssumption
  DEF Init, TypeOK, Levels, Stages
<1>2. NoLostWakeup
  BY DEF Init, NoLostWakeup, Loaded
<1>3. QED
  BY <1>1, <1>2 DEF WakeInv

LEMMA EnqueueWakeInv ==
    ASSUME WakeInv, NEW p \in Levels, NEW j \in Jobs, Enqueue(p, j)
    PROVE  WakeInv'
<1>1. TypeOK'
  BY DEF WakeInv, TypeOK, Enqueue, history
<1>2. NoLostWakeup'
  BY DEF NoLostWakeup, Enqueue
<1>3. QED
  BY <1>1, <1>2 DEF WakeInv

LEMMA DebounceWakeInv ==
    ASSUME WakeInv, NEW p \in Levels, NEW k \in Keys, NEW j \in Jobs, Debounce(p, k, j)
    PROVE  WakeInv'
<1> DEFINE entry == [key |-> k, job |-> j, priority |-> p, due |-> DebounceDelay]
<1>1. entry \in Entry
  BY DelayAssumption DEF Entry
<1>2. pending' \in Seq(Entry) /\ superseded' \subseteq Jobs
  <2>1. CASE pending' = Append(pending, entry) /\ UNCHANGED superseded
    BY <1>1, <2>1 DEF WakeInv, TypeOK
  <2>2. ASSUME NEW i \in Indices(k),
               pending' = [pending EXCEPT ![i] = entry],
               superseded' = superseded \cup {pending[i].job}
        PROVE  pending' \in Seq(Entry) /\ superseded' \subseteq Jobs
    <3>1. pending[i] \in Entry
      BY <2>2 DEF WakeInv, TypeOK, Indices
    <3>2. pending[i].job \in Jobs
      BY <3>1 DEF Entry
    <3>3. pending' \in Seq(Entry)
      BY <1>1, <2>2, ExceptSeq DEF WakeInv, TypeOK, Indices
    <3>4. QED
      BY <2>2, <3>2, <3>3 DEF WakeInv, TypeOK
  <2>3. QED
    BY <2>1, <2>2 DEF Debounce
<1>3. TypeOK'
  BY <1>2 DEF WakeInv, TypeOK, Debounce
<1>4. NoLostWakeup'
  BY DEF WakeInv, NoLostWakeup, Debounce, Loaded, Alive
<1>5. QED
  BY <1>3, <1>4 DEF WakeInv

(* Removing an entry leaves a sequence of entries.                         *)
LEMMA RemoveAtType ==
    ASSUME NEW S, NEW s \in Seq(S), NEW i \in DOMAIN s
    PROVE  RemoveAt(s, i) \in Seq(S)
<1>1. SubSeq(s, 1, i-1) \in Seq(S) /\ SubSeq(s, i+1, Len(s)) \in Seq(S)
  OBVIOUS
<1>2. QED
  BY <1>1 DEF RemoveAt

LEMMA DebounceFireWakeInv ==
    ASSUME WakeInv, NEW i \in DOMAIN pending, DebounceFire(i)
    PROVE  WakeInv'
<1>1. pending[i] \in Entry
  BY DEF WakeInv, TypeOK
<1>2. pending[i].job \in Jobs /\ pending[i].priority \in Levels
  BY <1>1 DEF Entry
<1>3. pending' \in Seq(Entry)
  BY RemoveAtType DEF WakeInv, TypeOK, DebounceFire
<1>4. queues' \in [Levels -> Seq(Jobs)]
  BY <1>2 DEF WakeInv, TypeOK, DebounceFire
<1>5. TypeOK'
  BY <1>3, <1>4 DEF WakeInv, TypeOK, DebounceFire, history
<1>6. NoLostWakeup'
  BY DEF NoLostWakeup, DebounceFire
<1>7. QED
  BY <1>5, <1>6 DEF WakeInv

LEMMA DrainMicrotaskWakeInv ==
    ASSUME WakeInv, DrainMicrotask
    PROVE  WakeInv'
<1>1. LoopOK
  BY DEF WakeInv, TypeOK, LoopOK
<1>2. LoopOK' /\ NoLostWakeup'
  BY <1>1, DrainIsSafe DEF DrainMicrotask, LoopOK
<1>3. TypeOK'
  BY <1>2 DEF WakeInv, TypeOK, LoopOK, DrainMicrotask, history
<1>4. QED
  BY <1>2, <1>3 DEF WakeInv

LEMMA RetryFireWakeInv ==
    ASSUME WakeInv, RetryFire
    PROVE  WakeInv'
<1>1. LoopOK
  BY DEF WakeInv, TypeOK, LoopOK
<1>2. LoopOK' /\ NoLostWakeup'
  BY <1>1, DrainIsSafe DEF RetryFire, LoopOK
<1>3. TypeOK'
  BY <1>2 DEF WakeInv, TypeOK, LoopOK, RetryFire, history
<1>4. QED
  BY <1>2, <1>3 DEF WakeInv

LEMMA JobFinishWakeInv ==
    ASSUME WakeInv, JobFinish
    PROVE  WakeInv'
<1>1. LoopOK
  BY DEF WakeInv, TypeOK, LoopOK
<1>2. LoopOK' /\ NoLostWakeup'
  BY <1>1, AdvanceIsSafe DEF JobFinish, LoopOK
<1>3. flush' \in Stages /\ settled' \subseteq Jobs
  BY DEF WakeInv, TypeOK, JobFinish, PassAwaited, Stages
<1>4. TypeOK'
  BY <1>2, <1>3 DEF WakeInv, TypeOK, LoopOK, JobFinish
<1>5. QED
  BY <1>2, <1>4 DEF WakeInv

LEMMA TickWakeInv ==
    ASSUME WakeInv, Tick
    PROVE  WakeInv'
<1>1. \A n \in Nat \cup {None} : Older(n) \in Nat \cup {None} /\ (n # None => Older(n) # None)
  BY NoneAssumption DEF Older
<1>2. retryIn' \in Nat \cup {None} /\ (retryIn # None => retryIn' # None)
  BY <1>1 DEF WakeInv, TypeOK, Tick
<1>3. \A m \in Nat : \A n \in 0 .. m : Older(n) \in 0 .. m
  BY NoneAssumption DEF Older
<1>4. pending' \in Seq(Entry)
  <2>1. \A e \in Entry : [e EXCEPT !.due = Older(e.due)] \in Entry
    BY <1>3, DelayAssumption DEF Entry
  <2>2. \A i \in 1 .. Len(pending) : pending[i] \in Entry
    BY DEF WakeInv, TypeOK
  <2>3. \A i \in 1 .. Len(pending) : [pending[i] EXCEPT !.due = Older(@)] \in Entry
    BY <2>1, <2>2
  <2>4. Len(pending) \in Nat /\ DOMAIN pending = 1 .. Len(pending)
    BY DEF WakeInv, TypeOK
  <2>5. QED
    BY <2>3, <2>4, IsASeq DEF Tick
<1>5. flushLeft' \in 0 .. FlushBudget
  BY <1>3, BudgetAssumption DEF WakeInv, TypeOK, Tick
<1>6. age' \in [Jobs -> 0 .. Window]
  BY WindowAssumption DEF WakeInv, TypeOK, Tick
<1>7. TypeOK'
  BY <1>2, <1>4, <1>5, <1>6 DEF WakeInv, TypeOK, Tick, history
<1>8. NoLostWakeup'
  BY <1>2 DEF WakeInv, NoLostWakeup, Tick, Loaded, Alive
<1>9. QED
  BY <1>7, <1>8 DEF WakeInv

(* One round of the flush loop, over the queues and the table it is given. *)
LEMMA FlushLoopIsSafe ==
    ASSUME LoopOK, accepted \subseteq Jobs, promised \subseteq Jobs,
           NEW q \in [Levels -> Seq(Jobs)], NEW held, NEW sched \in BOOLEAN, NEW left,
           Loaded(q, 0) # {} => running # None \/ sched \/ retryIn # None,
           FlushLoop(q, held, sched, left)
    PROVE  LoopOK' /\ NoLostWakeup' /\ flush' \in Stages /\ promised' \subseteq Jobs
<1>1. CASE /\ NothingQueued(q, held) \/ left = 0
           /\ queues' = q
           /\ drainScheduled' = sched
           /\ FlushReturn(held)
           /\ UNCHANGED <<running, passAt, age, retryIn>>
  <2>1. LoopOK' /\ NoLostWakeup'
    BY <1>1 DEF LoopOK, NoLostWakeup, Loaded
  <2>2. flush' \in Stages /\ promised' \subseteq Jobs
    BY <1>1 DEF FlushReturn, Stages
  <2>3. QED
    BY <2>1, <2>2
<1>2. CASE /\ ~NothingQueued(q, held) /\ left > 0
           /\ Drain(q, sched, retryIn)
           /\ flush' = IF running = None /\ running' # None THEN "awaiting" ELSE "resumed"
           /\ UNCHANGED promised
  <2>1. LoopOK' /\ NoLostWakeup'
    BY <1>2, DrainIsSafe DEF LoopOK
  <2>2. flush' \in Stages /\ promised' \subseteq Jobs
    BY <1>2 DEF Stages
  <2>3. QED
    BY <2>1, <2>2
<1>3. QED
  BY <1>1, <1>2 DEF FlushLoop

LEMMA FlushStartWakeInv ==
    ASSUME WakeInv, FlushStart
    PROVE  WakeInv'
<1> DEFINE moved == [i \in DOMAIN pending |-> pending[i].job]
           q     == [queues EXCEPT ![Lowest] = @ \o moved]
<1>1. Lowest \in Levels
  BY LowestAssumption DEF Levels
<1>2. moved \in Seq(Jobs)
  <2>1. Len(pending) \in Nat /\ DOMAIN pending = 1 .. Len(pending)
    BY DEF WakeInv, TypeOK
  <2>2. \A i \in 1 .. Len(pending) : pending[i] \in Entry
    BY DEF WakeInv, TypeOK
  <2>3. \A e \in Entry : e.job \in Jobs
    BY DEF Entry
  <2>4. \A i \in 1 .. Len(pending) : pending[i].job \in Jobs
    BY <2>2, <2>3
  <2>5. QED
    BY <2>1, <2>4, IsASeq
<1>3. queues[Lowest] \o moved \in Seq(Jobs)
  BY <1>1, <1>2, ConcatProperties DEF WakeInv, TypeOK
<1>4. q \in [Levels -> Seq(Jobs)]
  BY <1>1, <1>3 DEF WakeInv, TypeOK
<1>5. Loaded(q, 0) # {} => running # None \/ (drainScheduled \/ pending # <<>>) \/ retryIn # None
  <2>1. CASE pending = <<>>
    <3>1. moved = <<>>
      BY <2>1
    <3>2. queues[Lowest] \o moved = queues[Lowest]
      BY <1>1, <3>1, ConcatEmptySeq DEF WakeInv, TypeOK
    <3>3. q = queues
      BY <1>1, <3>2 DEF WakeInv, TypeOK
    <3>4. QED
      BY <3>3 DEF WakeInv, NoLostWakeup, Alive, FlushStart
  <2>2. CASE pending # <<>>
    BY <2>2
  <2>3. QED
    BY <2>1, <2>2
<1>6. LoopOK' /\ NoLostWakeup' /\ flush' \in Stages /\ promised' \subseteq Jobs
  <2>1. LoopOK /\ accepted \subseteq Jobs /\ promised \subseteq Jobs
    BY DEF WakeInv, TypeOK, LoopOK
  <2>2. FlushLoop(q, <<>>, drainScheduled \/ pending # <<>>, FlushBudget)
    BY DEF FlushStart
  <2>3. (drainScheduled \/ pending # <<>>) \in BOOLEAN
    BY <2>1 DEF LoopOK
  <2> HIDE DEF q, moved
  <2>4. QED
    BY <1>4, <1>5, <2>1, <2>2, <2>3, FlushLoopIsSafe
<1>7. TypeOK'
  BY <1>6, BudgetAssumption DEF WakeInv, TypeOK, LoopOK, FlushStart
<1>8. QED
  BY <1>6, <1>7 DEF WakeInv

LEMMA FlushWakeWakeInv ==
    ASSUME WakeInv, FlushWake
    PROVE  WakeInv'
<1>1. LoopOK /\ accepted \subseteq Jobs /\ promised \subseteq Jobs
  BY DEF WakeInv, TypeOK, LoopOK
<1>2. Loaded(queues, 0) # {} => running # None \/ drainScheduled \/ retryIn # None
  BY DEF WakeInv, NoLostWakeup, Alive, FlushWake
<1>3. LoopOK' /\ NoLostWakeup' /\ flush' \in Stages /\ promised' \subseteq Jobs
  BY <1>1, <1>2, FlushLoopIsSafe DEF FlushWake, LoopOK
<1>4. TypeOK'
  BY <1>3 DEF WakeInv, TypeOK, LoopOK, FlushWake
<1>5. QED
  BY <1>3, <1>4 DEF WakeInv

LEMMA FlushResumeWakeInv ==
    ASSUME WakeInv, FlushResume
    PROVE  WakeInv'
<1>1. TypeOK'
  BY DEF WakeInv, TypeOK, FlushResume, Stages
<1>2. NoLostWakeup'
  BY DEF WakeInv, NoLostWakeup, Alive, Loaded, FlushResume
<1>3. QED
  BY <1>1, <1>2 DEF WakeInv

LEMMA ExitWakeInv ==
    ASSUME WakeInv, Exit
    PROVE  WakeInv'
<1>1. TypeOK'
  BY DEF WakeInv, TypeOK, Exit, Stages, history
<1>2. NoLostWakeup'
  BY DEF NoLostWakeup, Alive, Exit
<1>3. QED
  BY <1>1, <1>2 DEF WakeInv

(* Every action preserves the invariant.                                   *)
LEMMA NextWakeInv == WakeInv /\ [Next]_vars => WakeInv'
<1> SUFFICES ASSUME WakeInv, [Next]_vars PROVE WakeInv'
  OBVIOUS
<1>1. CASE Submit
  BY <1>1, EnqueueWakeInv, DebounceWakeInv DEF Submit
<1>2. CASE DrainMicrotask
  BY <1>2, DrainMicrotaskWakeInv
<1>3. CASE Timers
  BY <1>3, RetryFireWakeInv, DebounceFireWakeInv DEF Timers
<1>4. CASE JobFinish
  BY <1>4, JobFinishWakeInv
<1>5. CASE Tick
  BY <1>5, TickWakeInv
<1>6. CASE Shutdown
  BY <1>6, FlushStartWakeInv, FlushResumeWakeInv, FlushWakeWakeInv, ExitWakeInv DEF Shutdown
<1>7. CASE UNCHANGED vars
  BY <1>7 DEF WakeInv, TypeOK, NoLostWakeup, Loaded, Alive, vars, history
<1>8. QED
  BY <1>1, <1>2, <1>3, <1>4, <1>5, <1>6, <1>7 DEF Next

(* The pipeline's variables keep their types.                              *)
THEOREM PipelineTypes == Spec => []TypeOK
<1>1. WakeInv => TypeOK
  BY DEF WakeInv
<1>2. QED
  BY <1>1, InitWakeInv, NextWakeInv, PTL DEF Spec

(* A queued job always has a pass, a microtask or a timer that will drain  *)
(* it: enqueue, drain, its throttled exit and flush leave none behind.     *)
THEOREM NoWakeupIsLost == Spec => []NoLostWakeup
<1>1. WakeInv => NoLostWakeup
  BY DEF WakeInv
<1>2. QED
  BY <1>1, InitWakeInv, NextWakeInv, PTL DEF Spec

-----------------------------------------------------------------------------
(* The ceiling.                                                            *)

CeilingInv == IsFiniteSet(InWindow) /\ CeilingRespected

(* No time passes in a step of the loop: it leaves the timestamps alone or *)
(* adds one, and adds one only below the ceiling.                          *)
StampedBelowCeiling ==
    \/ age' = age
    \/ ~Throttled /\ \E h : age' = [age EXCEPT ![h] = 0]

LEMMA AdvanceStamps ==
    ASSUME NEW q, NEW from, NEW sched, NEW retry, Advance(q, from, sched, retry)
    PROVE  StampedBelowCeiling
BY DEF Advance, PassOver, StartJob, StopThrottled, StampedBelowCeiling

LEMMA DrainStamps ==
    ASSUME NEW q, NEW sched, NEW retry, Drain(q, sched, retry)
    PROVE  StampedBelowCeiling
BY AdvanceStamps DEF Drain, StampedBelowCeiling

LEMMA FlushLoopStamps ==
    ASSUME NEW q, NEW held, NEW sched, NEW left, FlushLoop(q, held, sched, left)
    PROVE  StampedBelowCeiling
BY DrainStamps DEF FlushLoop, StampedBelowCeiling

(* A job stamped below the ceiling adds at most one to the window.         *)
LEMMA StampKeepsCeiling ==
    ASSUME TypeOK, CeilingInv, StampedBelowCeiling
    PROVE  CeilingInv'
<1>1. CASE age' = age
  BY <1>1 DEF CeilingInv, CeilingRespected, InWindow
<1>2. ASSUME ~Throttled, NEW h, age' = [age EXCEPT ![h] = 0]
      PROVE  CeilingInv'
  <2>1. InWindow' \subseteq InWindow \cup {h}
    BY <1>2 DEF InWindow, TypeOK
  <2>2. /\ IsFiniteSet(InWindow \cup {h})
        /\ Cardinality(InWindow \cup {h}) <= Cardinality(InWindow) + 1
    <3>1. IsFiniteSet(InWindow) /\ Cardinality(InWindow) \in Nat
      BY FS_CardinalityType DEF CeilingInv
    <3>2. /\ IsFiniteSet(InWindow \cup {h})
          /\ \/ Cardinality(InWindow \cup {h}) = Cardinality(InWindow)
             \/ Cardinality(InWindow \cup {h}) = Cardinality(InWindow) + 1
      BY <3>1, FS_AddElement
    <3>3. QED
      BY <3>1, <3>2
  <2>3. IsFiniteSet(InWindow') /\ Cardinality(InWindow') <= Cardinality(InWindow \cup {h})
    BY <2>1, <2>2, FS_Subset
  <2>4. Cardinality(InWindow) + 1 <= Ceiling
    BY <1>2, FS_CardinalityType, CeilingAssumption DEF CeilingInv, Throttled
  <2>5. /\ Cardinality(InWindow) \in Nat
        /\ Cardinality(InWindow') \in Nat
        /\ Cardinality(InWindow \cup {h}) \in Nat
    BY <2>2, <2>3, FS_CardinalityType DEF CeilingInv
  <2>6. Cardinality(InWindow') <= Ceiling
    BY <2>2, <2>3, <2>4, <2>5, CeilingAssumption
  <2>7. QED
    BY <2>3, <2>6 DEF CeilingInv, CeilingRespected
<1>3. QED
  BY <1>1, <1>2 DEF StampedBelowCeiling

(* Time only takes jobs out of the window.                                 *)
LEMMA TickKeepsCeiling ==
    ASSUME TypeOK, CeilingInv, Tick
    PROVE  CeilingInv'
<1>1. InWindow' \subseteq InWindow
  BY WindowAssumption DEF TypeOK, Tick, InWindow
<1>2. IsFiniteSet(InWindow') /\ Cardinality(InWindow') <= Cardinality(InWindow)
  BY <1>1, FS_Subset DEF CeilingInv
<1>3. Cardinality(InWindow) \in Nat /\ Cardinality(InWindow') \in Nat
  BY <1>2, FS_CardinalityType DEF CeilingInv
<1>4. QED
  BY <1>2, <1>3, CeilingAssumption DEF CeilingInv, CeilingRespected

LEMMA NextKeepsCeiling == TypeOK /\ CeilingInv /\ [Next]_vars => CeilingInv'
<1> SUFFICES ASSUME TypeOK, CeilingInv, [Next]_vars PROVE CeilingInv'
  OBVIOUS
<1>1. CASE Tick
  BY <1>1, TickKeepsCeiling
<1>2. CASE ~Tick
  <2> SUFFICES StampedBelowCeiling
    BY StampKeepsCeiling
  <2>1. CASE Submit
    BY <2>1 DEF Submit, Enqueue, Debounce, StampedBelowCeiling
  <2>2. CASE DrainMicrotask
    BY <2>2, DrainStamps DEF DrainMicrotask
  <2>3. CASE Timers
    BY <2>3, DrainStamps DEF Timers, RetryFire, DebounceFire, StampedBelowCeiling
  <2>4. CASE JobFinish
    BY <2>4, AdvanceStamps DEF JobFinish
  <2>5. CASE Shutdown
    BY <2>5, FlushLoopStamps
    DEF Shutdown, FlushStart, FlushResume, FlushWake, Exit, StampedBelowCeiling
  <2>6. CASE UNCHANGED vars
    BY <2>6 DEF vars, StampedBelowCeiling
  <2>7. QED
    BY <1>2, <2>1, <2>2, <2>3, <2>4, <2>5, <2>6 DEF Next
<1>3. QED
  BY <1>1, <1>2

LEMMA CeilingInvariant == Spec => []CeilingInv
<1>1. Init => CeilingInv
  <2> SUFFICES ASSUME Init PROVE CeilingInv
    OBVIOUS
  <2>1. InWindow = {}
    BY WindowAssumption DEF Init, InWindow
  <2>2. QED
    BY <2>1, FS_EmptySet, CeilingAssumption DEF CeilingInv, CeilingRespected
<1>2. QED
  BY <1>1, NextKeepsCeiling, PipelineTypes, PTL DEF Spec

(* No window ever holds more than Ceiling starts, whoever called drain.    *)
THEOREM CeilingHolds == Spec => []CeilingRespected
<1>1. CeilingInv => CeilingRespected
  BY DEF CeilingInv
<1>2. QED
  BY <1>1, CeilingInvariant, PTL

-----------------------------------------------------------------------------

(* A drain microtask that starts no job queues no other: neither the end   *)
(* of the levels nor the ceiling leaves one behind.                        *)
LEMMA MicrotaskDoesNotSpin ==
    ASSUME DrainMicrotask, running' = None, TypeOK
    PROVE  ~drainScheduled'
<1>1. CASE running = None /\ Advance(queues, 0, FALSE, retryIn)
  <2>1. CASE Loaded(queues, 0) = {} /\ PassOver(queues, FALSE, retryIn)
    BY <2>1 DEF PassOver
  <2>2. ASSUME NEW p \in Levels, FirstLoaded(queues, 0, p),
               StartJob(queues, p, FALSE, retryIn) \/ StopThrottled(queues, FALSE, retryIn)
        PROVE  ~drainScheduled'
    BY <2>2 DEF StartJob, StopThrottled
  <2>3. QED
    BY <1>1, <2>1, <2>2 DEF Advance
<1>2. CASE running # None /\ drainScheduled' = FALSE
  BY <1>2
<1>3. QED
  BY <1>1, <1>2 DEF DrainMicrotask, Drain

(* A microtask that starts no job queues no other one: a full window is    *)
(* waited for by the timer, never by draining again and again.             *)
THEOREM NoSpin == Spec => NoMicrotaskSpin
<1>1. TypeOK /\ [Next]_vars => [DrainMicrotask /\ running' = None => ~drainScheduled']_vars
  BY MicrotaskDoesNotSpin DEF vars
<1>2. QED
  BY <1>1, PipelineTypes, PTL DEF Spec, NoMicrotaskSpin

-----------------------------------------------------------------------------
(* Where the jobs are.                                                     *)

Waits(q) == UNION {Range(q[p]) : p \in Levels}
Held(table) == {table[i].job : i \in DOMAIN table}

(* No job waits in two places.                                             *)
NoTwice(q, table) ==
    /\ \A p, r \in Levels : \A i \in 1 .. Len(q[p]), k \in 1 .. Len(q[r]) :
          q[p][i] = q[r][k] => p = r /\ i = k
    /\ \A i, k \in 1 .. Len(table) : table[i].job = table[k].job => i = k
    /\ \A p \in Levels : \A i \in 1 .. Len(q[p]), k \in 1 .. Len(table) :
          q[p][i] # table[k].job

WaitsAt(q, x) == \E p \in Levels : \E i \in 1 .. Len(q[p]) : x = q[p][i]
HeldAt(table, x) == \E i \in 1 .. Len(table) : x = table[i].job

LEMMA WaitsIn ==
    ASSUME NEW q \in [Levels -> Seq(Jobs)], NEW x
    PROVE  x \in Waits(q) <=> WaitsAt(q, x)
<1>1. \A p \in Levels : DOMAIN q[p] = 1 .. Len(q[p])
  OBVIOUS
<1>2. x \in Waits(q) <=> \E p \in Levels : x \in Range(q[p])
  BY DEF Waits
<1>3. \A p \in Levels : x \in Range(q[p]) <=> \E i \in DOMAIN q[p] : x = q[p][i]
  BY DEF Range
<1>4. QED
  BY <1>1, <1>2, <1>3 DEF WaitsAt

LEMMA HeldIn ==
    ASSUME NEW table \in Seq(Entry), NEW x
    PROVE  x \in Held(table) <=> HeldAt(table, x)
<1>1. DOMAIN table = 1 .. Len(table)
  OBVIOUS
<1>2. QED
  BY <1>1 DEF Held, HeldAt

(* A job put at the end of a queue.                                        *)
Joined(joined, q, p, j) ==
    /\ joined \in [Levels -> Seq(Jobs)]
    /\ joined[p] = Append(q[p], j)
    /\ \A r \in Levels \ {p} : joined[r] = q[r]

LEMMA JoinsAQueue ==
    ASSUME NEW q \in [Levels -> Seq(Jobs)], NEW table \in Seq(Entry), NoTwice(q, table),
           NEW p \in Levels, NEW j \in Jobs, j \notin Waits(q) \cup Held(table),
           NEW joined, Joined(joined, q, p, j)
    PROVE  /\ NoTwice(joined, table)
           /\ Waits(joined) = Waits(q) \cup {j}
<1>1. /\ q[p] \in Seq(Jobs) /\ joined[p] = Append(q[p], j)
      /\ joined \in [Levels -> Seq(Jobs)]
      /\ \A r \in Levels \ {p} : joined[r] = q[r]
  BY DEF Joined
<1>2. /\ Len(joined[p]) = Len(q[p]) + 1
      /\ Len(q[p]) \in Nat
      /\ \A i \in 1 .. Len(q[p]) : joined[p][i] = q[p][i]
      /\ joined[p][Len(q[p]) + 1] = j
      /\ \A r \in Levels \ {p} : joined[r] = q[r]
  BY <1>1
<1>3. /\ \A r \in Levels : \A i \in 1 .. Len(q[r]) : q[r][i] # j
      /\ \A i \in 1 .. Len(table) : table[i].job # j
  BY <1>1, WaitsIn, HeldIn DEF WaitsAt, HeldAt
<1>4. \A r \in Levels : \A i \in 1 .. Len(joined[r]) :
         \/ i \in 1 .. Len(q[r]) /\ joined[r][i] = q[r][i]
         \/ r = p /\ i = Len(q[p]) + 1 /\ joined[r][i] = j
  <2> TAKE r \in Levels
  <2>1. CASE r = p
    BY <1>2, <2>1
  <2>2. CASE r # p
    BY <1>2, <2>2
  <2>3. QED
    BY <2>1, <2>2
<1>5. NoTwice(joined, table)
  <2>1. ASSUME NEW r \in Levels, NEW s \in Levels,
               NEW i \in 1 .. Len(joined[r]), NEW k \in 1 .. Len(joined[s]),
               joined[r][i] = joined[s][k]
        PROVE  r = s /\ i = k
    <3>1. CASE i \in 1 .. Len(q[r]) /\ joined[r][i] = q[r][i]
      <4>1. joined[s][k] # j
        BY <1>3, <2>1, <3>1
      <4>2. k \in 1 .. Len(q[s]) /\ joined[s][k] = q[s][k]
        BY <1>4, <4>1
      <4>3. QED
        <5>1. q[r][i] = q[s][k]
          BY <2>1, <3>1, <4>2
        <5>2. \A a, b \in Levels : \A c \in 1 .. Len(q[a]), d \in 1 .. Len(q[b]) :
                 q[a][c] = q[b][d] => a = b /\ c = d
          BY DEF NoTwice
        <5>3. QED
          BY <3>1, <4>2, <5>1, <5>2
    <3>2. CASE r = p /\ i = Len(q[p]) + 1 /\ joined[r][i] = j
      BY <1>3, <1>4, <2>1, <3>2
    <3>3. QED
      BY <1>4, <3>1, <3>2
  <2>2. ASSUME NEW r \in Levels, NEW i \in 1 .. Len(joined[r]), NEW k \in 1 .. Len(table)
        PROVE  joined[r][i] # table[k].job
    BY <1>3, <1>4 DEF NoTwice
  <2>3. QED
    BY <2>1, <2>2 DEF NoTwice
<1>6. \A x : x \in Waits(joined) <=> x \in Waits(q) \cup {j}
  <2> TAKE x
  <2>1. ASSUME NEW r \in Levels, NEW i \in 1 .. Len(joined[r]), x = joined[r][i]
        PROVE  x \in Waits(q) \cup {j}
    BY <1>1, <1>4, <2>1, WaitsIn DEF WaitsAt
  <2>2. ASSUME NEW r \in Levels, NEW i \in 1 .. Len(q[r]), x = q[r][i]
        PROVE  x \in Waits(joined)
    <3>1. i \in 1 .. Len(joined[r]) /\ joined[r][i] = x
      <4>1. CASE r = p
        BY <1>2, <2>2, <4>1
      <4>2. CASE r # p
        BY <1>2, <2>2, <4>2
      <4>3. QED
        BY <4>1, <4>2
    <3>2. QED
      BY <1>1, <3>1, WaitsIn DEF WaitsAt
  <2>3. j \in Waits(joined)
    <3>1. Len(q[p]) + 1 \in 1 .. Len(joined[p])
      BY <1>2
    <3>2. QED
      BY <1>1, <1>2, <3>1, WaitsIn DEF WaitsAt
  <2>4. x \in Waits(joined) => x \in Waits(q) \cup {j}
    <3>1. x \in Waits(joined) => WaitsAt(joined, x)
      BY <1>1, WaitsIn
    <3>2. QED
      BY <2>1, <3>1 DEF WaitsAt
  <2>5. x \in Waits(q) => x \in Waits(joined)
    <3>1. x \in Waits(q) => WaitsAt(q, x)
      BY <1>1, WaitsIn
    <3>2. QED
      BY <2>2, <3>1 DEF WaitsAt
  <2>6. QED
    BY <2>3, <2>4, <2>5
<1>7. QED
  BY <1>5, <1>6

(* The job at the head of a queue, taken out.                              *)
LEMMA LeavesAQueue ==
    ASSUME NEW q \in [Levels -> Seq(Jobs)], NEW table \in Seq(Entry), NoTwice(q, table),
           NEW p \in Levels, q[p] # <<>>,
           NEW left \in [Levels -> Seq(Jobs)], left[p] = Tail(q[p]),
           \A r \in Levels \ {p} : left[r] = q[r]
    PROVE  /\ NoTwice(left, table)
           /\ Head(q[p]) \in Waits(q) \ Held(table)
           /\ Waits(left) = Waits(q) \ {Head(q[p])}
<1>1. /\ q[p] \in Seq(Jobs) /\ Tail(q[p]) \in Seq(Jobs) /\ Head(q[p]) = q[p][1]
      /\ Len(q[p]) \in Nat \ {0}
  OBVIOUS
<1>2. /\ left[p] = Tail(q[p]) /\ Len(left[p]) = Len(q[p]) - 1
      /\ \A i \in 1 .. Len(left[p]) : left[p][i] = q[p][i + 1]
      /\ \A r \in Levels \ {p} : left[r] = q[r]
  BY <1>1
<1>3. \A r \in Levels : \A i \in 1 .. Len(left[r]) :
         \/ r # p /\ i \in 1 .. Len(q[r]) /\ left[r][i] = q[r][i]
         \/ r = p /\ i + 1 \in 2 .. Len(q[r]) /\ left[r][i] = q[r][i + 1]
  <2> TAKE r \in Levels
  <2>1. CASE r = p
    <3>1. \A i \in 1 .. Len(left[p]) : i + 1 \in 2 .. Len(q[p]) /\ left[p][i] = q[p][i + 1]
      <4>1. \A i \in 1 .. Len(left[p]) : i + 1 \in 2 .. Len(q[p])
        BY <1>1, <1>2
      <4>2. QED
        BY <1>2, <4>1
    <3>2. QED
      BY <2>1, <3>1
  <2>2. CASE r # p
    BY <1>2, <2>2
  <2>3. QED
    BY <2>1, <2>2
<1>4. NoTwice(left, table)
  <2>1. ASSUME NEW r \in Levels, NEW s \in Levels,
               NEW i \in 1 .. Len(left[r]), NEW k \in 1 .. Len(left[s]), left[r][i] = left[s][k]
        PROVE  r = s /\ i = k
    BY <1>1, <1>3, <2>1 DEF NoTwice
  <2>2. ASSUME NEW r \in Levels, NEW i \in 1 .. Len(left[r]), NEW k \in 1 .. Len(table)
        PROVE  left[r][i] # table[k].job
    BY <1>1, <1>3 DEF NoTwice
  <2>3. QED
    BY <2>1, <2>2 DEF NoTwice
<1>5. Head(q[p]) \in Waits(q) \ Held(table)
  <2>1. 1 \in 1 .. Len(q[p])
    BY <1>1
  <2>2. Head(q[p]) \in Waits(q)
    BY <1>1, <2>1, WaitsIn DEF WaitsAt
  <2>3. \A k \in 1 .. Len(table) : Head(q[p]) # table[k].job
    BY <1>1, <2>1 DEF NoTwice
  <2>4. QED
    BY <2>2, <2>3, HeldIn DEF HeldAt
<1>6. \A x : x \in Waits(left) <=> x \in Waits(q) \ {Head(q[p])}
  <2> TAKE x
  <2>1. ASSUME NEW r \in Levels, NEW i \in 1 .. Len(left[r]), x = left[r][i]
        PROVE  x \in Waits(q) /\ x # Head(q[p])
    <3>1. CASE r # p
      <4>1. i \in 1 .. Len(q[r]) /\ x = q[r][i] /\ 1 \in 1 .. Len(q[p])
        BY <1>1, <1>3, <2>1, <3>1
      <4>2. QED
        <5>1. q[r][i] # q[p][1]
          BY <3>1, <4>1 DEF NoTwice
        <5>2. QED
          BY <1>1, <4>1, <5>1, WaitsIn DEF WaitsAt
    <3>2. CASE r = p
      <4>1. i + 1 \in 2 .. Len(q[p]) /\ x = q[p][i + 1]
        BY <1>3, <2>1, <3>2
      <4>2. i + 1 \in 1 .. Len(q[p]) /\ 1 \in 1 .. Len(q[p]) /\ i + 1 # 1
        BY <1>1, <4>1
      <4>3. q[p][i + 1] # q[p][1]
        BY <4>2 DEF NoTwice
      <4>4. WaitsAt(q, x)
        BY <4>1, <4>2 DEF WaitsAt
      <4>5. QED
        BY <1>1, <4>1, <4>3, <4>4, WaitsIn
    <3>3. QED
      BY <3>1, <3>2
  <2>2. ASSUME NEW r \in Levels, NEW i \in 1 .. Len(q[r]), x = q[r][i], x # Head(q[p])
        PROVE  x \in Waits(left)
    <3>1. CASE r # p
      BY <1>2, <2>2, <3>1, WaitsIn DEF WaitsAt
    <3>2. CASE r = p
      <4>1. i - 1 \in 1 .. Len(left[p]) /\ left[p][i - 1] = x
        BY <1>1, <1>2, <2>2, <3>2
      <4>2. QED
        BY <4>1, WaitsIn DEF WaitsAt
    <3>3. QED
      BY <3>1, <3>2
  <2>3. x \in Waits(left) => x \in Waits(q) \ {Head(q[p])}
    <3>1. x \in Waits(left) => WaitsAt(left, x)
      BY WaitsIn
    <3>2. QED
      BY <2>1, <3>1 DEF WaitsAt
  <2>4. x \in Waits(q) \ {Head(q[p])} => x \in Waits(left)
    <3>1. x \in Waits(q) => WaitsAt(q, x)
      BY WaitsIn
    <3>2. QED
      BY <2>2, <3>1 DEF WaitsAt
  <2>5. QED
    BY <2>3, <2>4
<1>7. QED
  BY <1>4, <1>5, <1>6

LEMMA RemoveAtElements ==
    ASSUME NEW S, NEW s \in Seq(S), NEW i \in 1 .. Len(s)
    PROVE  /\ Len(RemoveAt(s, i)) = Len(s) - 1
           /\ \A k \in 1 .. Len(s) - 1 :
                 RemoveAt(s, i)[k] = IF k < i THEN s[k] ELSE s[k + 1]
<1>1. /\ SubSeq(s, 1, i - 1) \in Seq(S) /\ Len(SubSeq(s, 1, i - 1)) = i - 1
      /\ \A k \in 1 .. i - 1 : SubSeq(s, 1, i - 1)[k] = s[k]
  OBVIOUS
<1>2. /\ SubSeq(s, i + 1, Len(s)) \in Seq(S) /\ Len(SubSeq(s, i + 1, Len(s))) = Len(s) - i
      /\ \A k \in 1 .. Len(s) - i : SubSeq(s, i + 1, Len(s))[k] = s[i + k]
  OBVIOUS
<1> DEFINE head == SubSeq(s, 1, i - 1)
           tail == SubSeq(s, i + 1, Len(s))
<1>3. RemoveAt(s, i) = head \o tail
  BY DEF RemoveAt
<1>4. Len(s) \in Nat /\ Len(head) = i - 1 /\ Len(tail) = Len(s) - i
  BY <1>1, <1>2
<1> HIDE DEF head, tail
<1>5. head \in Seq(S) /\ tail \in Seq(S)
  BY <1>1, <1>2 DEF head, tail
<1>6. /\ Len(head \o tail) = Len(s) - 1
      /\ \A k \in 1 .. Len(s) - 1 :
            (head \o tail)[k] = IF k <= i - 1 THEN head[k] ELSE tail[k - (i - 1)]
  BY <1>4, <1>5
<1>7. ASSUME NEW k \in 1 .. Len(s) - 1
      PROVE  (head \o tail)[k] = IF k < i THEN s[k] ELSE s[k + 1]
  <2>1. CASE k < i
    BY <1>1, <1>4, <1>6, <2>1 DEF head
  <2>2. CASE ~(k < i)
    <3>1. k - (i - 1) \in 1 .. Len(s) - i /\ i + (k - (i - 1)) = k + 1
      BY <1>4, <2>2
    <3>2. tail[k - (i - 1)] = s[k + 1]
      BY <1>2, <3>1 DEF tail
    <3>3. QED
      BY <1>4, <1>6, <2>2, <3>2
  <2>3. QED
    BY <2>1, <2>2
<1>8. QED
  BY <1>3, <1>6, <1>7

(* The table loses an entry, gains one, or has one replaced.               *)
LEMMA LeavesTheTable ==
    ASSUME NEW q \in [Levels -> Seq(Jobs)], NEW table \in Seq(Entry), NoTwice(q, table),
           NEW i \in 1 .. Len(table)
    PROVE  /\ NoTwice(q, RemoveAt(table, i))
           /\ table[i].job \notin Waits(q) \cup Held(RemoveAt(table, i))
           /\ Held(table) = Held(RemoveAt(table, i)) \cup {table[i].job}
<1> DEFINE rest == RemoveAt(table, i)
<1>1. rest \in Seq(Entry) /\ Len(table) \in Nat
  BY RemoveAtType
<1>2. /\ Len(rest) = Len(table) - 1
      /\ \A k \in 1 .. Len(table) - 1 : rest[k] = IF k < i THEN table[k] ELSE table[k + 1]
  BY RemoveAtElements
<1> HIDE DEF rest
<1>3. \A k \in 1 .. Len(rest) : \E m \in 1 .. Len(table) :
         m # i /\ rest[k] = table[m] /\ m = IF k < i THEN k ELSE k + 1
  BY <1>1, <1>2
<1>4. NoTwice(q, rest)
  <2>1. ASSUME NEW k \in 1 .. Len(rest), NEW m \in 1 .. Len(rest), rest[k].job = rest[m].job
        PROVE  k = m
    <3>1. PICK a \in 1 .. Len(table) : rest[k] = table[a] /\ a = IF k < i THEN k ELSE k + 1
      BY <1>3
    <3>2. PICK b \in 1 .. Len(table) : rest[m] = table[b] /\ b = IF m < i THEN m ELSE m + 1
      BY <1>3
    <3>3. a = b
      BY <2>1, <3>1, <3>2 DEF NoTwice
    <3>4. QED
      BY <3>1, <3>2, <3>3
  <2>2. ASSUME NEW p \in Levels, NEW m \in 1 .. Len(q[p]), NEW k \in 1 .. Len(rest)
        PROVE  q[p][m] # rest[k].job
    BY <1>3 DEF NoTwice
  <2>3. QED
    BY <2>1, <2>2 DEF NoTwice
<1>5. table[i].job \notin Held(rest)
  <2>1. \A k \in 1 .. Len(rest) : table[i].job # rest[k].job
    BY <1>3 DEF NoTwice
  <2>2. ~HeldAt(rest, table[i].job)
    BY <2>1 DEF HeldAt
  <2>3. QED
    BY <1>1, <2>2, HeldIn
<1>6. table[i].job \notin Waits(q)
  <2>1. ~WaitsAt(q, table[i].job)
    BY DEF NoTwice, WaitsAt
  <2>2. QED
    BY <2>1, WaitsIn
<1>7. \A x : x \in Held(table) <=> x \in Held(rest) \cup {table[i].job}
  <2> TAKE x
  <2>1. ASSUME NEW k \in 1 .. Len(table), x = table[k].job, k # i
        PROVE  x \in Held(rest)
    <3>1. CASE k < i
      <4>1. k \in 1 .. Len(rest) /\ rest[k].job = x
        BY <1>1, <1>2, <2>1, <3>1
      <4>2. QED
        BY <1>1, <4>1, HeldIn DEF HeldAt
    <3>2. CASE ~(k < i)
      <4>1. k - 1 \in 1 .. Len(rest) /\ rest[k - 1].job = x
        BY <1>1, <1>2, <2>1, <3>2
      <4>2. QED
        BY <1>1, <4>1, HeldIn DEF HeldAt
    <3>3. QED
      BY <3>1, <3>2
  <2>2. x \in Held(table) => x \in Held(rest) \cup {table[i].job}
    BY <2>1, HeldIn DEF HeldAt
  <2>3. x \in Held(rest) => x \in Held(table)
    <3>1. HeldAt(rest, x) => HeldAt(table, x)
      BY <1>3 DEF HeldAt
    <3>2. QED
      BY <1>1, <3>1, HeldIn
  <2>4. table[i].job \in Held(table)
    BY HeldIn DEF HeldAt
  <2>5. QED
    BY <2>2, <2>3, <2>4
<1>8. QED
  BY <1>4, <1>5, <1>6, <1>7 DEF rest

LEMMA JoinsTheTable ==
    ASSUME NEW q \in [Levels -> Seq(Jobs)], NEW table \in Seq(Entry), NoTwice(q, table),
           NEW e \in Entry, e.job \notin Waits(q) \cup Held(table)
    PROVE  /\ NoTwice(q, Append(table, e))
           /\ Held(Append(table, e)) = Held(table) \cup {e.job}
<1> DEFINE joined == Append(table, e)
<1>1. /\ joined \in Seq(Entry) /\ Len(table) \in Nat /\ Len(joined) = Len(table) + 1
      /\ joined[Len(table) + 1] = e
      /\ \A k \in 1 .. Len(table) : joined[k] = table[k]
  OBVIOUS
<1> HIDE DEF joined
<1>2. \A k \in 1 .. Len(joined) : \/ k \in 1 .. Len(table) /\ joined[k] = table[k]
                                  \/ k = Len(table) + 1 /\ joined[k] = e
  BY <1>1
<1>3. /\ \A k \in 1 .. Len(table) : table[k].job # e.job
      /\ \A p \in Levels : \A i \in 1 .. Len(q[p]) : q[p][i] # e.job
  BY HeldIn, WaitsIn DEF WaitsAt, HeldAt
<1>4. NoTwice(q, joined)
  <2>1. ASSUME NEW k \in 1 .. Len(joined), NEW m \in 1 .. Len(joined), joined[k].job = joined[m].job
        PROVE  k = m
    BY <1>2, <1>3, <2>1 DEF NoTwice
  <2>2. ASSUME NEW p \in Levels, NEW i \in 1 .. Len(q[p]), NEW k \in 1 .. Len(joined)
        PROVE  q[p][i] # joined[k].job
    BY <1>2, <1>3 DEF NoTwice
  <2>3. QED
    BY <2>1, <2>2 DEF NoTwice
<1>5. \A x : x \in Held(joined) <=> x \in Held(table) \cup {e.job}
  <2> TAKE x
  <2>1. x \in Held(joined) => x \in Held(table) \cup {e.job}
    BY <1>1, <1>2, HeldIn DEF HeldAt
  <2>2. ASSUME NEW k \in 1 .. Len(table), x = table[k].job
        PROVE  x \in Held(joined)
    <3>1. k \in 1 .. Len(joined) /\ joined[k].job = x
      BY <1>1, <2>2
    <3>2. QED
      BY <1>1, <3>1, HeldIn DEF HeldAt
  <2>3. e.job \in Held(joined)
    <3>1. Len(table) + 1 \in 1 .. Len(joined) /\ joined[Len(table) + 1].job = e.job
      BY <1>1
    <3>2. QED
      BY <1>1, <3>1, HeldIn DEF HeldAt
  <2>4. x \in Held(table) => x \in Held(joined)
    BY <2>2, HeldIn DEF HeldAt
  <2>5. QED
    BY <2>1, <2>3, <2>4
<1>6. QED
  BY <1>4, <1>5 DEF joined

LEMMA ReplacedInTheTable ==
    ASSUME NEW q \in [Levels -> Seq(Jobs)], NEW table \in Seq(Entry), NoTwice(q, table),
           NEW i \in 1 .. Len(table),
           NEW e \in Entry, e.job \notin Waits(q) \cup Held(table),
           NEW new \in Seq(Entry), Len(new) = Len(table), new[i] = e,
           \A k \in 1 .. Len(table) : k # i => new[k] = table[k]
    PROVE  /\ NoTwice(q, new)
           /\ table[i].job \notin Waits(q)
           /\ Held(new) = (Held(table) \ {table[i].job}) \cup {e.job}
<1>1. /\ new \in Seq(Entry) /\ Len(new) = Len(table)
      /\ new[i] = e /\ \A k \in 1 .. Len(table) : k # i => new[k] = table[k]
  OBVIOUS
<1>2. /\ \A k \in 1 .. Len(table) : table[k].job # e.job
      /\ \A p \in Levels : \A k \in 1 .. Len(q[p]) : q[p][k] # e.job
  BY HeldIn, WaitsIn DEF WaitsAt, HeldAt
<1>3. NoTwice(q, new)
  <2>1. ASSUME NEW k \in 1 .. Len(new), NEW m \in 1 .. Len(new), new[k].job = new[m].job
        PROVE  k = m
    BY <1>1, <1>2, <2>1 DEF NoTwice
  <2>2. ASSUME NEW p \in Levels, NEW m \in 1 .. Len(q[p]), NEW k \in 1 .. Len(new)
        PROVE  q[p][m] # new[k].job
    BY <1>1, <1>2 DEF NoTwice
  <2>3. QED
    BY <2>1, <2>2 DEF NoTwice
<1>4. table[i].job \notin Waits(q)
  <2>1. ~WaitsAt(q, table[i].job)
    BY DEF NoTwice, WaitsAt
  <2>2. QED
    BY <2>1, WaitsIn
<1>5. \A x : x \in Held(new) <=> x \in (Held(table) \ {table[i].job}) \cup {e.job}
  <2> TAKE x
  <2>1. ASSUME NEW k \in 1 .. Len(new), x = new[k].job, x # e.job
        PROVE  x \in Held(table) \ {table[i].job}
    <3>1. k # i /\ k \in 1 .. Len(table) /\ x = table[k].job
      BY <1>1, <2>1
    <3>2. x # table[i].job
      BY <3>1 DEF NoTwice
    <3>3. QED
      BY <3>1, <3>2, HeldIn DEF HeldAt
  <2>2. ASSUME NEW k \in 1 .. Len(table), x = table[k].job, x # table[i].job
        PROVE  x \in Held(new)
    <3>1. k \in 1 .. Len(new) /\ new[k].job = x
      BY <1>1, <2>2
    <3>2. QED
      BY <1>1, <3>1, HeldIn DEF HeldAt
  <2>3. e.job \in Held(new)
    <3>1. i \in 1 .. Len(new) /\ new[i].job = e.job
      BY <1>1
    <3>2. QED
      BY <1>1, <3>1, HeldIn DEF HeldAt
  <2>4. x \in Held(new) => x \in (Held(table) \ {table[i].job}) \cup {e.job}
    <3>1. x \in Held(new) => HeldAt(new, x)
      BY HeldIn
    <3>2. QED
      BY <2>1, <3>1 DEF HeldAt
  <2>5. x \in Held(table) \ {table[i].job} => x \in Held(new)
    <3>1. x \in Held(table) => HeldAt(table, x)
      BY HeldIn
    <3>2. QED
      BY <2>2, <3>1 DEF HeldAt
  <2>6. QED
    BY <2>3, <2>4, <2>5
<1>6. QED
  BY <1>3, <1>4, <1>5

(* The jobs of the table, in its order.                                    *)
JobsOf(table) == [i \in DOMAIN table |-> table[i].job]

(* The flush enqueues the whole table at one level.                        *)
LEMMA TableJoinsAQueue ==
    ASSUME NEW q \in [Levels -> Seq(Jobs)], NEW table \in Seq(Entry), NoTwice(q, table),
           NEW p \in Levels,
           NEW all \in [Levels -> Seq(Jobs)],
           all[p] = q[p] \o JobsOf(table),
           \A r \in Levels \ {p} : all[r] = q[r]
    PROVE  /\ NoTwice(all, <<>>)
           /\ Waits(all) = Waits(q) \cup Held(table)
<1> DEFINE moved == JobsOf(table)
           n     == Len(q[p])
<1>0. all[p] = q[p] \o moved
  OBVIOUS
<1>1. Len(table) \in Nat /\ DOMAIN table = 1 .. Len(table) /\ n \in Nat /\ q[p] \in Seq(Jobs)
  OBVIOUS
<1>2. \A i \in 1 .. Len(table) : moved[i] = table[i].job /\ moved[i] \in Jobs
  <2>1. \A e \in Entry : e.job \in Jobs
    BY DEF Entry
  <2>2. \A i \in 1 .. Len(table) : table[i] \in Entry
    OBVIOUS
  <2>3. QED
    BY <1>1, <2>1, <2>2 DEF JobsOf
<1>3. moved \in Seq(Jobs) /\ Len(moved) = Len(table)
  <2>1. moved = [i \in 1 .. Len(table) |-> table[i].job]
    BY <1>1 DEF JobsOf
  <2>2. moved \in Seq(Jobs)
    BY <1>1, <1>2, <2>1, IsASeq
  <2>3. DOMAIN moved = 1 .. Len(table) /\ DOMAIN moved = 1 .. Len(moved) /\ Len(moved) \in Nat
    BY <2>1, <2>2
  <2> HIDE DEF moved
  <2>4. Len(moved) = Len(table)
    BY <1>1, <2>3
  <2>5. QED
    BY <2>2, <2>4
<1> HIDE DEF moved
<1>4. /\ q[p] \o moved \in Seq(Jobs) /\ Len(q[p] \o moved) = n + Len(table)
      /\ \A i \in 1 .. n + Len(table) :
            (q[p] \o moved)[i] = IF i <= n THEN q[p][i] ELSE moved[i - n]
  <2> HIDE DEF n
  <2>1. Len(q[p]) = n /\ Len(moved) = Len(table)
    BY <1>3 DEF n
  <2>2. q[p] \o moved \in Seq(Jobs) /\ Len(q[p] \o moved) = Len(q[p]) + Len(moved)
    <3>1. q[p] \o moved \in Seq(Jobs)
      BY <1>1, <1>3, ConcatProperties
    <3>2. Len(q[p] \o moved) = Len(q[p]) + Len(moved)
      BY <1>1, <1>3, ConcatProperties
    <3>3. QED
      BY <3>1, <3>2
  <2>3. \A i \in 1 .. Len(q[p]) + Len(moved) :
           (q[p] \o moved)[i] = IF i <= Len(q[p]) THEN q[p][i] ELSE moved[i - Len(q[p])]
    BY <1>1, <1>3
  <2>4. QED
    BY <2>1, <2>2, <2>3
<1>5. /\ all \in [Levels -> Seq(Jobs)] /\ all[p] = q[p] \o moved
      /\ \A r \in Levels \ {p} : all[r] = q[r]
  BY <1>0, <1>4
<1> HIDE DEF n
<1>6. \A r \in Levels : \A i \in 1 .. Len(all[r]) :
         \/ i \in 1 .. Len(q[r]) /\ all[r][i] = q[r][i]
         \/ r = p /\ i - n \in 1 .. Len(table) /\ all[r][i] = table[i - n].job
  <2> TAKE r \in Levels
  <2>1. CASE r = p
    <3> TAKE i \in 1 .. Len(all[r])
    <3>1. i \in 1 .. n + Len(table)
      BY <1>4, <1>5, <2>1
    <3>2. CASE i <= n
      BY <1>1, <1>4, <1>5, <2>1, <3>1, <3>2 DEF n
    <3>3. CASE ~(i <= n)
      <4>1. i - n \in 1 .. Len(table)
        BY <1>1, <3>1, <3>3
      <4>2. all[r][i] = moved[i - n]
        BY <1>4, <1>5, <2>1, <3>1, <3>3
      <4>3. QED
        BY <1>2, <2>1, <4>1, <4>2
    <3>4. QED
      BY <3>2, <3>3
  <2>2. CASE r # p
    BY <1>5, <2>2
  <2>3. QED
    BY <2>1, <2>2
<1>7. NoTwice(all, <<>>)
  <2>1. ASSUME NEW r \in Levels, NEW s \in Levels,
               NEW i \in 1 .. Len(all[r]), NEW k \in 1 .. Len(all[s]), all[r][i] = all[s][k]
        PROVE  r = s /\ i = k
    <3>1. CASE i \in 1 .. Len(q[r]) /\ all[r][i] = q[r][i]
      <4>1. k \in 1 .. Len(q[s]) /\ all[s][k] = q[s][k]
        <5>1. \A m \in 1 .. Len(table) : q[r][i] # table[m].job
          BY <3>1 DEF NoTwice
        <5>2. QED
          BY <1>6, <2>1, <3>1, <5>1
      <4>2. q[r][i] = q[s][k]
        BY <2>1, <3>1, <4>1
      <4>3. \A a, b \in Levels : \A c \in 1 .. Len(q[a]), d \in 1 .. Len(q[b]) :
               q[a][c] = q[b][d] => a = b /\ c = d
        BY DEF NoTwice
      <4>4. QED
        BY <3>1, <4>1, <4>2, <4>3
    <3>2. CASE r = p /\ i - n \in 1 .. Len(table) /\ all[r][i] = table[i - n].job
      <4>1. s = p /\ k - n \in 1 .. Len(table) /\ all[s][k] = table[k - n].job
        <5>1. \A a \in Levels : \A m \in 1 .. Len(q[a]) : q[a][m] # table[i - n].job
          BY <3>2 DEF NoTwice
        <5>2. QED
          BY <1>6, <2>1, <3>2, <5>1
      <4>2. i - n = k - n
        BY <2>1, <3>2, <4>1 DEF NoTwice
      <4>3. i \in Int /\ k \in Int /\ n \in Int
        BY <1>1
      <4>4. QED
        BY <3>2, <4>1, <4>2, <4>3
    <3>3. QED
      BY <1>6, <3>1, <3>2
  <2>2. 1 .. Len(<<>>) = {}
    OBVIOUS
  <2>3. QED
    BY <2>1, <2>2 DEF NoTwice
<1>8. \A x : x \in Waits(all) <=> x \in Waits(q) \cup Held(table)
  <2> TAKE x
  <2>1. ASSUME NEW r \in Levels, NEW i \in 1 .. Len(all[r]), x = all[r][i]
        PROVE  x \in Waits(q) \cup Held(table)
    BY <1>6, <2>1, WaitsIn, HeldIn DEF WaitsAt, HeldAt
  <2>2. ASSUME NEW r \in Levels, NEW i \in 1 .. Len(q[r]), x = q[r][i]
        PROVE  x \in Waits(all)
    <3>1. i \in 1 .. Len(all[r]) /\ all[r][i] = x
      <4>1. CASE r = p
        BY <1>1, <1>4, <1>5, <2>2, <4>1 DEF n
      <4>2. CASE r # p
        BY <1>5, <2>2, <4>2
      <4>3. QED
        BY <4>1, <4>2
    <3>2. QED
      BY <1>5, <3>1, WaitsIn DEF WaitsAt
  <2>3. ASSUME NEW i \in 1 .. Len(table), x = table[i].job
        PROVE  x \in Waits(all)
    <3>1. n + i \in 1 .. Len(all[p]) /\ all[p][n + i] = x
      BY <1>1, <1>2, <1>4, <1>5, <2>3
    <3>2. QED
      BY <1>5, <3>1, WaitsIn DEF WaitsAt
  <2>4. x \in Waits(all) => x \in Waits(q) \cup Held(table)
    <3>1. x \in Waits(all) => WaitsAt(all, x)
      BY <1>5, WaitsIn
    <3>2. QED
      BY <2>1, <3>1 DEF WaitsAt
  <2>5. x \in Waits(q) => x \in Waits(all)
    <3>1. x \in Waits(q) => WaitsAt(q, x)
      BY WaitsIn
    <3>2. QED
      BY <2>2, <3>1 DEF WaitsAt
  <2>6. x \in Held(table) => x \in Waits(all)
    BY <2>3, HeldIn DEF HeldAt
  <2>7. QED
    BY <2>4, <2>5, <2>6
<1>9. QED
  BY <1>5, <1>7, <1>8

-----------------------------------------------------------------------------
(* The account of the jobs.                                                *)

InFlight == {running} \ {None}

(* Every accepted job waits in one place, is running, or has ended, and    *)
(* nothing else does; what a successful flush promised has ended, but for  *)
(* the job that is running.                                                *)
AccountInv ==
    /\ accepted = Queued \cup Pending \cup InFlight \cup settled \cup superseded
    /\ NoTwice(queues, pending)
    /\ promised \ (settled \cup superseded) \subseteq InFlight

(* What a pass does to the queues q, between two awaits: it starts nothing *)
(* and leaves them, or it takes one job out and starts it below the        *)
(* ceiling.                                                                *)
TakesNone(q) == queues' = q /\ age' = age

TakesOne(q, table) ==
    \E j \in Jobs :
        /\ ~Throttled
        /\ j \in Waits(q) \ Held(table)
        /\ Waits(queues') = Waits(q) \ {j}
        /\ running' = j
        /\ age' = [age EXCEPT ![j] = 0]

LEMMA AdvanceTakes ==
    ASSUME NEW q \in [Levels -> Seq(Jobs)], NEW table \in Seq(Entry), NoTwice(q, table),
           NEW from, NEW sched, NEW retry, Advance(q, from, sched, retry)
    PROVE  /\ NoTwice(queues', table)
           /\ \/ TakesNone(q) /\ running' = None
              \/ TakesOne(q, table)
<1>1. CASE PassOver(q, sched, retry) \/ StopThrottled(q, sched, retry)
  BY <1>1 DEF PassOver, StopThrottled, TakesNone
<1>2. ASSUME NEW p \in Levels, FirstLoaded(q, from, p), StartJob(q, p, sched, retry)
      PROVE  NoTwice(queues', table) /\ TakesOne(q, table)
  <2>1. q[p] # <<>> /\ q[p] \in Seq(Jobs)
    BY <1>2 DEF FirstLoaded, Loaded
  <2>2. Head(q[p]) \in Jobs
    BY <2>1
  <2>3. /\ queues' \in [Levels -> Seq(Jobs)] /\ queues'[p] = Tail(q[p])
        /\ \A r \in Levels \ {p} : queues'[r] = q[r]
    BY <1>2, <2>1 DEF StartJob
  <2>4. /\ NoTwice(queues', table)
        /\ Head(q[p]) \in Waits(q) \ Held(table)
        /\ Waits(queues') = Waits(q) \ {Head(q[p])}
    BY <2>1, <2>3, LeavesAQueue
  <2>5. QED
    BY <1>2, <2>2, <2>4 DEF StartJob, TakesOne
<1>3. QED
  BY <1>1, <1>2 DEF Advance

LEMMA DrainTakes ==
    ASSUME NEW q \in [Levels -> Seq(Jobs)], NEW table \in Seq(Entry), NoTwice(q, table),
           NEW sched, NEW retry, Drain(q, sched, retry)
    PROVE  /\ NoTwice(queues', table)
           /\ \/ TakesNone(q) /\ running' = running
              \/ TakesOne(q, table) /\ running = None
<1>1. CASE running = None /\ Advance(q, 0, sched, retry)
  BY <1>1, AdvanceTakes
<1>2. CASE /\ running # None /\ queues' = q /\ UNCHANGED <<running, passAt, age>>
  BY <1>2 DEF TakesNone
<1>3. QED
  BY <1>1, <1>2 DEF Drain

(* The queues are counted empty only where no job waits.                   *)
LEMMA NothingQueuedIsEmpty ==
    ASSUME NEW q \in [Levels -> Seq(Jobs)], NEW table \in Seq(Entry), NothingQueued(q, table)
    PROVE  Waits(q) = {} /\ Held(table) = {}
<1>1. \A p \in Levels : q[p] = <<>>
  <2>1. \A p \in Levels : p >= 0
    BY LowestAssumption DEF Levels
  <2>2. Loaded(q, 0) = {}
    BY DEF NothingQueued
  <2>3. QED
    BY <2>1, <2>2 DEF Loaded
<1>2. \A x : ~WaitsAt(q, x)
  BY <1>1 DEF WaitsAt
<1>3. \A x : ~HeldAt(table, x)
  BY DEF NothingQueued, HeldAt
<1>4. QED
  BY <1>2, <1>3, WaitsIn, HeldIn

LEMMA FlushLoopTakes ==
    ASSUME NEW q \in [Levels -> Seq(Jobs)], NEW table \in Seq(Entry), NoTwice(q, table),
           NEW sched, NEW left, FlushLoop(q, table, sched, left)
    PROVE  /\ NoTwice(queues', table)
           /\ \/ TakesNone(q) /\ running' = running
              \/ TakesOne(q, table) /\ running = None
           /\ \/ promised' = promised
              \/ /\ promised' = accepted /\ running' = running
                 /\ Waits(q) = {} /\ Held(table) = {}
<1>1. CASE /\ queues' = q /\ FlushReturn(table)
           /\ UNCHANGED <<running, passAt, age, retryIn>>
  <2>1. promised' = promised \/ (promised' = accepted /\ NothingQueued(q, table))
    <3>1. NothingQueued(queues', table) => NothingQueued(q, table)
      BY <1>1
    <3>2. promised' = promised \/ (promised' = accepted /\ NothingQueued(queues', table))
      BY <1>1 DEF FlushReturn
    <3>3. QED
      BY <3>1, <3>2
  <2>2. QED
    BY <1>1, <2>1, NothingQueuedIsEmpty DEF TakesNone
<1>2. CASE Drain(q, sched, retryIn) /\ UNCHANGED promised
  BY <1>2, DrainTakes
<1>3. QED
  BY <1>1, <1>2 DEF FlushLoop

LEMMA AccountIs ==
    TypeOK => /\ Queued = Waits(queues) /\ Pending = Held(pending)
              /\ queues \in [Levels -> Seq(Jobs)] /\ pending \in Seq(Entry)
BY DEF TypeOK, Queued, Waits, Pending, Held

(* A pass, over queues and a table that hold the jobs that wait.           *)
LEMMA PassKeepsAccount ==
    ASSUME TypeOK, TypeOK', AccountInv,
           NEW q \in [Levels -> Seq(Jobs)], Waits(q) \cup Held(pending') = Queued \cup Pending,
           NoTwice(queues', pending'),
           \/ TakesNone(q) /\ running' = running
           \/ TakesOne(q, pending') /\ running = None,
           UNCHANGED <<accepted, settled, superseded>>,
           \/ promised' = promised
           \/ promised' = accepted /\ running' = running /\ Waits(q) = {} /\ Held(pending') = {}
    PROVE  AccountInv'
<1>1. /\ accepted = Waits(q) \cup Held(pending') \cup InFlight \cup settled \cup superseded
      /\ promised \ (settled \cup superseded) \subseteq InFlight
  BY DEF AccountInv
<1>2. Queued' = Waits(queues') /\ Pending' = Held(pending')
  BY DEF Queued, Waits, Pending, Held
<1>3. CASE TakesNone(q) /\ running' = running
  <2>1. Queued' = Waits(q) /\ InFlight' = InFlight
    BY <1>2, <1>3 DEF TakesNone, InFlight
  <2>2. QED
    BY <1>1, <1>2, <2>1 DEF AccountInv
<1>4. CASE TakesOne(q, pending') /\ running = None
  <2>1. PICK j \in Jobs : j \in Waits(q) /\ Waits(queues') = Waits(q) \ {j} /\ running' = j
    BY <1>4 DEF TakesOne
  <2>2. InFlight = {} /\ InFlight' = {j}
    BY <1>4, <2>1, NoneAssumption DEF InFlight
  <2>3. accepted' = Queued' \cup Pending' \cup InFlight' \cup settled' \cup superseded'
    BY <1>1, <1>2, <2>1, <2>2
  <2>4. promised' \ (settled' \cup superseded') \subseteq InFlight'
    BY <1>1, <2>1, <2>2
  <2>5. QED
    BY <2>3, <2>4 DEF AccountInv
<1>5. QED
  BY <1>3, <1>4

LEMMA EnqueueKeepsAccount ==
    ASSUME TypeOK, AccountInv, NEW p \in Levels, NEW j \in Jobs, Enqueue(p, j)
    PROVE  AccountInv' /\ Queued' = Queued \cup {j} /\ Pending' = Pending
<1>1. j \notin Waits(queues) \cup Held(pending)
  BY AccountIs DEF AccountInv, Enqueue
<1>2. /\ queues' = [queues EXCEPT ![p] = Append(@, j)] /\ accepted' = accepted \cup {j}
      /\ UNCHANGED <<pending, running, settled, superseded, promised>>
  BY DEF Enqueue, history
<1>3. NoTwice(queues', pending) /\ Waits(queues') = Waits(queues) \cup {j}
  <2>1. queues \in [Levels -> Seq(Jobs)] /\ pending \in Seq(Entry) /\ NoTwice(queues, pending)
    BY AccountIs DEF AccountInv
  <2>2. Joined(queues', queues, p, j)
    BY <1>2, <2>1 DEF Joined
  <2>3. QED
    BY <1>1, <2>1, <2>2, JoinsAQueue
<1>4. Queued' = Queued \cup {j} /\ Pending' = Pending /\ InFlight' = InFlight
  BY <1>2, <1>3, AccountIs DEF Queued, Waits, Pending, InFlight
<1>5. QED
  BY <1>2, <1>3, <1>4 DEF AccountInv

LEMMA DebounceKeepsAccount ==
    ASSUME TypeOK, AccountInv, NEW p \in Levels, NEW k \in Keys, NEW j \in Jobs, Debounce(p, k, j)
    PROVE  /\ AccountInv' /\ Queued' = Queued
           /\ \/ Pending' = Pending \cup {j} /\ superseded' = superseded
              \/ \E old \in Pending \ Queued :
                    /\ Pending' = (Pending \ {old}) \cup {j}
                    /\ superseded' = superseded \cup {old}
<1> DEFINE entry == [key |-> k, job |-> j, priority |-> p, due |-> DebounceDelay]
<1>1. entry \in Entry /\ entry.job = j
  BY DelayAssumption DEF Entry
<1>2. entry.job \notin Waits(queues) \cup Held(pending)
  BY <1>1, AccountIs DEF AccountInv, Debounce
<1>3. /\ accepted' = accepted \cup {j} /\ UNCHANGED <<queues, running, settled, promised>>
      /\ \/ pending' = Append(pending, entry) /\ UNCHANGED superseded
         \/ \E i \in Indices(k) : /\ pending' = [pending EXCEPT ![i] = entry]
                                  /\ superseded' = superseded \cup {pending[i].job}
  BY DEF Debounce
<1>4. Queued' = Queued /\ InFlight' = InFlight /\ Pending' = Held(pending')
  BY <1>3 DEF Queued, InFlight, Pending, Held
<1> HIDE DEF entry
<1>5. CASE pending' = Append(pending, entry) /\ UNCHANGED superseded
  <2>1. NoTwice(queues', pending') /\ Held(pending') = Held(pending) \cup {j}
    BY <1>1, <1>2, <1>3, <1>5, AccountIs, JoinsTheTable DEF AccountInv
  <2>2. QED
    BY <1>3, <1>4, <1>5, <2>1, AccountIs DEF AccountInv
<1>6. ASSUME NEW i \in Indices(k), pending' = [pending EXCEPT ![i] = entry],
             superseded' = superseded \cup {pending[i].job}
      PROVE  /\ AccountInv'
             /\ \E old \in Pending \ Queued :
                   /\ Pending' = (Pending \ {old}) \cup {j}
                   /\ superseded' = superseded \cup {old}
  <2>1. i \in 1 .. Len(pending)
    BY <1>6, AccountIs DEF Indices
  <2>2. /\ NoTwice(queues', pending')
        /\ pending[i].job \notin Waits(queues)
        /\ Held(pending') = (Held(pending) \ {pending[i].job}) \cup {j}
    <3>1. queues \in [Levels -> Seq(Jobs)] /\ pending \in Seq(Entry) /\ NoTwice(queues, pending)
      BY AccountIs DEF AccountInv
    <3>2. /\ NoTwice(queues, pending')
          /\ pending[i].job \notin Waits(queues)
          /\ Held(pending') = (Held(pending) \ {pending[i].job}) \cup {entry.job}
      <4>1. /\ pending' \in Seq(Entry) /\ Len(pending') = Len(pending)
            /\ pending'[i] = entry
            /\ \A m \in 1 .. Len(pending) : m # i => pending'[m] = pending[m]
        BY <1>1, <1>6, <2>1, <3>1, ExceptSeq
      <4>2. QED
        BY <1>1, <1>2, <2>1, <3>1, <4>1, ReplacedInTheTable
    <3>3. QED
      BY <1>1, <1>3, <3>2
  <2>3. pending[i].job \in Held(pending)
    BY <2>1, AccountIs, HeldIn DEF HeldAt
  <2>4. Pending = Held(pending) /\ Queued = Waits(queues)
    BY AccountIs
  <2>5. accepted' = Queued' \cup Pending' \cup InFlight' \cup settled' \cup superseded'
    BY <1>3, <1>4, <1>6, <2>2, <2>3, <2>4 DEF AccountInv
  <2>6. promised' \ (settled' \cup superseded') \subseteq InFlight'
    BY <1>3, <1>4, <1>6 DEF AccountInv
  <2>7. QED
    BY <1>4, <1>6, <2>2, <2>3, <2>4, <2>5, <2>6 DEF AccountInv
<1>7. QED
  BY <1>3, <1>4, <1>5, <1>6, AccountIs

LEMMA DebounceFireKeepsAccount ==
    ASSUME TypeOK, AccountInv, NEW i \in DOMAIN pending, DebounceFire(i)
    PROVE  AccountInv' /\ Queued' \cup Pending' = Queued \cup Pending
<1> DEFINE j == pending[i].job
           p == pending[i].priority
<1>1. i \in 1 .. Len(pending) /\ pending[i] \in Entry
  BY AccountIs
<1>2. j \in Jobs /\ p \in Levels
  BY <1>1 DEF Entry
<1>3. /\ pending' = RemoveAt(pending, i) /\ queues' = [queues EXCEPT ![p] = Append(@, j)]
      /\ UNCHANGED <<running, accepted, settled, superseded, promised>>
  BY DEF DebounceFire, history
<1> HIDE DEF j, p
<1>4. /\ NoTwice(queues, pending') /\ j \notin Waits(queues) \cup Held(pending')
      /\ Held(pending) = Held(pending') \cup {j}
  BY <1>1, <1>3, AccountIs, LeavesTheTable DEF AccountInv, j
<1>5. pending' \in Seq(Entry)
  BY <1>1, <1>3, AccountIs, RemoveAtType
<1>6. NoTwice(queues', pending') /\ Waits(queues') = Waits(queues) \cup {j}
  <2>1. queues \in [Levels -> Seq(Jobs)]
    BY AccountIs
  <2>2. Joined(queues', queues, p, j)
    BY <1>2, <1>3, <2>1 DEF Joined
  <2>3. QED
    BY <1>2, <1>4, <1>5, <2>1, <2>2, JoinsAQueue
<1>7. Queued' = Waits(queues') /\ Pending' = Held(pending') /\ InFlight' = InFlight
  BY <1>3 DEF Queued, Waits, Pending, Held, InFlight
<1>8. Queued' \cup Pending' = Queued \cup Pending
  BY <1>4, <1>6, <1>7, AccountIs
<1>9. QED
  BY <1>3, <1>6, <1>7, <1>8 DEF AccountInv

LEMMA DrainStepKeepsAccount ==
    ASSUME TypeOK, TypeOK', AccountInv, DrainMicrotask \/ RetryFire
    PROVE  /\ AccountInv' /\ Pending' = Pending
           /\ \/ TakesNone(queues) /\ running' = running
              \/ TakesOne(queues, pending) /\ running = None
<1>1. /\ Drain(queues, FALSE, retryIn) \/ Drain(queues, FALSE, None)
      /\ UNCHANGED <<pending, accepted, settled, superseded, promised>>
  BY DEF DrainMicrotask, RetryFire, history
<1>2. /\ NoTwice(queues', pending)
      /\ \/ TakesNone(queues) /\ running' = running
         \/ TakesOne(queues, pending) /\ running = None
  BY <1>1, AccountIs, DrainTakes DEF AccountInv
<1>3. Waits(queues) \cup Held(pending) = Queued \cup Pending
  BY AccountIs
<1>4. pending' = pending /\ Pending' = Pending
  BY <1>1 DEF Pending
<1>5. AccountInv'
  BY <1>1, <1>2, <1>3, <1>4, AccountIs, PassKeepsAccount
<1>6. QED
  BY <1>2, <1>4, <1>5

(* The job that ends leaves the pass, which may take the next one.         *)
LEMMA JobFinishKeepsAccount ==
    ASSUME TypeOK, TypeOK', AccountInv, JobFinish
    PROVE  /\ AccountInv' /\ Pending' = Pending
           /\ \/ TakesNone(queues) /\ running' = None
              \/ TakesOne(queues, pending)
<1>1. /\ running # None /\ settled' = settled \cup {running}
      /\ Advance(queues, passAt, drainScheduled, retryIn)
      /\ UNCHANGED <<pending, accepted, superseded, promised>>
  BY DEF JobFinish
<1>2. /\ NoTwice(queues', pending)
      /\ \/ TakesNone(queues) /\ running' = None
         \/ TakesOne(queues, pending)
  BY <1>1, AccountIs, AdvanceTakes DEF AccountInv
<1>3. InFlight = {running}
  BY <1>1 DEF InFlight
<1>4. promised' \ (settled' \cup superseded') = {}
  BY <1>1, <1>3 DEF AccountInv
<1>5. Queued' = Waits(queues') /\ Pending' = Held(pending) /\ Pending' = Pending
  BY <1>1 DEF Queued, Waits, Pending, Held
<1>6. accepted' = Queued' \cup Pending' \cup InFlight' \cup settled' \cup superseded'
  <2>1. accepted = Waits(queues) \cup Held(pending) \cup {running} \cup settled \cup superseded
    BY <1>3, AccountIs DEF AccountInv
  <2>2. CASE TakesNone(queues) /\ running' = None
    <3>1. Queued' = Waits(queues) /\ InFlight' = {}
      BY <1>5, <2>2 DEF TakesNone, InFlight
    <3>2. QED
      BY <1>1, <1>5, <2>1, <3>1
  <2>3. CASE TakesOne(queues, pending)
    <3>1. PICK j \in Jobs : /\ j \in Waits(queues) /\ Waits(queues') = Waits(queues) \ {j}
                            /\ running' = j
      BY <2>3 DEF TakesOne
    <3>2. InFlight' = {j}
      BY <3>1, NoneAssumption DEF InFlight
    <3>3. QED
      BY <1>1, <1>5, <2>1, <3>1, <3>2
  <2>4. QED
    BY <1>2, <2>2, <2>3
<1>7. AccountInv'
  BY <1>1, <1>2, <1>4, <1>6 DEF AccountInv
<1>8. QED
  BY <1>2, <1>5, <1>7

LEMMA FlushStartKeepsAccount ==
    ASSUME TypeOK, TypeOK', AccountInv, FlushStart
    PROVE  \E q \in [Levels -> Seq(Jobs)] :
              /\ AccountInv' /\ Pending' = {} /\ Waits(q) = Queued \cup Pending
              /\ \/ TakesNone(q) /\ running' = running
                 \/ TakesOne(q, <<>>) /\ running = None
<1> DEFINE moved == JobsOf(pending)
           q     == [queues EXCEPT ![Lowest] = @ \o moved]
<1>1. Lowest \in Levels
  BY LowestAssumption DEF Levels
<1>2. moved \in Seq(Jobs)
  <2>1. Len(pending) \in Nat /\ DOMAIN pending = 1 .. Len(pending)
    BY AccountIs
  <2>2. \A i \in 1 .. Len(pending) : pending[i] \in Entry
    BY AccountIs
  <2>3. \A e \in Entry : e.job \in Jobs
    BY DEF Entry
  <2>4. \A i \in 1 .. Len(pending) : pending[i].job \in Jobs
    BY <2>2, <2>3
  <2>5. QED
    BY <2>1, <2>4, IsASeq DEF JobsOf
<1>3. queues[Lowest] \o moved \in Seq(Jobs)
  BY <1>1, <1>2, AccountIs, ConcatProperties
<1>4. /\ q \in [Levels -> Seq(Jobs)] /\ q[Lowest] = queues[Lowest] \o moved
      /\ \A r \in Levels \ {Lowest} : q[r] = queues[r]
  BY <1>1, <1>3, AccountIs
<1>5. /\ FlushLoop(q, <<>>, drainScheduled \/ pending # <<>>, FlushBudget)
      /\ pending' = <<>> /\ UNCHANGED <<accepted, settled, superseded>>
  BY DEF FlushStart, JobsOf
<1> HIDE DEF q
<1>6. NoTwice(q, <<>>) /\ Waits(q) = Waits(queues) \cup Held(pending)
  <2>1. queues \in [Levels -> Seq(Jobs)] /\ pending \in Seq(Entry) /\ NoTwice(queues, pending)
    BY AccountIs DEF AccountInv
  <2>2. QED
    BY <1>1, <1>4, <2>1, TableJoinsAQueue
<1>7. <<>> \in Seq(Entry) /\ Held(<<>>) = {}
  BY DEF Held
<1>8. /\ NoTwice(queues', <<>>)
      /\ \/ TakesNone(q) /\ running' = running
         \/ TakesOne(q, <<>>) /\ running = None
      /\ \/ promised' = promised
         \/ promised' = accepted /\ running' = running /\ Waits(q) = {}
  BY <1>4, <1>5, <1>6, <1>7, FlushLoopTakes
<1>9. Waits(q) = Queued \cup Pending /\ Pending' = {}
  BY <1>5, <1>6, <1>7, AccountIs DEF Pending, Held
<1>10. AccountInv'
  BY <1>4, <1>5, <1>7, <1>8, <1>9, PassKeepsAccount
<1>11. QED
  BY <1>4, <1>8, <1>9, <1>10

LEMMA FlushWakeKeepsAccount ==
    ASSUME TypeOK, TypeOK', AccountInv, FlushWake
    PROVE  /\ AccountInv' /\ Pending' = Pending
           /\ \/ TakesNone(queues) /\ running' = running
              \/ TakesOne(queues, pending) /\ running = None
<1>1. /\ FlushLoop(queues, pending, drainScheduled, flushLeft)
      /\ UNCHANGED <<pending, accepted, settled, superseded>>
  BY DEF FlushWake
<1>2. /\ NoTwice(queues', pending)
      /\ \/ TakesNone(queues) /\ running' = running
         \/ TakesOne(queues, pending) /\ running = None
      /\ \/ promised' = promised
         \/ promised' = accepted /\ running' = running
            /\ Waits(queues) = {} /\ Held(pending) = {}
  BY <1>1, AccountIs, FlushLoopTakes DEF AccountInv
<1>3. Waits(queues) \cup Held(pending) = Queued \cup Pending
  BY AccountIs
<1>4. pending' = pending /\ Pending' = Pending
  BY <1>1 DEF Pending
<1>5. AccountInv'
  BY <1>1, <1>2, <1>3, <1>4, AccountIs, PassKeepsAccount
<1>6. QED
  BY <1>2, <1>4, <1>5

(* The other steps move no job.                                            *)
LEMMA StillKeepsAccount ==
    ASSUME TypeOK, TypeOK', AccountInv, Tick \/ FlushResume \/ Exit \/ UNCHANGED vars
    PROVE  /\ AccountInv' /\ Queued' = Queued /\ Pending' = Pending
           /\ UNCHANGED <<running, settled, superseded>>
<1>1. UNCHANGED <<queues, running, accepted, settled, superseded>>
  BY DEF Tick, FlushResume, Exit, vars, history
<1>2. Len(pending') = Len(pending) /\ \A i \in 1 .. Len(pending) : pending'[i].job = pending[i].job
  <2>1. CASE pending' = pending
    BY <2>1
  <2>2. CASE Tick
    <3>1. /\ DOMAIN pending = 1 .. Len(pending) /\ Len(pending) \in Nat
          /\ DOMAIN pending' = 1 .. Len(pending') /\ Len(pending') \in Nat
      BY DEF TypeOK
    <3>2. DOMAIN pending' = DOMAIN pending
      BY <2>2 DEF Tick
    <3>3. Len(pending') = Len(pending)
      <4>1. \A m, n \in Nat : 1 .. m = 1 .. n => m = n
        <5> TAKE m, n \in Nat
        <5> HAVE 1 .. m = 1 .. n
        <5>1. \A k \in Int : k \in 1 .. m <=> k \in 1 .. n
          OBVIOUS
        <5>2. m \in 1 .. m => m <= n
          BY <5>1
        <5>3. n \in 1 .. n => n <= m
          BY <5>1
        <5>4. QED
          BY <5>2, <5>3
      <4>2. 1 .. Len(pending') = 1 .. Len(pending)
        BY <3>1, <3>2
      <4>3. QED
        BY <3>1, <4>1, <4>2
    <3>4. \A i \in 1 .. Len(pending) : pending[i] \in Entry
      BY AccountIs
    <3>5. \A e \in Entry : \A n : [e EXCEPT !.due = n].job = e.job
      BY DEF Entry
    <3>6. \A i \in 1 .. Len(pending) : pending'[i] = [pending[i] EXCEPT !.due = Older(@)]
      BY <2>2, <3>1 DEF Tick
    <3>7. \A i \in 1 .. Len(pending) : pending'[i].job = pending[i].job
      <4> TAKE i \in 1 .. Len(pending)
      <4> DEFINE n == Older(pending[i].due)
      <4>1. pending'[i] = [pending[i] EXCEPT !.due = n]
        BY <3>6
      <4> HIDE DEF n
      <4>2. QED
        BY <3>4, <3>5, <4>1
    <3>8. QED
      BY <3>3, <3>7
  <2>3. QED
    BY <2>1, <2>2 DEF FlushResume, Exit, vars
<1>3. pending' \in Seq(Entry) /\ pending \in Seq(Entry)
  BY DEF TypeOK
<1>4. \A x : HeldAt(pending', x) <=> HeldAt(pending, x)
  BY <1>2 DEF HeldAt
<1>5. Held(pending') = Held(pending)
  BY <1>3, <1>4, HeldIn
<1>6. Queued' = Queued /\ Pending' = Pending /\ InFlight' = InFlight
  BY <1>1, <1>5 DEF Queued, Pending, Held, InFlight
<1>7. NoTwice(queues', pending')
  BY <1>1, <1>2 DEF AccountInv, NoTwice
<1>8. promised' \ (settled' \cup superseded') \subseteq InFlight'
  <2>1. CASE promised' = promised
    BY <1>1, <1>6, <2>1 DEF AccountInv
  <2>2. CASE NothingQueued(queues, pending) /\ promised' = accepted
    <3>1. Queued = {} /\ Pending = {}
      BY <2>2, AccountIs, NothingQueuedIsEmpty
    <3>2. QED
      BY <1>1, <1>6, <2>2, <3>1 DEF AccountInv
  <2>3. QED
    BY <2>1, <2>2 DEF Tick, FlushResume, Exit, vars, history
<1>9. QED
  BY <1>1, <1>6, <1>7, <1>8 DEF AccountInv

LEMMA InitAccountInv == Init => AccountInv
<1> SUFFICES ASSUME Init PROVE AccountInv
  OBVIOUS
<1>1. TypeOK
  BY InitWakeInv DEF WakeInv
<1>2. \A p \in Levels : queues[p] = <<>>
  BY DEF Init
<1>3. \A x : ~WaitsAt(queues, x)
  BY <1>2 DEF WaitsAt
<1>4. \A x : ~HeldAt(pending, x)
  BY DEF Init, HeldAt
<1>5. Queued = {} /\ Pending = {}
  BY <1>1, <1>3, <1>4, AccountIs, WaitsIn, HeldIn
<1>6. NoTwice(queues, pending)
  BY <1>2 DEF Init, NoTwice
<1>7. QED
  BY <1>5, <1>6 DEF Init, AccountInv, InFlight

LEMMA NextAccountInv == TypeOK /\ TypeOK' /\ AccountInv /\ [Next]_vars => AccountInv'
<1> SUFFICES ASSUME TypeOK, TypeOK', AccountInv, [Next]_vars PROVE AccountInv'
  OBVIOUS
<1>1. CASE Submit
  BY <1>1, EnqueueKeepsAccount, DebounceKeepsAccount DEF Submit
<1>2. CASE DrainMicrotask
  BY <1>2, DrainStepKeepsAccount
<1>3. CASE Timers
  BY <1>3, DrainStepKeepsAccount, DebounceFireKeepsAccount DEF Timers
<1>4. CASE JobFinish
  BY <1>4, JobFinishKeepsAccount
<1>5. CASE FlushStart \/ FlushWake
  BY <1>5, FlushStartKeepsAccount, FlushWakeKeepsAccount
<1>6. CASE Tick \/ FlushResume \/ Exit \/ UNCHANGED vars
  BY <1>6, StillKeepsAccount
<1>7. QED
  BY <1>1, <1>2, <1>3, <1>4, <1>5, <1>6 DEF Next, Shutdown

LEMMA AccountInvariant == Spec => []AccountInv
<1>1. QED
  BY InitAccountInv, NextAccountInv, PipelineTypes, PTL DEF Spec

(* A flush that returned true has left at most one job unsettled of those  *)
(* it had accepted, whatever ran, expired or arrived meanwhile.            *)
THEOREM FlushKeepsItsPromise == Spec => []FlushLosesAtMostOne
<1>1. AccountInv => FlushLosesAtMostOne
  <2> SUFFICES ASSUME AccountInv PROVE FlushLosesAtMostOne
    OBVIOUS
  <2> DEFINE left == promised \ (settled \cup superseded)
  <2>1. left \subseteq {running}
    BY DEF AccountInv, InFlight
  <2>2. IsFiniteSet({running}) /\ Cardinality({running}) = 1
    BY FS_Singleton
  <2>3. IsFiniteSet(left) /\ Cardinality(left) <= 1
    BY <2>1, <2>2, FS_Subset
  <2>4. QED
    BY <2>3 DEF FlushLosesAtMostOne
<1>2. QED
  BY <1>1, AccountInvariant, PTL

-----------------------------------------------------------------------------
(* The pipeline implements rate-limited delivery.                          *)

LEMMA BelowTheCeilingIsRoom ==
    ASSUME CeilingInv, ~Throttled
    PROVE  Delivery!Room
<1>1. Cardinality(InWindow) \in Nat
  BY FS_CardinalityType DEF CeilingInv
<1>2. Cardinality(InWindow) < Ceiling
  BY <1>1, CeilingAssumption DEF Throttled
<1>3. \A S : Delivery!Cardinality(S) = Cardinality(S)
  BY DEF Cardinality, Delivery!Cardinality
<1>4. QED
  BY <1>2, <1>3 DEF InWindow, Delivery!Room

(* A job nobody has submitted is one the abstract system does not know.    *)
LEMMA NotAcceptedIsFresh ==
    ASSUME AccountInv, NEW j \in Jobs, j \notin accepted
    PROVE  Delivery!Fresh(j)
<1>1. j # running
  BY NoneAssumption DEF AccountInv, InFlight
<1>2. QED
  BY <1>1 DEF AccountInv, Delivery!Fresh

(* A pass over all the jobs that wait starts one of them or none.          *)
LEMMA PassDelivers ==
    ASSUME CeilingInv, NEW q, Waits(q) \cup Held(pending') = Queued \cup Pending,
           \/ TakesNone(q) /\ running' = running
           \/ TakesOne(q, pending') /\ running = None,
           UNCHANGED <<settled, superseded>>
    PROVE  [Delivery!Next]_(Delivery!vars)
<1>1. Queued' = Waits(queues') /\ Pending' = Held(pending')
  BY DEF Queued, Waits, Pending, Held
<1>2. CASE TakesNone(q) /\ running' = running
  <2>1. Queued' \cup Pending' = Queued \cup Pending /\ age' = age
    BY <1>1, <1>2 DEF TakesNone
  <2>2. QED
    BY <1>2, <2>1 DEF Delivery!vars
<1>3. CASE TakesOne(q, pending') /\ running = None
  <2>1. PICK j \in Jobs : /\ ~Throttled
                          /\ j \in Waits(q) \ Held(pending')
                          /\ Waits(queues') = Waits(q) \ {j}
                          /\ running' = j
                          /\ age' = [age EXCEPT ![j] = 0]
    BY <1>3 DEF TakesOne
  <2>2. Delivery!Room
    BY <2>1, BelowTheCeilingIsRoom
  <2>3. j \in Queued \cup Pending /\ Queued' \cup Pending' = (Queued \cup Pending) \ {j}
    BY <1>1, <2>1
  <2>4. Delivery!Start(j)
    BY <1>3, <2>1, <2>2, <2>3 DEF Delivery!Start, Delivery!Begin
  <2>5. QED
    BY <2>4 DEF Delivery!Next
<1>4. QED
  BY <1>2, <1>3

LEMMA SubmitDelivers ==
    ASSUME TypeOK, AccountInv, Submit
    PROVE  [Delivery!Next]_(Delivery!vars)
<1>1. ASSUME NEW p \in Levels, NEW j \in Jobs, Enqueue(p, j)
      PROVE  Delivery!Accept(j)
  <2>1. Delivery!Fresh(j)
    BY <1>1, NotAcceptedIsFresh DEF Enqueue
  <2>2. Queued' = Queued \cup {j} /\ Pending' = Pending
    BY <1>1, EnqueueKeepsAccount
  <2>3. QED
    BY <1>1, <2>1, <2>2 DEF Enqueue, history, Delivery!Accept
<1>2. ASSUME NEW p \in Levels, NEW k \in Keys, NEW j \in Jobs, Debounce(p, k, j)
      PROVE  Delivery!Accept(j) \/ \E old \in Jobs : Delivery!Replace(old, j)
  <2>1. Delivery!Fresh(j)
    BY <1>2, NotAcceptedIsFresh DEF Debounce
  <2>2. /\ Queued' = Queued
        /\ \/ Pending' = Pending \cup {j} /\ superseded' = superseded
           \/ \E old \in Pending \ Queued :
                 /\ Pending' = (Pending \ {old}) \cup {j}
                 /\ superseded' = superseded \cup {old}
    BY <1>2, DebounceKeepsAccount
  <2>3. UNCHANGED <<running, age, settled>>
    BY <1>2 DEF Debounce
  <2>4. CASE Pending' = Pending \cup {j} /\ superseded' = superseded
    BY <2>1, <2>2, <2>3, <2>4 DEF Delivery!Accept
  <2>5. ASSUME NEW old \in Pending \ Queued, Pending' = (Pending \ {old}) \cup {j},
               superseded' = superseded \cup {old}
        PROVE  old \in Jobs /\ Delivery!Replace(old, j)
    <3>1. old \in Jobs
      BY AccountInv, TypeOK DEF AccountInv, TypeOK
    <3>2. Queued' \cup Pending' = ((Queued \cup Pending) \ {old}) \cup {j}
      BY <2>2, <2>5
    <3>3. QED
      BY <2>1, <2>3, <2>5, <3>1, <3>2 DEF Delivery!Replace
  <2>6. QED
    BY <2>2, <2>4, <2>5
<1>3. QED
  BY <1>1, <1>2 DEF Submit, Delivery!Next

LEMMA JobFinishDelivers ==
    ASSUME TypeOK, TypeOK', AccountInv, CeilingInv, JobFinish
    PROVE  Delivery!Next
<1>1. running # None /\ settled' = settled \cup {running} /\ superseded' = superseded
  BY DEF JobFinish
<1>2. /\ Pending' = Pending /\ Queued' = Waits(queues')
      /\ Pending = Held(pending) /\ Queued = Waits(queues)
      /\ \/ TakesNone(queues) /\ running' = None
         \/ TakesOne(queues, pending)
  BY JobFinishKeepsAccount, AccountIs DEF Queued, Waits
<1>3. CASE TakesNone(queues) /\ running' = None
  <2>1. Queued' \cup Pending' = Queued \cup Pending /\ age' = age
    BY <1>2, <1>3 DEF TakesNone
  <2>2. QED
    BY <1>1, <1>3, <2>1 DEF Delivery!Next, Delivery!Finish
<1>4. CASE TakesOne(queues, pending)
  <2>1. PICK j \in Jobs : /\ ~Throttled
                          /\ j \in Waits(queues) \ Held(pending)
                          /\ Waits(queues') = Waits(queues) \ {j}
                          /\ running' = j
                          /\ age' = [age EXCEPT ![j] = 0]
    BY <1>4 DEF TakesOne
  <2>2. Delivery!Room
    BY <2>1, BelowTheCeilingIsRoom
  <2>3. j \in Queued \cup Pending /\ Queued' \cup Pending' = (Queued \cup Pending) \ {j}
    BY <1>2, <2>1
  <2>4. Delivery!Begin(j)
    BY <2>1, <2>2, <2>3 DEF Delivery!Begin
  <2>5. QED
    BY <1>1, <2>4 DEF Delivery!Next, Delivery!Finish
<1>5. QED
  BY <1>2, <1>3, <1>4

LEMMA NextDelivers ==
    TypeOK /\ TypeOK' /\ AccountInv /\ CeilingInv /\ [Next]_vars
        => [Delivery!Next]_(Delivery!vars)
<1> SUFFICES ASSUME TypeOK, TypeOK', AccountInv, CeilingInv, [Next]_vars
             PROVE  [Delivery!Next]_(Delivery!vars)
  OBVIOUS
<1>1. CASE Submit
  BY <1>1, SubmitDelivers
<1>2. CASE DrainMicrotask \/ RetryFire
  <2>1. \/ TakesNone(queues) /\ running' = running
        \/ TakesOne(queues, pending) /\ running = None
    BY <1>2, DrainStepKeepsAccount
  <2>2. pending' = pending /\ UNCHANGED <<settled, superseded>>
    BY <1>2 DEF DrainMicrotask, RetryFire, history
  <2>3. Waits(queues) \cup Held(pending') = Queued \cup Pending
    BY <2>2, AccountIs
  <2>4. QED
    BY <2>1, <2>2, <2>3, PassDelivers
<1>3. ASSUME NEW i \in DOMAIN pending, DebounceFire(i)
      PROVE  UNCHANGED Delivery!vars
  <2>1. Queued' \cup Pending' = Queued \cup Pending
    BY <1>3, DebounceFireKeepsAccount
  <2>2. QED
    BY <1>3, <2>1 DEF DebounceFire, history, Delivery!vars
<1>4. CASE JobFinish
  BY <1>4, JobFinishDelivers
<1>5. CASE FlushStart
  <2>1. PICK q \in [Levels -> Seq(Jobs)] :
           /\ Pending' = {} /\ Waits(q) = Queued \cup Pending
           /\ \/ TakesNone(q) /\ running' = running
              \/ TakesOne(q, <<>>) /\ running = None
    BY <1>5, FlushStartKeepsAccount
  <2>2. pending' = <<>> /\ UNCHANGED <<settled, superseded>>
    BY <1>5 DEF FlushStart
  <2>3. Waits(q) \cup Held(pending') = Queued \cup Pending
    BY <2>1, <2>2 DEF Held
  <2>4. QED
    BY <2>1, <2>2, <2>3, PassDelivers
<1>6. CASE FlushWake
  <2>1. \/ TakesNone(queues) /\ running' = running
        \/ TakesOne(queues, pending) /\ running = None
    BY <1>6, FlushWakeKeepsAccount
  <2>2. pending' = pending /\ UNCHANGED <<settled, superseded>>
    BY <1>6 DEF FlushWake
  <2>3. Waits(queues) \cup Held(pending') = Queued \cup Pending
    BY <2>2, AccountIs
  <2>4. QED
    BY <2>1, <2>2, <2>3, PassDelivers
<1>7. CASE Tick
  <2>1. Queued' = Queued /\ Pending' = Pending /\ UNCHANGED <<running, settled, superseded>>
    BY <1>7, StillKeepsAccount
  <2>2. Delivery!TimePasses
    BY <1>7, <2>1 DEF Tick, Delivery!TimePasses
  <2>3. QED
    BY <2>2 DEF Delivery!Next
<1>8. CASE FlushResume \/ Exit \/ UNCHANGED vars
  <2>1. Queued' = Queued /\ Pending' = Pending /\ UNCHANGED <<running, settled, superseded>>
    BY <1>8, StillKeepsAccount
  <2>2. age' = age
    BY <1>8 DEF FlushResume, Exit, vars
  <2>3. QED
    BY <2>1, <2>2 DEF Delivery!vars
<1>9. QED
  BY <1>1, <1>2, <1>3, <1>4, <1>5, <1>6, <1>7, <1>8 DEF Next, Timers, Shutdown

(* The whole pipeline, with its levels, its table, its timers and its      *)
(* flush, is a bag of jobs of which one at a time is started below the     *)
(* ceiling, each once: no step loses a job, starts it twice or brings one  *)
(* back.                                                                   *)
THEOREM PipelineDelivers == Spec => DeliversAtTheCeiling
<1>1. Init => Delivery!Init
  <2> SUFFICES ASSUME Init PROVE Delivery!Init
    OBVIOUS
  <2>1. AccountInv
    BY InitAccountInv
  <2>2. Queued \cup Pending = {}
    BY <2>1 DEF AccountInv, Init
  <2>3. QED
    BY <2>2 DEF Init, Delivery!Init
<1>2. QED
  BY <1>1, NextDelivers, PipelineTypes, AccountInvariant, CeilingInvariant, PTL
  DEF Spec, DeliversAtTheCeiling, Delivery!Spec
=============================================================================
