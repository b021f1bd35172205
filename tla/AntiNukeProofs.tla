---------------------------- MODULE AntiNukeProofs ----------------------------
(***************************************************************************)
(* Theorems about AntiNuke: for any events, actors, protections, budgets,  *)
(* windows and limits, however the observations of one actor interleave     *)
(* with each other, with the probe and with restarts, the owner is told    *)
(* once per incident, no incident is latched and then forgotten, and a     *)
(* burst closer together than the shortest window in play leaves its actor *)
(* latched.                                                                *)
(***************************************************************************)
EXTENDS AntiNuke, FiniteSetTheorems, TLAPS

-----------------------------------------------------------------------------
(* The inductive invariant.                                                *)

Watched == [actor : Actors \ {Self}, protection : Protections]

(* An observation under way knows whose event it watches; whoever has been *)
(* told about ended.                                                       *)
Known ==
    \A e \in Events :
        /\ stage[e] \in {"resolving", "punishing", "telling"} => by[e] \in Watched
        /\ e \in told => stage[e] = "ended"

(* Latching an actor and taking the incident on are one step: an actor is  *)
(* latched exactly while one event is the report of the incident.          *)
Single == \A a \in Actors : IF a \in latched THEN \E e \in Events : Reports(a) = {e} ELSE Reports(a) = {}

NukeInv ==
    /\ stage \in [Events -> Stages] /\ DOMAIN by = Events /\ told \subseteq Events
    /\ latched \subseteq Actors \ {Self}
    /\ Known
    /\ Single

(* The event is a report, or a step keeps every report as it was.          *)
Reported(e, a) == by[e] # None /\ by[e].actor = a /\ (stage[e] \in {"punishing", "telling"} \/ e \in told)

LEMMA ReportsAre == \A a : Reports(a) = {e \in Events : Reported(e, a)}
BY DEF Reports, Reported

LEMMA SameReports ==
    ASSUME Single, latched' = latched,
           \A e \in Events, a \in Actors : Reported(e, a)' <=> Reported(e, a)
    PROVE  Single'
<1>1. ASSUME NEW a \in Actors
      PROVE  Reports(a)' = Reports(a)
  BY DEF Reports, Reported
<1>2. QED
  BY <1>1 DEF Single

LEMMA InitHolds == Init => NukeInv
<1> SUFFICES ASSUME Init
             PROVE  NukeInv
  OBVIOUS
<1>1. \A a : Reports(a) = {}
  BY DEF Init, Reports
<1>2. QED
  BY <1>1 DEF Init, NukeInv, Known, Single, Stages

LEMMA ObserveHolds ==
    ASSUME NukeInv, NEW e \in Events, NEW a \in Actors, NEW p \in Protections, Observe(e, a, p)
    PROVE  NukeInv'
<1>1. /\ stage[e] = "none" /\ e \notin told /\ latched' = latched /\ told' = told
  BY DEF Observe, NukeInv, Known, engine
<1>2. \A f \in Events \ {e} : stage'[f] = stage[f] /\ by'[f] = by[f]
  BY DEF Observe, NukeInv
<1>3. /\ stage' \in [Events -> Stages] /\ DOMAIN by' = Events
      /\ stage'[e] \in {"ended", "resolving"}
      /\ stage'[e] = "resolving" => by'[e] \in Watched
  BY DEF Observe, NukeInv, Stages, Watched
<1>4. \A f \in Events, b \in Actors : Reported(f, b)' <=> Reported(f, b)
  BY <1>1, <1>2, <1>3 DEF Reported
<1>5. Single'
  BY <1>1, <1>4, SameReports DEF NukeInv
<1>6. Known'
  BY <1>1, <1>2, <1>3 DEF NukeInv, Known
<1>7. QED
  BY <1>1, <1>3, <1>5, <1>6 DEF NukeInv

(* An observation that ends without counting past the limit.               *)
LEMMA EndHolds ==
    ASSUME NukeInv, NEW e \in Events, stage[e] = "resolving",
           stage' = [stage EXCEPT ![e] = "ended"], by' = by, told' = told, latched' = latched
    PROVE  NukeInv'
<1>1. /\ stage' \in [Events -> Stages] /\ stage'[e] = "ended"
      /\ \A f \in Events \ {e} : stage'[f] = stage[f]
  BY DEF NukeInv, Stages
<1>2. e \notin told
  BY DEF NukeInv, Known
<1>3. \A f \in Events, b \in Actors : Reported(f, b)' <=> Reported(f, b)
  BY <1>1, <1>2 DEF Reported
<1>4. Single'
  BY <1>3, SameReports DEF NukeInv
<1>5. Known'
  BY <1>1 DEF NukeInv, Known
<1>6. QED
  BY <1>1, <1>4, <1>5 DEF NukeInv

(* The count that trips: the actor is latched in the same step.            *)
LEMMA TripHolds ==
    ASSUME None \notin Watched, NukeInv, NEW e \in Events, stage[e] = "resolving",
           by[e].actor \notin latched, latched' = latched \cup {by[e].actor},
           stage' = [stage EXCEPT ![e] = "punishing"], by' = by, told' = told
    PROVE  NukeInv'
<1>1. /\ stage' \in [Events -> Stages] /\ stage'[e] = "punishing"
      /\ \A f \in Events \ {e} : stage'[f] = stage[f]
  BY DEF NukeInv, Stages
<1>2. by[e] \in Watched /\ by[e] # None /\ by[e].actor \in Actors \ {Self}
  BY DEF NukeInv, Known, Watched
<1>3. e \notin told
  BY DEF NukeInv, Known
<1>4. ASSUME NEW a \in Actors
      PROVE  IF a \in latched' THEN \E f \in Events : Reports(a)' = {f} ELSE Reports(a)' = {}
  <2>1. CASE a = by[e].actor
    <3>1. Reports(a) = {}
      BY <2>1 DEF NukeInv, Single
    <3>2. \A f \in Events \ {e} : ~Reported(f, a)'
      BY <1>1, <3>1, ReportsAre DEF Reported
    <3>3. Reported(e, a)'
      BY <1>1, <1>2, <2>1 DEF Reported
    <3>4. Reports(a)' = {e}
      BY <3>2, <3>3 DEF Reports, Reported
    <3>5. QED
      BY <2>1, <3>4
  <2>2. CASE a # by[e].actor
    <3>1. \A f \in Events : Reported(f, a)' <=> Reported(f, a)
      BY <1>1, <2>2 DEF Reported
    <3>2. Reports(a)' = Reports(a)
      BY <3>1 DEF Reports, Reported
    <3>3. QED
      BY <2>2, <3>2 DEF NukeInv, Single
  <2>3. QED
    BY <2>1, <2>2
<1>5. Known'
  BY <1>1, <1>2, <1>3 DEF NukeInv, Known
<1>6. QED
  BY <1>1, <1>2, <1>4, <1>5 DEF NukeInv, Single

LEMMA CountHolds ==
    ASSUME None \notin Watched, NukeInv, NEW e \in Events, Count(e)
    PROVE  NukeInv'
<1>1. stage[e] = "resolving" /\ by' = by /\ told' = told
  BY DEF Count
<1>2. \/ latched' = latched /\ stage' = [stage EXCEPT ![e] = "ended"]
      \/ /\ by[e].actor \notin latched /\ latched' = latched \cup {by[e].actor}
         /\ stage' = [stage EXCEPT ![e] = "punishing"]
  BY DEF Count, Latch, engine
<1>3. QED
  BY <1>1, <1>2, EndHolds, TripHolds

(* The attempt and the telling hand the report on.                         *)
LEMMA MitigationHolds ==
    ASSUME NukeInv, NEW e \in Events, Punish(e) \/ Tell(e)
    PROVE  NukeInv'
<1>1. /\ stage[e] \in {"punishing", "telling"} /\ by' = by /\ latched' = latched
      /\ \/ stage'[e] = "telling" /\ told' = told
         \/ stage'[e] = "ended" /\ told' = told \cup {e}
      /\ stage' \in [Events -> Stages] /\ \A f \in Events \ {e} : stage'[f] = stage[f]
  BY DEF Punish, Tell, NukeInv, Stages, engine
<1>2. by[e] \in Watched
  BY <1>1 DEF NukeInv, Known
<1>3. \A f \in Events, b \in Actors : Reported(f, b)' <=> Reported(f, b)
  BY <1>1 DEF Reported
<1>4. Single'
  BY <1>1, <1>3, SameReports DEF NukeInv
<1>5. Known'
  BY <1>1, <1>2 DEF NukeInv, Known
<1>6. QED
  BY <1>1, <1>4, <1>5 DEF NukeInv

LEMMA RestartHolds ==
    ASSUME NukeInv, Restart
    PROVE  NukeInv'
<1>1. /\ latched' = {} /\ told' = {} /\ by' = by /\ stage' \in [Events -> Stages]
      /\ \A e \in Events : stage'[e] \notin {"resolving", "punishing", "telling"}
  BY DEF Restart, NukeInv, Stages
<1>2. \A a \in Actors : Reports(a)' = {}
  BY <1>1 DEF Reports
<1>3. QED
  BY <1>1, <1>2 DEF NukeInv, Known, Single

LEMMA NextHolds ==
    ASSUME None \notin Watched, NukeInv, [Next]_vars
    PROVE  NukeInv'
<1>1. ASSUME NEW e \in Events, NEW a \in Actors, NEW p \in Protections, Observe(e, a, p)
      PROVE  NukeInv'
  BY <1>1, ObserveHolds
<1>2. ASSUME NEW e \in Events, NotWatched(e)
      PROVE  NukeInv'
  BY <1>2, EndHolds DEF NotWatched, engine
<1>3. ASSUME NEW e \in Events, Count(e)
      PROVE  NukeInv'
  BY <1>3, CountHolds
<1>4. ASSUME NEW e \in Events, Punish(e) \/ Tell(e)
      PROVE  NukeInv'
  BY <1>4, MitigationHolds
<1>5. CASE Prune \/ (\E p \in Protections : Toggle(p)) \/ Tick \/ UNCHANGED vars
  <2>1. UNCHANGED <<stage, by, latched, told>>
    BY <1>5 DEF Prune, Toggle, Tick, vars, engine
  <2>2. \A f \in Events, b \in Actors : Reported(f, b)' <=> Reported(f, b)
    BY <2>1 DEF Reported
  <2>3. Single'
    BY <2>1, <2>2, SameReports DEF NukeInv
  <2>4. QED
    BY <2>1, <2>3 DEF NukeInv, Known
<1>6. CASE Restart
  BY <1>6, RestartHolds
<1>7. QED
  BY <1>1, <1>2, <1>3, <1>4, <1>5, <1>6 DEF Next, Observing

-----------------------------------------------------------------------------
(* Exactly one message per incident (anti-nuke.ts, record and trip): of    *)
(* all the observations of one actor, past the limit together or one after *)
(* the other, one mitigates, and an actor who is latched is being          *)
(* mitigated or has been reported, whatever Discord answers and wherever a *)
(* restart falls.  None is no observation.                                 *)
THEOREM OneMessagePerIncident ==
    ASSUME None \notin [actor : Actors \ {Self}, protection : Protections]
    PROVE  Spec => []OneReportPerIncident
<1>1. NukeInv /\ [Next]_vars => NukeInv'
  BY NextHolds DEF Watched
<1>2. NukeInv => OneReportPerIncident
  <2>1. ASSUME NukeInv, NEW a \in Actors
        PROVE  IF a \in latched THEN Cardinality(Reports(a)) = 1 ELSE Cardinality(Reports(a)) <= 1
    <3>1. CASE a \in latched
      <4>1. PICK e \in Events : Reports(a) = {e}
        BY <2>1, <3>1 DEF NukeInv, Single
      <4>2. QED
        BY <3>1, <4>1, FS_Singleton
    <3>2. CASE a \notin latched
      <4>1. Reports(a) = {}
        BY <2>1, <3>2 DEF NukeInv, Single
      <4>2. Cardinality(Reports(a)) = 0
        BY <4>1, FS_EmptySet
      <4>3. QED
        BY <3>2, <4>2
    <3>3. QED
      BY <3>1, <3>2
  <2>2. QED
    BY <2>1 DEF OneReportPerIncident
<1>3. QED
  BY <1>1, <1>2, InitHolds, PTL DEF Spec

-----------------------------------------------------------------------------
(* Bursts: what the counters hold is what the windows ask for.             *)

(* A counted event is one somebody else than the bot did, and is observed  *)
(* no more.                                                                *)
CountedOnes ==
    \A e \in Events : countedAt[e] # None => by[e] \in Watched /\ stage[e] \notin {"none", "resolving"}

(* What is counted of an actor not latched yet is within the limit, and    *)
(* holds every event no prune and no count on its budget drops yet.        *)
WindowsAreKept ==
    \A a \in Actors \ latched, x \in Budgets :
        /\ Cardinality(hits[a][x]) <= LimitOf(x)
        /\ \A f \in Events :
              (/\ countedAt[f] # None /\ by[f].actor = a /\ Action(by[f].protection) = x
               /\ Spared(x, now - countedAt[f]))
              => [of |-> f, at |-> countedAt[f]] \in hits[a][x]

FiniteHits == \A a \in Actors, x \in Budgets : IsFiniteSet(hits[a][x])

BurstInv ==
    /\ TypeOK /\ NukeInv
    /\ CountedOnes /\ FiniteHits
    /\ WindowsAreKept /\ CloseBurstsAreCaught

(* What the proofs take of the constants: None is no event's, limits and   *)
(* bounds are naturals and windows integers, in no relation to each other. *)
NukeConstants ==
    /\ MaxTime \in Nat /\ MaxRestarts \in Nat /\ MaxToggles \in Nat /\ PruneWindow \in Int
    /\ None \notin Nat /\ None \notin [actor : Actors, protection : Protections]
    /\ \A p \in Protections : WindowOf(p) \in Int
    /\ \A x \in Budgets : LimitOf(x) \in Nat

(* What is younger than a window: part of what there was.                  *)
LEMMA WithinIsPart ==
    ASSUME NEW H, IsFiniteSet(H), NEW w
    PROVE  /\ Within(H, w) \subseteq H
           /\ IsFiniteSet(Within(H, w)) /\ Cardinality(Within(H, w)) <= Cardinality(H)
BY FS_Subset DEF Within

(* A set of events that were all kept is no larger than what was kept.     *)
LEMMA KeptBoundsCount ==
    ASSUME NEW H, IsFiniteSet(H), NEW F, \A f \in F : \E h \in H : h.of = f
    PROVE  IsFiniteSet(F) /\ Cardinality(F) <= Cardinality(H)
<1> DEFINE I == {h.of : h \in H}
<1>1. IsFiniteSet(I) /\ Cardinality(I) <= Cardinality(H)
  <2>1. [h \in H |-> h.of] \in Surjection(H, I)
    BY DEF Surjection
  <2>2. QED
    BY <2>1, FS_Surjection
<1>2. F \subseteq I
  OBVIOUS
<1> HIDE DEF I
<1>3. IsFiniteSet(F) /\ Cardinality(F) <= Cardinality(I)
  BY <1>1, <1>2, FS_Subset
<1>4. Cardinality(F) \in Nat /\ Cardinality(I) \in Nat /\ Cardinality(H) \in Nat
  BY <1>1, <1>3, FS_CardinalityType
<1>5. QED
  BY <1>1, <1>3, <1>4

LEMMA BurstInit == NukeConstants /\ Init => BurstInv
<1> SUFFICES ASSUME NukeConstants, Init
             PROVE  BurstInv
  OBVIOUS
<1>1. /\ hits = [a \in Actors |-> [x \in Budgets |-> {}]]
      /\ IsFiniteSet({}) /\ Cardinality({}) = 0
  BY FS_EmptySet DEF Init
<1>2. \A a \in Actors, x \in Budgets : hits[a][x] = {}
  BY <1>1
<1>3. NukeInv
  BY InitHolds
<1>4. TypeOK
  <2>1. \A a \in Actors, x \in Budgets : Cardinality(hits[a][x]) <= LimitOf(x) + 1
    BY <1>1, <1>2 DEF NukeConstants
  <2>2. hits \in [Actors -> [Budgets -> SUBSET [of : Events, at : 0 .. now]]]
    BY <1>1
  <2>3. /\ by \in [Events -> [actor : Actors, protection : Protections] \cup {None}]
        /\ countedAt \in [Events -> 0 .. now \cup {None}]
        /\ stage \in [Events -> Stages]
    BY DEF Init, Stages
  <2>4. now \in 0 .. MaxTime /\ restarts \in 0 .. MaxRestarts /\ toggles \in 0 .. MaxToggles
    <3>1. now = 0 /\ restarts = 0 /\ toggles = 0
      BY DEF Init
    <3>2. QED
      BY <3>1 DEF NukeConstants
  <2>6. on \in SUBSET Protections /\ applied = {} /\ told = {} /\ latched = {} /\ pruned \in BOOLEAN
    BY DEF Init
  <2>5. QED
    BY <2>1, <2>2, <2>3, <2>4, <2>6 DEF TypeOK
<1>5. \A e \in Events : countedAt[e] = None
  BY DEF Init
<1>6. WindowsAreKept
  BY <1>1, <1>2, <1>5 DEF WindowsAreKept, NukeConstants
<1>7. QED
  BY <1>1, <1>2, <1>3, <1>4, <1>5, <1>6 DEF BurstInv, CountedOnes, FiniteHits, CloseBurstsAreCaught

(* A step that neither counts nor forgets, and lets no time pass.          *)
LEMMA NoCountKeeps ==
    ASSUME NukeConstants, BurstInv, NukeInv', TypeOK', UNCHANGED <<now, engine>>,
           \A e \in Events : countedAt[e] # None => by'[e] = by[e],
           \A e \in Events : countedAt[e] # None => stage'[e] \notin {"none", "resolving"}
    PROVE  BurstInv'
<1>1. UNCHANGED <<now, hits, latched, countedAt>>
  BY DEF engine
<1>2. CountedOnes' /\ FiniteHits'
  BY <1>1 DEF BurstInv, CountedOnes, FiniteHits
<1>3. WindowsAreKept'
  BY <1>1 DEF BurstInv, WindowsAreKept, Spared, Budgets
<1>4. ASSUME NEW e \in Events, countedAt[e] # None
      PROVE  LET a == by[e].actor  x == Action(by[e].protection) IN
             CloseBurst(a, x, countedAt[e])' = CloseBurst(a, x, countedAt[e])
  BY <1>1, <1>4 DEF CloseBurst, CountedBy, Spared
<1>5. CloseBurstsAreCaught'
  BY <1>1, <1>4 DEF BurstInv, CloseBurstsAreCaught
<1>6. QED
  BY <1>2, <1>3, <1>5 DEF BurstInv

LEMMA ObserveKeepsBursts ==
    ASSUME NukeConstants, BurstInv, NukeInv', NEW e \in Events, NEW a \in Actors, NEW p \in Protections,
           Observe(e, a, p)
    PROVE  BurstInv'
<1>1. /\ stage[e] = "none" /\ UNCHANGED <<now, on, engine, applied, told, pruned, restarts, toggles>>
      /\ UNCHANGED <<hits, latched, countedAt>> /\ countedAt[e] = None
  BY DEF Observe, engine, BurstInv, CountedOnes
<1>2. /\ stage' \in [Events -> Stages] /\ \A f \in Events \ {e} : stage'[f] = stage[f] /\ by'[f] = by[f]
      /\ by' \in [Events -> [actor : Actors, protection : Protections] \cup {None}]
  BY DEF Observe, BurstInv, TypeOK, Stages
<1>3. TypeOK'
  BY <1>1, <1>2 DEF BurstInv, TypeOK, Budgets
<1>4. QED
  BY <1>1, <1>2, <1>3, NoCountKeeps DEF BurstInv, CountedOnes

(* An observation that ends, tries the punishment or tells; a toggle.      *)
LEMMA QuietStepsKeepBursts ==
    ASSUME NukeConstants, BurstInv, NukeInv',
           \/ \E e \in Events : NotWatched(e) \/ Punish(e) \/ Tell(e)
           \/ \E p \in Protections : Toggle(p)
           \/ UNCHANGED vars
    PROVE  BurstInv'
<1>1. UNCHANGED <<now, by, engine, hits, latched, countedAt, pruned, restarts>>
  BY DEF NotWatched, Punish, Tell, Toggle, vars, engine
<1>2. \A f \in Events : stage'[f] = stage[f] \/ stage'[f] \in {"telling", "ended"}
  BY DEF NotWatched, Punish, Tell, Toggle, vars, BurstInv, TypeOK
<1>3. stage' \in [Events -> Stages]
  BY DEF NukeInv
<1>4. on' \in SUBSET Protections /\ toggles' \in 0 .. MaxToggles
  BY DEF NotWatched, Punish, Tell, Toggle, vars, BurstInv, TypeOK, NukeConstants
<1>5. applied' \in SUBSET Events /\ told' \in SUBSET Events
  BY DEF NotWatched, Punish, Tell, Toggle, vars, BurstInv, TypeOK
<1>6. TypeOK'
  BY <1>1, <1>3, <1>4, <1>5 DEF BurstInv, TypeOK, Budgets
<1>7. QED
  BY <1>1, <1>2, <1>6, NoCountKeeps DEF BurstInv, CountedOnes

LEMMA RestartKeepsBursts ==
    ASSUME NukeConstants, BurstInv, NukeInv', Restart
    PROVE  BurstInv'
<1>1. /\ hits' = [a \in Actors |-> [x \in Budgets |-> {}]]
      /\ IsFiniteSet({}) /\ Cardinality({}) = 0
  BY FS_EmptySet DEF Restart
<1>2. \A a \in Actors, x \in Budgets : hits'[a][x] = {}
  BY <1>1
<1>3. /\ \A e \in Events : countedAt'[e] = None
      /\ countedAt' \in [Events -> 0 .. now' \cup {None}]
  BY DEF Restart
<1>4. WindowsAreKept' /\ FiniteHits' /\ CountedOnes' /\ CloseBurstsAreCaught'
  <2>1. Budgets' = Budgets
    BY DEF Budgets
  <2>2. QED
    BY <1>1, <1>2, <1>3, <2>1 DEF WindowsAreKept, FiniteHits, CountedOnes, CloseBurstsAreCaught, NukeConstants
<1>5. TypeOK'
  <2>1. hits' \in [Actors -> [Budgets -> SUBSET [of : Events, at : 0 .. now']]]
    BY <1>1
  <2>2. \A a \in Actors, x \in Budgets : Cardinality(hits'[a][x]) <= LimitOf(x) + 1
    BY <1>1, <1>2 DEF NukeConstants
  <2>3. /\ latched' = {} /\ told' = {} /\ UNCHANGED <<now, on, by, applied, pruned, toggles>>
        /\ restarts' \in 0 .. MaxRestarts /\ stage' \in [Events -> Stages]
    BY DEF Restart, BurstInv, TypeOK, NukeConstants, NukeInv
  <2>4. QED
    BY <1>3, <2>1, <2>2, <2>3 DEF BurstInv, TypeOK, Budgets
<1>6. QED
  BY <1>4, <1>5 DEF BurstInv

(* The probe drops nothing that is younger than its own window.            *)
LEMMA PruneKeepsBursts ==
    ASSUME NukeConstants, BurstInv, NukeInv', Prune
    PROVE  BurstInv'
<1>1. /\ UNCHANGED <<now, on, stage, by, latched, countedAt, applied, told, restarts, toggles>>
      /\ pruned' = TRUE
  BY DEF Prune
<1>2. ASSUME NEW a \in Actors, NEW x \in Budgets
      PROVE  /\ hits'[a][x] = Within(hits[a][x], PruneWindow)
             /\ hits'[a][x] \subseteq hits[a][x] /\ IsFiniteSet(hits'[a][x])
             /\ Cardinality(hits'[a][x]) <= Cardinality(hits[a][x])
             /\ Cardinality(hits'[a][x]) \in Nat /\ Cardinality(hits[a][x]) \in Nat
  <2>1. hits'[a][x] = Within(hits[a][x], PruneWindow)
    BY <1>2 DEF Prune
  <2>2. IsFiniteSet(hits[a][x])
    BY <1>2 DEF BurstInv, FiniteHits
  <2>3. QED
    BY <2>1, <2>2, WithinIsPart, FS_CardinalityType
<1>3. hits' \in [Actors -> [Budgets -> SUBSET [of : Events, at : 0 .. now]]]
  <2>1. hits \in [Actors -> [Budgets -> SUBSET [of : Events, at : 0 .. now]]]
    BY DEF BurstInv, TypeOK
  <2>2. \A a \in Actors, x \in Budgets : Within(hits[a][x], PruneWindow) \in SUBSET [of : Events, at : 0 .. now]
    BY <2>1 DEF Within
  <2>3. QED
    BY <2>2 DEF Prune
<1>4. TypeOK'
  <2>1. \A a \in Actors, x \in Budgets : Cardinality(hits'[a][x]) <= LimitOf(x) + 1
    BY <1>2 DEF BurstInv, TypeOK, NukeConstants
  <2>2. QED
    BY <1>1, <1>3, <2>1 DEF BurstInv, TypeOK, Budgets
<1>5. ASSUME NEW a \in Actors \ latched, NEW x \in Budgets, NEW f \in Events,
             countedAt[f] # None, by[f].actor = a, Action(by[f].protection) = x,
             Spared(x, now - countedAt[f])
      PROVE  [of |-> f, at |-> countedAt[f]] \in hits'[a][x]
  <2>1. [of |-> f, at |-> countedAt[f]] \in hits[a][x]
    BY <1>5 DEF BurstInv, WindowsAreKept
  <2>3. now - countedAt[f] < PruneWindow
    BY <1>5 DEF Spared
  <2>4. QED
    BY <1>2, <2>1, <2>3 DEF Within
<1>6. WindowsAreKept'
  <2>1. \A a \in Actors \ latched, x \in Budgets : Cardinality(hits'[a][x]) <= LimitOf(x)
    BY <1>2 DEF BurstInv, WindowsAreKept, NukeConstants
  <2>2. QED
    BY <1>1, <1>5, <2>1 DEF WindowsAreKept, Budgets, Spared
<1>7. CountedOnes' /\ FiniteHits'
  BY <1>1, <1>2 DEF BurstInv, CountedOnes, FiniteHits, Budgets
<1>8. CloseBurstsAreCaught'
  <2>1. \A a, x, t : CloseBurst(a, x, t)' = CloseBurst(a, x, t)
    BY <1>1 DEF CloseBurst, CountedBy, Spared
  <2>2. QED
    BY <1>1, <2>1 DEF BurstInv, CloseBurstsAreCaught
<1>9. QED
  BY <1>4, <1>6, <1>7, <1>8 DEF BurstInv

(* Time takes events out of windows, and puts none in.                     *)
LEMMA TickKeepsBursts ==
    ASSUME NukeConstants, BurstInv, NukeInv', Tick
    PROVE  BurstInv'
<1>1. /\ now' = now + 1 /\ now < MaxTime /\ now \in Nat
      /\ UNCHANGED <<on, stage, by, hits, latched, countedAt, applied, told, restarts, toggles>>
      /\ pruned' = FALSE
  BY DEF Tick, engine, BurstInv, TypeOK, NukeConstants
<1>2. TypeOK'
  <2>1. 0 .. now \subseteq 0 .. now' /\ now' \in 0 .. MaxTime
    BY <1>1 DEF NukeConstants
  <2>2. hits' \in [Actors -> [Budgets -> SUBSET [of : Events, at : 0 .. now']]]
    <3>1. [of : Events, at : 0 .. now] \subseteq [of : Events, at : 0 .. now']
      BY <2>1
    <3>2. \A a \in Actors, x \in Budgets : hits[a][x] \in SUBSET [of : Events, at : 0 .. now']
      BY <3>1 DEF BurstInv, TypeOK
    <3>3. QED
      BY <1>1, <3>2 DEF BurstInv, TypeOK
  <2>3. countedAt' \in [Events -> 0 .. now' \cup {None}]
    BY <1>1, <2>1 DEF BurstInv, TypeOK
  <2>4. QED
    BY <1>1, <2>1, <2>2, <2>3 DEF BurstInv, TypeOK, Budgets
<1>3. WindowsAreKept'
  <2>1. \A f \in Events, x \in Budgets :
           countedAt[f] # None /\ Spared(x, now' - countedAt[f]) => Spared(x, now - countedAt[f])
    <3>1. \A f \in Events : countedAt[f] # None => countedAt[f] \in Nat
      BY DEF BurstInv, TypeOK
    <3>2. PruneWindow \in Int /\ \A p \in Protections : WindowOf(p) \in Int
      BY DEF NukeConstants
    <3>3. QED
      BY <1>1, <3>1, <3>2 DEF Spared
  <2>2. \A x, d : Spared(x, d)' <=> Spared(x, d)
    BY DEF Spared
  <2>3. QED
    BY <1>1, <2>1, <2>2 DEF BurstInv, WindowsAreKept, Budgets
<1>4. CountedOnes' /\ FiniteHits'
  BY <1>1 DEF BurstInv, CountedOnes, FiniteHits, Budgets
<1>5. CloseBurstsAreCaught'
  <2>1. \A a, x, t : CloseBurst(a, x, t)' = CloseBurst(a, x, t)
    BY <1>1 DEF CloseBurst, CountedBy, Spared
  <2>2. QED
    BY <1>1, <2>1 DEF BurstInv, CloseBurstsAreCaught
<1>6. QED
  BY <1>2, <1>3, <1>4, <1>5 DEF BurstInv

(* The count itself.                                                       *)
LEMMA CountKeepsBursts ==
    ASSUME NukeConstants, BurstInv, NukeInv', NEW e \in Events, Count(e)
    PROVE  BurstInv'
<1> DEFINE a == by[e].actor
           p == by[e].protection
           x == Action(p)
           old == Within(hits[a][x], WindowOf(p))
           times == old \cup {[of |-> e, at |-> now]}
<1>1. /\ stage[e] = "resolving" /\ by[e] \in Watched
      /\ UNCHANGED <<now, on, by, applied, told, pruned, restarts, toggles>>
      /\ a \in Actors /\ a # Self /\ p \in Protections /\ x \in Budgets
  BY DEF Count, BurstInv, NukeInv, Known, Watched, Budgets
<1>2. CASE a \in latched
  <2>1. stage' = [stage EXCEPT ![e] = "ended"] /\ UNCHANGED engine
    BY <1>2 DEF Count
  <2>2. TypeOK'
    BY <1>1, <2>1 DEF BurstInv, TypeOK, Budgets, Stages, engine
  <2>3. QED
    BY <1>1, <2>1, <2>2, NoCountKeeps DEF BurstInv, CountedOnes, TypeOK
<1>3. CASE a \notin latched
  <2>1. /\ hits' = [hits EXCEPT ![a][x] = times]
        /\ countedAt' = [countedAt EXCEPT ![e] = now]
        /\ latched' = IF Cardinality(times) > LimitOf(x) THEN latched \cup {a} ELSE latched
        /\ stage' = [stage EXCEPT ![e] = IF Cardinality(times) > LimitOf(x) THEN "punishing" ELSE "ended"]
    BY <1>3 DEF Count, Record, Tripped, Latch
  <2>2. /\ hits'[a][x] = times
        /\ \A b \in Actors, y \in Budgets : (b # a \/ y # x) => hits'[b][y] = hits[b][y]
        /\ countedAt'[e] = now /\ \A f \in Events \ {e} : countedAt'[f] = countedAt[f]
    BY <1>1, <2>1 DEF BurstInv, TypeOK
  <2>3. /\ IsFiniteSet(hits[a][x]) /\ hits[a][x] \in SUBSET [of : Events, at : 0 .. now]
        /\ Cardinality(hits[a][x]) <= LimitOf(x) /\ LimitOf(x) \in Nat /\ now \in Nat
    BY <1>1, <1>3 DEF BurstInv, FiniteHits, WindowsAreKept, TypeOK, NukeConstants
  <2>4. /\ old \subseteq hits[a][x] /\ IsFiniteSet(old) /\ Cardinality(old) <= Cardinality(hits[a][x])
        /\ Cardinality(old) \in Nat /\ Cardinality(hits[a][x]) \in Nat
    BY <2>3, WithinIsPart, FS_CardinalityType
  <2>5. /\ IsFiniteSet(times) /\ Cardinality(times) \in Nat /\ Cardinality(times) <= LimitOf(x) + 1
        /\ times \in SUBSET [of : Events, at : 0 .. now]
    <3>1. IsFiniteSet(times) /\ Cardinality(times) \in {Cardinality(old), Cardinality(old) + 1}
      <4> HIDE DEF old
      <4> QED
        BY <2>4, FS_AddElement
    <3>2. times \in SUBSET [of : Events, at : 0 .. now]
      BY <2>3, <2>4
    <3> HIDE DEF times, old
    <3>3. QED
      BY <2>3, <2>4, <3>1, <3>2
  <2>6. TypeOK'
    <3>1. hits' \in [Actors -> [Budgets -> SUBSET [of : Events, at : 0 .. now]]]
      <4> HIDE DEF times, a, x
      <4> QED
        BY <1>1, <2>1, <2>5 DEF BurstInv, TypeOK
    <3>2. \A b \in Actors, y \in Budgets : Cardinality(hits'[b][y]) <= LimitOf(y) + 1
      <4> HIDE DEF times, a, x
      <4> QED
        BY <2>2, <2>5 DEF BurstInv, TypeOK
    <3>3. /\ countedAt' \in [Events -> 0 .. now \cup {None}] /\ latched' \in SUBSET (Actors \ {Self})
          /\ stage' \in [Events -> Stages]
      <4> HIDE DEF times
      <4> QED
        BY <1>1, <2>1, <2>3 DEF BurstInv, TypeOK, Stages
    <3>4. QED
      BY <1>1, <3>1, <3>2, <3>3 DEF BurstInv, TypeOK, Budgets
  <2>7. CountedOnes' /\ FiniteHits'
    <3>1. FiniteHits'
      <4> HIDE DEF times, a, x
      <4> QED
        BY <2>2, <2>5 DEF BurstInv, FiniteHits
    <3>2. CountedOnes'
      <4>1. by'[e] \in Watched /\ stage'[e] \in {"punishing", "ended"}
        BY <1>1, <2>1 DEF BurstInv, TypeOK
      <4>2. \A f \in Events \ {e} : stage'[f] = stage[f] /\ by'[f] = by[f]
        BY <1>1, <2>1 DEF BurstInv, TypeOK
      <4>3. QED
        BY <2>2, <4>1, <4>2 DEF BurstInv, CountedOnes
    <3>3. QED
      BY <3>1, <3>2
  <2>8. ASSUME NEW f \in Events,
               countedAt'[f] # None, by[f].actor = a, Action(by[f].protection) = x,
               Spared(x, now - countedAt'[f])
        PROVE  [of |-> f, at |-> countedAt'[f]] \in times
    <3>1. CASE f = e
      BY <2>2, <3>1
    <3>2. CASE f # e
      <4>1. countedAt'[f] = countedAt[f] /\ countedAt[f] # None /\ now - countedAt[f] < WindowOf(p)
        BY <1>1, <2>2, <2>8, <3>2 DEF Spared
      <4>2. [of |-> f, at |-> countedAt[f]] \in hits[a][x]
        BY <1>1, <1>3, <2>8, <4>1 DEF BurstInv, WindowsAreKept
      <4>3. QED
        BY <2>8, <4>1, <4>2 DEF Within
    <3>3. QED
      BY <3>1, <3>2
  <2>9. WindowsAreKept'
    <3>1. ASSUME NEW b \in Actors \ latched', NEW y \in Budgets
          PROVE  /\ Cardinality(hits'[b][y]) <= LimitOf(y)
                 /\ \A f \in Events :
                       (/\ countedAt'[f] # None /\ by'[f].actor = b /\ Action(by'[f].protection) = y
                        /\ Spared(y, now' - countedAt'[f]))
                       => [of |-> f, at |-> countedAt'[f]] \in hits'[b][y]
      <4>0. b \in Actors \ latched
        BY <2>1
      <4>1. CASE b = a /\ y = x
        <5>1. ~(Cardinality(times) > LimitOf(x))
          BY <2>1, <4>1
        <5>2. Cardinality(times) <= LimitOf(x)
          <6> HIDE DEF times
          <6> QED
            BY <2>3, <2>5, <5>1
        <5>3. QED
          BY <1>1, <2>2, <2>8, <4>1, <5>2
      <4>2. CASE b # a \/ y # x
        <5>1. hits'[b][y] = hits[b][y] /\ Cardinality(hits[b][y]) <= LimitOf(y)
          BY <2>2, <4>0, <4>2 DEF BurstInv, WindowsAreKept
        <5>2. \A f \in Events : by'[f].actor = b /\ Action(by'[f].protection) = y => f # e /\ countedAt'[f] = countedAt[f]
          BY <1>1, <2>2, <4>2
        <5>3. QED
          BY <1>1, <4>0, <5>1, <5>2 DEF BurstInv, WindowsAreKept
      <4>3. QED
        BY <4>1, <4>2
    <3>2. \A y, d : Spared(y, d)' <=> Spared(y, d)
      BY DEF Spared
    <3>3. QED
      BY <3>1, <3>2 DEF WindowsAreKept, Budgets
  <2>10. CloseBurstsAreCaught'
    <3>1. ASSUME NEW f \in Events, countedAt'[f] # None, by'[f].actor \notin latched'
          PROVE  LET b == by[f].actor  y == Action(by[f].protection) IN
                 ~(Cardinality(CloseBurst(b, y, countedAt[f])') > LimitOf(y))
      <4> DEFINE b == by[f].actor
                 y == Action(by[f].protection)
                 t == countedAt'[f]
                 F == {g \in Events : /\ countedAt'[g] # None /\ by[g].actor = b
                                      /\ Action(by[g].protection) = y
                                      /\ countedAt'[g] <= t /\ Spared(y, t - countedAt'[g])}
      <4>1. CloseBurst(b, y, countedAt[f])' = F
        BY <1>1 DEF CloseBurst, CountedBy, Spared
      <4>2. by[f] \in Watched /\ b \in Actors \ latched /\ y \in Budgets
        BY <1>1, <2>1, <2>7, <3>1 DEF CountedOnes, Watched, Budgets
      <4>3. CASE b = a /\ y = x /\ t = now
        <5>1. \A g \in F : \E h \in times : h.of = g
          BY <2>8, <4>2, <4>3
        <5>2. Cardinality(F) <= Cardinality(times) /\ Cardinality(F) \in Nat
          <6> HIDE DEF times, F
          <6> QED
            BY <2>5, <5>1, KeptBoundsCount, FS_CardinalityType
        <5>3. ~(Cardinality(times) > LimitOf(x))
          BY <1>1, <2>1, <3>1, <4>3
        <5> HIDE DEF times, F
        <5>4. QED
          BY <2>3, <2>5, <4>1, <4>3, <5>2, <5>3
      <4>4. CASE ~(b = a /\ y = x /\ t = now)
        <5>1. f # e /\ t = countedAt[f] /\ countedAt[f] # None
          BY <2>2, <3>1, <4>4
        <5>2. t \in Nat /\ t <= now
          BY <2>3, <5>1 DEF BurstInv, TypeOK
        <5>3. e \notin F /\ countedAt[e] = None
          <6>1. countedAt[e] = None
            BY <1>1 DEF BurstInv, CountedOnes
          <6>2. e \in F => b = a /\ y = x /\ now <= t
            BY <2>2
          <6>3. QED
            BY <2>3, <4>4, <5>2, <6>1, <6>2
        <5>4. F = CloseBurst(b, y, countedAt[f])
          BY <2>2, <5>1, <5>3 DEF CloseBurst, CountedBy
        <5>5. b \notin latched
          BY <4>2
        <5>6. QED
          BY <4>1, <5>1, <5>4, <5>5 DEF BurstInv, CloseBurstsAreCaught
      <4>5. QED
        BY <4>3, <4>4
    <3>2. QED
      BY <1>1, <3>1 DEF CloseBurstsAreCaught
  <2>11. QED
    BY <2>6, <2>7, <2>9, <2>10 DEF BurstInv
<1>4. QED
  BY <1>2, <1>3

LEMMA BurstNext ==
    ASSUME NukeConstants, BurstInv, [Next]_vars
    PROVE  BurstInv'
<1>1. NukeInv'
  BY NextHolds DEF BurstInv, NukeConstants, Watched
<1>2. ASSUME NEW e \in Events, NEW a \in Actors, NEW p \in Protections, Observe(e, a, p)
      PROVE  BurstInv'
  BY <1>1, <1>2, ObserveKeepsBursts
<1>3. ASSUME NEW e \in Events, Count(e)
      PROVE  BurstInv'
  BY <1>1, <1>3, CountKeepsBursts
<1>4. QED
  BY <1>1, <1>2, <1>3, QuietStepsKeepBursts, PruneKeepsBursts, RestartKeepsBursts, TickKeepsBursts
     DEF Next, Observing

(* Of an actor not latched, no burst past the limit was counted on any     *)
(* budget closer together than the probe's window and every window that    *)
(* trims the budget (anti-nuke.ts, record and prune), whatever those       *)
(* windows are.                                                            *)
THEOREM BurstsLatch ==
    ASSUME NukeConstants
    PROVE  Spec => [](TypeOK /\ CloseBurstsAreCaught)
<1>1. Init => BurstInv
  BY BurstInit
<1>2. BurstInv /\ [Next]_vars => BurstInv'
  BY BurstNext
<1>3. BurstInv => TypeOK /\ CloseBurstsAreCaught
  BY DEF BurstInv
<1>4. QED
  BY <1>1, <1>2, <1>3, PTL DEF Spec
=============================================================================
