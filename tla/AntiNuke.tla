------------------------------ MODULE AntiNuke -------------------------------
(***************************************************************************)
(* The anti-nuke engine of one guild (apps/bot/src/security/anti-nuke.ts): *)
(* every destructive event starts an observation that awaits the guild's   *)
(* settings, counts the event against the actor in a sliding window, and   *)
(* past the limit punishes the actor and then tells the owner.  Many       *)
(* observations run at once.  The security probe of index.ts prunes the    *)
(* counters on its timer, and a restart loses them.                        *)
(***************************************************************************)
EXTENDS Integers, FiniteSets

CONSTANTS
    Events,        \* destructive events Discord attributes to an actor
    Actors,
    Self,          \* the bot's own account
    Protections,   \* entries of the protection registry
    Action(_),     \* the budget a protection's events count in
    WindowOf(_),   \* windowSeconds of a protection, in ticks
    LimitOf(_),    \* how many actions of a budget a window allows
    PruneWindow,   \* ANTI_NUKE_WINDOW_MS, in ticks of the probe
    MaxTime,       \* bound: ticks
    MaxRestarts,   \* bound: restarts of the bot
    MaxToggles,    \* bound: protections switched on or off
    None

VARIABLES
    now,
    on,          \* the protections that are switched on
    stage,       \* where the observation of each event stands
    by,          \* whose event it was, and which protection watches it
    hits,        \* the timestamps kept for each actor and budget, each with its event
    latched,     \* the actors already mitigated
    countedAt,   \* when each event was counted, in this process
    applied,     \* the events whose punishment Discord confirmed
    told,        \* in this process: the owner was messaged and the report written, or tried
    pruned,      \* the probe has run in this tick
    restarts, toggles

engine == <<hits, latched, countedAt>>
vars == <<now, on, stage, by, hits, latched, countedAt, applied, told, pruned,
          restarts, toggles>>

Budgets == {Action(p) : p \in Protections}
Stages  == {"none", "resolving", "punishing", "telling", "ended", "lost"}

TypeOK ==
    /\ now \in 0 .. MaxTime
    /\ on \in SUBSET Protections
    /\ stage \in [Events -> Stages]
    /\ by \in [Events -> [actor : Actors, protection : Protections] \cup {None}]
    /\ hits \in [Actors -> [Budgets -> SUBSET [of : Events, at : 0 .. now]]]
    /\ \A a \in Actors, x \in Budgets : Cardinality(hits[a][x]) <= LimitOf(x) + 1
    /\ latched \in SUBSET (Actors \ {Self})
    /\ countedAt \in [Events -> 0 .. now \cup {None}]
    /\ applied \in SUBSET Events
    /\ told \in SUBSET Events
    /\ pruned \in BOOLEAN
    /\ restarts \in 0 .. MaxRestarts
    /\ toggles \in 0 .. MaxToggles

Init ==
    /\ now = 0
    /\ on = Protections
    /\ stage = [e \in Events |-> "none"]
    /\ by = [e \in Events |-> None]
    /\ hits = [a \in Actors |-> [x \in Budgets |-> {}]]
    /\ latched = {}
    /\ countedAt = [e \in Events |-> None]
    /\ applied = {}
    /\ told = {}
    /\ pruned = FALSE
    /\ restarts = 0
    /\ toggles = 0

(* Younger than w, the one just made included.                             *)
Within(times, w) == {t \in times : now - t.at < w}

(* observe, up to the await of the settings.  The bot's own actions are    *)
(* not observed.                                                           *)
Observe(e, a, p) ==
    /\ stage[e] = "none"
    /\ \/ /\ a = Self
          /\ stage' = [stage EXCEPT ![e] = "ended"]
          /\ UNCHANGED by
       \/ /\ a # Self
          /\ by' = [by EXCEPT ![e] = [actor |-> a, protection |-> p]]
          /\ stage' = [stage EXCEPT ![e] = "resolving"]
    /\ UNCHANGED <<now, on, engine, applied, told, pruned, restarts, toggles>>

(* The settings could not be read, or the protection is off.               *)
NotWatched(e) ==
    /\ stage[e] = "resolving"
    /\ stage' = [stage EXCEPT ![e] = "ended"]
    /\ UNCHANGED <<now, on, by, engine, applied, told, pruned, restarts, toggles>>

(* Mutant: one action more than the limit allows goes by.                  *)
TrippedLate(x, count) == count > LimitOf(x) + 1

Tripped(x, count) == count > LimitOf(x)

(* record: what is left of the window, and the event itself.               *)
Record(e, a, p) == Within(hits[a][Action(p)], WindowOf(p)) \cup {[of |-> e, at |-> now]}

(* Mutant: the actor is latched only once the owner has been told.         *)
LatchLate(a) == latched

Latch(a) == latched \cup {a}

(* The settings are there; record() counts and decides in one go.          *)
Count(e) ==
    LET a == by[e].actor
        p == by[e].protection
        times == Record(e, a, p)
        tripped == Tripped(Action(p), Cardinality(times))
    IN
    /\ stage[e] = "resolving"
    /\ p \in on
    /\ \/ /\ a \in latched
          /\ stage' = [stage EXCEPT ![e] = "ended"]
          /\ UNCHANGED engine
       \/ /\ a \notin latched
          /\ hits' = [hits EXCEPT ![a][Action(p)] = times]
          /\ countedAt' = [countedAt EXCEPT ![e] = now]
          /\ latched' = IF tripped THEN Latch(a) ELSE latched
          /\ stage' = [stage EXCEPT ![e] = IF tripped THEN "punishing" ELSE "ended"]
    /\ UNCHANGED <<now, on, by, applied, told, pruned, restarts, toggles>>

(* Mutant: a refused punishment ends the mitigation.                       *)
PunishOrGiveUp(e) ==
    /\ stage[e] = "punishing"
    /\ \/ applied' = applied \cup {e} /\ stage' = [stage EXCEPT ![e] = "telling"]
       \/ applied' = applied /\ stage' = [stage EXCEPT ![e] = "ended"]
    /\ UNCHANGED <<now, on, by, engine, told, pruned, restarts, toggles>>

(* The attempt: Discord confirms it, or refuses, or the call fails.        *)
Punish(e) ==
    /\ stage[e] = "punishing"
    /\ applied' \in {applied, applied \cup {e}}
    /\ stage' = [stage EXCEPT ![e] = "telling"]
    /\ UNCHANGED <<now, on, by, engine, told, pruned, restarts, toggles>>

(* notifyOwner and report, whatever the attempt gave.                      *)
Tell(e) ==
    /\ stage[e] = "telling"
    /\ told' = told \cup {e}
    /\ stage' = [stage EXCEPT ![e] = "ended"]
    /\ UNCHANGED <<now, on, by, engine, applied, pruned, restarts, toggles>>

(* prune(), from the security probe: one window for every budget.          *)
Prune ==
    /\ ~pruned
    /\ pruned' = TRUE
    /\ hits' = [a \in Actors |-> [x \in Budgets |-> Within(hits[a][x], PruneWindow)]]
    /\ UNCHANGED <<now, on, stage, by, latched, countedAt, applied, told, restarts, toggles>>

(* The operator switches a protection off, or back on.                     *)
Toggle(p) ==
    /\ toggles < MaxToggles
    /\ toggles' = toggles + 1
    /\ on' = IF p \in on THEN on \ {p} ELSE on \cup {p}
    /\ UNCHANGED <<now, stage, by, engine, applied, told, pruned, restarts>>

(* Counters, latches and running observations live in the process.         *)
Restart ==
    /\ restarts < MaxRestarts
    /\ restarts' = restarts + 1
    /\ hits' = [a \in Actors |-> [x \in Budgets |-> {}]]
    /\ latched' = {}
    /\ countedAt' = [e \in Events |-> None]
    /\ told' = {}
    /\ stage' = [e \in Events |-> IF stage[e] \in {"resolving", "punishing", "telling"}
                                  THEN "lost" ELSE stage[e]]
    /\ UNCHANGED <<now, on, by, applied, pruned, toggles>>

(* A tick is the probe's period.                                           *)
Tick ==
    /\ now < MaxTime
    /\ pruned
    /\ now' = now + 1
    /\ pruned' = FALSE
    /\ UNCHANGED <<on, stage, by, engine, applied, told, restarts, toggles>>

Observing(e) == NotWatched(e) \/ Count(e) \/ Punish(e) \/ Tell(e)

Next ==
    \/ \E e \in Events :
          \/ \E a \in Actors, p \in Protections : Observe(e, a, p)
          \/ Observing(e)
    \/ Prune
    \/ \E p \in Protections : Toggle(p)
    \/ Restart
    \/ Tick

Spec == Init /\ [][Next]_vars

-----------------------------------------------------------------------------
(* Properties                                                              *)

(* The events counted up to t of a's budget x.                             *)
CountedBy(a, x, t) ==
    {f \in Events : /\ countedAt[f] # None /\ by[f].actor = a
                    /\ Action(by[f].protection) = x
                    /\ countedAt[f] <= t}

(* An age at which no prune and no count on the budget drops a hit: the    *)
(* probe prunes by a window of its own, and every protection of the budget *)
(* trims what all of them have counted by its own.                         *)
Spared(x, age) ==
    age < PruneWindow /\ \A p \in Protections : Action(p) = x => age < WindowOf(p)

CloseBurst(a, x, t) == {f \in CountedBy(a, x, t) : Spared(x, t - countedAt[f])}

(* The observations of an actor that mitigate, or have reported.           *)
Reports(a) == {e \in Events : /\ by[e] # None /\ by[e].actor = a
                              /\ stage[e] \in {"punishing", "telling"} \/ e \in told}

(* "the owner receives exactly one message per incident": however many     *)
(* observations of one actor run at once, one of them mitigates; and       *)
(* whoever is latched, and so never looked at again, is being mitigated or *)
(* has been reported, also when Discord refuses the punishment.            *)
OneReportPerIncident ==
    \A a \in Actors : IF a \in latched THEN Cardinality(Reports(a)) = 1 ELSE Cardinality(Reports(a)) <= 1

(* What the registry says of a protection: more counted actions within    *)
(* its window than the limit allows leave the actor latched                *)
(* ("windowSeconds ... how many seconds the burst window covers for THIS   *)
(* protection", core/anti-nuke-registry.ts).                               *)
BurstsAreCaught ==
    \A e \in Events :
        countedAt[e] # None =>
            LET a == by[e].actor
                p == by[e].protection
                t == countedAt[e]
                burst == {f \in CountedBy(a, Action(p), t) : t - countedAt[f] < WindowOf(p)}
            IN  Cardinality(burst) > LimitOf(Action(p)) => a \in latched

(* What the engine keeps of it, whatever the windows are: a burst on a     *)
(* budget closer together than the probe's window and the shortest window  *)
(* of any protection that shares the budget leaves the actor latched,      *)
(* across prunes, switches and however many observations run at once.      *)
CloseBurstsAreCaught ==
    \A e \in Events :
        countedAt[e] # None =>
            LET a == by[e].actor
                x == Action(by[e].protection)
            IN  Cardinality(CloseBurst(a, x, countedAt[e])) > LimitOf(x) => a \in latched
=============================================================================
