----------------------------- MODULE ConfigCache -----------------------------
(***************************************************************************)
(* The bot's cache in front of a per-guild settings row                    *)
(* (apps/bot/src/storage/config-cache.ts), for one guild: a row younger    *)
(* than the TTL is answered from memory, and every caller that finds none  *)
(* loads it by itself, so loads of different ages finish in any order.     *)
(* The row is saved by another process, the dashboard.                     *)
(***************************************************************************)
EXTENDS Integers

CONSTANTS
    Callers,      \* handlers asking for the guild's settings
    Ttl,          \* ttlMs, in ticks
    Latency,      \* the longest a query may take: the pool's connection and statement timeouts
    MaxTime,      \* bound: ticks
    MaxVersion,   \* bound: saves
    NoEntry, NoAnswer, Failed

ASSUME TtlAssumption     == Ttl \in Nat \ {0} /\ Latency \in Nat
ASSUME BoundsAssumption  == MaxTime \in Nat /\ MaxVersion \in Nat

VARIABLES
    now,
    version,      \* the version of the stored row
    replacedAt,   \* when each earlier version was replaced
    entry,        \* the cached row
    loading,      \* the callers whose load is running
    began,        \* when each load began
    seen,         \* the version its query read, once it has
    answer        \* what each caller was last given

row  == <<version, replacedAt>>
load == <<loading, began, seen>>
vars == <<now, version, replacedAt, entry, loading, began, seen, answer>>

Versions == 0 .. version
Entries  == [value : Versions, expiresAt : Nat]
Answers  == Versions \cup {NoAnswer, Failed}

TypeOK ==
    /\ now \in Nat
    /\ version \in Nat
    /\ replacedAt \in [0 .. version - 1 -> Nat]
    /\ entry \in Entries \cup {NoEntry}
    /\ loading \in SUBSET Callers
    /\ began \in [Callers -> Nat]
    /\ seen \in [Callers -> Versions \cup {NoAnswer}]
    /\ answer \in [Callers -> Answers]

Init ==
    /\ now = 0
    /\ version = 0
    /\ replacedAt = << >>
    /\ entry = NoEntry
    /\ loading = {}
    /\ began = [c \in Callers |-> 0]
    /\ seen = [c \in Callers |-> NoAnswer]
    /\ answer = [c \in Callers |-> NoAnswer]

(* Mutant: an entry is still answered at the instant it expires.           *)
FreshInclusive == entry # NoEntry /\ entry.expiresAt >= now

Fresh == entry # NoEntry /\ entry.expiresAt > now

(* get, answered from memory.                                              *)
Hit(c) ==
    /\ c \notin loading
    /\ Fresh
    /\ answer' = [answer EXCEPT ![c] = entry.value]
    /\ UNCHANGED <<now, row, entry, load>>

(* get, up to the await of the loader.                                     *)
Miss(c) ==
    /\ c \notin loading
    /\ ~Fresh
    /\ loading' = loading \cup {c}
    /\ began' = [began EXCEPT ![c] = now]
    /\ seen' = [seen EXCEPT ![c] = NoAnswer]
    /\ UNCHANGED <<now, row, entry, answer>>

(* The database reads the row.                                             *)
Query(c) ==
    /\ c \in loading
    /\ seen[c] = NoAnswer
    /\ seen' = [seen EXCEPT ![c] = version]
    /\ UNCHANGED <<now, row, entry, loading, began, answer>>

(* Mutant: the caller is given the wrong field of the new entry.           *)
LoadedExpiry(c) ==
    /\ c \in loading
    /\ seen[c] # NoAnswer
    /\ entry' = [value |-> seen[c], expiresAt |-> now + Ttl]
    /\ answer' = [answer EXCEPT ![c] = now + Ttl]
    /\ loading' = loading \ {c}
    /\ UNCHANGED <<now, row, began, seen>>

(* The loader resolves: whatever it read replaces the entry.               *)
Loaded(c) ==
    /\ c \in loading
    /\ seen[c] # NoAnswer
    /\ entry' = [value |-> seen[c], expiresAt |-> now + Ttl]
    /\ answer' = [answer EXCEPT ![c] = seen[c]]
    /\ loading' = loading \ {c}
    /\ UNCHANGED <<now, row, began, seen>>

(* The loader rejects: the caller fails, the entry stays as it is.         *)
LoadFails(c) ==
    /\ c \in loading
    /\ answer' = [answer EXCEPT ![c] = Failed]
    /\ loading' = loading \ {c}
    /\ UNCHANGED <<now, row, entry, began, seen>>

Invalidate ==
    /\ entry' = NoEntry
    /\ UNCHANGED <<now, row, load, answer>>

(* The dashboard saves the settings.                                       *)
Save ==
    /\ version < MaxVersion
    /\ version' = version + 1
    /\ replacedAt' = [v \in Versions |-> IF v = version THEN now ELSE replacedAt[v]]
    /\ UNCHANGED <<now, entry, load, answer>>

(* No load outlives the timeouts.                                          *)
Tick ==
    /\ now < MaxTime
    /\ \A c \in loading : now < began[c] + Latency
    /\ now' = now + 1
    /\ UNCHANGED <<row, entry, load, answer>>

Step(c) == Hit(c) \/ Miss(c) \/ Query(c) \/ Loaded(c) \/ LoadFails(c)

Next == (\E c \in Callers : Step(c)) \/ Invalidate \/ Save \/ Tick

Spec == Init /\ [][Next]_vars

-----------------------------------------------------------------------------
(* Properties                                                              *)

(* Whatever order the loads finish in, and however often one with an older *)
(* row overwrites a newer one, a caller is never given a row replaced more *)
(* than a TTL and one query ago.                                           *)
Bounded == INSTANCE BoundedRead WITH Askers <- Callers, Bound <- Ttl + Latency - 1

AnswersAreRecent == Bounded!Spec
=============================================================================
