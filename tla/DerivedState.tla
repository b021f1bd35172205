---------------------------- MODULE DerivedState ----------------------------
(***************************************************************************)
(* Sets Discord only says have changed, and not how: the pins of a         *)
(* channel, the webhooks and the integrations of a guild.  The handlers of *)
(* bot/lib/discord.ts fetch the set, keep it, and log its difference from  *)
(* the one they kept before (bot/logging/derived-state.ts).                *)
(***************************************************************************)
EXTENDS Integers, FiniteSets

CONSTANTS
    Things, Values,      \* webhooks, say, and the channels they are in
    Sort,                \* the sorts of set of this guild: pins, webhooks
    MaxChanges,          \* bound: what happens to the set
    MaxRefusals,         \* bound: fetches Discord refuses
    Absent, NoSnapshot, Unasked

VARIABLES
    sort,        \* the sort of set watched
    real,        \* the set
    fetches,     \* the handlers whose fetch is under way, and the answer some have
    snapshot,    \* the set kept
    told,        \* the set as a reader of the log knows it
    answers,     \* answers and refusals Discord gave
    heldAsOf,    \* which of them was kept last
    changes, refusals

vars == <<sort, real, fetches, snapshot, told, answers, heldAsOf, changes, refusals>>

Sets == [Things -> Values \cup {Absent}]
Nothing == [t \in Things |-> Absent]

TypeOK ==
    /\ sort \in Sort /\ real \in Sets /\ told \in Sets
    /\ snapshot \in Sets \cup {NoSnapshot}
    /\ \A f \in fetches : f.asOf \in 0 .. answers /\ f.got \in Sets \cup {Unasked}
    /\ heldAsOf \in 0 .. answers
    /\ changes \in 0 .. MaxChanges /\ refusals \in 0 .. MaxRefusals

Init ==
    /\ sort \in Sort /\ real \in Sets /\ told = Nothing
    /\ fetches = {} /\ snapshot = NoSnapshot
    /\ answers = 0 /\ heldAsOf = 0
    /\ changes = 0 /\ refusals = 0

(* Something is pinned, moved or removed, and the handler starts.  A pin   *)
(* has no value of its own.                                                *)
Changes(t, v) ==
    /\ changes < MaxChanges /\ changes' = changes + 1
    /\ v # real[t] /\ (sort = "pins" => Absent \in {v, real[t]})
    /\ real' = [real EXCEPT ![t] = v]
    /\ fetches' = fetches \cup {[n |-> changes + 1, asOf |-> 0, got |-> Unasked]}
    /\ UNCHANGED <<sort, snapshot, told, answers, heldAsOf, refusals>>

(* Discord reads the set; the answer travels.                              *)
Answers(f) ==
    /\ f.got = Unasked
    /\ answers' = answers + 1
    /\ fetches' = (fetches \ {f}) \cup {[f EXCEPT !.asOf = answers + 1, !.got = real]}
    /\ UNCHANGED <<sort, real, snapshot, told, heldAsOf, changes, refusals>>

(* No permission to see it: nothing is logged, and the snapshot stays.     *)
Refuses(f) ==
    /\ f.got = Unasked /\ refusals < MaxRefusals
    /\ refusals' = refusals + 1 /\ answers' = answers + 1
    /\ fetches' = fetches \ {f}
    /\ UNCHANGED <<sort, real, snapshot, told, heldAsOf, changes>>

(* classifyWebhooks, classifyIntegrations: no snapshot is an empty one.    *)
Before == IF snapshot = NoSnapshot THEN Nothing ELSE snapshot

Created(current) == {t \in Things : Before[t] = Absent /\ current[t] # Absent}
Updated(current) == {t \in Things : Absent \notin {Before[t], current[t]} /\ Before[t] # current[t]}
Deleted(current) == {t \in Things : Before[t] # Absent /\ current[t] = Absent}

Logged(current) ==
    [t \in Things |-> IF t \in Created(current) \cup Updated(current) THEN current[t]
                      ELSE IF t \in Deleted(current) THEN Absent ELSE told[t]]

(* Mutant: the old snapshot is kept when nothing was created.              *)
KeepsIfNoneCreated(f) ==
    /\ f.got # Unasked
    /\ fetches' = fetches \ {f}
    /\ told' = IF sort = "pins" /\ snapshot = NoSnapshot THEN f.got ELSE Logged(f.got)
    /\ snapshot' = IF Created(f.got) = {} THEN snapshot ELSE f.got
    /\ heldAsOf' = f.asOf
    /\ UNCHANGED <<sort, real, answers, changes, refusals>>

(* The pins first seen are not logged: a reader has to know them.          *)
Diffs(f) ==
    /\ f.got # Unasked
    /\ fetches' = fetches \ {f}
    /\ told' = IF sort = "pins" /\ snapshot = NoSnapshot THEN f.got ELSE Logged(f.got)
    /\ snapshot' = f.got
    /\ heldAsOf' = f.asOf
    /\ UNCHANGED <<sort, real, answers, changes, refusals>>

Next ==
    \/ \E t \in Things, v \in Values \cup {Absent} : Changes(t, v)
    \/ \E f \in fetches : Answers(f) \/ Refuses(f) \/ Diffs(f)

Spec == Init /\ [][Next]_vars

-----------------------------------------------------------------------------
(* Properties.                                                             *)

(* With no fetch under way, a reader of the log knows the set as it is,    *)
(* unless the last fetch was refused or an older answer came last.         *)
LogFollowsDiscord ==
    (fetches = {} /\ changes > 0 /\ heldAsOf = answers) => told = real
=============================================================================
