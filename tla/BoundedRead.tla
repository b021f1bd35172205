----------------------------- MODULE BoundedRead -----------------------------
(***************************************************************************)
(* What a time-limited cache promises: whoever asks is given a version     *)
(* that was the current one at most Bound ticks ago, or an error.  The     *)
(* versions are numbered, and replacedAt tells when each was replaced.     *)
(***************************************************************************)
EXTENDS Naturals

CONSTANTS
    Askers,
    Bound,        \* how long ago the answer may have been current
    NoAnswer, Failed

VARIABLES
    now,
    version,      \* the current version of what is read
    replacedAt,   \* when each earlier version was replaced
    answer        \* what each asker was last given

vars == <<now, version, replacedAt, answer>>

Versions == 0 .. version

(* The versions that were current at some moment of the last Bound ticks.  *)
CurrentLately == {v \in Versions : v = version \/ now <= replacedAt[v] + Bound}

Init ==
    /\ now = 0
    /\ version = 0
    /\ replacedAt = << >>
    /\ answer = [a \in Askers |-> NoAnswer]

Tick ==
    /\ now' = now + 1
    /\ UNCHANGED <<version, replacedAt, answer>>

Change ==
    /\ version' = version + 1
    /\ replacedAt' = [v \in Versions |-> IF v = version THEN now ELSE replacedAt[v]]
    /\ UNCHANGED <<now, answer>>

(* Several askers may be given the answer they have been waiting for.      *)
Answer ==
    /\ \E given \in SUBSET Askers, a \in CurrentLately \cup {Failed} :
          answer' = [x \in Askers |-> IF x \in given THEN a ELSE answer[x]]
    /\ UNCHANGED <<now, version, replacedAt>>

Next == Tick \/ Change \/ Answer

Spec == Init /\ [][Next]_vars
=============================================================================
