------------------------------- MODULE Invites -------------------------------
(***************************************************************************)
(* Who invited whom: the tracker that reads a join off the guild's invite  *)
(* list (bot/logging/invite-tracker.ts), the gateway handlers that feed it *)
(* (bot/lib/discord.ts) and the join and leave handlers that keep the      *)
(* inviters' score and milestone roles (bot/index.ts).  A guild without a  *)
(* vanity URL refuses the probe; the module is switched on.                *)
(***************************************************************************)
EXTENDS Integers, FiniteSets

CONSTANTS
    Members, Inviter,       \* who joins and leaves; the creator of each invite
    Codes, NoCode,
    Calls,                  \* bound: the joins and leaves in order, one handler for each
    Early,                  \* the invites that exist before the bot starts
    Milestone,              \* the net at which the milestone role is earned
    MaxMishaps,             \* bound: refused calls, and handlers a restart cuts off
    NoSnapshot, NoRow, Nobody

VARIABLES
    uses,        \* Discord's invites: how many joined through each that exists
    here,        \* the members of the guild
    snapshot,    \* the tracker's invites, or NoSnapshot
    creating,    \* InviteCreate events that await their actor
    call,        \* the join and leave handlers
    row,         \* invite_members: the flag of each member's row
    regular, leaves,   \* invite_stats of the inviter, as far as the net goes
    holds,       \* whether the inviter holds the milestone role
    joined,      \* joins through each code
    credited,    \* joins attributed to each code
    newest,      \* the most uses of each code the tracker was ever told
    turned,      \* whether it was told fewer later
    mishaps, overlaps

discord == <<uses, here>>
tracker == <<snapshot, creating, joined, credited, newest, turned>>
stats   == <<regular, leaves>>
record  == <<row, stats, holds>>
trouble == <<mishaps, overlaps>>
vars == <<discord, tracker, call, record, trouble>>

Idle == [at |-> "idle", who |-> Nobody, seen |-> NoSnapshot, code |-> NoCode, counts |-> FALSE, net |-> 0]
Net  == regular - leaves

TypeOK ==
    /\ DOMAIN uses \subseteq Codes /\ here \subseteq Members /\ creating \subseteq Codes
    /\ snapshot # NoSnapshot => DOMAIN snapshot \subseteq Codes
    /\ \A h \in Calls :
          /\ call[h].who \in Members \cup {Nobody} /\ call[h].code \in Codes \cup {NoCode}
          /\ call[h].counts \in BOOLEAN
    /\ row \in [Members -> {NoRow, "counted", "uncounted"}]
    /\ {regular, leaves} \subseteq Nat
    /\ holds \in BOOLEAN /\ turned \in BOOLEAN

Init ==
    /\ uses = [c \in Early |-> 0] /\ here = {}
    /\ snapshot = NoSnapshot /\ creating = {}
    /\ call = [h \in Calls |-> Idle]
    /\ row = [m \in Members |-> NoRow]
    /\ regular = 0 /\ leaves = 0 /\ holds = FALSE
    /\ joined = [c \in Codes |-> 0] /\ credited = [c \in Codes |-> 0]
    /\ newest = [c \in Codes |-> 0] /\ turned = FALSE
    /\ mishaps = 0 /\ overlaps = 0

At(h, stage)  == call[h].at = stage
Goes(h, step) == call' = [call EXCEPT ![h] = step]
Ends(h)       == Goes(h, [Idle EXCEPT !.at = "done"])
InFlight      == {h \in Calls : call[h].at \notin {"idle", "done"}}

Fine   == UNCHANGED mishaps
Mishap == mishaps < MaxMishaps /\ mishaps' = mishaps + 1

-----------------------------------------------------------------------------
(* Discord, and what the gateway reports of it.                            *)

(* A handler begins; it overlaps when an earlier one of the member runs.   *)
Begins(h, m, step) ==
    /\ At(h, "idle") /\ (\A g \in Calls : g < h => ~At(g, "idle")) /\ Goes(h, step)
    /\ overlaps' = overlaps + Cardinality({g \in InFlight : call[g].who = m})

Bumped(c) == IF c \in DOMAIN uses THEN [uses EXCEPT ![c] = @ + 1] ELSE uses

(* The join asks for the invites at once.                                  *)
Join(h, m, way) ==
    /\ m \notin here /\ here' = here \cup {m}
    /\ way \in DOMAIN uses \cup {NoCode}
    /\ uses' = Bumped(way)
    /\ joined' = [c \in Codes |-> joined[c] + (IF c = way THEN 1 ELSE 0)]
    /\ Begins(h, m, [Idle EXCEPT !.at = "fetching", !.who = m])
    /\ UNCHANGED <<snapshot, creating, credited, newest, turned, record, mishaps>>

Leave(h, m) ==
    /\ m \in here /\ here' = here \ {m}
    /\ Begins(h, m, [Idle EXCEPT !.at = "leaving", !.who = m])
    /\ UNCHANGED <<uses, tracker, record, mishaps>>

(* The creation is remembered after its actor was looked up, with the uses *)
(* the event carried.                                                      *)
InviteCreate(c) ==
    /\ c \notin DOMAIN uses /\ joined[c] = 0
    /\ uses' = [d \in DOMAIN uses \cup {c} |-> IF d = c THEN 0 ELSE uses[d]]
    /\ creating' = creating \cup {c}
    /\ UNCHANGED <<here, snapshot, joined, credited, newest, turned, call, record, trouble>>

Held == IF snapshot = NoSnapshot THEN {} ELSE DOMAIN snapshot

Remember(c) ==
    /\ c \in creating /\ creating' = creating \ {c}
    /\ snapshot' = [d \in Held \cup {c} |-> IF d = c THEN 0 ELSE snapshot[d]]
    /\ turned' = (turned \/ newest[c] > 0)
    /\ UNCHANGED <<discord, joined, credited, newest, call, record, trouble>>

Forget(c) ==
    /\ c \in DOMAIN uses /\ uses' = [d \in DOMAIN uses \ {c} |-> uses[d]]
    /\ snapshot' = IF snapshot = NoSnapshot THEN snapshot ELSE [d \in Held \ {c} |-> snapshot[d]]
    /\ UNCHANGED <<here, creating, joined, credited, newest, turned, call, record, trouble>>

-----------------------------------------------------------------------------
(* The join handler.                                                       *)

(* Discord's answer, on its way; or no permission to see the invites.      *)
Fetched(h) ==
    /\ At(h, "fetching")
    /\ \/ Goes(h, [call[h] EXCEPT !.at = "observing", !.seen = uses]) /\ Fine
       \/ Ends(h) /\ Mishap
    /\ UNCHANGED <<discord, tracker, record, overlaps>>

(* detectUsedInvite: the largest rise; a code the snapshot lacks is none.  *)
Rise(c, seen) == seen[c] - snapshot[c]

UsedInvite(seen) ==
    LET risen == {c \in Held \cap DOMAIN seen : Rise(c, seen) > 0}
    IN  IF risen = {} THEN {NoCode}
        ELSE {c \in risen : \A d \in risen : Rise(d, seen) <= Rise(c, seen)}

(* Mutant: the list that named an invite is not kept.                      *)
KeepsOld(h) ==
    /\ At(h, "observing")
    /\ \E c \in UsedInvite(call[h].seen) :
          /\ Goes(h, [call[h] EXCEPT !.at = IF c = NoCode THEN "probing" ELSE "reading",
                                     !.code = c, !.seen = NoSnapshot])
          /\ credited' = [d \in Codes |-> credited[d] + (IF d = c THEN 1 ELSE 0)]
          /\ snapshot' = IF c = NoCode THEN call[h].seen ELSE snapshot
    /\ UNCHANGED <<discord, creating, joined, newest, turned, record, trouble>>

Observe(h) ==
    LET seen == call[h].seen IN
    /\ At(h, "observing")
    /\ \E c \in UsedInvite(seen) :
          /\ Goes(h, [call[h] EXCEPT !.at = IF c = NoCode THEN "probing" ELSE "reading",
                                     !.code = c, !.seen = NoSnapshot])
          /\ credited' = [d \in Codes |-> credited[d] + (IF d = c THEN 1 ELSE 0)]
    /\ snapshot' = seen
    /\ newest' = [c \in Codes |-> IF c \in DOMAIN seen /\ seen[c] > newest[c] THEN seen[c] ELSE newest[c]]
    /\ turned' = (turned \/ \E c \in DOMAIN seen : seen[c] < newest[c])
    /\ UNCHANGED <<discord, creating, joined, record, trouble>>

(* fetchVanityData: the vanity URL or an unknown way, which count alike;   *)
(* refused, as in a guild without one, the join is never recorded.         *)
Probe(h) ==
    /\ At(h, "probing") /\ Fine
    /\ Goes(h, [call[h] EXCEPT !.at = "reading"]) \/ Ends(h)
    /\ UNCHANGED <<discord, tracker, record, overlaps>>

InviterOf(code) == IF code \in Codes THEN Inviter ELSE Nobody

ClassifyInviteJoin(m, code, previous, young) ==
    IF InviterOf(code) = m THEN "self"
    ELSE IF previous # NoRow THEN "rejoin"
    ELSE IF InviterOf(code) = Nobody THEN "unknown"
    ELSE IF young THEN "fake" ELSE "regular"

(* A member who is gone is dropped.  A read that fails is no row.          *)
ReadJoiner(h) ==
    LET step == call[h] IN
    /\ At(h, "reading")
    /\ IF step.who \notin here THEN Ends(h) /\ Fine
       ELSE \E young \in BOOLEAN, previous \in {row[step.who], NoRow} :
          /\ Goes(h, [step EXCEPT !.at = "recording", !.code = NoCode, !.counts =
                        (ClassifyInviteJoin(step.who, step.code, previous, young) = "regular")])
          /\ IF previous = row[step.who] THEN Fine ELSE Mishap
    /\ UNCHANGED <<discord, tracker, record, overlaps>>

Flag(counts) == IF counts THEN "counted" ELSE "uncounted"

(* Mutant: the row of a counted join does not say that it counts.          *)
RecordUncounted(h) ==
    /\ At(h, "recording")
    /\ row' = [row EXCEPT ![call[h].who] = "uncounted"]
    /\ IF call[h].counts THEN Goes(h, [call[h] EXCEPT !.at = "scoring"]) ELSE Ends(h)
    /\ UNCHANGED <<discord, tracker, stats, holds, trouble>>

(* What does not count ends here: returns and fakes have counters that no  *)
(* net is made of.                                                         *)
Record(h) ==
    /\ At(h, "recording")
    /\ \/ row' = [row EXCEPT ![call[h].who] = Flag(call[h].counts)] /\ Fine
       \/ row' = row /\ Mishap
    /\ IF call[h].counts THEN Goes(h, [call[h] EXCEPT !.at = "scoring"]) ELSE Ends(h)
    /\ UNCHANGED <<discord, tracker, stats, holds, overlaps>>

(* bumpInviteStats: a failed bump reads as a row of zeros.                 *)
Score(h) ==
    /\ At(h, "scoring")
    /\ \/ regular' = regular + 1 /\ Goes(h, [call[h] EXCEPT !.at = "granting", !.net = Net + 1]) /\ Fine
       \/ UNCHANGED regular /\ Goes(h, [call[h] EXCEPT !.at = "granting"]) /\ Mishap
    /\ UNCHANGED <<discord, tracker, row, leaves, holds, overlaps>>

-----------------------------------------------------------------------------
(* The leave handler.                                                      *)

(* Nothing is known of the member, or the read failed.                     *)
ReadLeaver(h) ==
    LET flag == row[call[h].who] IN
    /\ At(h, "leaving")
    /\ \/ flag = NoRow /\ Ends(h) /\ Fine
       \/ flag # NoRow /\ Ends(h) /\ Mishap
       \/ flag = "counted" /\ Goes(h, [call[h] EXCEPT !.at = "deducting"]) /\ Fine
       \/ flag = "uncounted" /\ Goes(h, [call[h] EXCEPT !.at = "marking"]) /\ Fine
    /\ UNCHANGED <<discord, tracker, record, overlaps>>

Deduct(h) ==
    /\ At(h, "deducting")
    /\ \/ leaves' = leaves + 1 /\ Goes(h, [call[h] EXCEPT !.at = "marking", !.counts = TRUE, !.net = Net - 1]) /\ Fine
       \/ leaves' = leaves /\ Goes(h, [call[h] EXCEPT !.at = "marking"]) /\ Mishap
    /\ UNCHANGED <<discord, tracker, row, regular, holds, overlaps>>

(* What follows the mark: the roles, when a point was taken.               *)
Reconciles(h) == IF call[h].counts THEN Goes(h, [call[h] EXCEPT !.at = "granting"]) ELSE Ends(h)

(* markInviteMemberLeft: whatever row is there now.                        *)
Mark(h) ==
    /\ At(h, "marking") /\ Reconciles(h)
    /\ \/ row' = [row EXCEPT ![call[h].who] = IF @ = NoRow THEN NoRow ELSE "uncounted"] /\ Fine
       \/ row' = row /\ Mishap
    /\ UNCHANGED <<discord, tracker, stats, holds, overlaps>>

(* reconcileMilestoneRoles, by the net the handler's own bump returned:    *)
(* given, taken away, or refused by Discord; nothing for an inviter who    *)
(* left.                                                                   *)
Grant(h) ==
    /\ At(h, "granting") /\ Ends(h)
    /\ IF Inviter \in Members \ here THEN UNCHANGED holds /\ Fine
       ELSE \/ holds' = (call[h].net >= Milestone) /\ Fine
            \/ UNCHANGED holds /\ Mishap
    /\ UNCHANGED <<discord, tracker, row, stats, overlaps>>

-----------------------------------------------------------------------------
(* The memory of the tracker and the handlers under way are gone.          *)
Restart ==
    /\ snapshot # NoSnapshot /\ mishaps + Cardinality(InFlight) <= MaxMishaps
    /\ mishaps' = mishaps + Cardinality(InFlight)
    /\ call' = [h \in Calls |-> IF h \in InFlight THEN [Idle EXCEPT !.at = "done"] ELSE call[h]]
    /\ snapshot' = NoSnapshot /\ creating' = {}
    /\ UNCHANGED <<discord, joined, credited, newest, turned, record, overlaps>>

Handles(h) ==
    \/ Fetched(h) \/ Observe(h) \/ Probe(h) \/ ReadJoiner(h) \/ Record(h) \/ Score(h)
    \/ ReadLeaver(h) \/ Deduct(h) \/ Mark(h) \/ Grant(h)

Next ==
    \/ \E h \in Calls : Handles(h)
    \/ \E h \in Calls, m \in Members : Leave(h, m) \/ \E way \in Codes \cup {NoCode} : Join(h, m, way)
    \/ \E c \in Codes : InviteCreate(c) \/ Remember(c) \/ Forget(c)
    \/ Restart

Spec == Init /\ [][Next]_vars

-----------------------------------------------------------------------------
(* Properties.                                                             *)

(* No use of an invite is attributed to two joins, unless an answer that   *)
(* is older than the snapshot took its place.                              *)
UsesAreAttributedOnce == turned \/ \A c \in Codes : credited[c] <= joined[c]

Counted == {m \in here : row[m] = "counted"}
Drift   == regular - leaves - Cardinality(Counted)
Size(n) == IF n < 0 THEN -n ELSE n

(* With no handler under way, an inviter's score is the number of members  *)
(* in the guild who are counted for them; each refused call, each handler  *)
(* a restart cut off and each overlap of two handlers of one member moves  *)
(* it by at most one point.                                                *)
ScoreIsWhoStayed == InFlight = {} => Size(Drift) <= mishaps + overlaps
=============================================================================
