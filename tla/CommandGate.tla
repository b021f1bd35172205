---------------------------- MODULE CommandGate ----------------------------
(***************************************************************************)
(* A moderation command from its interaction to its reply: who may run it, *)
(* how often, what a refusal raises, and which replies are withdrawn when  *)
(* the member they were about leaves.  (bot/index.ts onCommand, the rules  *)
(* of core/command-registry.ts and core/permissions.ts, the guard, the     *)
(* intrusion detector and lib/retraction.ts.)  One command and one target. *)
(***************************************************************************)
EXTENDS Integers, Sequences, FiniteSets

CONSTANTS
    Staff, Owners,      \* who runs it; Discord's owners and administrators among them
    Tags,               \* the roles the rules may name
    Holdings,           \* what roles its members may hold
    Configs,            \* the rows the dashboard may save for the command
    TierRows,           \* the tier mappings it may save
    Calls,              \* bound: the interactions, in order
    Burst, Span,        \* refusals of one member that make a burst, and in what time
    Patience,           \* how long Discord lets a reply be deleted
    MaxTime,            \* bound: ticks
    MaxSaves, MaxLeaves \* bounds: saves, departures of the target

VARIABLES
    now,
    config, tiers,      \* the guild's rows
    held,               \* Discord's: the roles of each actor
    req,                \* the handlers
    until,              \* CommandCooldowns: until when each actor waits
    hits, raised,       \* the refusals the detector counts; those that raised an event
    pending,            \* the replies to withdraw when the target leaves
    gone,               \* the replies that were asked to be deleted
    owed,               \* history: replies whose target left in time
    ran,                \* history: who got past the gate, when, under which cooldown
    saves, leaves

rows     == <<config, tiers>>
security == <<hits, raised>>
replies  == <<pending, gone, owed>>
vars     == <<now, rows, held, req, until, security, replies, ran, saves, leaves>>

Nothing == [enabled |-> FALSE]
Idle    == [at |-> "idle", who |-> CHOOSE a \in Staff : TRUE, roles |-> {}, conf |-> Nothing, since |-> 0]

TypeOK ==
    /\ now \in 0 .. MaxTime /\ saves \in 0 .. MaxSaves /\ leaves \in 0 .. MaxLeaves
    /\ config \in Configs /\ tiers \in TierRows /\ held \in [Staff -> SUBSET Tags]
    /\ req \in [Calls -> [at : {"idle", "asked", "gate", "acting", "replied", "kept", "done"}, who : Staff,
                          roles : SUBSET Tags, conf : Configs \cup {Nothing}, since : 0 .. MaxTime]]
    /\ until \in [Staff -> Nat]
    /\ {hits, raised} \subseteq [Staff -> SUBSET [of : Calls, at : 0 .. MaxTime]]
    /\ pending \subseteq [of : Calls, expires : Nat]
    /\ gone \subseteq Calls /\ owed \subseteq Calls

Init ==
    /\ now = 0 /\ saves = 0 /\ leaves = 0
    /\ config \in Configs /\ tiers \in TierRows /\ held \in Holdings
    /\ req = [i \in Calls |-> Idle]
    /\ until = [a \in Staff |-> 0]
    /\ hits = [a \in Staff |-> {}] /\ raised = hits
    /\ pending = {} /\ gone = {} /\ owed = {}
    /\ ran = <<>>

At(i, stage)  == req[i].at = stage
Goes(i, step) == req' = [req EXCEPT ![i] = step]
To(i, stage)  == Goes(i, [req[i] EXCEPT !.at = stage])
Outside       == UNCHANGED <<now, rows, held, saves, leaves>>

-----------------------------------------------------------------------------
(* The rules.                                                              *)

(* The highest tier a member holds.                                        *)
ResolveTier(a, roles) ==
    CASE a \in Owners                       -> "owner"
      [] a \notin Owners /\ roles \cap tiers.admin # {} -> "admin"
      [] a \notin Owners /\ roles \cap tiers.admin = {} /\ roles \cap tiers.moderator # {} -> "moderator"
      [] OTHER                              -> "none"

Weight == [owner |-> 3, admin |-> 2, moderator |-> 1, none |-> 0]

Check(a, roles, level) == Weight[ResolveTier(a, roles)] >= Weight[level]

IsAdmittedByAllowList(conf, a, roles) == a \in conf.allowedUsers \/ roles \cap conf.allowedRoles # {}

(* Whoever is denied is denied, whatever else the lists say.               *)
AssessCommandScope(conf, a, roles) == a \notin conf.deniedUsers /\ roles \cap conf.deniedRoles = {}

Remaining(a) == until[a] > now

(* Mutant: the run is recorded by the reply, not by the gate.              *)
StartLate(a, seconds) == UNCHANGED until

Start(a, seconds) == until' = IF seconds > 0 THEN [until EXCEPT ![a] = now + seconds] ELSE until

(* The detector forgets what is older than its span and counts this one.   *)
Recorded(a, i) == {h \in hits[a] : now - h.at < Span} \cup {[of |-> i, at |-> now]}

(* The refusal is counted first, and raised only below the burst.          *)
Reject(i) ==
    LET a == req[i].who IN
    /\ hits' = [hits EXCEPT ![a] = Recorded(a, i)]
    /\ raised' = IF Cardinality(Recorded(a, i)) >= Burst THEN raised
                 ELSE [raised EXCEPT ![a] = @ \cup {[of |-> i, at |-> now]}]
    /\ To(i, "done")

-----------------------------------------------------------------------------
(* Discord and the dashboard.                                              *)

Tick == now < MaxTime /\ now' = now + 1 /\ UNCHANGED <<rows, held, req, until, security, replies, ran, saves, leaves>>

Save ==
    /\ saves < MaxSaves /\ saves' = saves + 1
    /\ \/ config' \in Configs \ {config} /\ UNCHANGED tiers
       \/ tiers' \in TierRows \ {tiers} /\ UNCHANGED config
    /\ UNCHANGED <<now, held, req, until, security, replies, ran, leaves>>

(* The interaction carries the roles its sender has.                       *)
Invoke(i, a) ==
    /\ At(i, "idle") /\ \A j \in Calls : j < i => ~At(j, "idle")
    /\ Goes(i, [Idle EXCEPT !.at = "asked", !.who = a, !.roles = held[a]])
    /\ Outside /\ UNCHANGED <<until, security, replies, ran>>

-----------------------------------------------------------------------------
(* The handler.                                                            *)

(* The command's row is read.                                              *)
ReadConfig(i) ==
    /\ At(i, "asked")
    /\ IF config.enabled THEN Goes(i, [req[i] EXCEPT !.at = "gate", !.conf = config]) /\ UNCHANGED security
       ELSE Reject(i)
    /\ Outside /\ UNCHANGED <<until, replies, ran>>

Admitted(i) ==
    LET c == req[i].conf  a == req[i].who  roles == req[i].roles IN
    /\ Check(a, roles, c.level) \/ IsAdmittedByAllowList(c, a, roles)
    /\ AssessCommandScope(c, a, roles)

(* The tiers are read; then tier, scopes, cooldown and reason are decided  *)
(* in one go.  Even who is admitted may be in a channel the row bars.      *)
(* Impatience is no refusal of the detector's; a refused reason has used   *)
(* up the run all the same.                                                *)
Gate(i) ==
    LET a == req[i].who  seconds == req[i].conf.cooldown IN
    /\ At(i, "gate")
    /\ \/ Reject(i) /\ UNCHANGED <<until, ran>>
       \/ Admitted(i) /\ Remaining(a) /\ To(i, "done") /\ UNCHANGED <<security, until, ran>>
       \/ /\ Admitted(i) /\ ~Remaining(a)
          /\ ran' = Append(ran, [who |-> a, at |-> now, cooldown |-> seconds])
          /\ Start(a, seconds)
          /\ \/ To(i, "acting") /\ UNCHANGED security
             \/ Reject(i)
    /\ Outside /\ UNCHANGED replies

(* The hierarchy, then Discord: refused by either, or done and answered.   *)
Act(i) ==
    /\ At(i, "acting")
    /\ \/ To(i, "replied") /\ UNCHANGED security
       \/ Reject(i)
    /\ Outside /\ UNCHANGED <<until, replies, ran>>

Live == {e \in pending : e.expires > now}

(* Mutant: a second reply about the member takes the place of the first.   *)
RememberLast(i) == pending' = {[of |-> i, expires |-> now + Patience]}

Remember(i) == pending' = Live \cup {[of |-> i, expires |-> now + Patience]}

(* Only after the reply is it one to withdraw.                             *)
RetractOnLeave(i) ==
    /\ At(i, "replied")
    /\ IF req[i].conf.withdrawn THEN Remember(i) /\ Goes(i, [req[i] EXCEPT !.at = "kept", !.since = now])
       ELSE UNCHANGED pending /\ To(i, "done")
    /\ Outside /\ UNCHANGED <<until, security, gone, owed, ran>>

(* The target leaves: what can still be withdrawn is, and all is forgotten.*)
Retract ==
    /\ leaves < MaxLeaves /\ leaves' = leaves + 1
    /\ pending' = {}
    /\ gone' = gone \cup {e.of : e \in Live}
    /\ owed' = owed \cup {i \in Calls : At(i, "kept") /\ now < req[i].since + Patience}
    /\ UNCHANGED <<now, rows, held, req, until, security, ran, saves>>

Next ==
    \/ Tick \/ Save \/ Retract
    \/ \E i \in Calls : \/ \E a \in Staff : Invoke(i, a)
                        \/ ReadConfig(i) \/ Gate(i) \/ Act(i) \/ RetractOnLeave(i)

Spec == Init /\ [][Next]_vars

-----------------------------------------------------------------------------
(* Properties.                                                             *)

(* However many runs of a member are under way, and whatever is saved      *)
(* meanwhile, each run waits for the cooldown of the one before.           *)
OneRunPerCooldown ==
    \A j, k \in DOMAIN ran : j < k /\ ran[j].who = ran[k].who => ran[k].at >= ran[j].at + ran[j].cooldown

(* A flood of refusals raises fewer events in any span than make a burst,  *)
(* and the first refusal after a quiet span is on record.                  *)
FloodIsBounded ==
    \A a \in Staff :
        /\ \A t \in 0 .. MaxTime : Cardinality({r \in raised[a] : t <= r.at /\ r.at < t + Span}) < Burst
        /\ Cardinality(hits[a]) = 1 => hits[a] \subseteq raised[a]

(* The replies withdrawn are those whose target left while Discord still   *)
(* let them be deleted: all of them, whatever their number, and no other.  *)
WithdrawnAsOwed == gone = owed

(* The three together, as one invariant of a run.                          *)
CommandsKeepTheRules == OneRunPerCooldown /\ FloodIsBounded /\ WithdrawnAsOwed
=============================================================================
