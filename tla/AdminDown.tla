------------------------------ MODULE AdminDown ------------------------------
(***************************************************************************)
(* /down and /undown on one member (apps/bot/src/index.ts), and the sweep  *)
(* that ends a /down whose time is up (punishments/expiry.ts).  /down      *)
(* takes administrative roles off and saves which, in the member's one     *)
(* row; /undown and the sweep give back what the row names.  Every await   *)
(* is a step: handlers run at the same time, the sweep's passes may        *)
(* overlap, and people edit roles in Discord meanwhile.                    *)
(***************************************************************************)
EXTENDS Integers, FiniteSets

CONSTANTS
    Roles,         \* administrative roles of the guild
    Downs,         \* /down commands on the member
    Undowns,       \* /undown commands on the member
    Sweeps,        \* passes of the sweep that can run at the same time
    Configured,    \* the values adminRoleIdsToStrip may have
    CanRefuse,     \* whether Discord may refuse a role change
    MaxHandlers,   \* bound: commands in flight at once
    MaxMishaps,    \* bound: role edits by people, failing reads and writes,
                   \* deletions of the row and restarts, together
    NoRow, NoList

ASSUME NamesAssumption  == /\ Downs \cap Undowns = {}
                           /\ (Downs \cup Undowns) \cap Sweeps = {}
ASSUME NoRowAssumption  ==
    NoRow \notin Downs \cup [roles : SUBSET Roles, by : Downs, time : {"running", "over", "never"}]
ASSUME SettingsAssumption == Configured \subseteq SUBSET Roles /\ CanRefuse \in BOOLEAN
ASSUME BoundsAssumption == MaxHandlers \in Nat /\ MaxMishaps \in Nat

VARIABLES
    held,      \* the administrative roles the member has, at Discord
    row,       \* guild_member_states of the member, kind "down"
    cached,    \* memberRoleCache of the member
    at,        \* where each handler stands
    todo,      \* the roles it has still to change
    before,    \* snapshot: the roles the member had before
    changed,   \* the roles it changed
    from,      \* the /down whose row it took or read
    given,     \* the roles people ever gave the member
    owed,      \* the roles a /down took off and nobody gave back since
    lost,      \* of these, those whose record is gone or whose return was refused
    mishaps

member  == <<held, row, cached>>
locals  == <<at, todo, before, changed>>
history == <<given, owed, lost>>
vars    == <<member, locals, from, history, mishaps>>

Commands == Downs \cup Undowns
Handlers == Commands \cup Sweeps
Rows     == [roles : SUBSET Roles, by : Downs, time : {"running", "over", "never"}]
Steps    == {"idle", "before", "revoking", "saving", "granting", "consuming", "done"}

TypeOK ==
    /\ held \in SUBSET Roles /\ row \in Rows \cup {NoRow}
    /\ cached \in {NoList} \cup SUBSET Roles
    /\ at \in [Handlers -> Steps]
    /\ todo \in [Handlers -> SUBSET Roles]
    /\ before \in [Handlers -> SUBSET Roles]
    /\ changed \in [Handlers -> SUBSET Roles]
    /\ \A h \in Handlers : changed[h] \cap todo[h] = {}
    /\ from \in [Handlers -> Downs \cup {NoRow}]
    /\ given \in SUBSET Roles /\ owed \in SUBSET (Roles \ held) /\ lost \in SUBSET owed
    /\ mishaps \in 0 .. MaxMishaps

Nothing == [h \in Handlers |-> {}]

Init ==
    /\ held \in SUBSET Roles
    /\ row = NoRow
    /\ cached = NoList
    /\ at = [h \in Handlers |-> "idle"]
    /\ todo = Nothing /\ before = Nothing /\ changed = Nothing
    /\ from = [h \in Handlers |-> NoRow]
    /\ given = held /\ owed = {} /\ lost = {}
    /\ mishaps = 0

InFlight == {c \in Commands : at[c] \notin {"idle", "done"}}

(* A command is given once; a pass of the sweep comes back.                *)
Begin(h) ==
    /\ at[h] = "idle"
    /\ h \in Commands => Cardinality(InFlight) < MaxHandlers

Finished(h) == IF h \in Sweeps THEN "idle" ELSE "done"

(* Where the handler goes on, with its locals; none outlives it.           *)
GoOn(h, step, left, snap, did) ==
    LET over == step = Finished(h)
    IN  /\ at' = [at EXCEPT ![h] = step]
        /\ todo' = [todo EXCEPT ![h] = IF over THEN {} ELSE left]
        /\ before' = [before EXCEPT ![h] = IF over THEN {} ELSE snap]
        /\ changed' = [changed EXCEPT ![h] = IF over THEN {} ELSE did]

Leave(h) == GoOn(h, Finished(h), {}, {}, {})

Mishap == mishaps < MaxMishaps /\ mishaps' = mishaps + 1

Lose(roles) == lost' = lost \cup (roles \cap owed)

Recorded == IF row = NoRow THEN {} ELSE row.roles

-----------------------------------------------------------------------------
(* /down                                                                   *)

(* readStrippableRoleIds: the curated roles, held or not, or when none is  *)
(* curated the ones the member holds.                                      *)
ListStrippable(d) ==
    /\ Begin(d)
    /\ \E curated \in Configured :
          LET roles == IF curated # {} THEN curated ELSE held
          IN  GoOn(d, IF roles = {} THEN "done" ELSE "before", roles, {}, {})
    /\ UNCHANGED <<member, from, history, mishaps>>

(* readMemberRoleIds: the cached list, or the roles, or [] when the read   *)
(* fails.                                                                  *)
ReadBefore(d) ==
    /\ at[d] = "before"
    /\ \E list \in SUBSET Roles :
          /\ \/ /\ list = IF cached = NoList THEN held ELSE cached
                /\ cached' = list
                /\ UNCHANGED mishaps
             \/ list = {} /\ cached = NoList /\ Mishap /\ UNCHANGED cached
          /\ GoOn(d, "revoking", todo[d], list \cap todo[d], {})
    /\ UNCHANGED <<held, row, from, history>>

(* The next step of applyRoleChange and of its caller: nothing applied is  *)
(* a refusal, and the command ends.                                        *)
AfterRevoke(left, did) ==
    IF left # {} THEN "revoking" ELSE IF did = {} THEN "done" ELSE "saving"

(* applyRoleChange, one role at a time.  Removing a role the member does   *)
(* not hold succeeds.                                                      *)
Revoke(d, r) ==
    /\ at[d] = "revoking"
    /\ r \in todo[d]
    /\ LET left == todo[d] \ {r}
           did  == changed[d] \cup {r}
       IN  \/ /\ held' = held \ {r}
              /\ owed' = owed \cup ({r} \cap held)
              /\ lost' = lost \cup (({r} \cap held) \ before[d])
              /\ GoOn(d, AfterRevoke(left, did), left, before[d], did)
           \/ /\ CanRefuse
              /\ GoOn(d, AfterRevoke(left, changed[d]), left, before[d], changed[d])
              /\ UNCHANGED <<held, owed, lost>>
    /\ UNCHANGED <<row, cached, from, given, mishaps>>

(* Mutant: every role the call went through for is saved.                  *)
TakenAll(d) == changed[d]

(* "Only the roles actually taken, not every role considered."             *)
Taken(d) == changed[d] \cap before[d]

(* Mutant: an insert that leaves the row that stands alone.                *)
SaveOnce(d) ==
    /\ at[d] = "saving"
    /\ row' = IF row = NoRow THEN [roles |-> Taken(d), by |-> d, time |-> "never"] ELSE row
    /\ Leave(d)
    /\ UNCHANGED <<held, cached, from, history, mishaps>>

(* setMemberState, an upsert: it replaces a row that stands.               *)
Save(d) ==
    /\ at[d] = "saving"
    /\ \/ /\ \E time \in {"running", "never"} :
                row' = [roles |-> Taken(d), by |-> d, time |-> time]
          /\ Lose(Recorded \ Taken(d))
          /\ UNCHANGED mishaps
       \/ Mishap /\ Lose(Taken(d)) /\ UNCHANGED row
    /\ Leave(d)
    /\ UNCHANGED <<held, cached, from, given, owed>>

-----------------------------------------------------------------------------
(* Giving back                                                             *)

(* Mutant: the row is read and left in place.                              *)
TakeCopy(u) ==
    /\ Begin(u)
    /\ GoOn(u, IF Recorded = {} THEN "done" ELSE "granting", Recorded, {}, {})
    /\ from' = [from EXCEPT ![u] = IF row = NoRow THEN NoRow ELSE row.by]
    /\ UNCHANGED <<member, history, mishaps>>

(* /undown: takeMemberState, DELETE ... RETURNING.                         *)
Take(u) ==
    /\ Begin(u)
    /\ GoOn(u, IF Recorded = {} THEN "done" ELSE "granting", Recorded, {}, {})
    /\ from' = [from EXCEPT ![u] = IF row = NoRow THEN NoRow ELSE row.by]
    /\ row' = NoRow
    /\ UNCHANGED <<held, cached, history, mishaps>>

(* listDueMemberStates.                                                    *)
ReadDue(s) ==
    /\ Begin(s)
    /\ row # NoRow
    /\ row.time = "over"
    /\ GoOn(s, IF row.roles = {} THEN "consuming" ELSE "granting", row.roles, {}, {})
    /\ from' = [from EXCEPT ![s] = row.by]
    /\ UNCHANGED <<member, history, mishaps>>

AfterGrant(h, left) ==
    IF left # {} THEN "granting" ELSE IF h \in Sweeps THEN "consuming" ELSE "done"

(* applyRoleChange again; a refusal is reported and not tried again.       *)
Grant(h, r) ==
    /\ at[h] = "granting"
    /\ r \in todo[h]
    /\ LET left == todo[h] \ {r}
       IN  \/ /\ held' = held \cup {r}
              /\ owed' = owed \ {r}
              /\ lost' = lost \ {r}
              /\ GoOn(h, AfterGrant(h, left), left, {}, changed[h] \cup {r})
           \/ /\ CanRefuse
              /\ Lose({r})
              /\ GoOn(h, AfterGrant(h, left), left, {}, changed[h])
              /\ UNCHANGED <<held, owed>>
    /\ UNCHANGED <<row, cached, from, given, mishaps>>

(* Mutant: a pass that gave nothing back leaves the row for the next.      *)
ConsumeIfRestored(s) ==
    /\ at[s] = "consuming"
    /\ row' = IF changed[s] = {} THEN row ELSE NoRow
    /\ Leave(s)
    /\ from' = [from EXCEPT ![s] = NoRow]
    /\ UNCHANGED <<held, cached, history, mishaps>>

(* consume, whatever the restore did: the row that is there by now.        *)
Consume(s) ==
    /\ at[s] = "consuming"
    /\ \/ /\ row' = NoRow
          /\ IF row # NoRow /\ row.by # from[s] THEN Lose(row.roles) ELSE UNCHANGED lost
          /\ UNCHANGED mishaps
       \/ Mishap /\ UNCHANGED <<row, lost>>
    /\ Leave(s)
    /\ from' = [from EXCEPT ![s] = NoRow]
    /\ UNCHANGED <<held, cached, given, owed>>

-----------------------------------------------------------------------------
(* Around the handlers                                                     *)

Expire ==
    /\ row # NoRow
    /\ row.time = "running"
    /\ row' = [row EXCEPT !.time = "over"]
    /\ UNCHANGED <<held, cached, locals, from, history, mishaps>>

(* The log router reads the member's roles; the list lives five seconds.   *)
CacheRoles ==
    /\ cached' = IF cached = NoList THEN held ELSE NoList
    /\ UNCHANGED <<held, row, locals, from, history, mishaps>>

(* Somebody gives the member a role or takes one away.                     *)
Edit(r) ==
    /\ Mishap
    /\ IF r \in held
       THEN held' = held \ {r} /\ UNCHANGED <<given, owed, lost>>
       ELSE /\ held' = held \cup {r}
            /\ given' = given \cup {r}
            /\ owed' = owed \ {r}
            /\ lost' = lost \ {r}
    /\ UNCHANGED <<row, cached, locals, from>>

(* /remove and /clearallpunishments delete the record and lift nothing.    *)
Forget ==
    /\ row # NoRow
    /\ Mishap
    /\ row' = NoRow
    /\ Lose(Recorded)
    /\ UNCHANGED <<held, cached, locals, from, given, owed>>

(* A command is about to save the role, or to give it back.                *)
InHands(r) ==
    \/ \E d \in Downs : at[d] \in {"revoking", "saving"} /\ r \in Taken(d)
    \/ \E u \in Undowns : at[u] = "granting" /\ r \in todo[u]

Carried == {r \in Roles : InHands(r)}

Restart ==
    /\ Mishap
    /\ cached' = NoList
    /\ at' = [h \in Handlers |-> IF h \in InFlight \cup Sweeps THEN Finished(h) ELSE at[h]]
    /\ todo' = Nothing /\ before' = Nothing /\ changed' = Nothing
    /\ from' = [h \in Handlers |-> IF h \in Sweeps THEN NoRow ELSE from[h]]
    /\ Lose(Carried)
    /\ UNCHANGED <<held, row, given, owed>>

Down(d)   == ListStrippable(d) \/ ReadBefore(d) \/ (\E r \in Roles : Revoke(d, r)) \/ Save(d)
Undown(u) == Take(u) \/ \E r \in Roles : Grant(u, r)
Sweep(s)  == ReadDue(s) \/ (\E r \in Roles : Grant(s, r)) \/ Consume(s)

Next ==
    \/ \E d \in Downs : Down(d)
    \/ \E u \in Undowns : Undown(u)
    \/ \E s \in Sweeps : Sweep(s)
    \/ Expire \/ CacheRoles \/ Forget \/ Restart
    \/ \E r \in Roles : Edit(r)

(* setInterval begins a pass every minute; Discord and PostgreSQL answer.  *)
Fairness == \A s \in Sweeps : WF_vars(Sweep(s))

Spec == Init /\ [][Next]_vars /\ Fairness

-----------------------------------------------------------------------------
(* Properties                                                              *)

(* "restoring the difference would re-add roles the member never lost":    *)
(* whatever interleaves, the member holds no administrative role that      *)
(* nobody but the bot ever gave them.                                      *)
NeverPromotes == held \subseteq given

(* "exactly one caller receives the snapshot": no two /undown give back    *)
(* the roles of one /down.                                                 *)
OneUndownPerDown ==
    \A u, v \in Undowns : (u # v /\ from[u] # NoRow) => from[u] # from[v]

(* Every role a /down took off and nobody gave back is on record or in the *)
(* hands of a command that will save it or give it back, except those that *)
(* a refusal, a failing save, a second /down, a late consume, a deletion   *)
(* of the row or a restart lost.                                           *)
EveryRoleAccountedFor == owed \subseteq Recorded \cup Carried \cup lost

(* A /down whose time is up does not stand forever: some pass ends it, or  *)
(* it is renewed, whatever Discord refuses and wherever the bot restarts.  *)
EveryDownExpires ==
    \A d \in Downs :
        (row # NoRow /\ row.by = d /\ row.time = "over") ~> (row = NoRow \/ row.by # d)

-----------------------------------------------------------------------------
(* What the source says, and a run refutes                                 *)

(* The row "is the only record of what to give back" (database.ts): where  *)
(* Discord refuses nothing, a role the bot took is on record until it is   *)
(* given back.                                                             *)
TakenRolesStayOnRecord == owed \subseteq Recorded \cup Carried
=============================================================================
