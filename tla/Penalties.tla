------------------------------ MODULE Penalties ------------------------------
(***************************************************************************)
(* The punishments a moderator gives and ends by command (bot/index.ts):   *)
(* /mute, /prison, /blacklist, /block, their inverses, and the wipes.      *)
(* Each puts a role on a member or takes one off and keeps one row per     *)
(* member and kind (storage/database.ts).  One member; every await is a    *)
(* step, and handlers run at the same time.                                *)
(***************************************************************************)
EXTENDS Integers, Sequences, FiniteSets

CONSTANTS
    Handlers,      \* commands in flight at once
    Commands,      \* the commands given
    Ordinary,      \* the member's ordinary roles, which /block may name
    MaxCommands,   \* bound: commands given
    MaxMishaps,    \* bound: refusals, failing calls, edits by people, restarts
    NoRow

VARIABLES
    held,        \* the roles the member has, at Discord
    row,         \* guild_member_states: the roles each kind's row names, or NoRow
    roleCache,   \* memberRoleCache: the member's roles as last read, or NoRow
    hand,        \* each handler: its command, the roles it is about, what it read, its next step
    standing,    \* roles blocked by a command that ended and lifted by none since
    excused,     \* kinds whose record a wipe, a mishap or a meeting of two commands disturbed,
                 \* and "missed" once an /unblock named a role that was not blocked
    given,       \* commands given
    mishaps

vars == <<held, row, roleCache, hand, standing, excused, given, mishaps>>

Kinds    == {"mute", "prison", "blacklist", "block"}
RoleOf   == [mute |-> "muted", prison |-> "jailed", blacklist |-> "listed"]
Roles    == Ordinary \cup {"muted", "jailed", "listed"}

(* What each command awaits, in order, once it has passed the gate.        *)
Program ==
    [mute      |-> <<"grant", "save">>,             unmute      |-> <<"revoke", "take">>,
     blacklist |-> <<"grant", "save">>,             unblacklist |-> <<"revoke", "take">>,
     prison    |-> <<"snapshot", "grant", "save">>, unprison    |-> <<"take", "give back", "revoke">>,
     block     |-> <<"read", "take away", "save">>, unblock     |-> <<"take", "write back">>]

KindOf == [mute |-> "mute", unmute |-> "mute", prison |-> "prison", unprison |-> "prison",
           blacklist |-> "blacklist", unblacklist |-> "blacklist", block |-> "block", unblock |-> "block"]

ASSUME RolesApart     == Ordinary \cap {"muted", "jailed", "listed"} = {} /\ \A S \in SUBSET Roles : S # NoRow
ASSUME CommandsBounds == Commands \subseteq DOMAIN Program /\ MaxCommands \in Nat /\ MaxMishaps \in Nat

Idle == [cmd |-> "none", on |-> {}, known |-> {}, step |-> 0]

Hand == [cmd : DOMAIN Program \cup {"none"}, on : SUBSET Ordinary, known : SUBSET Roles, step : 0 .. 3]

TypeOK ==
    /\ held \subseteq Roles
    /\ row \in [Kinds -> {NoRow} \cup SUBSET Roles] /\ roleCache \in {NoRow} \cup SUBSET Roles
    /\ hand \in [Handlers -> Hand]
    /\ standing \subseteq Ordinary /\ excused \subseteq Kinds \cup {"missed"}
    /\ given \in 0 .. MaxCommands /\ mishaps \in 0 .. MaxMishaps

Init ==
    /\ held \in {Ordinary, {}}
    /\ row = [k \in Kinds |-> NoRow] /\ roleCache = NoRow
    /\ hand = [h \in Handlers |-> Idle]
    /\ standing = {} /\ excused = {} /\ given = 0 /\ mishaps = 0

Next2Do(h) == IF hand[h].step = 0 THEN "none" ELSE Program[hand[h].cmd][hand[h].step]
Kind(h)    == KindOf[hand[h].cmd]
InRow(k)   == IF row[k] = NoRow THEN {} ELSE row[k]

Mishap(kinds) == mishaps < MaxMishaps /\ mishaps' = mishaps + 1 /\ excused' = excused \cup kinds
Calm          == UNCHANGED <<mishaps, excused>>

(* /unblock names one role, and it is not blocked.                         *)
Misses(h) == Kind(h) = "block" /\ hand[h].on # Ordinary /\ hand[h].on \cap InRow("block") = {}

(* On to the handler's next step, or done.                                 *)
GoOn(h, known) ==
    hand' = [hand EXCEPT ![h] = IF @.step = Len(Program[@.cmd]) THEN Idle
                                ELSE [@ EXCEPT !.step = hand[h].step + 1, !.known = known]]
Stop(h) == hand' = [hand EXCEPT ![h] = Idle]
Stay(h) == GoOn(h, hand[h].known)

-----------------------------------------------------------------------------
(* A command that the gate lets through: registered, enabled, the tier or  *)
(* an allow-list, the scope, the cooldown, the reason, the hierarchy, the  *)
(* role configured.  What the gate refuses changes nothing here.  /block   *)
(* names one role, /unblock one or, with none named, all.                  *)
Command(h, cmd) ==
    /\ hand[h] = Idle /\ given < MaxCommands
    /\ \E on \in (CASE cmd = "block" -> {{r} : r \in Ordinary}
                    [] cmd = "unblock" -> {{r} : r \in Ordinary} \cup {Ordinary}
                    [] OTHER -> {{}}) :
          hand' = [hand EXCEPT ![h] = [cmd |-> cmd, on |-> on, known |-> {}, step |-> 1]]
    /\ excused' = IF \E g \in Handlers \ {h} : hand[g] # Idle /\ Kind(g) = KindOf[cmd]
                  THEN excused \cup {KindOf[cmd]} ELSE excused
    /\ given' = given + 1
    /\ UNCHANGED <<held, row, roleCache, standing, mishaps>>

(* applyRoleChange through runRoleAction: a refusal ends the command.  The *)
(* grant of /unprison has gone by then, and so has its row.                *)
ChangeRole(h) ==
    /\ Next2Do(h) \in {"grant", "revoke"}
    /\ \/ /\ held' = IF Next2Do(h) = "grant" THEN held \cup {RoleOf[Kind(h)]} ELSE held \ {RoleOf[Kind(h)]}
          /\ Stay(h) /\ Calm
       \/ /\ Stop(h) /\ UNCHANGED held
          /\ Mishap(IF hand[h].cmd = "unprison" THEN {"prison"} ELSE {})
    /\ UNCHANGED <<row, roleCache, standing, given>>

(* /unprison: nothing to give back is not a refusal; nothing given back is,*)
(* and it returns before the prison role is taken off; a part given back   *)
(* is not.  The snapshot holds the roles of other punishments too, ended   *)
(* or not since.                                                           *)
GiveBack(h) ==
    LET due         == hand[h].known
        Given(some) == held' = held \cup some /\ Stay(h)
        Put(some)   == {k \in DOMAIN RoleOf : RoleOf[k] \in some \ held}
    IN
    /\ Next2Do(h) = "give back"
    /\ \/ Given(due) /\ excused' = excused \cup Put(due) /\ UNCHANGED mishaps
       \/ \E some \in (SUBSET due) \ {{}, due} : Given(some) /\ Mishap(Put(some))
       \/ due # {} /\ Stop(h) /\ UNCHANGED held /\ Mishap({"prison"})
    /\ UNCHANGED <<row, roleCache, standing, given>>

(* /block takes the role off as well, and goes on when that is refused.    *)
TakeAway(h) ==
    /\ Next2Do(h) = "take away"
    /\ \/ held' = held \ hand[h].on /\ Calm
       \/ UNCHANGED held /\ Mishap({})
    /\ Stay(h)
    /\ UNCHANGED <<row, roleCache, standing, given>>

(* readMemberRoleIds before the prison role is on: the roles as they were  *)
(* last read, for a while, or Discord's; [] when the read fails.           *)
Snapshot(h) ==
    /\ Next2Do(h) = "snapshot"
    /\ \/ roleCache # NoRow /\ GoOn(h, roleCache \ {"jailed"}) /\ Calm /\ UNCHANGED roleCache
       \/ roleCache = NoRow /\ GoOn(h, held \ {"jailed"}) /\ Calm /\ roleCache' = held
       \/ roleCache = NoRow /\ GoOn(h, {}) /\ Mishap({}) /\ UNCHANGED roleCache
    /\ UNCHANGED <<held, row, standing, given>>

(* The log router reads the member's roles too; ROLE_CACHE_TTL_MS passes.  *)
RolesRead ==
    /\ roleCache = NoRow /\ roleCache' = held
    /\ UNCHANGED <<held, row, hand, standing, excused, given, mishaps>>

RolesExpire ==
    /\ roleCache # NoRow /\ roleCache' = NoRow
    /\ UNCHANGED <<held, row, hand, standing, excused, given, mishaps>>

(* getMemberState.                                                         *)
Read(h) ==
    /\ Next2Do(h) = "read"
    /\ GoOn(h, InRow(Kind(h)))
    /\ UNCHANGED <<held, row, roleCache, standing, excused, given, mishaps>>

(* takeMemberState: DELETE ... RETURNING.                                  *)
TakeRow(h) ==
    /\ Next2Do(h) = "take" /\ ~Misses(h)
    /\ row' = [row EXCEPT ![Kind(h)] = NoRow]
    /\ GoOn(h, InRow(Kind(h)))
    /\ standing' = IF Kind(h) = "block" THEN standing \ hand[h].on ELSE standing
    /\ UNCHANGED <<held, roleCache, excused, given, mishaps>>

(* It fails and the command ends; /unmute and /unblacklist have taken the  *)
(* role off by then.                                                       *)
TakeFails(h) ==
    /\ Next2Do(h) = "take" /\ Stop(h)
    /\ Mishap(IF hand[h].cmd \in {"unmute", "unblacklist"} THEN {Kind(h)} ELSE {})
    /\ UNCHANGED <<held, row, roleCache, standing, given>>

(* /unblock of a role that is not blocked ends here, the row already taken *)
(* and with it the blocks on other roles.                                  *)
TakeAndMiss(h) ==
    /\ Next2Do(h) = "take" /\ Misses(h)
    /\ row' = [row EXCEPT !["block"] = NoRow]
    /\ Stop(h)
    /\ excused' = IF InRow("block") = {} THEN excused ELSE excused \cup {"missed"}
    /\ UNCHANGED <<held, roleCache, standing, given, mishaps>>

(* Mutant: the upsert replaces the blocked roles.                          *)
SavedAlone(h) ==
    CASE Kind(h) = "block" -> hand[h].on
      [] Kind(h) = "prison" -> hand[h].known
      [] OTHER -> {}

(* What setMemberState writes: the snapshot, or the roles blocked before   *)
(* with the new one.                                                       *)
Saved(h) ==
    CASE Kind(h) = "block" -> hand[h].known \cup hand[h].on
      [] Kind(h) = "prison" -> hand[h].known
      [] OTHER -> {}

(* setMemberState, one upsert; when it fails the command ends.             *)
Save(h) ==
    /\ Next2Do(h) = "save"
    /\ \/ /\ row' = [row EXCEPT ![Kind(h)] = Saved(h)]
          /\ standing' = IF Kind(h) = "block" THEN standing \cup hand[h].on ELSE standing
          /\ Calm
       \/ Mishap({Kind(h)}) /\ UNCHANGED <<row, standing>>
    /\ Stay(h)
    /\ UNCHANGED <<held, roleCache, given>>

(* /unblock writes back what it did not lift, if anything is left.         *)
WriteBack(h) ==
    /\ Next2Do(h) = "write back"
    /\ LET left == hand[h].known \ hand[h].on
       IN  \/ row' = (IF left = {} THEN row ELSE [row EXCEPT !["block"] = left]) /\ Calm
           \/ left # {} /\ Mishap({"block"}) /\ UNCHANGED row
    /\ Stay(h)
    /\ UNCHANGED <<held, roleCache, standing, given>>

(* Rows deleted without an inverse command; the roles at Discord stay as   *)
(* they are.                                                               *)
Wipe(kinds) ==
    /\ \E k \in kinds : row[k] # NoRow
    /\ row' = [k \in Kinds |-> IF k \in kinds THEN NoRow ELSE row[k]]
    /\ Mishap(kinds)
    /\ standing' = IF "block" \in kinds THEN {} ELSE standing
    /\ UNCHANGED <<held, roleCache, hand, given>>

ClearAllPunishments == Wipe(Kinds)

DeletePunishmentAt == \E k \in Kinds : Wipe({k})

(* A person changes the member's roles in Discord.                         *)
Edit ==
    /\ \E r \in Roles :
          /\ held' = IF r \in held THEN held \ {r} ELSE held \cup {r}
          /\ Mishap({k \in DOMAIN RoleOf : RoleOf[k] = r})
    /\ UNCHANGED <<row, roleCache, hand, standing, given>>

Restart ==
    /\ \E h \in Handlers : hand[h] # Idle
    /\ Mishap({Kind(h) : h \in {g \in Handlers : hand[g] # Idle}})
    /\ hand' = [h \in Handlers |-> Idle]
    /\ roleCache' = NoRow
    /\ UNCHANGED <<held, row, standing, given>>

Next ==
    \/ \E h \in Handlers :
          \/ \E cmd \in Commands : Command(h, cmd)
          \/ ChangeRole(h) \/ GiveBack(h) \/ TakeAway(h) \/ Snapshot(h)
          \/ Read(h) \/ TakeRow(h) \/ TakeFails(h) \/ TakeAndMiss(h) \/ Save(h) \/ WriteBack(h)
    \/ RolesRead \/ RolesExpire \/ ClearAllPunishments \/ DeletePunishmentAt \/ Edit \/ Restart

Spec == Init /\ [][Next]_vars

-----------------------------------------------------------------------------
(* Once no command is at work, the record says what Discord shows: a row   *)
(* for exactly the punishments whose role the member has, and the block's  *)
(* row names every role blocked and not lifted ("blocking a second role    *)
(* must not silently lift the block on the first", "lifting one does not   *)
(* lift all", bot/index.ts).  A kind is excused once a wipe, an edit by a  *)
(* person, a refusal or failure at the wrong step, or two commands on it   *)
(* at once disturbed it; also by an /unprison that gives a punishment's    *)
(* role back, and the blocks by an /unblock that misses.                   *)
RecordsMatch ==
    (\A h \in Handlers : hand[h] = Idle) =>
        /\ \A k \in (DOMAIN RoleOf) \ excused : (row[k] # NoRow) <=> RoleOf[k] \in held
        /\ excused \cap {"block", "missed"} = {} => InRow("block") = standing

(* "lifting one does not lift all" (bot/index.ts): nothing but the wipes,  *)
(* mishaps and meetings that excuse a record loses a block, whichever      *)
(* roles the commands name.  An /unblock that misses loses every block.    *)
LiftingOneKeepsTheRest ==
    (\A h \in Handlers : hand[h] = Idle) /\ "block" \notin excused => standing \subseteq InRow("block")
=============================================================================
