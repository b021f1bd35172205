-------------------------------- MODULE MCGuild --------------------------------
(***************************************************************************)
(* What bot and dashboard do to one guild at Discord, one scene at a time. *)
(* These parts share no state: the punishments (Penalties, extended here), *)
(* voice time, level roles and the log rooms, and what the log says of the *)
(* guild: who did it (Attribution), the voice rooms (VoiceLog), the sets   *)
(* Discord only says have changed (DerivedState), the messages             *)
(* (MessageLog); and a command's way to its reply (CommandGate).  A run is *)
(* one scene; the parts of the others stand still.                         *)
(***************************************************************************)
EXTENDS Penalties, TLC

CONSTANTS
    Voices, Minute, MaxMinutes, MaxRestarts, Nobody,                \* VoiceXp
    Ranked, Cap, BatchSize, MaxAwards, MaxTroubles, None,           \* LevelRoles
    Presses, ChannelCap, MaxPresses, MaxIds,                        \* LogSetup
    Events, Mods, Targets, Deeds, Seconds, Unknown, Pending,        \* Attribution
    Talkers, Channels, Stages, Out, Flags, Suppress, MaxSteps,      \* VoiceLog
    Things, Values, Sort, MaxChanges, MaxRefusals, Absent, NoSnapshot, Unasked,
    Messages, Texts, MaxHours, MaxEdits,                            \* MessageLog
    Staff, Calls, Burst, Span, Patience, MaxClock, MaxSaves, MaxLeaves \* CommandGate

VARIABLES
    scene,
    ticks, inVoice, session, tick, leaving, unpaid, raced, restarts,
    rules, known, xp, rewards, job, pass, busy, admin, awards, troubles, quiet, ready, orphan,
    rooms, cats, cached, fresh, bound, press, minted, pressed, faults, why,
    second, happened, auditLog, stage, asked, kept, named,
    where, flags, asking, came, went, net, since, steps,
    sort, real, fetches, snapshot, told, answers, heldAsOf, changes, refusals,
    hour, edits, live, wrote, texts, files, bucket, reported,
    clock, config, tiers, tags, req, until, hits, raised, pending, gone, owed, ran, saves, leaves

-----------------------------------------------------------------------------
(* A text role for level 1 and a voice role for level 1.                   *)
SomeRules ==
    {[kind |-> "text", level |-> 1, voiceLevel |-> 0, role |-> "R", keep |-> FALSE],
     [kind |-> "voice", level |-> 1, voiceLevel |-> 0, role |-> "S", keep |-> FALSE]}

(* /blacklist is /mute under another name and role, and is left out here.  *)
ThreePunishments == {"mute", "unmute", "prison", "unprison", "block", "unblock"}

TwoModes == [normal |-> {"a", "b"}, detailed |-> {"c"}]

(* A command for moderators, or for administrators but not for role 1.     *)
TwoConfigs ==
    LET open == [enabled |-> TRUE, level |-> "moderator", allowedUsers |-> {}, allowedRoles |-> {2},
                 deniedUsers |-> {}, deniedRoles |-> {}, cooldown |-> 2, withdrawn |-> TRUE] IN
    {open, [open EXCEPT !.level = "admin", !.cooldown = 0, !.deniedRoles = {1}]}

Pay    == INSTANCE VoiceXp WITH Members <- Voices, MaxTime <- MaxMinutes, now <- ticks
Levels == INSTANCE LevelRoles WITH Members <- Ranked, RuleSpace <- SomeRules, Stacking <- FALSE,
             DefaultCap <- Cap, MaxLevel <- Cap, MaxMishaps <- MaxTroubles,
             held <- rewards, hand <- busy, mishaps <- troubles
Rooms  == INSTANCE LogSetup WITH Planned <- TwoModes, mishaps <- faults
Doers  == INSTANCE Attribution WITH Depth <- 1, Ttl <- 1, MaxTime <- Seconds,
             now <- second, log <- auditLog, at <- stage, cache <- kept
Voice  == INSTANCE VoiceLog WITH Members <- Talkers
Sets   == INSTANCE DerivedState
Words  == INSTANCE MessageLog WITH Ttl <- 1, now <- hour, MaxTime <- MaxHours
Gates  == INSTANCE CommandGate WITH Owners <- {}, Tags <- {1, 2}, Configs <- TwoConfigs,
             TierRows <- {[admin |-> {}, moderator |-> {1}]},
             Holdings <- {[a \in Staff |-> {a}]},
             now <- clock, MaxTime <- MaxClock, held <- tags

jail   == vars
pay    == <<ticks, inVoice, session, tick, leaving, unpaid, raced, restarts>>
levels == <<rules, known, xp, rewards, job, pass, busy, admin, awards, troubles, quiet, ready, orphan>>
logs   == <<rooms, cats, cached, fresh, bound, press, minted, pressed, faults, why>>
doers  == <<second, happened, auditLog, stage, asked, kept, named>>
voice  == <<where, flags, asking, came, went, net, since, steps>>
sets   == <<sort, real, fetches, snapshot, told, answers, heldAsOf, changes, refusals>>
words  == <<hour, edits, live, wrote, texts, files, bucket, reported>>
gates  == <<clock, config, tiers, tags, req, until, hits, raised, pending, gone, owed, ran, saves, leaves>>
deeds  == <<jail, pay, levels, logs>>
books  == <<doers, voice, sets, words, gates>>
all    == <<scene, deeds, books>>

-----------------------------------------------------------------------------
GuildInit ==
    /\ scene \in {"jail", "pay", "levels", "logs", "doers", "voice", "sets", "words", "gates"}
    /\ Init /\ Pay!Init /\ Levels!Init /\ Rooms!Init
    /\ Doers!Init /\ Voice!Init /\ Sets!Init /\ Words!Init /\ Gates!Init
    /\ held = IF scene = "jail" THEN Ordinary ELSE {}   \* the member starts with its roles
    /\ scene = "levels" \/ rules = {}
    /\ scene = "gates" \/ config.level = "admin"
    /\ scene = "sets" \/ (real = Sets!Nothing /\ sort = "pins")

GuildNext ==
    \/ scene = "jail"   /\ Next        /\ UNCHANGED <<scene, pay, levels, logs, books>>
    \/ scene = "pay"    /\ Pay!Next    /\ UNCHANGED <<scene, jail, levels, logs, books>>
    \/ scene = "levels" /\ Levels!Next /\ UNCHANGED <<scene, jail, pay, logs, books>>
    \/ scene = "logs"   /\ Rooms!Next  /\ UNCHANGED <<scene, jail, pay, levels, books>>
    \/ scene = "doers"  /\ Doers!Next  /\ UNCHANGED <<scene, deeds, voice, sets, words, gates>>
    \/ scene = "voice"  /\ Voice!Next  /\ UNCHANGED <<scene, deeds, doers, sets, words, gates>>
    \/ scene = "sets"   /\ Sets!Next   /\ UNCHANGED <<scene, deeds, doers, voice, words, gates>>
    \/ scene = "words"  /\ Words!Next  /\ UNCHANGED <<scene, deeds, doers, voice, sets, gates>>
    \/ scene = "gates"  /\ Gates!Next  /\ UNCHANGED <<scene, deeds, doers, voice, sets, words>>

GuildSpec == GuildInit /\ [][GuildNext]_all

Alike == Permutations(Presses)

-----------------------------------------------------------------------------
(* The variables of every part keep their types.                           *)
TypesOK ==
    CASE scene = "jail"   -> TypeOK
      [] scene = "pay"    -> Pay!TypeOK
      [] scene = "levels" -> Levels!TypeOK
      [] scene = "logs"   -> Rooms!TypeOK
      [] scene = "doers"  -> Doers!TypeOK
      [] scene = "voice"  -> Voice!TypeOK
      [] scene = "sets"   -> Sets!TypeOK
      [] scene = "words"  -> Words!TypeOK
      [] scene = "gates"  -> Gates!TypeOK

(* Nobody is paid for time they did not spend in voice, as VoiceXp states. *)
PaidForPresence == scene = "pay" => Pay!PaidForPresence

(* A sync pass leaves every member with the roles their levels ask for,    *)
(* and a job that is running has a pass at work on it, as LevelRoles       *)
(* states them.                                                            *)
SyncReconciles == scene = "levels" => Levels!PassReconciles /\ Levels!RunningJobsHaveAPass

(* The log rooms and the routing agree, as LogSetup states it.             *)
RoomsMatchRouting == scene = "logs" => Rooms!RoomsMatchRouting

(* The actor an entry names did it, as Attribution states it.              *)
TheDoerIsNamed == scene = "doers" => Doers!TheDoerIsNamed

(* What the log says adds up to what is: the voice rooms and flags, the    *)
(* sets and the messages, as VoiceLog, DerivedState and MessageLog state.  *)
LogAddsUp ==
    /\ scene = "voice" => Voice!VoiceAddsUp
    /\ scene = "sets"  => Sets!LogFollowsDiscord
    /\ scene = "words" => Words!MessagesAreTrue

(* Cooldowns, the record of refusals and withdrawn replies, as CommandGate *)
(* states them.                                                            *)
CommandsKeepTheRules == scene = "gates" => Gates!CommandsKeepTheRules
=============================================================================
