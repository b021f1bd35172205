------------------------------- MODULE MCEvents --------------------------------
(***************************************************************************)
(* Events and the two caches they are read through, one scene at a time.   *)
(* These parts share no state: the bot's configuration cache (ConfigCache, *)
(* extended here), the dashboard's channel list (GuildReadCache, one layer *)
(* and a handler that drops it), the dispatcher over the pipeline, the     *)
(* anti-nuke engine and the invites.  A run is one scene; the parts of the *)
(* others stand still.  Parts with theorems are instances of their proof   *)
(* modules, so that EventsProofs may cite them.                            *)
(***************************************************************************)
EXTENDS ConfigCache, TLC

CONSTANTS
    hop, leave, other, react, m1, m2,                               \* Dispatch
    Jobs, Keys, None, Lowest, Ceiling, Window, MinRetry, DebounceDelay, FlushBudget,
    Events, Actors, Self, RoleCreate, RoleDelete, ChannelDelete, RoleChange,      \* AntiNuke
    CreateWindow, DeleteWindow, ChannelWindow, RoleLimit, ChannelLimit, PruneWindow,
    MaxProbes, MaxRestarts, MaxToggles,
    Screens, Depth, Call, Writers, CanFail, NoFlight,               \* GuildReadCache
    Guests, Inviter, Codes, NoCode, Handlers, Early, Milestone,     \* Invites
    MaxMishaps, NoSnapshot, NoRow, Nobody

VARIABLES
    scene,
    queues, pending, running, passAt, drainScheduled, retryIn, age, flush, flushLeft,
    accepted, settled, superseded, promised, arrived,
    probes, on, stage, by, hits, latched, countedAt, applied, told, pruned, restarts, toggles,
    clock, edition, editedAt, listed, flight, waiting, given, writer, acked, floor, overtaken, lastLoad,
    uses, here, snapshot, creating, joined, credited, newest, turned, call,
    referral, regular, leaves, holds, mishaps, overlaps

-----------------------------------------------------------------------------
(* Two members' voice events and a reaction.                               *)
VoiceOrReaction == [j \in Jobs |-> IF j = react THEN "reaction" ELSE "voiceChurn"]
WhoMoves        == [j \in Jobs |-> IF j = other THEN m2 ELSE m1]

(* Creating and deleting roles share a budget and a limit; channels have   *)
(* their own.  Every protection has its own window.                        *)
BudgetOf(p) == IF p \in {RoleCreate, RoleDelete} THEN RoleChange ELSE p
LimitIn(x)  == IF x = RoleChange THEN RoleLimit ELSE ChannelLimit
WindowOn(p) ==
    CASE p = RoleCreate -> CreateWindow
      [] p = RoleDelete -> DeleteWindow
      [] OTHER -> ChannelWindow

Voice  == INSTANCE EventPipelineProofs WITH Kind <- VoiceOrReaction, MemberOf <- WhoMoves
Nuke   == INSTANCE AntiNukeProofs WITH Protections <- {RoleCreate, RoleDelete, ChannelDelete},
             Action <- BudgetOf, WindowOf <- WindowOn, LimitOf <- LimitIn, MaxTime <- MaxProbes, now <- probes
Lists  == INSTANCE GuildReadCacheProofs WITH now <- clock, version <- edition, replacedAt <- editedAt,
             entry <- listed, answer <- given
Links  == INSTANCE Invites WITH Members <- Guests, Calls <- Handlers, row <- referral

config == vars
voice  == <<queues, pending, running, passAt, drainScheduled, retryIn, age, flush, flushLeft,
            accepted, settled, superseded, promised, arrived>>
nuke   == <<probes, on, stage, by, hits, latched, countedAt, applied, told, pruned, restarts, toggles>>
lists  == <<clock, edition, editedAt, listed, flight, waiting, given, writer, acked, floor, overtaken, lastLoad>>
links  == <<uses, here, snapshot, creating, joined, credited, newest, turned, call,
            referral, regular, leaves, holds, mishaps, overlaps>>

-----------------------------------------------------------------------------
EventsInit ==
    /\ scene \in {"config", "lists", "voice", "nuke", "links"}
    /\ Init /\ Lists!Init /\ Voice!DInit /\ Nuke!Init /\ Links!Init

EventsNext ==
    \/ scene = "config" /\ Next        /\ UNCHANGED <<scene, lists, voice, nuke, links>>
    \/ scene = "lists"  /\ Lists!Next  /\ UNCHANGED <<scene, config, voice, nuke, links>>
    \/ scene = "voice"  /\ Voice!DNext /\ UNCHANGED <<scene, config, lists, nuke, links>>
    \/ scene = "nuke"   /\ Nuke!Next   /\ UNCHANGED <<scene, config, lists, voice, links>>
    \/ scene = "links"  /\ Links!Next  /\ UNCHANGED <<scene, config, lists, voice, nuke>>

EventsSpec == EventsInit /\ [][EventsNext]_<<scene, config, lists, voice, nuke, links>>

Alike == Permutations(Events)

-----------------------------------------------------------------------------
(* The variables of every part keep their types.                           *)
TypesOK ==
    CASE scene = "config" -> TypeOK
      [] scene = "lists"  -> Lists!TypeOK
      [] scene = "voice"  -> Voice!TypeOK
      [] scene = "nuke"   -> Nuke!TypeOK
      [] scene = "links"  -> Links!TypeOK

(* A member's last voice event is never the one that is coalesced away, as *)
(* Dispatch states it.                                                     *)
LastVoiceEventSurvives == scene = "voice" => Voice!LastVoiceEventSurvives

(* Exactly one report to the owner per incident, as AntiNuke states it.    *)
OneReportPerIncident == scene = "nuke" => Nuke!OneReportPerIncident

(* An actor who exceeded the limit within what is surely kept of a budget  *)
(* was latched, as AntiNuke states it.                                     *)
CloseBurstsAreCaught == scene = "nuke" => Nuke!CloseBurstsAreCaught

(* A log setup is seen by whoever asks after it, as GuildReadCache states. *)
EditsSeenUnlessOvertaken == scene = "lists" => Lists!EditsSeenUnlessOvertaken

(* No use of an invite is attributed to two joins, as Invites states it.   *)
UsesAreAttributedOnce == scene = "links" => Links!UsesAreAttributedOnce

(* An inviter's score is who stayed, as Invites states it.                 *)
ScoreIsWhoStayed == scene = "links" => Links!ScoreIsWhoStayed

(* One Discord read per TTL, however many screens ask.                     *)
OneRequestPerWindow == Lists!OneRequestPerWindow
=============================================================================
