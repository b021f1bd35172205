------------------------------ MODULE MCDashboard ------------------------------
(***************************************************************************)
(* The dashboard, one scene at a time: sign-in (SignIn, extended here),    *)
(* the settings routes, the bot's appearance, a settings screen in the     *)
(* browser, or the tunnel.  They share no state but the session, which the *)
(* first two model each for itself.  The parts of the other scenes stand   *)
(* still.                                                                  *)
(***************************************************************************)
EXTENDS SignIn, TLC

CONSTANTS
    Browsers, MaxAsks, MaxFaults,                                 \* SettingsRoutes
    Saves, Values, Cleared, MaxSaves, MaxSlips,                   \* Appearance
    Guilds, Presses, Loading, MaxLoads, MaxEdits, MaxBlunders,    \* SettingsForm
    Switches, Random, Fixed, Retries, MaxAgents, MaxUrls, MaxTroubles, Absent   \* Tunnel

VARIABLES
    scene,
    session, written, trail, asks, served, faults,
    row, shown, save, told, asked, slips,
    rows, guild, source, base, draft, loads, press, edits, blunders, strayed,
    mode, domain, link, child, pid, attempts, retryTimer, stray, polls, probe, failures, tasks,
    keys, agents, log, born, exits, spent, troubles, slipped

(* The form of the name and colour, with an icon or without.               *)
TwoForms == {{"nickname", "roleColor"}, {"nickname", "roleColor", "roleIconUrl"}}

Settings == INSTANCE SettingsRoutes WITH Requests <- Browsers, MaxMishaps <- MaxFaults, req <- served, mishaps <- faults
Look     == INSTANCE Appearance WITH Bodies <- TwoForms, MaxMishaps <- MaxSlips, mishaps <- slips

Screen == INSTANCE SettingsForm WITH
            Default <- Cleared, MaxMishaps <- MaxBlunders,
            settings <- source, saved <- base, mishaps <- blunders, slipped <- strayed
Reach  == INSTANCE Tunnel WITH
            Requests <- Switches, Domains <- {Random, Fixed}, MaxMishaps <- MaxTroubles,
            saved <- keys, mishaps <- troubles

settings == <<session, written, trail, asks, served, faults>>
look     == <<row, shown, save, told, asked, slips>>
screen   == <<rows, guild, source, base, draft, loads, press, edits, blunders, strayed>>
reach    == <<mode, domain, link, child, pid, attempts, retryTimer, stray, polls, probe, failures, tasks,
              keys, agents, log, born, exits, spent, troubles, slipped>>
all      == <<scene, vars, settings, look, screen, reach>>

-----------------------------------------------------------------------------
DashboardInit ==
    /\ scene \in {"sign in", "settings", "look", "screen", "reach"}
    /\ Init /\ Settings!Init /\ Look!Init /\ Screen!Init /\ Reach!Init
    /\ scene = "look" \/ row = Look!Nothing.next
    /\ mode = "off" /\ domain = Random
    /\ scene = "screen" \/ guild = CHOOSE g \in Guilds : TRUE

DashboardNext ==
    \/ scene = "sign in"  /\ Next          /\ UNCHANGED <<scene, settings, look, screen, reach>>
    \/ scene = "settings" /\ Settings!Next /\ UNCHANGED <<scene, vars, look, screen, reach>>
    \/ scene = "look"     /\ Look!Next     /\ UNCHANGED <<scene, vars, settings, screen, reach>>
    \/ scene = "screen"   /\ Screen!Next   /\ UNCHANGED <<scene, vars, settings, look, reach>>
    \/ scene = "reach"    /\ Reach!Next    /\ UNCHANGED <<scene, vars, settings, look, screen>>

DashboardSpec == DashboardInit /\ [][DashboardNext]_all

Alike == Permutations(Requests)

-----------------------------------------------------------------------------
(* The variables of every part keep their types.                           *)
TypesOK ==
    CASE scene = "sign in"  -> TypeOK
      [] scene = "settings" -> Settings!TypeOK
      [] scene = "look"     -> Look!TypeOK
      [] scene = "screen"   -> Screen!TypeOK
      [] scene = "reach"    -> Reach!TypeOK

(* The answer, the rows and the trail of a settings request agree, as      *)
(* SettingsRoutes states it.                                               *)
AnswersAreTrue == scene = "settings" => Settings!AnswersAreTrue

(* A field that does not show what was saved was reported, as Appearance   *)
(* states it; and what a settings screen calls saved is the row of the     *)
(* guild in view, as SettingsForm states it.                               *)
ScreensTellTheTruth ==
    /\ scene = "look"   => Look!DifferencesAreReported
    /\ scene = "screen" => Screen!FormShowsTheRow

(* At most one agent runs, and it is the one the manager would stop, as    *)
(* Tunnel states it.                                                       *)
TunnelIsOurs == scene = "reach" => Reach!TunnelIsOurs
=============================================================================
