----------------------------- MODULE SettingsForm -----------------------------
(***************************************************************************)
(* A settings screen of the dashboard in the browser (views/settings): the *)
(* value the server holds, the draft of it (useDraftForm), the bar that    *)
(* saves the draft (SaveBar), and the requests of the client.  The screen  *)
(* stays mounted when the operator picks another guild.                    *)
(***************************************************************************)
EXTENDS Naturals, FiniteSets

CONSTANTS
    Guilds,
    Values,         \* what a guild's settings may be
    Presses,        \* presses of the bar's button
    Default,        \* the settings of a guild that was never saved, in Values
    Loading,        \* null: nothing loaded yet
    MaxLoads, MaxEdits, MaxMishaps   \* bounds

VARIABLES
    rows,           \* the server's rows
    guild,          \* the guild in view
    settings,       \* the source of the form: Loading, or loaded
    saved, draft,   \* of useDraftForm
    loads,          \* for each guild picked, in order: its request, and whether it is cancelled
    press,          \* each press: its request, and whether its bar is still mounted
    edits, mishaps,
    slipped         \* history: something happened that the screen is not guarded against

form == <<settings, saved, draft>>
vars == <<rows, guild, form, loads, press, edits, mishaps, slipped>>

Ready    == [at |-> "ready"]
Flying   == {p \in Presses : press[p].at \in {"sent", "limited", "resent", "stored"}}
Inflight == {p \in Flying : press[p].mounted}     \* inFlight, of the bar on the screen
Dirty(s, d) == s # Loading /\ d # Loading /\ s # d

Maybe == Values \cup {Loading}

TypeOK ==
    /\ rows \in [Guilds -> Values] /\ guild \in Guilds
    /\ settings \in {"loading", "loaded"} /\ saved \in Maybe /\ draft \in Maybe
    /\ \A l \in DOMAIN loads : /\ loads[l].guild \in Guilds /\ loads[l].cancelled \in BOOLEAN
                               /\ loads[l].answer \in Maybe /\ loads[l].at \in {"sent", "read", "done"}
    /\ \A p \in Presses : press[p].at \in {"ready", "sent", "limited", "resent", "stored", "done"}
    /\ edits \in 0 .. MaxEdits /\ mishaps \in 0 .. MaxMishaps /\ slipped \in BOOLEAN

(* The effect of the view: the loads before are cancelled, the next one    *)
(* asks.                                                                   *)
Load(g) == [guild |-> g, at |-> "sent", answer |-> Loading, cancelled |-> FALSE]

Init ==
    /\ rows = [g \in Guilds |-> Default] /\ guild \in Guilds
    /\ settings = "loading" /\ saved = Loading /\ draft = Loading
    /\ loads = <<Load(guild)>>
    /\ press = [p \in Presses |-> Ready]
    /\ edits = 0 /\ mishaps = 0 /\ slipped = FALSE

Fine   == UNCHANGED mishaps
Mishap == mishaps < MaxMishaps /\ mishaps' = mishaps + 1

(* The form shows s as saved and d as the draft.  The bar is on the screen *)
(* while they differ: when they do not, it goes, and with it what its      *)
(* button knew.  Presses in ended are over.                                *)
Shows(s, d, ended) ==
    /\ saved' = s /\ draft' = d
    /\ press' = [p \in Presses |->
         IF p \in ended THEN [at |-> "done"]
         ELSE IF p \in Flying THEN [press[p] EXCEPT !.mounted = @ /\ Dirty(s, d)]
         ELSE press[p]]

-----------------------------------------------------------------------------
(* Another guild is picked.  setSettings(null) rebases the form, unless it *)
(* was null before.                                                        *)
Pick(g) ==
    /\ g # guild /\ guild' = g /\ Cardinality(DOMAIN loads) < MaxLoads
    /\ loads' = [l \in DOMAIN loads \cup {Cardinality(DOMAIN loads) + 1} |->
                    IF l \in DOMAIN loads THEN [loads[l] EXCEPT !.cancelled = TRUE] ELSE Load(g)]
    /\ settings' = "loading"
    /\ IF settings = "loading" THEN UNCHANGED <<saved, draft, press>> ELSE Shows(Loading, Loading, {})
    /\ slipped' = (slipped \/ Flying # {})
    /\ UNCHANGED <<rows, edits, mishaps>>

(* The server reads the row, or refuses.                                   *)
Read(l) ==
    /\ loads[l].at = "sent"
    /\ \/ loads' = [loads EXCEPT ![l].at = "read", ![l].answer = rows[loads[l].guild]] /\ Fine
       \/ loads' = [loads EXCEPT ![l].at = "done"] /\ Mishap
    /\ UNCHANGED <<rows, guild, form, press, edits, slipped>>

(* Mutant: the answer of a cancelled load is taken.                        *)
LoadedAnyway(l) ==
    /\ loads[l].at = "read" /\ loads' = [loads EXCEPT ![l].at = "done"]
    /\ settings' = "loaded" /\ Shows(loads[l].answer, loads[l].answer, {})
    /\ UNCHANGED <<rows, guild, edits, mishaps, slipped>>

(* The answer of the latest load is a new source of the form.              *)
Loaded(l) ==
    /\ loads[l].at = "read" /\ loads' = [loads EXCEPT ![l].at = "done"]
    /\ IF loads[l].cancelled THEN UNCHANGED <<form, press>>
       ELSE settings' = "loaded" /\ Shows(loads[l].answer, loads[l].answer, {})
    /\ UNCHANGED <<rows, guild, edits, mishaps, slipped>>

(* Inputs stay open during a save.                                         *)
Edit(v) ==
    /\ saved # Loading /\ draft # v /\ edits < MaxEdits /\ edits' = edits + 1
    /\ Shows(saved, v, {})
    /\ UNCHANGED <<rows, guild, settings, loads, mishaps, slipped>>

(* The bar's other button, which is disabled during a save of its bar.     *)
Reset ==
    /\ Dirty(saved, draft) /\ Inflight = {} /\ Shows(saved, saved, {})
    /\ UNCHANGED <<rows, guild, settings, loads, edits, mishaps, slipped>>

-----------------------------------------------------------------------------
(* The bar saves the draft in the guild in view.  Its ref refuses a second *)
(* press; a bar that was away and is back does not remember the first.     *)
Save(p) ==
    /\ press[p] = Ready /\ Dirty(saved, draft) /\ Inflight = {}
    /\ press' = [press EXCEPT ![p] = [at |-> "sent", mounted |-> TRUE, guild |-> guild, value |-> draft]]
    /\ slipped' = (slipped \/ Flying # {})
    /\ UNCHANGED <<rows, guild, form, loads, edits, mishaps>>

(* A request that met a rate limit waits, and is sent once more.           *)
Limited(p) ==
    /\ press[p].at = "sent" /\ press' = [press EXCEPT ![p].at = "limited"] /\ Mishap
    /\ UNCHANGED <<rows, guild, form, loads, edits, slipped>>

Resend(p) ==
    /\ press[p].at = "limited" /\ press' = [press EXCEPT ![p].at = "resent"]
    /\ UNCHANGED <<rows, guild, form, loads, edits, mishaps, slipped>>

Stores(p) ==
    /\ press[p].at \in {"sent", "resent"}
    /\ rows' = [rows EXCEPT ![press[p].guild] = press[p].value]
    /\ press' = [press EXCEPT ![p].at = "stored"]
    /\ UNCHANGED <<guild, form, loads, edits, mishaps, slipped>>

(* commit: whatever the form shows now, of whatever guild.                 *)
Commits(p) ==
    /\ press[p].at = "stored" /\ Shows(press[p].value, press[p].value, {p})
    /\ UNCHANGED <<rows, guild, settings, loads, edits, mishaps, slipped>>

(* The save fails, or its answer is late: the bar shows the error, and the *)
(* form is left as it is.                                                  *)
Fails(p) ==
    /\ press[p].at \in {"sent", "resent", "stored"} /\ Mishap
    /\ press' = [press EXCEPT ![p] = [at |-> "done"]]
    /\ slipped' = (slipped \/ press[p].at = "stored")
    /\ UNCHANGED <<rows, guild, form, loads, edits>>

Next ==
    \/ \E g \in Guilds : Pick(g)
    \/ \E l \in DOMAIN loads : Read(l) \/ Loaded(l)
    \/ \E v \in Values : Edit(v)
    \/ Reset
    \/ \E p \in Presses : Save(p) \/ Limited(p) \/ Resend(p) \/ Stores(p) \/ Commits(p) \/ Fails(p)

Spec == Init /\ [][Next]_vars

-----------------------------------------------------------------------------
(* With no save under way, what the screen calls saved is the row of the   *)
(* guild in view.  Excused: a guild picked during a save, whose commit     *)
(* then lands in the other guild's form; two saves at once, after the bar  *)
(* was away; and a save that was stored but whose answer was lost.         *)
FormShowsTheRow == slipped \/ Flying # {} \/ saved = Loading \/ saved = rows[guild]
=============================================================================
