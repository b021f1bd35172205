---------------------------- MODULE SettingsRoutes ----------------------------
(***************************************************************************)
(* The settings routes of the dashboard (dashboard/server/index.ts): a     *)
(* request goes from the session over Discord's guild list, the caller's   *)
(* standing and the body to the check at Discord, the rows, the audit row  *)
(* and the answer.  Every await is a step and may fail; a route is a       *)
(* record of what it asks for on the way.  The bot token is configured.    *)
(***************************************************************************)
EXTENDS Naturals, FiniteSets, Sequences

CONSTANTS
    Requests,      \* requests in flight at once
    MaxAsks,       \* bound: requests
    MaxMishaps     \* bound: reads and writes that fail

VARIABLES
    session,       \* the operator's row in oauth_sessions: "live" or "gone"
    written,       \* the rows upserted, [ask, row]
    trail,         \* audit_logs: [ask, of], of a "save" or a "rejection"
    req,           \* the requests in flight
    asks, mishaps

vars == <<session, written, trail, req, asks, mishaps>>

-----------------------------------------------------------------------------
(* The routes.  guard: what the caller must have; wrong: the bodies that   *)
(* are refused; asks: whether the body's ids are looked up at Discord,     *)
(* always or only if the body names one; blind: the answer when that list  *)
(* cannot be read; rows: what is upserted, one after the other.            *)

TiersRoute ==
    [guard |-> "tier", wrong |-> {"empty", "clash"}, asks |-> {}, blind |-> "conflict", rows |-> <<"tiers">>, audits |-> TRUE]

CommandsRoute ==
    [guard |-> "tier", wrong |-> {"empty", "clash"}, asks |-> {}, blind |-> "conflict", rows |-> <<"command", "another">>, audits |-> TRUE]

SecurityRoute ==
    [guard |-> "tier", wrong |-> {"empty"}, asks |-> {}, blind |-> "conflict", rows |-> <<"security">>, audits |-> TRUE]

WelcomeRoute ==
    [guard |-> "tier", wrong |-> {"empty"}, asks |-> {"names"}, blind |-> "conflict", rows |-> <<"welcome">>, audits |-> TRUE]

LevelsRoute ==
    [guard |-> "tier", wrong |-> {"empty"}, asks |-> {"names"}, blind |-> "conflict", rows |-> <<"levels">>, audits |-> TRUE]

(* Settings that are switched off are accepted with a list nobody could    *)
(* read: "plain" is the body that names no channel and is switched off.    *)
WelcomeMessagesRoute ==
    [guard |-> "tier", wrong |-> {"empty"}, asks |-> {"names"}, blind |-> "later", rows |-> <<"messages">>, audits |-> TRUE]

InvitesRoute ==
    [guard |-> "tier", wrong |-> {"empty"}, asks |-> {"names"}, blind |-> "conflict", rows |-> <<"invites">>, audits |-> TRUE]

(* No body at all is a form with everything off.                           *)
LoggingRoute ==
    [guard |-> "tier", wrong |-> {"clash"}, asks |-> {"names"}, blind |-> "later", rows |-> <<"logging">>, audits |-> TRUE]

VisibilityRoute ==
    [guard |-> "tier", wrong |-> {"absent"}, asks |-> {}, blind |-> "conflict", rows |-> <<"hidden">>, audits |-> TRUE]

PreferencesRoute ==
    [guard |-> "session", wrong |-> {"empty", "clash"}, asks |-> {}, blind |-> "conflict", rows |-> <<"language">>, audits |-> FALSE]

Forms ==
    [tiers |-> TiersRoute, commands |-> CommandsRoute, security |-> SecurityRoute, welcome |-> WelcomeRoute,
     levels |-> LevelsRoute, messages |-> WelcomeMessagesRoute, invites |-> InvitesRoute, logging |-> LoggingRoute,
     visibility |-> VisibilityRoute, preferences |-> PreferencesRoute]

(* A view reads its rows and shows Discord's lists beside them: "beside"   *)
(* without them if they cannot be read, "needed" not at all.               *)
View(guard, lists) == [guard |-> guard, lists |-> lists]

GuildListView       == View("list", "later")
ChannelsView        == View("access", "needed")
TiersView           == View("tier", "beside")
CommandsView        == View("access", "beside")
MembersView         == View("access", "beside")
AuditView           == View("access", "none")
SecurityEventsView  == View("access", "none")
SecurityView        == View("access", "beside")
WelcomeView         == View("access", "beside")
LevelsView          == View("access", "beside")
WelcomeMessagesView == View("access", "beside")
InvitesView         == View("access", "beside")
MetricsView         == View("access", "beside")
LeaderboardView     == View("access", "none")
LoggingView         == View("access", "none")
PreferencesView     == View("session", "none")
RewardsView         == View("access", "none")
SyncView            == View("access", "none")
OwnLevelsView       == View("access", "none")
LevelsStatusView    == View("access", "none")
CustomizationView   == View("access", "beside")
OwnSecurityView     == View("session", "none")

Views ==
    [guilds |-> GuildListView, channels |-> ChannelsView, tiers |-> TiersView, commands |-> CommandsView,
     members |-> MembersView, audit |-> AuditView, events |-> SecurityEventsView, security |-> SecurityView,
     welcome |-> WelcomeView, levels |-> LevelsView, messages |-> WelcomeMessagesView, invites |-> InvitesView,
     metrics |-> MetricsView, leaderboard |-> LeaderboardView, logging |-> LoggingView, preferences |-> PreferencesView,
     rewards |-> RewardsView, sync |-> SyncView, me |-> OwnLevelsView, status |-> LevelsStatusView,
     customization |-> CustomizationView, account |-> OwnSecurityView]

-----------------------------------------------------------------------------
Bodies  == {"plain", "names", "empty", "clash", "absent"}
Answers == {"none", "saved", "shown", "signed_out", "forbidden", "wrong", "conflict", "later", "failed"}
Steps   == {"idle", "session", "list", "standing", "reject", "body", "check", "rows", "audit", "view", "lists", "answered"}
Blank   == [at |-> "idle", ask |-> 0, form |-> Forms["tiers"], view |-> Views["logging"], saves |-> FALSE,
            body |-> "plain", left |-> <<>>, ended |-> FALSE, answer |-> "none"]

TypeOK ==
    /\ session \in {"live", "gone"}
    /\ \A r \in Requests : req[r].at \in Steps /\ req[r].answer \in Answers /\ req[r].body \in Bodies
    /\ \A w \in written : w.ask \in 1 .. MaxAsks
    /\ trail \subseteq [ask : 1 .. MaxAsks, of : {"save", "rejection"}]
    /\ asks \in 0 .. MaxAsks /\ mishaps \in 0 .. MaxMishaps

Init ==
    /\ session = "live" /\ written = {} /\ trail = {} /\ asks = 0 /\ mishaps = 0
    /\ req = [r \in Requests |-> Blank]

Guard(r) == IF req[r].saves THEN req[r].form.guard ELSE req[r].view.guard

GoTo(r, at)       == req' = [req EXCEPT ![r].at = at]
Answer(r, answer) == req' = [req EXCEPT ![r].at = "answered", ![r].answer = answer]
Fails             == mishaps < MaxMishaps /\ mishaps' = mishaps + 1
Fine              == UNCHANGED mishaps

(* The error handler: whatever a route throws is a 500.                    *)
Throws(r) == Fails /\ Answer(r, "failed")

Ask(r) ==
    /\ req[r].at = "idle" /\ asks < MaxAsks
    /\ asks' = asks + 1
    /\ \/ \E f \in DOMAIN Forms, b \in Bodies :
             req' = [req EXCEPT ![r] = [Blank EXCEPT !.at = "session", !.ask = asks', !.saves = TRUE,
                                                     !.form = Forms[f], !.body = b]]
       \/ \E v \in DOMAIN Views :
             req' = [req EXCEPT ![r] = [Blank EXCEPT !.at = "session", !.ask = asks', !.view = Views[v]]]
    /\ UNCHANGED <<session, written, trail, mishaps>>

Passed(r) == IF req[r].saves THEN "body" ELSE "view"

RequireSession(r) ==
    /\ req[r].at = "session"
    /\ \/ Throws(r)
       \/ session = "gone" /\ Answer(r, "signed_out") /\ Fine
       \/ session = "live" /\ Fine /\ GoTo(r, IF Guard(r) = "session" THEN Passed(r) ELSE "list")
    /\ UNCHANGED <<session, written, trail, asks>>

(* Mutant: Discord's rate limit signs the operator out.                    *)
LoadUserGuildsSignsOut(r) ==
    /\ req[r].at = "list"
    /\ \/ GoTo(r, "standing") /\ Fine /\ UNCHANGED session
       \/ Fails /\ session' = "gone" /\ req' = [req EXCEPT ![r].at = "answered", ![r].answer = "later", ![r].ended = TRUE]
    /\ UNCHANGED <<written, trail, asks>>

(* Discord's list of the caller's guilds.  A refused or unreadable token   *)
(* ends the session, and a session that cannot be deleted stays; a rate    *)
(* limit and an outage are answered "later" and leave the session alone.   *)
LoadUserGuilds(r) ==
    /\ req[r].at = "list"
    /\ \/ GoTo(r, "standing") /\ Fine /\ UNCHANGED session
       \/ /\ Fails
          /\ session' \in {session, "gone"}
          /\ req' = [req EXCEPT ![r].at = "answered", ![r].answer = "signed_out", ![r].ended = session' # session]
       \/ Fails /\ Answer(r, "later") /\ UNCHANGED session
    /\ UNCHANGED <<written, trail, asks>>

(* GET guilds shows the list itself, with the bot's guilds read beside it. *)
(* The others want the guild on it: a view its administration, a save the  *)
(* tier, which may take the tier rows and the member's roles to tell; a    *)
(* member that cannot be read has none.                                    *)
ResolveStanding(r) ==
    /\ req[r].at = "standing"
    /\ \/ Guard(r) = "list" /\ GoTo(r, "view") /\ Fine
       \/ Guard(r) # "list" /\ Answer(r, "forbidden") /\ Fine
       \/ Guard(r) = "access" /\ GoTo(r, "view") /\ Fine
       \/ /\ Guard(r) = "tier"
          /\ \/ GoTo(r, Passed(r)) /\ Fine
             \/ GoTo(r, "reject") /\ Fine
             \/ GoTo(r, "reject") /\ Fails
             \/ Throws(r)
    /\ UNCHANGED <<session, written, trail, asks>>

(* A caller below the tier is refused, once the refusal is in the trail.   *)
RejectTier(r) ==
    /\ req[r].at = "reject"
    /\ \/ /\ trail' = trail \cup {[ask |-> req[r].ask, of |-> "rejection"]}
          /\ Answer(r, "forbidden") /\ Fine
       \/ Throws(r) /\ UNCHANGED trail
    /\ UNCHANGED <<session, written, asks>>

CheckBody(r) ==
    /\ req[r].at = "body"
    /\ IF req[r].body \in req[r].form.wrong
       THEN Answer(r, "wrong")
       ELSE req' = [req EXCEPT ![r].at = IF req[r].body \in req[r].form.asks THEN "check" ELSE "rows",
                               ![r].left = req[r].form.rows]
    /\ UNCHANGED <<session, written, trail, asks, mishaps>>

(* What the body names is looked up at Discord now, not trusted from the   *)
(* screen.                                                                 *)
CheckAtDiscord(r) ==
    /\ req[r].at = "check"
    /\ \/ GoTo(r, "rows") /\ Fine
       \/ Answer(r, "conflict") /\ Fine
       \/ Fails /\ Answer(r, req[r].form.blind)
    /\ UNCHANGED <<session, written, trail, asks>>

Upsert(r) == written' = written \cup {[ask |-> req[r].ask, row |-> Head(req[r].left)]}

SaveRows(r) ==
    /\ req[r].at = "rows" /\ req[r].left # <<>>
    /\ \/ Upsert(r) /\ req' = [req EXCEPT ![r].left = Tail(@)] /\ Fine
       \/ Throws(r) /\ UNCHANGED written
    /\ UNCHANGED <<session, trail, asks>>

AppendAudit(r) ==
    /\ req[r].at = "rows" /\ req[r].left = <<>>
    /\ \/ /\ trail' = IF req[r].form.audits THEN trail \cup {[ask |-> req[r].ask, of |-> "save"]} ELSE trail
          /\ Answer(r, "saved") /\ Fine
       \/ req[r].form.audits /\ Throws(r) /\ UNCHANGED trail
    /\ UNCHANGED <<session, written, asks>>

ReadView(r) ==
    /\ req[r].at = "view"
    /\ \/ Fine /\ IF req[r].view.lists = "none" THEN Answer(r, "shown") ELSE GoTo(r, "lists")
       \/ Throws(r)
    /\ UNCHANGED <<session, written, trail, asks>>

ReadLists(r) ==
    /\ req[r].at = "lists"
    /\ \/ Answer(r, "shown") /\ Fine
       \/ Fails /\ Answer(r, CASE req[r].view.lists = "beside" -> "shown"
                               [] req[r].view.lists = "later"  -> "later"
                               [] req[r].view.lists = "needed" -> "failed")
    /\ UNCHANGED <<session, written, trail, asks>>

Taken(r) ==
    /\ req[r].at = "answered"
    /\ req' = [req EXCEPT ![r] = Blank]
    /\ UNCHANGED <<session, written, trail, asks, mishaps>>

(* The operator signs out, or is signed out, in another tab; and in again. *)
SignedOutElsewhere ==
    /\ session = "live" /\ Fails
    /\ session' = "gone"
    /\ UNCHANGED <<written, trail, req, asks>>

Next ==
    \/ \E r \in Requests :
          \/ Ask(r) \/ RequireSession(r) \/ LoadUserGuilds(r) \/ ResolveStanding(r) \/ RejectTier(r)
          \/ CheckBody(r) \/ CheckAtDiscord(r) \/ SaveRows(r) \/ AppendAudit(r)
          \/ ReadView(r) \/ ReadLists(r) \/ Taken(r)
    \/ SignedOutElsewhere

Spec == Init /\ [][Next]_vars

-----------------------------------------------------------------------------
Kept(r) == {w.row : w \in {v \in written : v.ask = req[r].ask}}
Told(r) == [ask |-> req[r].ask, of |-> "save"] \in trail

(* The answer, the rows and the trail of a request agree, whatever fails   *)
(* on the way (the save routes of dashboard index.ts): "saved" means that  *)
(* every row was written and the save is in the trail, any refusal that    *)
(* nothing was, and "later" leaves the session as it was ("The session is  *)
(* deliberately not touched").  The trail never tells of a save whose rows *)
(* were not all written; a 500 may leave rows the trail does not tell of.  *)
AnswersAreTrue ==
    \A r \in Requests : req[r].at # "idle" =>
        LET rows == {req[r].form.rows[i] : i \in DOMAIN req[r].form.rows}
        IN  /\ req[r].answer = "saved" => Kept(r) = rows /\ (req[r].form.audits => Told(r))
            /\ req[r].answer \in {"signed_out", "forbidden", "wrong", "conflict", "later", "shown"} => Kept(r) = {} /\ ~Told(r)
            /\ req[r].answer = "later" => ~req[r].ended
            /\ Told(r) => Kept(r) = rows
=============================================================================
