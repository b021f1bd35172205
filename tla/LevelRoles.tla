----------------------------- MODULE LevelRoles -----------------------------
(***************************************************************************)
(* The role rewards of the level system: the rules and totals an operator  *)
(* edits in the dashboard (dashboard/server/index.ts, db.ts), the bot that *)
(* grants and revokes roles when a member levels up, and the sync job that *)
(* reconciles everybody (bot/index.ts, bot/runtime/levels.ts,              *)
(* bot/storage/database.ts).  One guild; experience is counted in levels.  *)
(***************************************************************************)
EXTENDS Integers, FiniteSets

CONSTANTS
    Members,       \* user ids: 1 .. n, the order of the pages
    RuleSpace,     \* the rules an operator may write
    Stacking,      \* roleStacking
    Cap,           \* maxLevelCap
    DefaultCap,    \* MAX_LEVEL
    BatchSize,     \* SYNC_BATCH_SIZE
    MaxLevel,      \* bound: levels a member can reach
    MaxAwards,     \* bound: level-ups
    MaxMishaps,    \* bound: edits, departures, restarts and failures together
    None

VARIABLES
    rules,        \* level_role_rewards
    known,        \* levelRewards: the bot's cached rules, or None
    xp,           \* user_guild_levels: [text, voice] of each member
    held,         \* reward roles each member holds at Discord
    job,          \* level_sync_jobs: [status, cursor] of the newest job
    pass,         \* the sync pass the bot is running
    hand,         \* what the text handler, the voice handler and the pass do to a member
    admin,        \* what the dashboard handler still has to do
    awards, mishaps,
    quiet,        \* nothing but the pass has moved since it read the rules
    ready,        \* this process has got through its ready handler
    orphan        \* a write that was lost, or a process that ended, has left
                  \* the job running without a pass

db   == <<rules, xp, job>>
bot  == <<known, pass, hand>>
vars == <<db, bot, held, admin, awards, mishaps, quiet, ready, orphan>>

Roles     == {r.role : r \in RuleSpace}
Workers  == {"text", "voice", "sync"}
Levels    == [text : 0 .. MaxLevel, voice : 0 .. MaxLevel]
Zero      == [text |-> 0, voice |-> 0]
HasXp(m) == xp[m] # Zero
Least(S)  == CHOOSE x \in S : \A y \in S : x <= y

IdleHand  == [at |-> "idle", who |-> 0, lv |-> Zero, adds |-> {}, removes |-> {}]
NoPass    == [at |-> "none", rules |-> {}, page |-> {}, seen |-> [m \in Members |-> Zero], cursor |-> 0]

TypeOK ==
    /\ rules \subseteq RuleSpace /\ (known = None \/ known \subseteq RuleSpace)
    /\ xp \in [Members -> Levels] /\ held \in [Members -> SUBSET Roles]
    /\ job \in [status : {"none", "pending", "running", "completed", "failed"}, cursor : {0} \cup Members]
    /\ pass \in [at : {"none", "start", "page", "member"}, rules : SUBSET RuleSpace, page : SUBSET Members,
                 seen : [Members -> Levels], cursor : {0} \cup Members]
    /\ hand \in [Workers -> [at : {"idle", "plan", "apply"}, who : {0} \cup Members, lv : Levels,
                              adds : SUBSET Roles, removes : SUBSET Roles]]
    /\ admin \in {"idle", "audit", "request", "audit only"}
    /\ awards \in 0 .. MaxAwards /\ mishaps \in 0 .. MaxMishaps
    /\ quiet \in BOOLEAN /\ ready \in BOOLEAN /\ orphan \in BOOLEAN

Init ==
    /\ rules \in SUBSET RuleSpace /\ known = None
    /\ xp = [m \in Members |-> Zero] /\ held = [m \in Members |-> {}]
    /\ job = [status |-> "none", cursor |-> 0]
    /\ pass = NoPass /\ hand = [h \in Workers |-> IdleHand]
    /\ admin = "idle"
    /\ awards = 0 /\ mishaps = 0
    /\ quiet = FALSE /\ ready = FALSE /\ orphan = FALSE

Mishap == mishaps < MaxMishaps /\ mishaps' = mishaps + 1 /\ UNCHANGED awards
Calm   == UNCHANGED <<awards, mishaps>>

-----------------------------------------------------------------------------
(* The rules, as pure functions.                                           *)

Earned(r, lv) ==
    CASE r.kind = "dual"  -> lv.text >= r.level /\ lv.voice >= r.voiceLevel
      [] r.kind = "voice" -> lv.voice >= r.level
      [] r.kind = "text"  -> lv.text >= r.level

(* desiredLevelRoles: every earned rule, or the highest of each track and  *)
(* those marked to be kept.                                                *)
DesiredRoles(rs, lv) ==
    LET earned == {r \in rs : Earned(r, lv)}
        Highest(r) == \A q \in earned : q.kind = r.kind => q.level <= r.level
    IN  {r.role : r \in {q \in earned : Stacking \/ q.keep \/ Highest(q)}}

Named(rs) == {r.role : r \in rs}

Capped(lv) == [text |-> Least({lv.text, Cap}), voice |-> Least({lv.voice, Cap})]

(* The totals a level-up handler judges by: the track that rose under the  *)
(* guild's cap, the other one under the shipped one.                       *)
LevelsAfter(track, lv) ==
    IF track = "text"
    THEN [text |-> Least({lv.text, Cap}), voice |-> Least({lv.voice, DefaultCap})]
    ELSE [text |-> Least({lv.text, DefaultCap}), voice |-> Least({lv.voice, Cap})]

-----------------------------------------------------------------------------
(* The dashboard.                                                          *)

(* createOrResumeSyncJob: an open job is left as it is, a failed one is    *)
(* resumed, otherwise a new one is inserted.                               *)
Requested ==
    CASE job.status \in {"pending", "running"} -> job
      [] job.status = "failed" -> [job EXCEPT !.status = "pending"]
      [] OTHER -> [status |-> "pending", cursor |-> 0]

(* POST, PATCH and DELETE rewards; a new rule asks for no reconciliation.  *)
EditRules ==
    /\ admin = "idle" /\ Mishap
    /\ \E r \in RuleSpace :
          \/ r \notin rules /\ rules' = rules \cup {r} /\ admin' = "audit only"
          \/ r \in rules /\ rules' = rules \ {r} /\ admin' = "audit"
          \/ r \in rules /\ admin' = "audit" /\ \E q \in RuleSpace \ rules : rules' = (rules \ {r}) \cup {q}
    /\ quiet' = FALSE
    /\ UNCHANGED <<bot, held, xp, job, ready, orphan>>

(* PATCH and reset of a member's totals; only a member with a row has any. *)
SetMemberXp ==
    /\ admin = "idle" /\ Mishap
    /\ \E m \in Members : \E lv \in {Zero, [xp[m] EXCEPT !.text = 0]} :
          HasXp(m) /\ xp' = [xp EXCEPT ![m] = lv]
    /\ admin' = "audit" /\ quiet' = FALSE
    /\ UNCHANGED <<bot, held, rules, job, ready, orphan>>

(* The audit record: a failure ends the request after the save and before  *)
(* the job is asked for.                                                   *)
Audit ==
    /\ admin \in {"audit", "audit only"}
    /\ \/ admin' = (IF admin = "audit" THEN "request" ELSE "idle") /\ Calm
       \/ admin' = "idle" /\ Mishap
    /\ UNCHANGED <<db, bot, held, quiet, ready, orphan>>

RequestSync ==
    /\ \/ admin = "request" /\ admin' = "idle"
       \/ admin = "idle" /\ UNCHANGED admin
    /\ job' = Requested
    /\ UNCHANGED <<bot, held, rules, xp, awards, mishaps, quiet, ready, orphan>>

-----------------------------------------------------------------------------
(* The bot: level-ups.                                                     *)

(* levelRewards.get: the cached rules, or those of the database; nothing   *)
(* when the read fails.                                                    *)
ReadsRules(rs) ==
    \/ known # None /\ rs = known /\ UNCHANGED known /\ Calm
    \/ known = None /\ rs = rules /\ known' = rules /\ Calm
    \/ known = None /\ rs = {} /\ UNCHANGED known /\ Mishap

CacheExpires ==
    /\ known # None /\ known' = None
    /\ UNCHANGED <<db, pass, hand, held, admin, awards, mishaps, quiet, ready, orphan>>

(* recordTextXp, recordVoiceXp: one statement; only a rise goes on.        *)
Award(track) ==
    /\ hand[track].at = "idle" /\ awards < MaxAwards
    /\ \E m \in Members :
          /\ xp[m][track] < MaxLevel
          /\ xp' = [xp EXCEPT ![m][track] = @ + 1]
          /\ hand' = IF xp'[m][track] <= Cap
                     THEN [hand EXCEPT ![track] = [IdleHand EXCEPT !.at = "plan", !.who = m,
                                                                   !.lv = LevelsAfter(track, xp'[m])]]
                     ELSE hand
    /\ awards' = awards + 1 /\ UNCHANGED mishaps
    /\ quiet' = FALSE
    /\ UNCHANGED <<rules, job, known, pass, held, admin, ready, orphan>>

(* evaluateAndApplyRoles, up to its first call.                            *)
Judged(m, rs, lv) ==
    LET desired == DesiredRoles(rs, lv)
        adds    == IF rs = {} THEN {} ELSE desired \ held[m]
        removes == (Named(rs) \cap held[m]) \ desired
    IN  IF adds \cup removes = {} THEN IdleHand
        ELSE [at |-> "apply", who |-> m, lv |-> Zero, adds |-> adds, removes |-> removes]

(* The rules and the member are read; a member who cannot be is left.      *)
LevelUp(track) ==
    /\ hand[track].at = "plan"
    /\ \E rs \in IF known # None THEN {known} ELSE {rules, {}} :
          /\ ReadsRules(rs)
          /\ \E found \in BOOLEAN :
                hand' = [hand EXCEPT ![track] =
                           IF found THEN Judged(hand[track].who, rs, hand[track].lv) ELSE IdleHand]
    /\ UNCHANGED <<db, pass, held, admin, quiet, ready, orphan>>

(* applyLevelRoles: one call after the other, grants first; a refused one  *)
(* is counted and the next one tried.                                      *)
ChangeRole(h) ==
    LET adding == hand[h].adds # {}
    IN  /\ hand[h].at = "apply"
        /\ \E r \in IF adding THEN hand[h].adds ELSE hand[h].removes :
              /\ \/ /\ held' = [held EXCEPT ![hand[h].who] = IF adding THEN @ \cup {r} ELSE @ \ {r}]
                    /\ UNCHANGED quiet /\ Calm
                 \/ Mishap /\ UNCHANGED held /\ quiet' = FALSE
              /\ LET left == [hand[h] EXCEPT !.adds = @ \ {r}, !.removes = IF adding THEN @ ELSE @ \ {r}]
                 IN  hand' = [hand EXCEPT ![h] = IF left.adds \cup left.removes = {} THEN IdleHand ELSE left]
    /\ UNCHANGED <<db, known, pass, admin, ready, orphan>>

-----------------------------------------------------------------------------
(* The bot: the sync job.                                                  *)

(* The minute clock runs from the start, before the ready handler is       *)
(* through.  A claim whose answer is lost is left as it is.                *)
ClaimJob ==
    /\ pass.at = "none" /\ job.status = "pending"
    /\ job' = [job EXCEPT !.status = "running"]
    /\ \/ pass' = [NoPass EXCEPT !.at = "start"] /\ Calm /\ UNCHANGED orphan
       \/ UNCHANGED pass /\ Mishap /\ orphan' = TRUE
    /\ UNCHANGED <<rules, xp, known, hand, held, admin, quiet, ready>>

(* failSyncJob; its own failure is swallowed and leaves the row as it is.  *)
FailsJob ==
    \/ job' = [job EXCEPT !.status = "failed"] /\ UNCHANGED orphan
    \/ UNCHANGED job /\ orphan' = (job.status = "running")

Completes == job' = [job EXCEPT !.status = "completed"] /\ pass' = NoPass

(* A write of the pass that fails ends the pass; levels switched off, or a *)
(* guild the bot has left, end it the same way.                            *)
PassBreaks ==
    /\ pass.at # "none" /\ hand["sync"].at = "idle"
    /\ Mishap /\ FailsJob
    /\ pass' = NoPass /\ quiet' = FALSE
    /\ UNCHANGED <<rules, xp, known, hand, held, admin, ready>>

(* No rules, or rules that could not be read: the job is done.             *)
PassReadsRules ==
    /\ pass.at = "start"
    /\ \E rs \in IF known # None THEN {known} ELSE {rules, {}} :
          /\ ReadsRules(rs)
          /\ IF rs = {} THEN Completes
             ELSE pass' = [pass EXCEPT !.at = "page", !.rules = rs] /\ UNCHANGED job
          /\ quiet' = (rs = rules /\ \A h \in Workers : hand[h] = IdleHand)
    /\ UNCHANGED <<rules, xp, hand, held, admin, ready, orphan>>

(* Mutant: the page starts one member after the one that follows.          *)
PageSkipsOne ==
    LET rest == {m \in Members : HasXp(m) /\ m > pass.cursor + 1}
    IN  {m \in rest : Cardinality({k \in rest : k <= m}) <= BatchSize}

(* levelRanksPage: the next members who have any experience, by user id.   *)
Page ==
    LET rest == {m \in Members : HasXp(m) /\ m > pass.cursor}
    IN  {m \in rest : Cardinality({k \in rest : k <= m}) <= BatchSize}

(* The pass keeps its own cursor, which starts at nobody; the row's cursor *)
(* is written after every page and never read back.                        *)
ReadPage ==
    /\ pass.at = "page"
    /\ IF Page = {} THEN Completes
       ELSE /\ pass' = [pass EXCEPT !.at = "member", !.page = Page,
                                    !.seen = [m \in Members |-> IF m \in Page THEN xp[m] ELSE Zero]]
            /\ UNCHANGED job
    /\ UNCHANGED <<rules, xp, known, hand, held, admin, awards, mishaps, quiet, ready, orphan>>

(* A member who cannot be fetched is skipped.                              *)
SyncMember ==
    LET m == Least(pass.page)
    IN  /\ pass.at = "member" /\ hand["sync"].at = "idle" /\ pass.page # {}
        /\ pass' = [pass EXCEPT !.page = @ \ {m}, !.cursor = m, !.seen[m] = Zero]
        /\ \/ /\ hand' = [hand EXCEPT !["sync"] = Judged(m, pass.rules, Capped(pass.seen[m]))]
              /\ UNCHANGED quiet /\ Calm
           \/ Mishap /\ quiet' = FALSE /\ UNCHANGED hand
        /\ UNCHANGED <<db, known, held, admin, ready, orphan>>

SaveProgress ==
    /\ pass.at = "member" /\ hand["sync"].at = "idle" /\ pass.page = {}
    /\ job' = [job EXCEPT !.cursor = pass.cursor]
    /\ pass' = [pass EXCEPT !.at = "page"]
    /\ UNCHANGED <<rules, xp, known, hand, held, admin, awards, mishaps, quiet, ready, orphan>>

(* Mutant: only a job whose first page was saved is taken up again.        *)
ResetBegun == IF job.status = "running" /\ job.cursor # 0 THEN [job EXCEPT !.status = "pending"] ELSE job

(* resetStaleSyncJobs: every row that says running is pending again.       *)
ResetStale == IF job.status = "running" THEN [job EXCEPT !.status = "pending"] ELSE job

(* The process ends; the row stays as it was until the next one is ready.  *)
Restart ==
    /\ Mishap
    /\ known' = None /\ pass' = NoPass /\ hand' = [h \in Workers |-> IdleHand]
    /\ ready' = FALSE /\ orphan' = (job.status = "running") /\ quiet' = FALSE
    /\ UNCHANGED <<rules, xp, job, held, admin>>

(* The end of the ready handler: the reset, also of a job this process has *)
(* claimed meanwhile; one that fails is swallowed, and is not tried again. *)
Ready ==
    /\ ~ready /\ ready' = TRUE
    /\ \/ job' = ResetStale /\ orphan' = FALSE
       \/ UNCHANGED <<job, orphan>>
    /\ UNCHANGED <<rules, xp, bot, held, admin, awards, mishaps, quiet>>

(* A member leaves: their roles go with them; resetOnLeave zeroes the row  *)
(* and asks for a sync.                                                    *)
MemberLeaves ==
    /\ Mishap
    /\ \E m \in Members :
          /\ held' = [held EXCEPT ![m] = {}]
          /\ \/ xp' = [xp EXCEPT ![m] = Zero] /\ job' = IF HasXp(m) THEN Requested ELSE job
             \/ UNCHANGED <<xp, job>>
    /\ quiet' = FALSE
    /\ UNCHANGED <<rules, bot, admin, ready, orphan>>

Sync == ClaimJob \/ PassReadsRules \/ ReadPage \/ SyncMember \/ SaveProgress

Next ==
    \/ EditRules \/ SetMemberXp \/ Audit \/ RequestSync
    \/ \E track \in {"text", "voice"} : Award(track) \/ LevelUp(track)
    \/ \E h \in Workers : ChangeRole(h)
    \/ CacheExpires \/ Sync \/ PassBreaks \/ Restart \/ Ready \/ MemberLeaves

Spec == Init /\ [][Next]_vars

-----------------------------------------------------------------------------
(* A pass that nothing disturbed leaves every member it is about with      *)
(* exactly the roles their levels earn, of those the rules name, however   *)
(* many pages it took ("keyset-paginated over every ranked member (no      *)
(* silent cap)", bot/index.ts).                                            *)
PassReconciles ==
    job.status = "completed" /\ quiet =>
        \A m \in Members : HasXp(m) =>
            held[m] \cap Named(rules) = DesiredRoles(rules, Capped(xp[m]))

(* A job is dropped by nothing but a write that was lost: a row that says  *)
(* running has a pass that runs it, through requests that arrive meanwhile,*)
(* passes that break off and the boot reset of a job this process has      *)
(* already claimed ("worked to completion (or failure with the cursor kept *)
(* for resume), never dropped", bot/index.ts).  The exceptions: the answer *)
(* to the claim or the write that should have failed the job was lost, or  *)
(* the process that ran it ended; each lasts until a boot reset succeeds,  *)
(* and the bot goes on without one.                                        *)
RunningJobsHaveAPass == job.status = "running" => pass.at # "none" \/ orphan
=============================================================================
