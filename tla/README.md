# Verification of AL AI

TLA+ models of the AL AI repository (a Discord bot, a dashboard server and a shared package), the
TLC configurations that check them, and TLAPS proofs. Paths below are relative to the repository;
`bot/` stands for `apps/bot/src/`, `server/` for `apps/dashboard/server/`, `views/` for
`apps/dashboard/src/views/settings/`, `core/` for `packages/core/src/`. `PROJECT.json` gives the source
lines of every definition.

    tlc -config Pipeline.cfg EventPipeline        # one run
    tlapm EventPipelineProofs.tla                 # one proof module

## 1. The system and its parts

The bot is one Node process: Discord's gateway, timers and PostgreSQL answers are callbacks on one
event loop, and every `await` is a point where other handlers run. The dashboard server is another
process; it shares PostgreSQL and Discord with the bot and asks it for work over an internal API.
The two never share memory, so what one caches of the other's data is stale until a limit passes.

| part | state it keeps | operations | what is hard | what makes it correct |
|---|---|---|---|---|
| event pipeline `bot/runtime/event-pipeline.ts` | five queues, debounce table, start timestamps, retry timer, microtask flag | enqueue, debounce, drain, flush | re-entry at the await, three kinds of callback, a sliding limit, shutdown | no wakeup lost, no job lost or doubled, ceiling, every job settles, shutdown ends |
| dispatcher `bot/events/dispatch.ts` | none of its own | dispatch | what coalescing replaces | a member's last voice event survives |
| instance lock `bot/runtime/supervisor.ts` 1-300 | a file | acquire, reclaim, release | several processes, a crash between two system calls | one owner, its record untouched, no start wedged |
| configuration cache `bot/storage/config-cache.ts` | one row with expiry per guild | get, invalidate | overlapping loads finishing in any order | bounded age |
| dashboard guild reads `server/cache.ts`, `discord.ts` | entries, running loads | resolve, peek, invalidate | shared loads, failures, an invalidation meeting a load | bounded age, own edits seen, one request per TTL, everyone answered |
| anti-nuke `bot/security/anti-nuke.ts`, `core/anti-nuke*.ts` | counters per actor and budget, latches | observe, prune, restart | many observations between await and count; the probe's own window | one report per incident, no burst missed |
| `/down` and its expiry `bot/index.ts`, `bot/punishments/expiry.ts` | one row per member; the member's roles at Discord | /down, /undown, sweep | commands in parallel, refusals, stale snapshot, restart | nobody promoted, snapshot handed out once, every role accounted for, expiry |
| other punishments `bot/index.ts` | rows of `guild_member_states` | mute, prison, blacklist, block, inverses, wipes | read-modify-write of the block set, a call failing between role and row | the record says what Discord shows |
| levels `bot/runtime/levels.ts`, `bot/index.ts`, `server/index.ts` | voice sessions, totals, reward rules, sync jobs | join, leave, minute clock, level-up, edits, sync | clock and leave handler at once, edits during a pass, restart | minutes are paid for presence, a pass reconciles everybody |
| invite tracker `bot/logging/invite-tracker.ts` | last invites per guild, score rows | join, leave, create, delete, refresh | answers out of order, a failing row | one use, one join; the score is who stayed |
| log adapter `bot/lib/discord.ts`, `bot/logging/` | audit-log cache, message memory, snapshots of sets | gateway handlers | what happened by the time Discord answers | the doer is named, entries add up to what is |
| commands `bot/index.ts`, `bot/security/intrusion-detector.ts`, `bot/lib/retraction.ts` | cooldowns, refused attempts, replies to withdraw | gate, reply, retract | two commands between check and record | cooldowns hold, bursts are reported, replies withdrawn |
| presence sync `bot/runtime/presence-sync.ts`, `server/index.ts` | last sent presence, one row | save, run | overlapping runs, a reconnect | the last setting wins |
| sign-in `server/two-factor.ts`, `session.ts`, `index.ts` | secrets, counters, codes, attempts, sessions | callback, enrol, verify, recover, disable | two requests at once, a code used twice | one use per code, a ceiling on guesses |
| settings routes `server/index.ts` | rows, audit trail | ten saves, twenty-two views | a failure at any await | the answer is true of the rows |
| appearance `server/appearance.ts` | one row; nickname, images, role at Discord | save | two calls, either refused, two saves at once | what does not show was reported |
| log setup `server/index.ts` 3402-3560 | channels and the stored routing | setup, teardown, form | pressed twice at once, partial failure, cached list | rooms match the routing |
| tunnel `server/network.ts` | the mode, one ngrok process, its row | switch, probe, heal, adopt | an agent that outlives the dashboard, timers and exits | one agent, and it is ours |
| settings screen `apps/dashboard/src/lib/use-draft-form.ts`, `views/` | saved value, draft, requests | load, edit, save, pick a guild | answers of the guild before | what the form calls saved is the row |

Not modelled: the health supervisor (a thirty-second heartbeat that writes what the others report and
decides nothing), the integration adapter (a pure check of signature, time and nonce), SQL text in
`bot/storage/database.ts` and `server/db.ts` (its statements are the atomic steps of the parts that run
them), images and templates, types and tables, React views beyond the settings form, operator scripts.
`PROJECT.json` lists each with its reason.

How they interact: gateway event → dispatcher → pipeline → log router → Discord; destructive gateway
events also go through the anti-nuke engine, which reads its settings through the configuration cache
and punishes through the Discord adapter. Slash commands go to `index.ts`, which changes roles at
Discord and rows in PostgreSQL. Dashboard requests read the guild through the TTL cache and write
either to Discord, dropping the cache, or to PostgreSQL, which the bot's caches see after their TTL.
On SIGTERM the bot flushes the pipeline and releases the lock.

## 2. The modules

| module | models | checked in | proofs |
|---|---|---|---|
| `EventPipeline` | the pipeline with the shutdown around its flush | `pipeline` | `EventPipelineProofs` |
| `RateLimitedDelivery` | abstract: a bag of jobs started one at a time under a ceiling | refined by `EventPipeline` | |
| `Dispatch` | the dispatcher; extends `EventPipeline` | `events`, `dispatch_moderation` | `EventsProofs` |
| `InstanceLock` | the lock among several starts | `starts_and_reads`, `lock_race` | `InstanceLockProofs` |
| `BoundedRead` | abstract: an answer was current at most `Bound` ago | refined by both caches | |
| `ConfigCache` | the bot's row cache | `events` | `EventsProofs` |
| `GuildReadCache` | the dashboard's cache, one or two layers, and the writers that drop it | `events`, `starts_and_reads` | `GuildReadCacheProofs` |
| `AntiNuke` | counters, latches, mitigation, probe | `events`, `nuke_prune` | `AntiNukeProofs` |
| `Invites` | the tracker, the join and leave handlers, score and milestone | `events` | `EventsProofs` |
| `AdminDown` | `/down`, `/undown`, the sweep | `down_sweep`, `down_twice` | `AdminDownProofs` |
| `Penalties` | `/mute`, `/prison`, `/blacklist`, `/block`, their inverses, the wipes | `guild`, `unblock_other` | `GuildProofs` |
| `VoiceXp`, `LevelRoles` | voice time and its pay; reward roles and the sync job | `guild`, `voice_pay` | `GuildProofs` |
| `LogSetup` | setup, teardown and the logging form over the cached channel list | `guild` | `GuildProofs` |
| `Attribution`, `VoiceLog`, `DerivedState`, `MessageLog` | who did it; voice entries; pins, webhooks, integrations; the message memory | `guild` | `GuildProofs` |
| `CommandGate` | a command from its interaction to its reply | `guild` | `GuildProofs` |
| `SignIn` | pending logins, the second factor, sessions, account routes | `dashboard` | `DashboardProofs` |
| `SettingsRoutes`, `Appearance` | save and view routes; the bot's appearance | `dashboard` | `DashboardProofs` |
| `SettingsForm` | a settings screen in the browser | `dashboard` | `DashboardProofs` |
| `Tunnel` | the agent and its manager | `dashboard` | `DashboardProofs` |
| `Presence` | the bot's status from the save to the gateway | `starts_and_reads` | |

`MCEvents`, `MCGuild`, `MCDashboard` and `MCStartsAndReads` hold several parts that share no state. A
behaviour of one of them is one *scene*: `scene` is chosen in the initial state, the part it names moves
and the others stand still, so the run explores each part on its own instance and their products never
appear. Where an initial state has a choice, only its own scene makes it. The other MC modules only give
values.

A comment starting with "Mutant:" marks a deliberately broken variant of the definition that follows
it. No specification uses one; substituting it shows that the property it is paired with in
`PROJECT.json` can fail.

### EventPipeline

Every gateway event that is logged goes through one object: five arrays of jobs, a `Map` of debounced
jobs with their timers, and a `drain` loop that runs one job at a time, never starting more than
`ceiling` jobs in any `windowMs`. Shutdown awaits `flush(5000)`.

State. `queues`, `pending`, `drainScheduled` and `retryIn` are fields of the class. `running` is the
job `drain` awaits; `running # None` is the field `draining`, since every other point at which
`draining` is true lies inside one synchronous step. `passAt` is the level the `for` loop has reached.
`timestamps` is the function `age`: every job starts at most once, so a timestamp is the age of a job's
start, and a filtered-out one has age `Window`. Ages and countdowns replace the clock, so time needs no
bound; `Date.now()` is taken to be monotone. `flush` and `flushLeft` are the control point of `flush()`
with the shutdown around it, and its deadline. `accepted`, `settled`, `superseded` and `promised` are
history; only `Enqueue` and `Debounce` read them, to submit each job once.

Actions. A step is the code between two awaits. `Enqueue` and `Debounce` are the entry points,
`DrainMicrotask`, `RetryFire` and `DebounceFire` the callbacks, `JobFinish` the continuation of
`await job.run()` up to the next await, and `FlushStart`, `FlushResume`, `FlushWake` and `Exit` the
segments of `flush` and of the shutdown handler. `Advance` is the loop from one await to the next. A due
timer may fire late, and none fires while the microtask is queued. Submissions stay possible until the
process exits: `client.destroy()` comes after the flush.

Abstract specification. `DeliversAtTheCeiling` is `RateLimitedDelivery` with `waiting` the queues and
the debounce table, `active` the running job, `finished` and `replaced` the history.

### Dispatch

`DispatchEvent` gives an event its priority and route: everything that starts with `voice.` is debounced
at priority 3 under the member's id, everything else is enqueued at the priority of the table. Only the
rows of the table that differ in priority or route are kept (`Kinds`). `arrived` is the history of
arrivals against which order is stated.

### InstanceLock

One step per system call: `Open` (`open("wx")`), `Write`, `Read`, `Confirm` (the second read),
`Unlink`, `Release` and `ReleaseUnlink`. `Crash` stops a process at any of them. `file` is who created
it and whether the record is in it; `emptyFor` counts retries an empty file has been there, up to the
write grace. Liveness of a pid (`kill 0`, command line, start time) is the truth about the process
(`IsLiveOwner`): a recycled pid fails the start-time test. A live writer is assumed to write its record
within the grace (`WriterIsBusy`); one that was paused for longer would be taken for a crash
(`supervisor.ts:192`), and two would own.

### ConfigCache, GuildReadCache, BoundedRead

A version number stands for the contents of a row or list, `replacedAt` says when each version was
replaced. A load is three steps: asked, read at the source, returned; an answer is bounded by the
source's timeouts (`Latency`, `Call`), modelled as a guard of `Tick`. In `ConfigCache` each caller loads by itself.
In `GuildReadCache` callers of a layer join its running load, and with `Depth` 2 a load of layer 1 is a
read of layer 2. `SetupWrites`/`SetupInvalidates` are the log setup route (write, then drop),
`SaveInvalidates`/`SaveApplies` the appearance route, which drops before it writes, so that its own edit
may be missed for a TTL.

### AntiNuke

`Observe` starts the handling of an event and awaits the settings; `Count` is the synchronous part
(record, assess, latch); `Punish` and `Tell` are the two awaits of the mitigation. `Prune` is the security probe,
`Toggle` a switch of a protection in the dashboard, `Restart` loses everything in memory. Protections
map to budgets with `Action`, as role creation and deletion share one; every protection has a window of its
own (`WindowOf`) and every budget its limit (`LimitOf`; limits are per action in the code). The timestamps
of a budget are a set, each with the event it is of, as two events may have the same: the code only counts, filters
and empties them. A burst is lost in two ways, and the model has both. The probe prunes every counter by the
tracker's one-minute window (`anti-nuke.ts:102`), whatever the protection counts in; and counting on a budget trims
it by the window of the protection that counts (`anti-nuke.ts:61`), so of two that share a budget the shorter trims
what the longer still counts, although `anti-nuke-registry.ts` 297-301 gives each a window of its own. The
first happens with the shipped 600 s against 60 s, the second once the two are given different windows. `BurstsAreCaught` is what the registry promises, and `nuke_prune` refutes
it; `CloseBurstsAreCaught` is what is left of it: a burst closer together than the probe's window and than every
window of its budget (`Spared`) latches its actor. A window edited while it counts is not modelled.

### AdminDown

`held` is the truth at Discord, `row` the one row `guild_member_states` has for the member and kind,
`cached` the five-second list of `readMemberRoleIds`. `at` and the locals `todo`, `before`, `changed`
are those of each running command or pass. `ListStrippable`, `ReadBefore`, `Revoke` (once per role) and
`Save` are the awaits of `/down`; `Take` and `Grant` those of `/undown`; `ReadDue`, `Grant` and `Consume`
those of a pass. A role change may be refused, or succeed without effect (removing a role the member does
not hold is a success at Discord). `given`, `owed` and `lost` are history: what people gave the member,
what a /down took and nobody gave back, and which of that is no longer recoverable from the row.
`from` says whose row an `/undown` or a pass took.

### Penalties

`Program` lists the awaits of each command in the code's order; `hand` says which step each handler is at
and what it has read (`known`). `row` has the member's row of each kind; a kind is `excused` once a wipe,
an edit by a person, a refusal at the wrong step, or two commands on it at once disturbed it, and
`standing` is the history of roles blocked and not lifted. Behaviours the model has and the property
excuses: two `/block` at once keep one; `/clearallpunishments` removes the rows and leaves the roles at
Discord; `/prison`'s snapshot contains punishment roles and may be five seconds old; an `/unprison` whose
grant is refused returns before the revoke. Roles are given back one call each, so some may be refused and the
others not (`GiveBack`), and a row that cannot be taken ends its command (`TakeFails`), for `/unmute` and
`/unblacklist` with the role already off. A blocked role is not enforced later: the row is only read by
the commands. The run leaves out `/blacklist`, which is `/mute` with another role, and starts the member
with ordinary roles.

### VoiceXp, LevelRoles

`VoiceXp`: `session` is the anchor of a member in voice, `tick` the list of a pass of the minute clock and
where it is, `leaving` the minutes a leave handler has yet to pay, `unpaid` the history of time spent less time paid. `LevelRoles`: `rules` and
`xp` are rows, `known` is the bot's cached copy of the rules, `job` the row of the sync job, `pass`
the bot at work on it, `hand` what the level-up handlers and the pass are doing to a member. What the model shows beside its properties: the
cursor a pass stores is never read back (`index.ts:1212`, against the comments at 1193 and 2493); a
member reset to no experience is skipped by the page and keeps the roles (against the comment at 1440);
when the write that should fail a job fails, or the answer to its claim is lost, the job stays running with
nobody at work on it (`orphan`), and so does the job of a process that ends; the ready handler resets it, once a
boot (`Ready`, after `Restart` at any distance), but a reset that fails is swallowed (`index.ts:2495`) and not tried
again, so such a job may lie for good although `index.ts:1129` says jobs are never dropped; a level-up uses a
level computed with the default cap (`index.ts:996`, 1041); adding a rule asks for no sync. `quiet` and
`orphan` name the exceptions.

### LogSetup

`rooms` and `cats` are at Discord, `bound` is the routing table, `cached` the channel list the requests
share. A request that could not read the list, one that met another, a form saved by hand and one cut
off are named in `why`; two presses at once both create, and a list that was unreadable or kept stale
makes doubles, although the code calls both presses idempotent (`server/index.ts` 3402-3404). Permission
bits and the wait after a rate limit are left out.

### Invites

One guild, the module on, one inviter. `uses` is the truth at Discord, `snapshot` the tracker's list,
`call` where each join or leave handler is. A fetch of the vanity URL that throws ends the handler, and
the join is never recorded; a late `remember` can bring back a deleted code; a failed bump reconciles
with a net of 0 (against `database.ts:1154`). An answer that turned the counts back sets `turned`: the
code then attributes one use twice (`invite-tracker.ts:74`). Resets and bonuses are left out.

### Attribution, VoiceLog, DerivedState, MessageLog

The gateway says what happened and seldom by whom. `Attribution` has the audit log, written before or
after the event, the lookup with its retry, and the five-second cache of the kick check; it shows that an
older entry on the same target may be matched (`discord.ts:1643`, against 1665), which `TheDoerIsNamed`
allows when it happened to the target more than once. `VoiceLog` has arrivals logged at once, departures and moves
after a lookup. `DerivedState` has the snapshots of pins, webhooks and integrations: the first change
after a start reports all that existed as created, against `derived-state.ts` 97-103. `MessageLog` has
the bounded memory of a channel, which an edit does not refresh; it is a set, as ids are in the order in which
messages were sent.

### CommandGate

`req` is where each handler is on its way to the reply, `hits` what the intrusion detector counts and
`pending` the replies to withdraw, both sets of which only the count and the age matter; `ran` and `owed` are history. The
burst is checked after the refusal is recorded (against `index.ts` 1537-1539); a reply is registered for
withdrawal after it is sent, so the departure `/kick` itself causes comes before. Channel limits are a
refusal that may happen.

### SignIn

`req` is where each request is; `credential`, `recovery`, `setup` and `pending` are the tables; `minted`
numbers the secrets, so a code is which secret it belongs to and which time step. Each statement is atomic. What
the code does beside the properties: a `confirmEnrollment` that returns false is ignored
(`index.ts:1349`); confirming a setup twice rewrites the counter and the codes; a verification in flight
may issue a session after its pending login was cancelled. Junk codes on the account routes are left out.

### SettingsRoutes, Appearance, SettingsForm

A route of `SettingsRoutes` is a record of what it asks for on the way: session, Discord's guild list,
standing, body, a name at Discord, rows, audit row. A 500 after some of the rows is possible, and a
logging form without a body saves everything off. `Appearance` saves the row first and then sends Discord
what changed; a failed field is not tried again, the call for the role always carries the colour.
`SettingsForm` is a screen: `saved` and `draft` of `useDraftForm`, `loads` and `press` the requests. A
commit after another guild was picked lands in the other guild's form (`welcome.tsx:190`), an edit typed
during a save is overwritten, and a bar that was away lets two saves overlap.

### Tunnel

`agents` is what runs on the machine, `child` and `pid` what the manager knows, `tasks` the PUT, heal and
adopt at work, `exits` exit events to come. Excused: requests that meet (the cooldown is shorter than a
stop may take) or meet the healing, a retry that fires while a task is at work, an agent that outlives the
kill, a mode the database did not take, and a boot that is not led back to the agent that runs (`LeadsBack`).
`Restart` is the boot as it is: `AL_AI_REMOTE_ACCESS` may override the stored mode (`BootModes`;
`scripts/dev.ps1:71` always sets it), and without a stored domain the environment's counts (`BootDomains`). A boot
with the reach off neither adopts nor stops an agent, so one of an earlier run goes on under mode off; a boot with
it on adopts only what the row names under an address the domain allows. The row itself may lag: nobody awaits the
writes of the number and the address, and each may fail without a word (`Landed`), in `StartTunnel`, `Poll`, `Ask`,
`Clear` and `Replace`; a restart after a lost write, or before an address is known, starts a second agent beside the
first. The exit handler asks whether there is a child and not which. `isNgrokPid` uses `tasklist`, so off Windows a
restart adopts nothing. Left out: the spawn `error` event, reads of the row that fail, and a write that lands after a
later one. Exit events are handled before slow timers.

### Presence

`row` is what the dashboard stored, `sent` what the process remembers having sent, `shown` what the
gateway shows. Two runs may overlap, since `run` does not exclude itself. A re-identified gateway is
outside. A save that picks another duration while a window is open keeps that window's end
(`server/index.ts:550`): the code cannot tell it from the same choice sent again.

## 3. The runs

| run | question | bounds |
|---|---|---|
| `pipeline` | do the pipeline's invariants, its refinement and its liveness hold under every interleaving? | 3 jobs, 2 levels, 2 keys, ceiling 2 in 3 ticks |
| `dispatch_moderation` (refuted) | does a moderation action on a member in voice survive the member's churn? | 2 events, ceiling 1 |
| `lock_race` (refuted) | do two reclaimers at once keep one owner? | 2 starts |
| `nuke_prune` (refuted) | are bursts caught with a window longer than the probe's? | 3 events, limit 1, window 4, prune 2 |
| `down_sweep` | nobody promoted, snapshot handed out once, roles accounted for, expiry | 1 role, 2 /down, 2 /undown, 2 passes, 2 commands at once, 2 mishaps |
| `down_twice` (refuted) | does the row stay the record of what was taken? | 1 role, 2 /down, 1 /undown, one at a time |
| `events` | scenes config, lists, voice, nuke, links | 2 callers and 2 screens, TTL 2, query and call 1, 5 ticks, 2 versions; 4 events of 2 members, ceiling 1; 3 destructive events, 3 protections: two on one budget with limit 2 and windows 4 and 2, one with limit 1 and window 4, prune 3, 1 restart, 1 switch; 3 joins and leaves, 1 code, 1 mishap |
| `guild` | scenes jail, pay, levels, logs, doers, voice, sets, words, gates | 3 commands by 2 handlers, 2 ordinary roles; 2 members in voice for 4 ticks of half a minute, 1 restart; 2 ranked members, 2 rules, 2 awards; 3 presses, 2 at once, 3 rooms, a cap of 4; 2 audit events; 5 voice steps; 3 changes; 2 messages; 2 calls |
| `dashboard` | scenes sign in, settings, look, screen, reach | 2 requests, 1 login, 2 secrets, ceiling 2; 2 asks, 2 faults; 2 saves; 2 guilds, 2 presses, 3 loads; 2 switches, 2 domains, 2 agents, 3 addresses, 2 troubles |
| `starts_and_reads` | scenes lock, reads, shows, with liveness | 3 starts, 2 crashes, 10 attempts, grace 2, 1 reclaimer; 2 screens over 2 layers, failing reads; 2 runs of the sync, 1 save, 1 mishap, 3 instants |
| `voice_pay` (refuted) | are minutes paid once? | 2 members, 5 ticks of half a minute |
| `unblock_other` (refuted) | does lifting one block keep the others? | 1 handler, 2 roles, 3 commands |

Why the bounds are enough. The pipeline's subtle case is a job queued while another runs with the window
full: that takes a ceiling of two and a third job; two levels and two keys make priorities
and coalescing differ. `FlushLosesAtMostOne` needs one job in flight and one queued. The lock's race
needs two reclaimers; `starts_and_reads` bounds them to one so that everything else can be claimed with
three starters, and `MaxAttempts` 10 lets an empty file be waited out twice. A cache's overlap
needs two callers and one TTL plus one query of time, and the run has room for two of each. A burst
needs one event more than the limit: on the channels' budget the third event comes after the latch, on the roles'
the three are the burst. The windows lie on both sides of the probe's, so that either one trims first: a role
created at 0 twice, checked twice by the probe and then deleted at 2, counts as one, as the deletion's window trims
the other two from under the creation's; a channel deleted at 0 is gone after the prune at 3 and the next one counts
as one. TLC finds `CloseBurstsAreCaught` violated when either half of `Spared` is dropped. In `AdminDown` roles are
independent but for "nothing applied is a refusal", which one role can meet; the mishaps (role edits,
failing calls, deleted rows, restarts) share one bound, so any two of them are combined. Every race in the
other parts is between two handlers, so two of each are at work at once, with a third command, press or
event to come after; each part has at least one mishap. `Max*` names a bound that the code does not have;
`MaxAttempts`, `Grace`, `ChannelCap`, `BatchSize`, `Burst` and the TTLs exist in the code and are smaller
here, and of the first two only `Grace < MaxAttempts` matters.

Deadlock is not checked: every component may stop (the process exits, the commands are
over, the bound on time is reached).

### Properties

Each property is commented in its module; an MC module's property is the part's, in its scene. What a
single step cannot break:

- `NoLostWakeup`, `EveryJobSettles`, `NoMicrotaskSpin`: a queue that is not empty has a pass, a microtask
  or a correctly armed timer, whichever way the pass before ended, and no microtask queues itself.
- `CeilingRespected`, `DeliversAtTheCeiling`: debounce, its timer, the drain and the flush move jobs
  between five places without losing or doubling one, one at a time, below the ceiling.
- `FlushLosesAtMostOne`, `ShutdownEnds`: `flush` returns true when nothing is *queued*; the job in
  flight is the one it may leave behind.
- `LastVoiceEventSurvives`: what is coalesced is never a member's last voice event.
- `OwnerHoldsTheFile`, `LiveRecordUntouched`, `NeverWedged`, `EveryStartDecides`: among starts, crashes and
  stale files.
- `AnswersAreRecent` (`ConfigCache` as a refinement of `BoundedRead`), `EditsSeenUnlessOvertaken`,
  `OneRequestPerWindow`, `EveryAskAnswered`.
- `OneReportPerIncident`, `CloseBurstsAreCaught`: whatever windows share a budget and whenever the probe prunes.
- `NeverPromotes`, `OneUndownPerDown`, `EveryRoleAccountedFor`, `EveryDownExpires`.
- `RecordsMatch`: once no command is at work, a punishment that nothing excused has a row if and only if
  the member has its role, and the block's row names the roles blocked.
- `PaidForPresence`: minutes paid by the clock and by the leave handler never exceed those present.
- `SyncReconciles`: an undisturbed pass leaves everybody with the roles they earned, and a running job has
  a pass, through requests and a boot reset that comes when the job is claimed already; but for a job that a
  lost answer, a failure that was not written or a restart left, until a boot reset succeeds.
- `UsesAreAttributedOnce`, `ScoreIsWhoStayed`: each use of an invite is one join, and the score is off by no
  more than the mishaps and overlaps there were.
- `RoomsMatchRouting`: no room twice, and every binding names a room that exists.
- `TheDoerIsNamed`, `LogAddsUp`: the log names who did it; its entries, played back, give the voice rooms,
  the sets and the texts there are.
- `CommandsKeepTheRules`: each run waits for the cooldown before it, a burst of refusals is bounded in the
  log and its first is there, and exactly the replies owed are withdrawn.
- `GuessesAreBounded`, `CodesAreTakenOnce`: the second factor under requests that run at once.
- `AnswersAreTrue`: the answer of a route, the rows and the trail agree, whatever failed on the way.
- `ScreensTellTheTruth`: a field Discord does not show as saved was reported; what the form calls saved is
  the row.
- `TunnelIsOurs`: one agent, the one the manager would stop, and none when the reach is off, through
  switches, changes of the domain, healing, retries, exits, lost writes and boots that are led back to it.
- `PresenceSettles`: whatever overlaps, in the end Discord shows what the row asks for.

### Fairness

- Pipeline: weak fairness of the microtask, the timers, `JobFinish`, time and the flush's own steps. The
  event loop runs what is due, and a job settles because `logEvent` awaits HTTP calls that time out.
  Nothing is assumed of submissions or of the start of a shutdown.
- Lock: weak fairness of each process's steps while it acquires and of the last step of a release; a
  crash ends them. Nobody has to start or to stop.
- Guild reads: Discord answers or the call times out, and a load that has its answer returns.
- `AdminDown`: a pass goes on, as every call it awaits ends, and `setInterval` begins another. Commands
  need no fairness.
- `Presence`: the gateway reconnects, the interval starts runs, a run's read and send end, and a save that
  was accepted is stored. Nobody has to save.
- The other parts state safety only.

### What the runs refute

Each of these runs checks one sentence of the repository and finds a counterexample.

- `dispatch_moderation`: `dispatch.ts:38` and `docs/GOVERNANCE.md:60` against `dispatch.ts:170`. A
  moderator's disconnect is debounced with the member's own voice events and replaced by the next one.
- `lock_race`: `supervisor.ts:157` against `supervisor.ts:203`. Between the confirming read and the
  unlink another starter may have replaced the stale file; its fresh record is removed and both run.
- `nuke_prune`: `anti-nuke-registry.ts:297` against `anti-nuke.ts:102`. The probe prunes by the default
  window of a minute what a protection counts over ten. Two windows on one budget lose bursts too
  (`anti-nuke-registry.ts` 299-301 against `anti-nuke.ts:61`, see AntiNuke above).
- `down_twice`: `database.ts:462` and `index.ts:2217` against `index.ts:2238`. A second `/down` on a member
  whose curated roles are already off succeeds, finds an empty snapshot and saves it over the first.
- `voice_pay`: `levels.ts:191` and `index.ts:1123` against `index.ts:1173`. The minute clock awaits the
  payment before it moves the anchor, and a leave in between pays the same minutes.
- `unblock_other`: `index.ts:2177` against `index.ts:2172`. An `/unblock` that names a role that is not
  blocked has taken the whole row by then, and returns without writing the rest back.

Properties that hold with named exceptions: `EditsSeenUnlessOvertaken` (`overtaken`),
`EveryRoleAccountedFor` (`lost`), `RecordsMatch` (`excused`), `PaidForPresence` (`raced`), `SyncReconciles`
(`quiet`, `orphan`), `RoomsMatchRouting` (`why`), `UsesAreAttributedOnce` (`turned`), `TunnelIsOurs` and the
screen (`slipped`). The exceptions are behaviours of the code, described above and where the models set
these variables.

## 4. The proofs

| module | theorem | for every |
|---|---|---|
| `EventPipelineProofs` | `PipelineTypes`, `NoWakeupIsLost`: `Spec => []TypeOK`, `[]NoLostWakeup` | jobs, keys, levels, ceiling, window, delays |
| | `CeilingHolds`: `Spec => []CeilingRespected` | the same |
| | `NoSpin`: `Spec => NoMicrotaskSpin` | the same |
| | `FlushKeepsItsPromise`: `Spec => []FlushLosesAtMostOne` | the same |
| | `PipelineDelivers`: `Spec => DeliversAtTheCeiling`, the refinement of `RateLimitedDelivery` | the same |
| `InstanceLockProofs` | `OwnerKeepsItsRecord`: without crashes, `[]OwnerHoldsTheFile` | number of starters and reclaimers |
| | `ReclaimingSparesOwners`: with crashes and stale files and one reclaimer at a time, `[]OwnerHoldsTheFile` | starters, crashes, attempts, grace |
| | `OnlyItsOwnerRemovesARecord`: the same for `LiveRecordUntouched` | the same |
| | `NobodyGivesUp`: the same for `[]NeverWedged`, given enough attempts | the same |
| `EventsProofs` | `CacheIsBounded`: `Spec => AnswersAreRecent`, the refinement of `BoundedRead`; `CacheTypes` | callers, TTL, query time |
| | `IncidentsAreReportedOnce`, `LogSetupsAreSeen`, `DiscordIsSparedOfBursts`: the properties of the run `events` | as in the two modules below |
| | `BurstsLatch`: `EventsSpec => []CloseBurstsAreCaught` | as in `AntiNukeProofs` |
| | `SettledVoiceIsLogged`: `EventsSpec => []LastVoiceEventSurvives` | events, members, kinds, pipeline sizes |
| | `NoUseIsSpentTwice`: `EventsSpec => []UsesAreAttributedOnce` | codes, members, fetches, mishaps |
| | `ScoresAddUp`: `EventsSpec => []ScoreIsWhoStayed` | handlers, members, mishaps |
| | `EventsAreTyped`: `EventsSpec => []TypesOK` | all of these |
| `GuildReadCacheProofs` | `SetupsAreSeen`: `Spec => []EditsSeenUnlessOvertaken` | screens, one layer or two, TTL, call time, failing reads |
| | `DiscordIsAskedOncePerTtl`: `Spec => OneRequestPerWindow` | the same, any writer |
| | `ReadsAreBounded`: `Spec => AnswersAreRecent`, the refinement of `BoundedRead` | the same, reads that do not fail |
| | `ReadsAreTyped`: `Spec => []TypeOK` | the same, times and versions |
| `AntiNukeProofs` | `OneMessagePerIncident`: `Spec => []OneReportPerIncident` | events, actors, protections, budgets, windows, limits |
| | `BurstsLatch`: `Spec => [](TypeOK /\ CloseBurstsAreCaught)` | the same, any windows of protections and probe, toggles, restarts, times |
| `AdminDownProofs` | `NobodyIsPromoted`: `Spec => []NeverPromotes` | roles, settings, commands, passes, mishaps |
| | `OneUndownGivesBack`: `Spec => []OneUndownPerDown` | the same |
| | `TakenRolesAreAccountedFor`: `Spec => []EveryRoleAccountedFor`, `DownTypes` | the same |
| `GuildProofs` | `RecordsAgree`: `Spec => []RecordsMatch`, `PenaltyTypes` | handlers, commands, roles, mishaps |
| | `PaidMinutesWereSpent`: `GuildSpec => []PaidForPresence` | members, times, restarts, length of a minute |
| | `RoutingNamesTheRooms`: `GuildSpec => []RoomsMatchRouting` | presses, ids, channel cap, mishaps |
| | `PassesReconcile`: `GuildSpec => []SyncReconciles` | ranked members, batch size, level cap, awards, troubles, boot resets that fail |
| | `GateKeepsTheRules`: `GuildSpec => []CommandsKeepTheRules` | runs, size and span of a burst, patience, times, saves, leaves |
| | `TheLogAddsUp`: `GuildSpec => []LogAddsUp` | talkers, rooms, steps; changes, fetches, refusals; messages, size of the memory, edits |
| | `DoersAreNamed`: `GuildSpec => []TheDoerIsNamed` | events, moderators, targets, deeds, times |
| | `GuildIsTyped`: `GuildSpec => []TypesOK` | all of these |
| `DashboardProofs` | `GuessingEnds`: `Spec => []GuessesAreBounded` | requests, logins, secrets, drift, ceiling |
| | `EachCodeOnce`: `Spec => CodesAreTakenOnce`, `SignInTypes` | the same |
| | `AnswersTellWhatWasWritten`: `DashboardSpec => []AnswersAreTrue` | requests, asks, faults, mishaps |
| | `OperatorsSeeTheTruth`: `DashboardSpec => []ScreensTellTheTruth` | saves, fields, values; guilds, presses, loads; mishaps |
| | `OneTunnelAtMost`: `DashboardSpec => []TunnelIsOurs` | switches, agents, addresses, retries, troubles, boots under either mode and domain |
| | `DashboardIsTyped`: `DashboardSpec => []TypesOK` | all of these |

Every invariant and action property of a passing run is stated by one of these theorems; liveness is not.
Assumptions are the `ASSUME`s of the modules, evaluated by the runs, and the hypotheses in a theorem, which the
constants of its run satisfy:
- `OwnerKeepsItsRecord` supposes `MaxCrashes = 0` and no stale file. The other three theorems of the lock
  suppose `MaxReclaiming <= 1`, that no two starters take the same file for stale at once: `lock_race` shows
  that the two about records are false without it. `NobodyGivesUp` also supposes finitely many starts and more
  than `Grace + 1` attempts for each. The code has 240, with a grace of 40 retries: enough for five starts.
- The modules that are instances of others state their parameters as hypotheses: `Parameters` in
  `GuildReadCacheProofs` (a depth of 1 or 2, a TTL of at least a tick, values that stand for nothing are not
  entries, loads or answers), and in `AntiNukeProofs` that `None` is no observation.
  `SettledVoiceIsLogged` supposes what `Dispatch` assumes (`Debounces`: the table's kinds have a priority, and
  two members differ in their key), `NoUseIsSpentTwice` that `NoCode` is no invite and the early ones are
  invites, `PaidMinutesWereSpent` that a minute has a length and `Nobody` is no member,
  `OneTunnelAtMost` that the bounds are numbers and `Absent` is no agent, `RoutingNamesTheRooms` that the bounds
  are numbers and `None` is no list of channels, `PassesReconcile` that the members are finitely many positive
  numbers (a page is cut by order) and a batch has room for one, `ScoresAddUp` that handlers and members are
  finitely many and `NoRow` is neither flag of a row.
- `BurstsLatch` supposes nothing of the windows, which may be any integers, in any order and different on one
  budget, only that limits and bounds are naturals and `None` is no event's; which bursts are too far apart is part
  of the property. `OneTunnelAtMost` is about two domains, the random one and a fixed one, which may be the same.
  `GateKeepsTheRules` supposes that a burst is of two or more and that the staff are the one or two members for
  whom `MCGuild` has roles, `TheLogAddsUp` that ids are numbers in the order
  of sending and that what stands for no room or no snapshot is neither, `DoersAreNamed` that events are numbers
  and what stands for an unknown actor is no moderator. The theorems about types suppose the same, and that
  bounds are numbers.
- `SetupsAreSeen` excludes the appearance save, which drops the cache before it writes. `ReadsAreBounded`
  excludes failing reads, which are answered with the last value, however old: that is what the code means.

Arguments.
- Wakeups. `NoLostWakeup` with `TypeOK` is inductive. `AdvanceIsSafe` shows it once for the loop from one
  await to the next, whatever it was entered with; microtask, retry, finishing job and flush cite it.
- Ceiling. `CeilingInv` adds that the window's set is finite. A step stamps at most one
  start, and only below the ceiling; ageing only empties the window.
- Jobs. `AccountInv` says where each accepted job is: at one place of one queue or of the table, in flight,
  settled or superseded; and that what a flush promised and did not settle is in flight. It is the invariant
  both of `FlushLosesAtMostOne` and of the refinement, which maps each step to one of `RateLimitedDelivery`
  or to a stutter.
- Lock. Without crashes `FileOfItsOwner` suffices: nobody ever reaches the reclaiming steps. With them,
  `ReclaimInv` says where the maker of a live file stands (`FileHasAMaker`), that only a dead writer's file is
  waited out (`WaitedInVain`), and that whoever is about to remove a stale file is alone with it, so that it
  removes what it has read (`AloneWithStale`). Attempts are counted by files: each process makes one, and
  `WedgeInv` says that a starter has spent at most `Grace + 1` on each file that is gone and, on the one that
  is there, its age if it is empty or one sleep if it has a record (`Spent`).
- Bot cache. `RecentInv` relates the entry's expiry and each load's start to the versions; a stored row was
  current one query before it was stored, whichever load stored it last. `NextIsBounded` maps each step.
- Guild reads. `ReadInv` has the types and what a cached or loaded version may be; `SeenInv` adds that without
  an overtaken invalidation everything cached, on its way, or answered since is at least the last acknowledged
  edit; `RecentInv` that a layer's entry was current at most its `Lag` before it was stored, one TTL more for
  the upper layer. TLC checked the three on two layers before they were proved.
- Incidents. `NukeInv`: an actor is latched exactly while one event is the report of its incident. The latch and
  the first await of the mitigation are one step (`Count`), so no second observation comes between.
- Bursts. `BurstInv`: while the actor is not latched a counter keeps every event counted since the last start
  that is younger than the probe's window and than every window of its budget, whoever trims it, and holds no
  more than the limit (`WindowsAreKept`). So a burst that close is no larger than what the counter holds
  (`KeptBoundsCount`).
- Roles. `NeverPromotes` is not inductive: `OnlyGiven` adds that the cached list, every snapshot, the row
  and every list about to be given back contain only roles people gave. For the accounting, `SavedOnce` says
  that a command has no row before it saves and none to save after, and `PassRestores` that a pass which
  consumes the very row it read leaves nothing of it owed; without the two, the pass could delete the
  last record of a role. `AccountKept` and `AccountAfterDelete` do the set algebra once for the steps that
  leave the row and those that delete it. TLC checked both invariants on `down_sweep`'s instance first.
- Punishments. `RecordsMatch` speaks of moments without commands, so `PenaltyInv` says what holds in the middle
  of one: `Working` ties a handler's step to what it has read, `Alone` that a kind nothing excused has one
  command on it, and `Agree` how far role and row are apart at each step of that command (`RoleMid`, `BlockMid`).
- Voice events. `TableInv`: a job in the table is an arrived event under its member's key, and every event that
  was replaced has a later one of the same member that was not. So a member's last event is in the table, in a
  queue, in flight or settled.
- Invites. The snapshot of a guild is what the newest answer said, unless an older answer came in after
  it (`turned`). `UsesInv` has the credited uses at most those the snapshot has seen, and those at most the joins
  there were; `ToldInv` says the same of every answer still on its way.
- Score. `ScoreIsWhoStayed` speaks of quiet moments. `ScoreInv` bounds the net at every moment, from above with
  the points that may come (`Adding`) and the members who are counted or will be when their one handler is done
  (`Backing`), from below with the points that must come (`Scoring`), the leaves that may find a counted row
  (`Weighing`) and the rows that stay counted (`Staying`); the points about to go (`Taking`) are in both. A step
  moves one handler and one member, so the bounds follow from four marks of each (`MoveKeeps`); a refused
  call moves a bound by one, a second handler of a member by one (`ComeKeeps`), a restart by as many as it cut
  off (`Charged`). TLC checked it before it was proved, from every state of small instances too.
- Voice pay. `PayInv`: of a member whom no leave handler caught while the clock was paying, what was paid, what a
  handler or the clock is about to pay, and the whole minutes on the running session together are no more
  than the time in voice.
- Log rooms. `RoomInv`: a request that meets no other sees the list as it is, or is about to make it so
  (`ListIsCurrent`); a room it has yet to make has a name it did not find, so every room there is of the names it
  asked for was found (`Repeats`); what it found, made or checked exists (`Follows`); and a teardown that has
  begun to delete comes to clear the bindings. Each disturbance in `why` excuses the parts it can break.
- Sync. `SyncInv`: while nothing but the pass moves, whoever is behind its cursor has the roles earned, or will
  have once the calls left for them are made (`Reconciled`), and the page holds the next ranked members with
  their levels as they are (`PageNext`). `PageIs`, from the least element of a set of numbers, says that a page is
  empty only at the end, so a job that completes has been to everybody. `JobInv` ties the job to its pass at every
  moment: `orphan` is true of exactly the running jobs without one, and only what leaves a job behind sets it.
- Gate. `GateInv`: `until` of whoever ran last is not before the end of that cooldown (`RanInv`). In every
  window of the length of a span fewer than a burst are raised, as whatever was raised within a span is still
  counted (`FloodInv`). A reply that may still be withdrawn is pending or already gone (`ReplyInv`).
- Log. `VoiceInv` counts the lookups under way: with the entries they will write, a member's arrivals in a room
  less the departures are 1 where the member is and 0 elsewhere, at every moment. `SetsInv`: whoever has asked and has
  no answer yet will know what is new, and with nobody left to ask the last answer is the set as it is.
  `WordsInv`: the memory is no larger than its size and has no gap: a recent message newer than one it holds is
  held too (`NoGap`); what is evicted is the oldest (`EvictFits`).
- Doers. `DoerInv`: every entry of the audit log is of something that happened, and every actor kept for five
  seconds or already named did such a thing to that target.
- Sign-in. `SignInInv` bounds the guesses of a login by the ceiling and the requests about to destroy it, or,
  once it is gone, by those that may still guess; and every code consumed is one the store now refuses: an app's
  is not newer than the last one taken, a recovery code is deleted (`TakenIsRefused`).
- Routes. `RouteInv` follows a request: no two carry the same ask; before its rows it has written nothing and
  has no answer; at its rows, those written and those left are together the form's; the trail tells of it only
  after the last row. Each answer is then compared with what its step knows.
- Appearance. `LookInv`: a save that met no other knows what its fields show, and what it is about to send is
  what its row says. Whatever saves that met left different, one of them past its upsert has yet to answer and
  will tell of it.
- Screen. `FormInv`: only the last load is not cancelled, and while nothing slipped a save on its way is
  the only one, of the guild in view, so what it commits is that guild's row.
- Tunnel. `TunnelIsOurs` speaks of quiet moments. `OursBy` says what holds at each await of the one task at
  work: a stopping task holds the only agent, an adopting one asks for the agent of the row, one that is storing
  has done what the new mode asks. The row is claimed to be right only of an agent that is not our own child
  (`OursAdopted`): what was adopted was read from it, and what was spawned may be missing from it, which matters to
  a boot alone, and `LeadsBack` asks there. Two tasks at once, and every trouble the code is not guarded against,
  set `slipped`. TLC checked it on small instances before it was proved, with all four first boots (either mode,
  either domain) and a third agent; the run `dashboard` starts with the reach off and no domain, and meets the others
  at a restart.

Only model-checked, and why:
- All liveness (`EveryJobSettles`, `ShutdownEnds`, `EveryStartDecides`, `EveryAskAnswered`, `EveryDownExpires`,
  `PresenceSettles`): proofs of liveness under fairness and `ENABLED` are out of the prover's reach.
- Sequences of any length. What `SelectSeq` or a fold computes takes induction over data, which the prover
  cannot do; the models therefore say with sets and places what the code filters and counts, and a least or
  greatest element of a set of numbers is had from `WellFoundedInduction`.

No module declares a `RECURSIVE` operator.

## 5. Not modelled, and what is next

The watchdog and the log router are not modelled beyond `CommandGate` and `MessageLog`: the
check-ins of the watchdog report an outage through `logEvent`, which needs the database that may be out, and a
component that never reported since a start is not missed. Three hazards have no property: a writer paused for
longer than the write grace (`supervisor.ts:192`), the end of a presence window (`server/index.ts:550`), and what
was excused above.

Left out for good: rendering and text, tables and types, SQL text, React views beyond the settings form and
operator scripts. Clocks that go backwards are not modelled. Of a wall clock only order and elapsed ticks appear.
