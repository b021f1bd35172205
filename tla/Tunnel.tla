-------------------------------- MODULE Tunnel --------------------------------
(***************************************************************************)
(* The dashboard's reach (server/network.ts): one ngrok process, an agent, *)
(* that outlives the dashboard.  PUT /api/network switches the mode, the   *)
(* probe re-mints an agent whose address stopped answering, a restarted    *)
(* dashboard adopts the agent its row names.  Stopping, adopting and       *)
(* starting are awaits apart, and an agent exits when it likes.            *)
(***************************************************************************)
EXTENDS Naturals, Sequences, FiniteSets

CONSTANTS
    Requests,       \* PUT /api/network
    Domains,        \* fixed ngrok hostnames, and Random
    Random,
    Retries,        \* the length of TUNNEL_RETRY_DELAYS_MS
    MaxAgents,      \* bounds: agents ever spawned, addresses printed,
    MaxUrls,
    MaxMishaps,     \*   and things that go wrong
    Absent

VARIABLES
    mode, domain,   \* of the manager
    link,           \* tunnelStatus and tunnelUrl
    child, pid,     \* the handle of our own process, and the number of ours or an adopted one
    attempts,       \* startAttempts
    retryTimer,     \* the retry that stopTunnel can cancel is armed
    stray,          \* armed retries whose handle was overwritten
    polls,          \* the places in the log from which a start looks for its address
    probe,          \* the address being probed and the status it had
    failures,       \* probeFailures
    tasks,          \* boot, heal and each request: the await it is at
    saved,          \* instance_settings
    agents,         \* the agents ever spawned
    log,            \* the addresses in .al-tunnel.log
    born,           \* agents spawned before this process: their exit is not reported
    exits,          \* exits of our own agents not yet handled
    spent,          \* requests that were made
    mishaps,
    slipped         \* history: something happened that the code is not guarded against

manager == <<mode, domain, link, child, pid, attempts, retryTimer, stray, polls>>
ladder  == <<attempts, retryTimer, stray>>
world   == <<log, born, spent>>
vars    == <<manager, probe, failures, tasks, saved, agents, exits, world, mishaps, slipped>>

Tasks == Requests \cup {"boot", "heal"}
Idle  == [at |-> "idle"]
Off   == [status |-> "off", url |-> Absent]

(* instance_settings of a new installation.                                *)
Unsaved == [mode |-> "off", domain |-> Random, pid |-> Absent, url |-> Absent]

Alive(a) == a # Absent /\ agents[a].alive
Live     == {a \in DOMAIN agents : agents[a].alive}
Busy     == {t \in Tasks : tasks[t].at # "idle"}

(* urlAnswers: an agent is connected under that address.                   *)
Answers(u) == \E a \in Live : agents[a].url = u /\ agents[a].works

(* isExpectedTunnelUrl.                                                    *)
Fits(u, d)  == d = Random \/ u = d
Expected(u) == Fits(u, domain)

Agents  == (1 .. MaxAgents) \cup {Absent}
Urls    == (1 .. MaxUrls) \cup Domains \cup {Absent}
Stages  == {"idle", "reading", "asking", "purging", "purged", "storing", "killing", "culling", "clearing"}

TypeOK ==
    /\ mode \in {"off", "tunnel"} /\ domain \in Domains
    /\ link \in [status : {"off", "starting", "running", "error"}, url : Urls]
    /\ child \in Agents /\ pid \in Agents
    /\ attempts \in 0 .. Retries /\ retryTimer \in BOOLEAN /\ stray \in Nat
    /\ polls \subseteq 0 .. MaxUrls /\ failures \in 0 .. 1
    /\ \A t \in Tasks : tasks[t].at \in Stages
    /\ saved \in [mode : {"off", "tunnel"}, domain : Domains, pid : Agents, url : Urls]
    /\ Len(agents) <= MaxAgents /\ Len(log) <= MaxUrls
    /\ exits \subseteq DOMAIN agents /\ mishaps \in 0 .. MaxMishaps /\ slipped \in BOOLEAN

(* AL_AI_REMOTE_ACCESS, which scripts/dev.ps1 sets to one or the other and *)
(* which is not saved, or the stored mode; the stored domain, or the one   *)
(* of the environment.                                                     *)
BootModes   == {saved.mode} \cup {"off", "tunnel"}
BootDomains == IF saved.domain = Random THEN Domains ELSE {saved.domain}

(* boot, up to its first await for the tunnel.                             *)
BootTask(m) == [t \in Tasks |-> IF t = "boot" /\ m = "tunnel" THEN [at |-> "reading"] ELSE Idle]

Init ==
    /\ saved = Unsaved
    /\ mode \in BootModes /\ domain \in BootDomains /\ tasks = BootTask(mode)
    /\ link = Off /\ child = Absent /\ pid = Absent
    /\ attempts = 0 /\ retryTimer = FALSE /\ stray = 0 /\ polls = {}
    /\ probe = Absent /\ failures = 0
    /\ agents = <<>> /\ log = <<>> /\ born = 0 /\ exits = {}
    /\ spent = {} /\ mishaps = 0 /\ slipped = FALSE

Mishap == mishaps < MaxMishaps /\ mishaps' = mishaps + 1
Smooth == UNCHANGED <<mishaps, slipped>>
Step(t, step) == tasks' = [tasks EXCEPT ![t] = step]

-----------------------------------------------------------------------------
(* Starting, stopping and adopting, as every caller shares them.           *)

(* The row the manager means to leave: nobody waits for the writes of the  *)
(* number and the address, and each may fail without a word.               *)
Landed(row) == {[row EXCEPT !.pid = p, !.url = u] : p \in {saved.pid, row.pid}, u \in {saved.url, row.url}}

Lands(row) == IF saved' = row THEN UNCHANGED mishaps ELSE Mishap

(* startTunnel, with the row as its caller means to leave it.  It fails    *)
(* before there is a process, or with one that never ran.                  *)
StartTunnel(row) ==
    \/ /\ child # Absent
       /\ saved' \in Landed(row) /\ Lands(row)
       /\ UNCHANGED <<agents, child, pid, link, polls>>
    \/ /\ child = Absent /\ Len(agents) < MaxAgents
       /\ agents' = Append(agents, [alive |-> TRUE, url |-> Absent, works |-> FALSE, domain |-> domain])
       /\ child' = Len(agents) + 1 /\ pid' = Len(agents) + 1
       /\ \E was \in Landed(row) : saved' \in {was, [was EXCEPT !.pid = Len(agents) + 1]}
       /\ Lands([row EXCEPT !.pid = Len(agents) + 1])
       /\ link' = [status |-> "starting", url |-> Absent]
       /\ polls' = polls \cup {Len(log)}
    \/ /\ child = Absent /\ Mishap
       /\ link' = [status |-> "error", url |-> Absent]
       /\ \E was \in Landed(row) : saved' \in {was, [was EXCEPT !.pid = Absent]}
       /\ pid' \in {pid, Absent} /\ UNCHANGED <<agents, child, polls>>

(* stopTunnel up to its first await; the caller goes on with next.         *)
BeginStop(t, next) ==
    /\ retryTimer' = FALSE /\ attempts' = 0 /\ stray' = stray
    /\ child' = Absent /\ pid' = Absent /\ link' = Off
    /\ Step(t, [at |-> IF child # Absent THEN "killing" ELSE "culling", victim |-> pid, next |-> next])

(* adoptOrStartTunnel up to its first await.                               *)
BeginAdopt(t) ==
    Step(t, IF child # Absent \/ link.status \in {"running", "starting"}
            THEN Idle ELSE [at |-> "reading"])

(* Our agent has exited, or the two seconds for it are over.               *)
Killed(t) ==
    /\ tasks[t].at = "killing"
    /\ LET v == tasks[t].victim IN
       \/ ~Alive(v) /\ v \notin exits /\ Smooth
       \/ Alive(v) /\ Mishap /\ slipped' = slipped
    /\ Step(t, [tasks[t] EXCEPT !.at = "culling"])
    /\ UNCHANGED <<manager, probe, failures, saved, agents, exits, world>>

(* taskkill, if it is still there; waitForGone gives up after a while.     *)
Kill(a) ==
    \/ ~Alive(a) /\ UNCHANGED <<agents, exits>> /\ Smooth
    \/ /\ Alive(a) /\ agents' = [agents EXCEPT ![a].alive = FALSE]
       /\ exits' = IF a > born THEN exits \cup {a} ELSE exits
       /\ Smooth
    \/ Alive(a) /\ Mishap /\ slipped' = TRUE /\ UNCHANGED <<agents, exits>>

(* Mutant: the polite kill is trusted.                                     *)
CullTrusts(t) ==
    /\ tasks[t].at = "culling" /\ Smooth
    /\ Step(t, [tasks[t] EXCEPT !.at = "clearing"])
    /\ UNCHANGED <<manager, probe, failures, saved, agents, exits, world>>

(* What is still there by its number is killed.                            *)
Cull(t) ==
    /\ tasks[t].at = "culling" /\ Kill(tasks[t].victim)
    /\ Step(t, [tasks[t] EXCEPT !.at = "clearing"])
    /\ UNCHANGED <<manager, probe, failures, saved, world>>

Forgotten == [saved EXCEPT !.pid = Absent, !.url = Absent]

(* The last awaits of stopTunnel, and what its caller does after them.     *)
Clear(t) ==
    /\ tasks[t].at = "clearing" /\ tasks[t].victim \notin exits
    /\ \/ tasks[t].next = "start" /\ StartTunnel(Forgotten) /\ Step(t, Idle) /\ slipped' = slipped
       \/ /\ \/ tasks[t].next = "adopt" /\ BeginAdopt(t)
             \/ tasks[t].next = "end" /\ Step(t, Idle)
          /\ saved' \in Landed(Forgotten) /\ Lands(Forgotten)
          /\ UNCHANGED <<agents, child, pid, link, polls, slipped>>
    /\ UNCHANGED <<mode, domain, ladder, probe, failures, exits, world>>

(* adoptOrStartTunnel has read the row: is there an agent to ask for?      *)
Read(t) ==
    /\ tasks[t].at = "reading"
    /\ IF Alive(saved.pid) /\ saved.url # Absent /\ Expected(saved.url)
       THEN /\ Step(t, [at |-> "asking", victim |-> saved.pid, url |-> saved.url])
            /\ UNCHANGED <<agents, child, pid, link, polls, saved>> /\ Smooth
       ELSE StartTunnel(saved) /\ Step(t, Idle) /\ slipped' = slipped
    /\ UNCHANGED <<mode, domain, ladder, probe, failures, exits, world>>

(* The newest address in the log if it answers, else the saved one.        *)
Reached(u) ==
    LET last == IF log = <<>> THEN Absent ELSE log[Len(log)] IN
    CHOOSE w \in {last, u, Absent} :
        IF last # Absent /\ last # u /\ Expected(last) /\ Answers(last) THEN w = last
        ELSE IF Answers(u) THEN w = u ELSE w = Absent

Ask(t) ==
    /\ tasks[t].at = "asking"
    /\ LET u == Reached(tasks[t].url) IN
       IF u # Absent
       THEN /\ pid' = tasks[t].victim /\ link' = [status |-> "running", url |-> u]
            /\ saved' \in Landed([saved EXCEPT !.url = u]) /\ Lands([saved EXCEPT !.url = u])
            /\ Step(t, Idle)
       ELSE /\ Step(t, [tasks[t] EXCEPT !.at = "purging"])
            /\ UNCHANGED <<pid, link, saved, mishaps>>
    /\ UNCHANGED <<mode, domain, child, ladder, polls, probe, failures, agents, exits, world, slipped>>

(* A live agent whose address does not answer is killed and replaced.      *)
Purge(t) ==
    /\ tasks[t].at = "purging" /\ Kill(tasks[t].victim)
    /\ Step(t, [at |-> "purged"])
    /\ UNCHANGED <<manager, probe, failures, saved, world>>

Replace(t) ==
    /\ tasks[t].at = "purged" /\ StartTunnel(Forgotten) /\ Step(t, Idle) /\ slipped' = slipped
    /\ UNCHANGED <<mode, domain, ladder, probe, failures, exits, world>>

-----------------------------------------------------------------------------
(* A start looks for its address in the log, and exits climb the ladder.   *)

Newest(from) == IF Len(log) > from /\ Expected(log[Len(log)]) THEN log[Len(log)] ELSE Absent

Poll(from) ==
    /\ from \in polls /\ polls' = polls \ {from}
    /\ \/ link.status # "starting" /\ UNCHANGED <<link, attempts, saved, mishaps>>
       \/ /\ link.status = "starting" /\ Newest(from) # Absent
          /\ link' = [status |-> "running", url |-> Newest(from)]
          /\ attempts' = 0
          /\ LET row == [saved EXCEPT !.url = Newest(from)] IN saved' \in Landed(row) /\ Lands(row)
       \/ /\ link.status = "starting" /\ Newest(from) = Absent      \* twenty seconds
          /\ link' = [link EXCEPT !.status = "error"] /\ UNCHANGED <<attempts, saved, mishaps>>
    /\ UNCHANGED <<mode, domain, child, pid, retryTimer, stray, probe, failures, tasks, agents, exits, world, slipped>>

(* child.on("exit"), which asks whether there is a child, not whether this *)
(* is it.                                                                  *)
HandleExit(a) ==
    LET lost   == child # Absent
        climbs == lost /\ link.status # "off" /\ attempts < Retries
    IN
    /\ a \in exits /\ exits' = exits \ {a}
    /\ child' = Absent
    /\ link' = IF ~lost \/ link.status = "off" THEN link
               ELSE [status |-> IF climbs THEN "starting" ELSE "error", url |-> Absent]
    /\ attempts' = IF climbs THEN attempts + 1 ELSE attempts
    /\ retryTimer' = (retryTimer \/ climbs)
    /\ stray' = IF climbs /\ retryTimer THEN stray + 1 ELSE stray
    /\ UNCHANGED <<mode, domain, pid, polls, probe, failures, tasks, saved, agents, world>> /\ Smooth

(* Whichever timer fires, it is the tracked handle that is forgotten.      *)
RetryFires ==
    /\ exits = {} /\ (retryTimer \/ stray > 0)
    /\ retryTimer' = FALSE /\ stray' = IF retryTimer THEN stray ELSE stray - 1
    /\ IF link.status = "off"
       THEN UNCHANGED <<agents, child, pid, saved, link, polls>> /\ Smooth
       ELSE StartTunnel(saved) /\ slipped' = (slipped \/ Busy # {})
    /\ UNCHANGED <<mode, domain, attempts, probe, failures, tasks, exits, world>>

-----------------------------------------------------------------------------
(* The probe.                                                              *)

ProbeStart ==
    /\ mode = "tunnel" /\ tasks["heal"].at = "idle" /\ tasks["boot"].at = "idle"
    /\ probe = Absent /\ exits = {}
    /\ \/ link.url # Absent /\ probe' = link /\ UNCHANGED failures
       \/ link.url = Absent /\ failures > 0 /\ failures' = 0 /\ UNCHANGED probe
    /\ UNCHANGED <<manager, tasks, saved, agents, exits, world>> /\ Smooth

(* probeTunnelReachability.                                                *)
Verdict(url) == IF Answers(url) THEN "running" ELSE "error"

(* The verdict counts for the address it was asked for, if that is still   *)
(* the one; the second failure in a row re-mints the agent.                *)
ProbeVerdict ==
    LET verdict == Verdict(probe.url)
        remint  == verdict = "error" /\ failures = 1
    IN
    /\ probe # Absent /\ probe' = Absent
    /\ \/ /\ mode # "tunnel" \/ link.url # probe.url
          /\ UNCHANGED <<link, child, pid, ladder, failures, tasks, slipped>>
       \/ /\ mode = "tunnel" /\ link.url = probe.url /\ remint
          /\ failures' = 0 /\ BeginStop("heal", "adopt") /\ slipped' = (slipped \/ Busy # {})
       \/ /\ mode = "tunnel" /\ link.url = probe.url /\ ~remint
          /\ failures' = IF verdict = "error" THEN failures + 1 ELSE 0
          /\ link' = IF verdict # probe.status THEN [link EXCEPT !.status = verdict] ELSE link
          /\ UNCHANGED <<child, pid, ladder, tasks, slipped>>
    /\ UNCHANGED <<mode, domain, polls, saved, agents, exits, world, mishaps>>

-----------------------------------------------------------------------------
(* The operator's switch.                                                  *)

Ongoing == \E r \in Requests : tasks[r].at # "idle"

(* The route refuses a change within three seconds of the last one; a stop *)
(* that takes longer is still at work when the next change comes.          *)
Put(r, m, d) ==
    /\ r \notin spent /\ spent' = spent \cup {r} /\ tasks["boot"].at = "idle"
    /\ IF Ongoing THEN Mishap ELSE UNCHANGED mishaps
    /\ slipped' = (slipped \/ Busy # {})
    /\ mode' = m /\ domain' = d
    /\ Step(r, [at |-> "storing", mode |-> m, switched |-> m # mode, moved |-> d # domain])
    /\ UNCHANGED <<link, child, pid, ladder, polls, probe, failures, saved, agents, exits, log, born>>

(* The mode is saved, and the domain when the request names one.           *)
Stored(r) ==
    /\ tasks[r].at = "storing"
    /\ LET t == tasks[r]
           row == [saved EXCEPT !.mode = t.mode, !.domain = domain] IN
       /\ saved' \in {row} \cup (IF t.moved THEN {} ELSE {[saved EXCEPT !.mode = t.mode]})
       /\ \/ /\ mode = "tunnel" /\ (t.switched \/ t.moved) /\ BeginStop(r, "start")
          \/ /\ mode = "tunnel" /\ ~t.switched /\ ~t.moved /\ BeginAdopt(r)
             /\ UNCHANGED <<child, pid, link, ladder>>
          \/ mode # "tunnel" /\ t.switched /\ BeginStop(r, "end")
          \/ mode # "tunnel" /\ ~t.switched /\ Step(r, Idle) /\ UNCHANGED <<child, pid, link, ladder>>
    /\ UNCHANGED <<mode, domain, polls, probe, failures, agents, exits, world>> /\ Smooth

(* The database refuses one of the two: 500, with both in memory only.     *)
StoreFails(r) ==
    /\ tasks[r].at = "storing" /\ Step(r, Idle)
    /\ saved' \in {saved, [saved EXCEPT !.mode = tasks[r].mode]}
    /\ Mishap /\ slipped' = TRUE
    /\ UNCHANGED <<manager, probe, failures, agents, exits, world>>

-----------------------------------------------------------------------------
(* The dashboard ends and starts again; its agent does not notice.  A boot *)
(* with the reach off neither adopts nor stops one, and a boot with it on  *)
(* adopts only the one its row names under an address it expects.          *)
LeadsBack(m, d) ==
    \/ Live = {}
    \/ m = "tunnel" /\ Live = {saved.pid} /\ saved.url # Absent /\ Fits(saved.url, d)

Restart ==
    /\ mode' \in BootModes /\ domain' \in BootDomains /\ tasks' = BootTask(mode')
    /\ Mishap /\ slipped' = (slipped \/ ~LeadsBack(mode', domain'))
    /\ link' = Off /\ child' = Absent /\ pid' = Absent
    /\ attempts' = 0 /\ retryTimer' = FALSE /\ stray' = 0 /\ polls' = {}
    /\ probe' = Absent /\ failures' = 0 /\ exits' = {} /\ born' = Len(agents)
    /\ UNCHANGED <<saved, agents, log, spent>>

(* What the agents do: get an address, lose it or the connection, exit.    *)
(* A second agent on one hostname is turned away.                          *)
Prints(a) ==
    /\ Alive(a) /\ agents[a].url = Absent /\ Len(log) < MaxUrls
    /\ LET u == IF agents[a].domain = Random THEN Len(log) + 1 ELSE agents[a].domain IN
       /\ ~Answers(u)
       /\ log' = Append(log, u)
       /\ agents' = [agents EXCEPT ![a].url = u, ![a].works = TRUE]
    /\ UNCHANGED <<manager, probe, failures, tasks, saved, exits, born, spent>> /\ Smooth

Reconnect(a) ==
    /\ Alive(a) /\ agents[a].url # Absent /\ agents[a].domain = Random /\ Len(log) < MaxUrls
    /\ log' = Append(log, Len(log) + 1)
    /\ agents' = [agents EXCEPT ![a].url = Len(log) + 1, ![a].works = TRUE]
    /\ Mishap /\ slipped' = slipped
    /\ UNCHANGED <<manager, probe, failures, tasks, saved, exits, born, spent>>

Wedge(a) ==
    /\ Alive(a) /\ agents[a].works /\ agents' = [agents EXCEPT ![a].works = FALSE]
    /\ Mishap /\ slipped' = slipped
    /\ UNCHANGED <<manager, probe, failures, tasks, saved, exits, world>>

Dying(a) == \E t \in Tasks : tasks[t].at = "killing" /\ tasks[t].victim = a

Exit(a) ==
    /\ Alive(a) /\ agents' = [agents EXCEPT ![a].alive = FALSE]
    /\ exits' = IF a > born THEN exits \cup {a} ELSE exits
    /\ IF Dying(a) THEN Smooth ELSE Mishap /\ slipped' = slipped
    /\ UNCHANGED <<manager, probe, failures, tasks, saved, world>>

Manage ==
    \/ \E t \in Tasks : Killed(t) \/ Cull(t) \/ Clear(t) \/ Read(t) \/ Ask(t) \/ Purge(t) \/ Replace(t)
    \/ \E from \in polls : Poll(from)
    \/ \E a \in exits : HandleExit(a)
    \/ RetryFires \/ ProbeStart \/ ProbeVerdict
    \/ \E r \in Requests : Stored(r) \/ StoreFails(r)
Next ==
    \/ Manage \/ Restart
    \/ \E r \in Requests, m \in {"off", "tunnel"}, d \in Domains : Put(r, m, d)
    \/ \E a \in 1..Len(agents) : Prints(a) \/ Reconnect(a) \/ Wedge(a) \/ Exit(a)

Spec == Init /\ [][Next]_vars

-----------------------------------------------------------------------------
Quiet == Busy = {} /\ exits = {}

(* No two agents run at once, and with nobody at work the one that runs is *)
(* the one the manager would stop, and none runs with the reach switched   *)
(* off.  Excused is what the code is not guarded against: requests that    *)
(* meet each other or the healing, a retry that fires while another task   *)
(* is at work, an agent that outlives taskkill, a mode the database did    *)
(* not take, and a boot that is not led back to the agent that runs: with  *)
(* the reach off, or with a row that a lost write or a restart before the  *)
(* address was known has left without it, or under another domain.         *)
TunnelIsOurs ==
    slipped \/ /\ Cardinality(Live) <= 1
               /\ Quiet => Live \subseteq {pid}
               /\ Quiet /\ mode = "off" => Live = {}
=============================================================================
