--------------------------- MODULE GuildReadCache ----------------------------
(***************************************************************************)
(* The dashboard's memoised reads of one guild (apps/dashboard/server/     *)
(* cache.ts, TtlCache, and its uses in discord.ts).  A read older than the *)
(* TTL is loaded again; callers that ask meanwhile share the running load; *)
(* a load that fails is answered from the last known value.  The channel   *)
(* list is one cache in front of Discord; the role picker's list is a      *)
(* cache in front of a cache: layer 1 is what screens resolve, and layer   *)
(* Depth loads from Discord.  Dashboard handlers change the guild and drop *)
(* the cached reads, in one order or the other.                            *)
(***************************************************************************)
EXTENDS Integers

CONSTANTS
    Screens,      \* requests that need the guild's list
    Depth,        \* 1: fetchRawChannels; 2: fetchGuildRoles over fetchGuildRoleList
    Ttl,          \* GUILD_READ_CACHE_MS, in ticks
    Call,         \* the longest a Discord read takes: timeout, retry and timeout
    Writers,      \* which handlers run: a subset of {"setup", "save"}
    CanFail,      \* whether Discord reads may fail
    MaxTime,      \* bound: ticks
    MaxVersion,   \* bound: changes of the guild
    NoEntry, NoFlight, NoAnswer, Failed

VARIABLES
    now,
    version,      \* the version of the list at Discord
    replacedAt,   \* when each earlier version was replaced
    entry,        \* entries: what each layer has cached
    flight,       \* inFlight: the running load of each layer
    waiting,      \* the layer each screen awaits, 0 when it awaits none
    answer,       \* what each screen was last given
    writer,       \* where the writing handler stands
    acked,        \* the newest version whose handler has replied
    floor,        \* acked when each screen asked
    overtaken,    \* an invalidation has met a running load
    lastLoad      \* when layer Depth was last filled and not dropped since

list    == <<version, replacedAt>>
caches  == <<entry, flight, waiting, answer, lastLoad>>
handler == <<writer, acked, overtaken>>
vars == <<now, version, replacedAt, entry, flight, waiting, answer,
          writer, acked, floor, overtaken, lastLoad>>

Layers   == 1 .. Depth
Versions == 0 .. version
Never    == -1
Phases   == {"below", "asked", "read", "failed"}

Fly(phase, value) == [phase |-> phase, value |-> value, began |-> now]

TypeOK ==
    /\ now \in 0 .. MaxTime
    /\ version \in 0 .. MaxVersion
    /\ replacedAt \in [0 .. version - 1 -> 0 .. MaxTime]
    /\ \A l \in Layers :
          /\ entry[l] = NoEntry \/ (entry[l].value \in Versions /\ entry[l].at \in 0 .. now)
          /\ flight[l] = NoFlight \/ /\ flight[l].phase \in Phases
                                     /\ flight[l].value \in Versions \cup {NoAnswer}
                                     /\ flight[l].phase = "below" => l < Depth
    /\ waiting \in [Screens -> 0 .. Depth]
    /\ \A s \in Screens : waiting[s] # 0 => flight[waiting[s]] # NoFlight
    /\ answer \in [Screens -> Versions \cup {NoAnswer, Failed}]
    /\ writer \in {"idle", "invalidate", "apply"}
    /\ acked \in Versions
    /\ floor \in [Screens -> Versions]
    /\ overtaken \in BOOLEAN
    /\ lastLoad \in {Never} \cup 0 .. now

Init ==
    /\ now = 0
    /\ version = 0
    /\ replacedAt = << >>
    /\ entry = [l \in Layers |-> NoEntry]
    /\ flight = [l \in Layers |-> NoFlight]
    /\ waiting = [s \in Screens |-> 0]
    /\ answer = [s \in Screens |-> NoAnswer]
    /\ writer = "idle"
    /\ acked = 0
    /\ floor = [s \in Screens |-> 0]
    /\ overtaken = FALSE
    /\ lastLoad = Never

(* Mutant: an entry is still fresh at the very age of the TTL.             *)
FreshInclusive(l) == entry[l] # NoEntry /\ now - entry[l].at <= Ttl

(* get: the entry is inside its TTL.                                       *)
Fresh(l) == entry[l] # NoEntry /\ now - entry[l].at < Ttl

(* resolve(l), when nothing is fresh and no load is running: the load of a *)
(* layer above Depth is itself resolve of the layer below.                 *)
Loads(l) ==
    IF l = Depth THEN [flight EXCEPT ![l] = Fly("asked", NoAnswer)]
    ELSE IF Fresh(Depth) THEN [flight EXCEPT ![l] = Fly("read", entry[Depth].value)]
    ELSE [flight EXCEPT ![l] = Fly("below", NoAnswer),
                        ![Depth] = IF @ = NoFlight THEN Fly("asked", NoAnswer) ELSE @]

(* A screen resolves a layer: the picker's list, or the raw list for a     *)
(* permission check.                                                       *)
Hit(s, l) ==
    /\ waiting[s] = 0
    /\ Fresh(l)
    /\ answer' = [answer EXCEPT ![s] = entry[l].value]
    /\ floor' = [floor EXCEPT ![s] = acked]
    /\ UNCHANGED <<now, list, entry, flight, waiting, lastLoad, handler>>

Join(s, l) ==
    /\ waiting[s] = 0
    /\ ~Fresh(l)
    /\ flight' = IF flight[l] # NoFlight THEN flight ELSE Loads(l)
    /\ waiting' = [waiting EXCEPT ![s] = l]
    /\ floor' = [floor EXCEPT ![s] = acked]
    /\ UNCHANGED <<now, list, entry, answer, lastLoad, handler>>

(* Discord computes its answer; it reaches the dashboard later.            *)
DiscordAnswers ==
    /\ flight[Depth] # NoFlight
    /\ flight[Depth].phase = "asked"
    /\ flight' = [flight EXCEPT ![Depth].phase = "read", ![Depth].value = version]
    /\ UNCHANGED <<now, list, entry, waiting, answer, lastLoad, handler, floor>>

DiscordFails ==
    /\ CanFail
    /\ flight[Depth] # NoFlight
    /\ flight[Depth].phase \in {"asked", "read"}
    /\ flight' = [flight EXCEPT ![Depth].phase = "failed"]
    /\ UNCHANGED <<now, list, entry, waiting, answer, lastLoad, handler, floor>>

(* Mutant: a failure below never reaches the load that awaits it.          *)
SettleSwallows(l, outcome) ==
    /\ flight' = [k \in Layers |->
                    IF k = l THEN NoFlight
                    ELSE IF k = l - 1 /\ flight[k] # NoFlight /\ flight[k].phase = "below"
                            /\ outcome # Failed
                    THEN [flight[k] EXCEPT !.phase = "read", !.value = outcome]
                    ELSE flight[k]]
    /\ answer' = [s \in Screens |-> IF waiting[s] = l THEN outcome ELSE answer[s]]
    /\ waiting' = [s \in Screens |-> IF waiting[s] = l THEN 0 ELSE waiting[s]]
    /\ UNCHANGED <<now, list, handler, floor>>

(* A layer's promise settles: its entry was written, the load is no longer *)
(* in flight, and every caller of it, the layer above included, goes on.   *)
Settle(l, outcome) ==
    /\ flight' = [k \in Layers |->
                    IF k = l THEN NoFlight
                    ELSE IF k = l - 1 /\ flight[k] # NoFlight /\ flight[k].phase = "below"
                    THEN [flight[k] EXCEPT !.phase = IF outcome = Failed THEN "failed" ELSE "read",
                                           !.value = IF outcome = Failed THEN NoAnswer ELSE outcome]
                    ELSE flight[k]]
    /\ answer' = [s \in Screens |-> IF waiting[s] = l THEN outcome ELSE answer[s]]
    /\ waiting' = [s \in Screens |-> IF waiting[s] = l THEN 0 ELSE waiting[s]]
    /\ UNCHANGED <<now, list, handler, floor>>

(* Mutant: the loaded value is returned without being cached.              *)
LoadReturnsUncached(l) ==
    /\ flight[l] # NoFlight
    /\ flight[l].phase = "read"
    /\ lastLoad' = IF l = Depth THEN now ELSE lastLoad
    /\ Settle(l, flight[l].value)
    /\ UNCHANGED entry

LoadReturns(l) ==
    /\ flight[l] # NoFlight
    /\ flight[l].phase = "read"
    /\ entry' = [entry EXCEPT ![l] = [value |-> flight[l].value, at |-> now]]
    /\ lastLoad' = IF l = Depth THEN now ELSE lastLoad
    /\ Settle(l, flight[l].value)

(* A failed load is answered with peek(): the last value, however old.     *)
LoadThrows(l) ==
    /\ flight[l] # NoFlight
    /\ flight[l].phase = "failed"
    /\ Settle(l, IF entry[l] # NoEntry THEN entry[l].value ELSE Failed)
    /\ UNCHANGED <<entry, lastLoad>>

(* Mutant: another guild's entries are dropped.                            *)
DropOthers ==
    /\ lastLoad' = Never
    /\ overtaken' = (overtaken \/ \E l \in Layers : flight[l] # NoFlight)
    /\ UNCHANGED entry

(* invalidateGuildReadCache: the entries go, the running loads stay.       *)
DropEntries ==
    /\ entry' = [l \in Layers |-> NoEntry]
    /\ lastLoad' = Never
    /\ overtaken' = (overtaken \/ \E l \in Layers : flight[l] # NoFlight)

ChangeList ==
    /\ version < MaxVersion
    /\ version' = version + 1
    /\ replacedAt' = [v \in Versions |-> IF v = version THEN now ELSE replacedAt[v]]

(* Setup and teardown of the log channels: write, then invalidate, reply.  *)
SetupWrites ==
    /\ "setup" \in Writers /\ writer = "idle"
    /\ ChangeList
    /\ writer' = "invalidate"
    /\ UNCHANGED <<now, caches, acked, floor, overtaken>>

SetupInvalidates ==
    /\ writer = "invalidate"
    /\ DropEntries
    /\ acked' = version
    /\ writer' = "idle"
    /\ UNCHANGED <<now, list, flight, waiting, answer, floor>>

(* The appearance save: invalidate, then apply to Discord, then reply.     *)
SaveInvalidates ==
    /\ "save" \in Writers /\ writer = "idle"
    /\ DropEntries
    /\ writer' = "apply"
    /\ UNCHANGED <<now, list, flight, waiting, answer, acked, floor>>

SaveApplies ==
    /\ writer = "apply"
    /\ ChangeList
    /\ acked' = version'
    /\ writer' = "idle"
    /\ UNCHANGED <<now, caches, floor, overtaken>>

(* Somebody changes the list in Discord itself.                            *)
EditedInDiscord ==
    /\ ChangeList
    /\ UNCHANGED <<now, caches, floor, handler>>

(* A Discord call is cut off at its timeout; the rest of a load is         *)
(* microtasks, which run before any later timer.                           *)
Tick ==
    /\ now < MaxTime
    /\ flight[Depth] # NoFlight => now < flight[Depth].began + Call
    /\ \A l \in Layers : flight[l] # NoFlight => l = Depth \/ flight[l].phase = "below"
    /\ now' = now + 1
    /\ UNCHANGED <<list, caches, floor, handler>>

Ask(s) == \E l \in Layers : Hit(s, l) \/ Join(s, l)

Discord == DiscordAnswers \/ DiscordFails

Ends(l) == LoadReturns(l) \/ LoadThrows(l)

Writing == SetupWrites \/ SetupInvalidates \/ SaveInvalidates \/ SaveApplies \/ EditedInDiscord

Next == (\E s \in Screens : Ask(s)) \/ Discord \/ (\E l \in Layers : Ends(l)) \/ Writing \/ Tick

(* Every Discord call ends, by its answer or its timeout, and promises     *)
(* that are settled run their continuations.                               *)
Fairness == WF_vars(Discord) /\ \A l \in Layers : WF_vars(Ends(l))

Spec == Init /\ [][Next]_vars /\ Fairness

-----------------------------------------------------------------------------
(* Properties                                                              *)

Bounded == INSTANCE BoundedRead WITH Askers <- Screens, Bound <- Call + Depth * (Ttl - 1)

(* Where reads do not fail, a screen is never given a list replaced longer *)
(* ago than one Discord call and one TTL for each cache between it and     *)
(* Discord.                                                                *)
AnswersAreRecent == Bounded!Spec

(* The dashboard's log setup and teardown are seen by whoever asks after   *)
(* them, unless the invalidation met a load that was already running.      *)
EditsSeenUnlessOvertaken ==
    \A s \in Screens :
        (waiting[s] = 0 /\ answer[s] \in Versions /\ ~overtaken) => answer[s] >= floor[s]

(* However many screens ask, a list that was loaded is not asked of        *)
(* Discord again within the TTL, unless it was dropped.                    *)
OneRequestPerWindow ==
    [][(flight[Depth] = NoFlight /\ flight'[Depth] # NoFlight)
         => (lastLoad = Never \/ now - lastLoad >= Ttl)]_vars

(* Whoever asks is answered, also by a load somebody else began and also   *)
(* when that load fails.                                                   *)
EveryAskAnswered == \A s \in Screens : waiting[s] # 0 ~> waiting[s] = 0
=============================================================================
