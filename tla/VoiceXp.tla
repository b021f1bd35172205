------------------------------ MODULE VoiceXp -------------------------------
(***************************************************************************)
(* Voice experience: the session tracker (bot/runtime/levels.ts), the      *)
(* minute clock that pays whole minutes and the voice-state handler that   *)
(* pays what is left when a member leaves (bot/index.ts).  One voice       *)
(* channel; whether a member is eligible (mute, deafen, roles, company) is *)
(* any answer at any time.                                                 *)
(***************************************************************************)
EXTENDS Integers, FiniteSets

CONSTANTS
    Members,
    Minute,        \* ticks of the model in a minute
    MaxTime,       \* bound: ticks
    MaxRestarts,   \* bound: restarts of the bot
    Nobody

VARIABLES
    now,
    inVoice,      \* who sits in the channel
    session,      \* voiceSessions: lastCreditedAt of each tracked member, or Untracked
    tick,         \* the pass of the minute clock: who is being paid, since when, who comes next
    leaving,      \* minutes a leave handler still has to pay
    unpaid,       \* ticks each member has spent in voice, less those paid
    raced,        \* members who left while a pass was paying them or had them on its list
    restarts

vars == <<now, inVoice, session, tick, leaving, unpaid, raced, restarts>>

Untracked == -1
Minutes  == 0 .. MaxTime
NoTick   == [who |-> Nobody, at |-> 0, minutes |-> 0, todo |-> {}]

TypeOK ==
    /\ now \in 0 .. MaxTime /\ restarts \in 0 .. MaxRestarts
    /\ inVoice \subseteq Members /\ raced \subseteq Members
    /\ session \in [Members -> {Untracked} \cup 0 .. MaxTime]
    /\ tick \in [who : Members \cup {Nobody}, at : 0 .. MaxTime, minutes : Minutes, todo : SUBSET Members]
    /\ tick.who = Nobody => tick = NoTick
    /\ leaving \in [Members -> Minutes] /\ unpaid \in [Members -> Int]

Init ==
    /\ now = 0 /\ restarts = 0
    /\ inVoice = {} /\ raced = {}
    /\ session = [m \in Members |-> Untracked]
    /\ tick = NoTick
    /\ leaving = [m \in Members |-> 0]
    /\ unpaid = [m \in Members |-> 0]

MinutesToCredit(s, m) == IF s[m] = Untracked THEN 0 ELSE (now - s[m]) \div Minute

(* Mutant: a payment leaves the clock of the member where it was.          *)
MarkedNever(s, m, at) == s

(* markCredited: a session that is gone stays gone.                        *)
Marked(s, m, at) == IF s[m] = Untracked THEN s ELSE [s EXCEPT ![m] = at]

-----------------------------------------------------------------------------
(* The voice-state handler.                                                *)

(* A member who is already tracked keeps the clock that is running.        *)
Join(m) ==
    /\ m \notin inVoice
    /\ inVoice' = inVoice \cup {m}
    /\ session' = IF session[m] = Untracked THEN [session EXCEPT ![m] = now] ELSE session
    /\ UNCHANGED <<now, tick, leaving, unpaid, raced, restarts>>

(* The minutes are taken from the session as it closes; what follows       *)
(* (settings, the member, the rules, the write) is awaited.  A member's    *)
(* earlier leave is paid before they leave again.                          *)
Leave(m) ==
    /\ m \in inVoice /\ leaving[m] = 0
    /\ inVoice' = inVoice \ {m}
    /\ leaving' = [leaving EXCEPT ![m] = MinutesToCredit(session, m)]
    /\ session' = [session EXCEPT ![m] = Untracked]
    /\ raced' = IF m = tick.who \/ m \in tick.todo THEN raced \cup {m} ELSE raced
    /\ UNCHANGED <<now, tick, unpaid, restarts>>

(* Paid, or dropped: ineligible, levels off, the write refused.            *)
PayLeave(m) ==
    /\ leaving[m] > 0
    /\ unpaid' \in {unpaid, [unpaid EXCEPT ![m] = @ - leaving[m] * Minute]}
    /\ leaving' = [leaving EXCEPT ![m] = 0]
    /\ UNCHANGED <<now, inVoice, session, tick, raced, restarts>>

-----------------------------------------------------------------------------
(* The minute clock.                                                       *)

(* The walk over the members from one await to the next.  Those it passes  *)
(* without paying: not tracked yet, opened now; less than a minute, left   *)
(* alone; not eligible, their clock advanced.  It stops at a member to pay *)
(* or when nobody is left.                                                 *)
Passed(s, group) ==
    [m \in Members |-> IF m \in group /\ (s[m] = Untracked \/ MinutesToCredit(s, m) > 0) THEN now ELSE s[m]]

(* Mutant: the pass ends and what it was paying stays set.                 *)
WalkLeavesTheRest(todo, s) ==
    \/ /\ session' = Passed(s, todo) /\ tick' = [tick EXCEPT !.who = Nobody]
    \/ \E m \in todo : \E group \in SUBSET (todo \ {m}) :
          /\ MinutesToCredit(s, m) > 0
          /\ session' = Passed(s, group)
          /\ tick' = [who |-> m, at |-> now, minutes |-> MinutesToCredit(s, m), todo |-> todo \ (group \cup {m})]

Walk(todo, s) ==
    \/ /\ session' = Passed(s, todo) /\ tick' = NoTick
    \/ \E m \in todo : \E group \in SUBSET (todo \ {m}) :
          /\ MinutesToCredit(s, m) > 0
          /\ session' = Passed(s, group)
          /\ tick' = [who |-> m, at |-> now, minutes |-> MinutesToCredit(s, m), todo |-> todo \ (group \cup {m})]

(* levelsTickInFlight: a pass that is still going keeps the next one out.  *)
(* The members of the channel are listed once, before anyone is paid.      *)
TickStarts ==
    /\ tick.who = Nobody /\ inVoice # {}
    /\ Walk(inVoice, session)
    /\ UNCHANGED <<now, inVoice, leaving, unpaid, raced, restarts>>

(* The write, and the clock of the member moved to the time it was read.   *)
TickPays ==
    /\ tick.who # Nobody
    /\ unpaid' \in {unpaid, [unpaid EXCEPT ![tick.who] = @ - tick.minutes * Minute]}
    /\ Walk(tick.todo, Marked(session, tick.who, tick.at))
    /\ UNCHANGED <<now, inVoice, leaving, raced, restarts>>

-----------------------------------------------------------------------------
Advance ==
    /\ now < MaxTime /\ now' = now + 1
    /\ unpaid' = [m \in Members |-> unpaid[m] + IF m \in inVoice THEN 1 ELSE 0]
    /\ UNCHANGED <<inVoice, session, tick, leaving, raced, restarts>>

(* The sessions, the pass and the handlers are memory of the process.      *)
Restart ==
    /\ restarts < MaxRestarts /\ restarts' = restarts + 1
    /\ session' = [m \in Members |-> Untracked]
    /\ tick' = NoTick
    /\ leaving' = [m \in Members |-> 0]
    /\ UNCHANGED <<now, inVoice, unpaid, raced>>

Next ==
    \/ \E m \in Members : Join(m) \/ Leave(m) \/ PayLeave(m)
    \/ TickStarts \/ TickPays \/ Advance \/ Restart

Spec == Init /\ [][Next]_vars

-----------------------------------------------------------------------------
(* Nobody is paid for time they did not spend in voice, whichever of the   *)
(* clock and the leave handler pays and however often they come back:      *)
(* "On leave the remaining whole minutes are credited once" and "no tick   *)
(* granularity is charged to time the member was not present for"          *)
(* (levels.ts).  The code breaks it for a member who leaves during a pass. *)
MinutesPaidOnce == \A m \in Members : unpaid[m] >= 0

(* The same for everybody the passes of the clock did not catch leaving.   *)
PaidForPresence == \A m \in Members \ raced : unpaid[m] >= 0
=============================================================================
