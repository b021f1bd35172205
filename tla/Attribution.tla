----------------------------- MODULE Attribution -----------------------------
(***************************************************************************)
(* Who did it: the gateway says what happened and seldom by whom, so the   *)
(* handlers of bot/lib/discord.ts look the actor up in Discord's audit log *)
(* before they emit.  One guild; an entry of the log is written before or  *)
(* after its event is delivered.                                           *)
(***************************************************************************)
EXTENDS Naturals, Sequences, FiniteSets, Functions

CONSTANTS
    Events,       \* bound: what happens in the guild, in order
    Mods, Targets,
    Deeds,        \* what may happen: some of the kinds of Lookup
    Depth,        \* entries one fetch returns (10 in the code)
    Ttl,          \* how long a resolution is kept (5 s)
    MaxTime,      \* bound: ticks
    Nobody, Unknown, Pending

VARIABLES
    now,
    happened,     \* the events: what, to whom, by whom
    log,          \* Discord's audit log, the newest entry first
    at,           \* how far the handler of each event is
    asked,        \* when its lookup was sent
    cache,        \* resolveAudit's cache, per audit type and target
    named         \* the actor each handler emitted; Nobody where the member is said to act alone

vars == <<now, happened, log, at, asked, cache, named>>

-----------------------------------------------------------------------------
(* The handlers: the audit type each asks for, whether members can do it   *)
(* themselves, and whether the answer is kept.                             *)

Lookup(type, alone, kept) == [type |-> type, alone |-> alone, kept |-> kept]

Ban         == Lookup("MemberBanAdd", FALSE, TRUE)
Unban       == Lookup("MemberBanRemove", FALSE, TRUE)
Kick        == Lookup("MemberKick", TRUE, TRUE)            \* or left
Timeout     == Lookup("MemberUpdate", FALSE, TRUE)
Untimeout   == Lookup("MemberUpdate", TRUE, TRUE)          \* or ran out
Disconnect  == Lookup("MemberDisconnect", TRUE, FALSE)     \* or hung up
Move        == Lookup("MemberMove", TRUE, FALSE)           \* or moved on
RoleCreate  == Lookup("RoleCreate", FALSE, TRUE)
RoleUpdate  == Lookup("RoleUpdate", FALSE, TRUE)
RoleDelete  == Lookup("RoleDelete", FALSE, TRUE)
ChannelMade == Lookup("ChannelCreate", FALSE, TRUE)
ChannelEdit == Lookup("ChannelUpdate", FALSE, TRUE)
ChannelGone == Lookup("ChannelDelete", FALSE, TRUE)
InviteMade  == Lookup("InviteCreate", FALSE, TRUE)
EmojiMade   == Lookup("EmojiCreate", FALSE, TRUE)
EmojiGone   == Lookup("EmojiDelete", FALSE, TRUE)

LookupOf(kind) ==
    CASE kind = "ban" -> Ban               [] kind = "unban" -> Unban
      [] kind = "kick" -> Kick             [] kind = "timeout" -> Timeout
      [] kind = "untimeout" -> Untimeout   [] kind = "disconnect" -> Disconnect
      [] kind = "move" -> Move             [] kind = "role-create" -> RoleCreate
      [] kind = "role-update" -> RoleUpdate       [] kind = "role-delete" -> RoleDelete
      [] kind = "channel-create" -> ChannelMade   [] kind = "channel-update" -> ChannelEdit
      [] kind = "channel-delete" -> ChannelGone   [] kind = "invite-create" -> InviteMade
      [] kind = "emoji-create" -> EmojiMade       [] kind = "emoji-delete" -> EmojiGone

Asks(e) == LookupOf(happened[e].kind)
Key(e)  == <<Asks(e).type, happened[e].on>>
Keys    == {LookupOf(k).type : k \in Deeds} \X Targets

NotYet == [kind |-> Nobody, on |-> Nobody, by |-> Nobody]

TypeOK ==
    /\ now \in 0 .. MaxTime
    /\ happened \in [Events -> [kind : Deeds, on : Targets, by : Mods \cup {Nobody}] \cup {NotYet}]
    /\ at \in [Events -> {"none", "due", "asking", "ended"}]
    /\ log \in Seq(Events) /\ IsInjective(log)
    /\ asked \in [Events -> 0 .. MaxTime]
    /\ cache \in [Keys -> [actor : Mods \cup {Unknown}, until : Nat]]
    /\ named \in [Events -> Mods \cup {Nobody, Unknown, Pending}]

Init ==
    /\ now = 0 /\ log = <<>>
    /\ happened = [e \in Events |-> NotYet]
    /\ at = [e \in Events |-> "none"]
    /\ asked = [e \in Events |-> 0]
    /\ cache = [k \in Keys |-> [actor |-> Unknown, until |-> 0]]
    /\ named = [e \in Events |-> Pending]

-----------------------------------------------------------------------------
(* Discord.                                                                *)

Happens(e, kind, on, by) ==
    /\ at[e] = "none" /\ \A f \in Events : f < e => at[f] # "none"
    /\ by = Nobody => LookupOf(kind).alone
    /\ happened' = [happened EXCEPT ![e] = [kind |-> kind, on |-> on, by |-> by]]
    /\ at' = [at EXCEPT ![e] = "due"]
    /\ UNCHANGED <<now, log, asked, cache, named>>

Entered(e) == \E i \in DOMAIN log : log[i] = e

Enter(e) ==
    /\ happened[e].by \in Mods /\ ~Entered(e)
    /\ log' = <<e>> \o log
    /\ UNCHANGED <<now, happened, at, asked, cache, named>>

Tick == now < MaxTime /\ now' = now + 1 /\ UNCHANGED <<happened, log, at, asked, cache, named>>

-----------------------------------------------------------------------------
(* The resolver.                                                           *)

(* fetchAuditLogs: where the newest entries of one type stand.             *)
OfType(type) == {i \in DOMAIN log : Asks(log[i]).type = type}
Page(type)   == {i \in OfType(type) : Cardinality({j \in OfType(type) : j <= i}) <= Depth}

Newest(places) == log[CHOOSE i \in places : \A j \in places : i <= j]

Matches(e) == {i \in Page(Asks(e).type) : happened[log[i]].on = happened[e].on}

(* Mutant: without a match, the newest entry of the type.                  *)
NewestAnyway(e) ==
    IF Matches(e) # {} THEN happened[Newest(Matches(e))].by
    ELSE IF Page(Asks(e).type) # {} THEN happened[Newest(Page(Asks(e).type))].by ELSE Unknown

(* A strict match on the target, the newest one.                           *)
Match(e) == IF Matches(e) = {} THEN Unknown ELSE happened[Newest(Matches(e))].by

Fresh(e) == Asks(e).kept /\ cache[Key(e)].until > now

(* What the handler emits.  A kick, a disconnect and a move without an     *)
(* actor are the member's own.                                             *)
Emits(e, actor) ==
    /\ at' = [at EXCEPT ![e] = "ended"]
    /\ named' = [named EXCEPT ![e] =
          IF actor = Unknown /\ happened[e].kind \in {"kick", "disconnect", "move"} THEN Nobody ELSE actor]

(* The handler starts: a resolution that is still kept answers at once.    *)
Deliver(e) ==
    /\ at[e] = "due"
    /\ IF Fresh(e)
       THEN Emits(e, cache[Key(e)].actor) /\ UNCHANGED asked
       ELSE /\ at' = [at EXCEPT ![e] = "asking"]
            /\ asked' = [asked EXCEPT ![e] = now]
            /\ UNCHANGED named
    /\ UNCHANGED <<now, happened, log, cache>>

(* Discord's answer, or its refusal to show the log; what was found is     *)
(* kept from the time of asking on, "unknown" too.                         *)
Answer(e) ==
    /\ at[e] = "asking"
    /\ \E actor \in {Match(e), Unknown} :
          /\ Emits(e, actor)
          /\ cache' = IF Asks(e).kept THEN [cache EXCEPT ![Key(e)] = [actor |-> actor, until |-> asked[e] + Ttl]]
                      ELSE cache
    /\ asked' = [asked EXCEPT ![e] = 0]
    /\ UNCHANGED <<now, happened, log>>

Next ==
    \/ Tick
    \/ \E e \in Events :
          \/ Enter(e) \/ Deliver(e) \/ Answer(e)
          \/ \E kind \in Deeds, on \in Targets, by \in Mods \cup {Nobody} : Happens(e, kind, on, by)

Spec == Init /\ [][Next]_vars

-----------------------------------------------------------------------------
(* Properties.                                                             *)

(* What may be read as e: what happened to its target under its audit type *)
(* until now.                                                              *)
Alike(e) == {f \in Events : happened[f] # NotYet /\ Key(f) = Key(e)}

(* Whoever is named did such a thing to that very target; and nobody but   *)
(* the doer is named when it happened to the target once.                  *)
TheDoerIsNamed ==
    \A e \in Events : named[e] \in Mods =>
        /\ \E f \in Alike(e) : happened[f].by = named[e]
        /\ Alike(e) = {e} => named[e] = happened[e].by
=============================================================================
