------------------------------ MODULE VoiceLog ------------------------------
(***************************************************************************)
(* What the log says of a voice channel: the VoiceStateUpdate handler of   *)
(* bot/lib/discord.ts.  An arrival is logged at once; a departure or a     *)
(* move only after the audit log was asked who did it, so the entries of   *)
(* one member may be written in another order than things happened.        *)
(***************************************************************************)
EXTENDS Integers, FiniteSets

CONSTANTS
    Members, Channels,
    Stages,      \* the rooms that are stage channels
    Out,         \* in no room
    Flags,       \* muted, deafened, streaming, ...: what a voice state carries
    Suppress,    \* the flag of those who listen on a stage
    MaxSteps     \* bound: voice states Discord sends

VARIABLES
    where, flags,    \* Discord's voice states
    asking,          \* departures and moves whose lookup is under way
    came, went,      \* entries that say the member came into, or left, a room
    net,             \* entries that switch a flag on, less those that switch it off, since
    since,           \* the flags the member came into the room with
    steps

vars == <<where, flags, asking, came, went, net, since, steps>>

Nothing == [m \in Members |-> [f \in Flags |-> 0]]
NoEntry == [m \in Members |-> [r \in Channels |-> 0]]

TypeOK ==
    /\ where \in [Members -> Channels \cup {Out}]
    /\ flags \in [Members -> SUBSET Flags] /\ since \in [Members -> SUBSET Flags]
    /\ asking \subseteq [n : 1 .. MaxSteps, who : Members, from : Channels, to : Channels \cup {Out}]
    /\ came \in [Members -> [Channels -> Nat]] /\ went \in [Members -> [Channels -> Nat]]
    /\ net \in [Members -> [Flags -> Int]]
    /\ steps \in 0 .. MaxSteps

Init ==
    /\ where = [m \in Members |-> Out]
    /\ flags = [m \in Members |-> {}] /\ since = flags
    /\ asking = {}
    /\ came = NoEntry /\ went = NoEntry /\ net = Nothing
    /\ steps = 0

(* Where and how a member now is.  Only a stage room suppresses.           *)
Sends(m, room, now) ==
    /\ steps < MaxSteps /\ steps' = steps + 1
    /\ Suppress \in now => room \in Stages
    /\ where' = [where EXCEPT ![m] = room]
    /\ flags' = [flags EXCEPT ![m] = now]

Enters(m, room) == came' = [came EXCEPT ![m][room] = @ + 1]

(* What a member brings into a room is not logged.                         *)
BringsAlong(m, now) ==
    /\ since' = [since EXCEPT ![m] = now]
    /\ net' = [net EXCEPT ![m] = Nothing[m]]

Join(m, room, now) ==
    /\ where[m] = Out /\ Sends(m, room, now)
    /\ Enters(m, room) /\ BringsAlong(m, now)
    /\ UNCHANGED <<asking, went>>

(* Out of the room, or into another one: the audit log is asked first.     *)
Departs(m, to, now) ==
    /\ where[m] \in Channels \ {to} /\ Sends(m, to, now)
    /\ asking' = asking \cup {[n |-> steps + 1, who |-> m, from |-> where[m], to |-> to]}
    /\ BringsAlong(m, now)
    /\ UNCHANGED <<came, went>>

Hangs(m)      == Departs(m, Out, {})
Moves(m, now) == \E room \in Channels : Departs(m, room, now)

(* Moved or disconnected by a moderator, or by the member, it is one entry *)
(* that names both rooms.                                                  *)
Answered(a) ==
    /\ asking' = asking \ {a}
    /\ went' = [went EXCEPT ![a.who][a.from] = @ + 1]
    /\ IF a.to = Out THEN UNCHANGED came ELSE Enters(a.who, a.to)
    /\ UNCHANGED <<where, flags, net, since, steps>>

(* Mutant: the first difference found is the only one logged.              *)
TogglesFirst(m, now) ==
    LET old == flags[m]
        one == CHOOSE f \in Flags : (f \in old) # (f \in now)
    IN  /\ where[m] # Out /\ now # old /\ Sends(m, where[m], now)
        /\ net' = [net EXCEPT ![m][one] = @ + (IF one \in now THEN 1 ELSE -1)]
        /\ UNCHANGED <<asking, came, went, since>>

(* Each flag that differs has its entry.                                   *)
Toggles(m, now) ==
    LET old == flags[m] IN
    /\ where[m] # Out /\ now # old /\ Sends(m, where[m], now)
    /\ net' = [net EXCEPT ![m] = [f \in Flags |->
          @[f] + (IF f \in now \ old THEN 1 ELSE IF f \in old \ now THEN -1 ELSE 0)]]
    /\ UNCHANGED <<asking, came, went, since>>

Next ==
    \/ \E m \in Members : \/ Hangs(m)
                          \/ \E now \in SUBSET Flags :
                                Moves(m, now) \/ Toggles(m, now) \/ \E room \in Channels : Join(m, room, now)
    \/ \E a \in asking : Answered(a)

Spec == Init /\ [][Next]_vars

-----------------------------------------------------------------------------
(* Properties.                                                             *)

(* Whatever the order of the entries, with no lookup under way the rooms a *)
(* member came into and left leave the room the member is in.              *)
RoomsAddUp ==
    asking = {} => \A m \in Members, r \in Channels :
        came[m][r] - went[m][r] = IF where[m] = r THEN 1 ELSE 0

(* The switches logged since a member came into a room lead from the flags *)
(* of that moment to those of now.                                         *)
FlagsAddUp ==
    \A m \in Members, f \in Flags : where[m] # Out =>
        net[m][f] = (IF f \in flags[m] THEN 1 ELSE 0) - (IF f \in since[m] THEN 1 ELSE 0)

VoiceAddsUp == RoomsAddUp /\ FlagsAddUp
=============================================================================
