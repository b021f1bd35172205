----------------------------- MODULE GuildProofs -----------------------------
(***************************************************************************)
(* Theorems about MCGuild.  The punishments (Penalties): for any number of *)
(* commands at once, any roles of the member and any number of mishaps,    *)
(* the types are kept and the record of a punishment nothing excused says  *)
(* what Discord shows.  Voice time (VoiceXp), as MCGuild composes it:      *)
(* nobody is paid for time they did not spend in voice.  The log rooms     *)
(* (LogSetup): setup repeated makes nothing twice, and the routing names   *)
(* rooms that exist.  The sync of level roles (LevelRoles): a pass nothing *)
(* disturbed leaves everybody with the roles their levels ask for.  The    *)
(* gate of the commands (CommandGate): cooldowns, floods of refusals and   *)
(* withdrawn replies.  The log (VoiceLog, DerivedState, MessageLog,        *)
(* Attribution): played back it gives what there is, and it names who did  *)
(* it.  At the end, the types of every part.                               *)
(***************************************************************************)
EXTENDS MCGuild, FiniteSetTheorems, WellFoundedInduction, TLAPS

-----------------------------------------------------------------------------
(* The inductive invariant: what holds in the middle of each command.      *)

RoleKinds == {"mute", "prison", "blacklist"}

On(h, k) == hand[h].cmd \in DOMAIN Program /\ KindOf[hand[h].cmd] = k

RowSays(k) == (row[k] # NoRow) <=> RoleOf[k] \in held

Granted(x) == \/ x.cmd \in {"mute", "blacklist"} /\ x.step = 2
              \/ x.cmd = "prison" /\ x.step = 3
Revoked(x) == x.cmd \in {"unmute", "unblacklist"} /\ x.step = 2
Taken(x)   == x.cmd = "unprison" /\ x.step \in {2, 3}

(* A command on kind k that stands at x has changed the role or the row,   *)
(* and not yet the other.                                                  *)
RoleMid(x, k) ==
    /\ Granted(x) => RoleOf[k] \in held
    /\ Revoked(x) => RoleOf[k] \notin held
    /\ Taken(x)   => row[k] = NoRow
    /\ Granted(x) \/ Revoked(x) \/ Taken(x) \/ RowSays(k)

(* /block has read the row and not yet written it; /unblock has taken it   *)
(* and will write back the rest.                                           *)
BlockMid(x) ==
    /\ x.cmd = "block" => InRow("block") = standing
    /\ x.cmd = "block" /\ x.step \in {2, 3} => x.known = InRow("block")
    /\ x.cmd = "unblock" /\ x.step = 1 => InRow("block") = standing
    /\ x.cmd = "unblock" /\ x.step = 2 => row["block"] = NoRow /\ x.known \ x.on = standing

RoleAgrees(k) ==
    /\ (\A h \in Handlers : ~On(h, k)) => RowSays(k)
    /\ \A h \in Handlers : On(h, k) => RoleMid(hand[h], k)

BlockAgrees ==
    /\ (\A h \in Handlers : ~On(h, "block")) => InRow("block") = standing
    /\ \A h \in Handlers : On(h, "block") => BlockMid(hand[h])

Working(x) == x = Idle \/ (x.cmd \in DOMAIN Program /\ x.step \in 1 .. Len(Program[x.cmd]))

(* Two commands on one kind at once excuse the kind.                       *)
Alone == \A h, g \in Handlers : \A k \in Kinds : h # g /\ On(h, k) /\ On(g, k) => k \in excused

Agree ==
    /\ \A k \in RoleKinds \ excused : RoleAgrees(k)
    /\ excused \cap {"block", "missed"} = {} => BlockAgrees

PenaltyInv ==
    /\ TypeOK
    /\ \A h \in Handlers : Working(hand[h])
    /\ Alone
    /\ Agree

-----------------------------------------------------------------------------
(* The commands and what they do next.                                     *)

LEMMA ProgramIs ==
    /\ DOMAIN Program = {"mute", "unmute", "blacklist", "unblacklist", "prison", "unprison",
                         "block", "unblock"}
    /\ Program["mute"] = <<"grant", "save">> /\ Program["unmute"] = <<"revoke", "take">>
    /\ Program["blacklist"] = <<"grant", "save">> /\ Program["unblacklist"] = <<"revoke", "take">>
    /\ Program["prison"] = <<"snapshot", "grant", "save">>
    /\ Program["unprison"] = <<"take", "give back", "revoke">>
    /\ Program["block"] = <<"read", "take away", "save">>
    /\ Program["unblock"] = <<"take", "write back">>
BY DEF Program

LEMMA KindsAre ==
    /\ KindOf["mute"] = "mute" /\ KindOf["unmute"] = "mute"
    /\ KindOf["prison"] = "prison" /\ KindOf["unprison"] = "prison"
    /\ KindOf["blacklist"] = "blacklist" /\ KindOf["unblacklist"] = "blacklist"
    /\ KindOf["block"] = "block" /\ KindOf["unblock"] = "block"
BY DEF KindOf

LEMMA RolesAre ==
    /\ DOMAIN RoleOf = RoleKinds
    /\ RoleOf["mute"] = "muted" /\ RoleOf["prison"] = "jailed" /\ RoleOf["blacklist"] = "listed"
    /\ \A k \in RoleKinds : RoleOf[k] \in Roles /\ RoleOf[k] \notin Ordinary
    /\ \A j, k \in RoleKinds : RoleOf[j] = RoleOf[k] => j = k
    /\ RoleKinds \subseteq Kinds /\ "block" \in Kinds /\ "block" \notin RoleKinds
BY RolesApart DEF RoleOf, RoleKinds, Roles, Kinds

(* What a command is to do, at each of its steps.                          *)
Two(c, t, u) == Len(Program[c]) = 2 /\ Program[c][1] = t /\ Program[c][2] = u

Three(c, t, u, v) ==
    Len(Program[c]) = 3 /\ Program[c][1] = t /\ Program[c][2] = u /\ Program[c][3] = v

LEMMA TwoSteps ==
    ASSUME NEW c, NEW t, NEW u, Program[c] = <<t, u>>
    PROVE  Two(c, t, u)
BY DEF Two

LEMMA ThreeSteps ==
    ASSUME NEW c, NEW t, NEW u, NEW v, Program[c] = <<t, u, v>>
    PROVE  Three(c, t, u, v)
BY DEF Three

LEMMA AtTwo ==
    ASSUME NEW c, NEW t, NEW u, Two(c, t, u), NEW n \in 1 .. Len(Program[c])
    PROVE  (n = 1 /\ Program[c][n] = t) \/ (n = 2 /\ Program[c][n] = u)
BY DEF Two

LEMMA StepsAre ==
    /\ Two("mute", "grant", "save")
    /\ Two("blacklist", "grant", "save")
    /\ Two("unmute", "revoke", "take")
    /\ Two("unblacklist", "revoke", "take")
    /\ Two("unblock", "take", "write back")
    /\ Three("prison", "snapshot", "grant", "save")
    /\ Three("unprison", "take", "give back", "revoke")
    /\ Three("block", "read", "take away", "save")
BY ProgramIs, TwoSteps, ThreeSteps

LEMMA LengthsAre ==
    \A c \in DOMAIN Program : KindOf[c] \in Kinds /\ Len(Program[c]) \in {2, 3}
<1> SUFFICES ASSUME NEW c \in DOMAIN Program
             PROVE  KindOf[c] \in Kinds /\ Len(Program[c]) \in {2, 3}
  OBVIOUS
<1>1. c \in {"mute", "unmute", "blacklist", "unblacklist", "prison", "unprison", "block", "unblock"}
  BY ProgramIs
<1>2. KindOf[c] \in Kinds
  BY <1>1, KindsAre DEF Kinds
<1>3. Len(Program[c]) \in {2, 3}
  BY <1>1, StepsAre DEF Two, Three
<1>4. QED
  BY <1>2, <1>3

LEMMA NobodyIsNoCommand == "none" \notin DOMAIN Program /\ Idle.cmd = "none" /\ Idle \in Hand
<1>1. "none" \notin DOMAIN Program
  BY ProgramIs
<1>2. Idle.cmd = "none"
  BY DEF Idle
<1>3. Idle \in Hand
  BY DEF Idle, Hand
<1>4. QED
  BY <1>1, <1>2, <1>3

(* What a handler is about to do says which command it serves, and where.  *)
AtStep(todo, cmd, step) ==
    /\ todo = "grant" => \/ cmd \in {"mute", "blacklist"} /\ step = 1
                         \/ cmd = "prison" /\ step = 2
    /\ todo = "revoke" => \/ cmd \in {"unmute", "unblacklist"} /\ step = 1
                          \/ cmd = "unprison" /\ step = 3
    /\ todo = "save" => \/ cmd \in {"mute", "blacklist"} /\ step = 2
                        \/ cmd \in {"prison", "block"} /\ step = 3
    /\ todo = "take" => \/ cmd \in {"unmute", "unblacklist"} /\ step = 2
                        \/ cmd \in {"unprison", "unblock"} /\ step = 1
    /\ todo = "snapshot"   => cmd = "prison" /\ step = 1
    /\ todo = "give back"  => cmd = "unprison" /\ step = 2
    /\ todo = "read"       => cmd = "block" /\ step = 1
    /\ todo = "take away"  => cmd = "block" /\ step = 2
    /\ todo = "write back" => cmd = "unblock" /\ step = 2

LEMMA Places ==
    ASSUME NEW cmd \in DOMAIN Program, NEW step \in 1 .. Len(Program[cmd])
    PROVE  AtStep(Program[cmd][step], cmd, step)
<1>1. CASE cmd = "mute"
  <2>1. \/ step = 1 /\ Program[cmd][step] = "grant"
        \/ step = 2 /\ Program[cmd][step] = "save"
    BY <1>1, StepsAre, AtTwo
  <2>2. QED
    BY <1>1, <2>1 DEF AtStep
<1>2. CASE cmd = "blacklist"
  <2>1. \/ step = 1 /\ Program[cmd][step] = "grant"
        \/ step = 2 /\ Program[cmd][step] = "save"
    BY <1>2, StepsAre, AtTwo
  <2>2. QED
    BY <1>2, <2>1 DEF AtStep
<1>3. CASE cmd = "unmute"
  <2>1. \/ step = 1 /\ Program[cmd][step] = "revoke"
        \/ step = 2 /\ Program[cmd][step] = "take"
    BY <1>3, StepsAre, AtTwo
  <2>2. QED
    BY <1>3, <2>1 DEF AtStep
<1>4. CASE cmd = "unblacklist"
  <2>1. \/ step = 1 /\ Program[cmd][step] = "revoke"
        \/ step = 2 /\ Program[cmd][step] = "take"
    BY <1>4, StepsAre, AtTwo
  <2>2. QED
    BY <1>4, <2>1 DEF AtStep
<1>5. CASE cmd = "unblock"
  <2>1. \/ step = 1 /\ Program[cmd][step] = "take"
        \/ step = 2 /\ Program[cmd][step] = "write back"
    BY <1>5, StepsAre, AtTwo
  <2>2. QED
    BY <1>5, <2>1 DEF AtStep
<1>6. CASE cmd = "prison"
  <2>1. Three(cmd, "snapshot", "grant", "save")
    BY <1>6, StepsAre
  <2>2. step \in {1, 2, 3}
    <3>1. Len(Program[cmd]) = 3
      BY <2>1 DEF Three
    <3>2. QED
      BY <3>1
  <2>3. \/ step = 1 /\ Program[cmd][step] = "snapshot"
        \/ step = 2 /\ Program[cmd][step] = "grant"
        \/ step = 3 /\ Program[cmd][step] = "save"
    BY <2>1, <2>2 DEF Three
  <2>4. QED
    BY <1>6, <2>3 DEF AtStep
<1>7. CASE cmd = "unprison"
  <2>1. Three(cmd, "take", "give back", "revoke")
    BY <1>7, StepsAre
  <2>2. step \in {1, 2, 3}
    <3>1. Len(Program[cmd]) = 3
      BY <2>1 DEF Three
    <3>2. QED
      BY <3>1
  <2>3. \/ step = 1 /\ Program[cmd][step] = "take"
        \/ step = 2 /\ Program[cmd][step] = "give back"
        \/ step = 3 /\ Program[cmd][step] = "revoke"
    BY <2>1, <2>2 DEF Three
  <2>4. QED
    BY <1>7, <2>3 DEF AtStep
<1>8. CASE cmd = "block"
  <2>1. Three(cmd, "read", "take away", "save")
    BY <1>8, StepsAre
  <2>2. step \in {1, 2, 3}
    <3>1. Len(Program[cmd]) = 3
      BY <2>1 DEF Three
    <3>2. QED
      BY <3>1
  <2>3. \/ step = 1 /\ Program[cmd][step] = "read"
        \/ step = 2 /\ Program[cmd][step] = "take away"
        \/ step = 3 /\ Program[cmd][step] = "save"
    BY <2>1, <2>2 DEF Three
  <2>4. QED
    BY <1>8, <2>3 DEF AtStep
<1>9. QED
  BY <1>1, <1>2, <1>3, <1>4, <1>5, <1>6, <1>7, <1>8, ProgramIs

LEMMA Doing ==
    ASSUME PenaltyInv, NEW h \in Handlers, Next2Do(h) # "none"
    PROVE  /\ hand[h].cmd \in DOMAIN Program /\ hand[h] \in Hand /\ hand[h] # Idle
           /\ hand[h].step \in 1 .. Len(Program[hand[h].cmd])
           /\ AtStep(Next2Do(h), hand[h].cmd, hand[h].step)
           /\ Kind(h) \in Kinds /\ On(h, Kind(h))
<1>1. hand[h] \in Hand /\ Working(hand[h])
  BY DEF PenaltyInv, TypeOK
<1>2. hand[h] # Idle
  BY DEF Next2Do, Idle
<1>3. hand[h].cmd \in DOMAIN Program /\ hand[h].step \in 1 .. Len(Program[hand[h].cmd])
  BY <1>1, <1>2 DEF Working
<1>4. Next2Do(h) = Program[hand[h].cmd][hand[h].step]
  BY DEF Next2Do
<1>5. AtStep(Next2Do(h), hand[h].cmd, hand[h].step)
  BY <1>3, <1>4, Places
<1>6. Kind(h) \in Kinds /\ On(h, Kind(h))
  BY <1>3, LengthsAre DEF Kind, On
<1>7. QED
  BY <1>1, <1>2, <1>3, <1>5, <1>6

(* The handler's record after a step, and nobody else's.                   *)
Onward(h, list) ==
    /\ hand' \in [Handlers -> Hand]
    /\ \A g \in Handlers \ {h} : hand'[g] = hand[g]
    /\ Working(hand[h])'
    /\ IF hand[h].step = Len(Program[hand[h].cmd]) THEN hand'[h] = Idle
       ELSE /\ hand'[h].cmd = hand[h].cmd /\ hand'[h].on = hand[h].on
            /\ hand'[h].known = list /\ hand'[h].step = hand[h].step + 1

LEMMA GoOnIs ==
    ASSUME PenaltyInv, NEW h \in Handlers, Next2Do(h) # "none", NEW list \in SUBSET Roles,
           GoOn(h, list)
    PROVE  Onward(h, list)
<1> DEFINE x == hand[h]
           n == Len(Program[x.cmd])
<1>1. x \in Hand /\ x.cmd \in DOMAIN Program /\ x # Idle /\ hand \in [Handlers -> Hand]
  BY Doing DEF PenaltyInv, TypeOK
<1>2. x.step \in 1 .. n /\ n \in {2, 3}
  <2>1. Working(x)
    BY DEF PenaltyInv
  <2>2. QED
    BY <1>1, <2>1, LengthsAre DEF Working
<1>3. hand' = [hand EXCEPT ![h] = IF hand[h].step = Len(Program[hand[h].cmd]) THEN Idle
                                  ELSE [hand[h] EXCEPT !.step = hand[h].step + 1, !.known = list]]
  BY DEF GoOn
<1> DEFINE y == [x EXCEPT !.step = x.step + 1, !.known = list]
<1>4. CASE x.step = n
  <2>1. hand' = [hand EXCEPT ![h] = Idle]
    BY <1>3, <1>4
  <2>2. QED
    BY <1>1, <1>4, <2>1, NobodyIsNoCommand DEF Onward, Working
<1>5. CASE x.step # n
  <2>1. y = [x EXCEPT !.step = x.step + 1, !.known = list] /\ hand' = [hand EXCEPT ![h] = y]
    BY <1>3, <1>5
  <2> HIDE DEF y, n
  <2>2. y = [cmd |-> x.cmd, on |-> x.on, known |-> list, step |-> x.step + 1]
    <3> HIDE DEF x
    <3>1. QED
      BY <1>1, <2>1 DEF Hand
  <2>3. x.step + 1 \in 2 .. n /\ x.step + 1 \in 0 .. 3
    BY <1>2, <1>5
  <2>4. y \in Hand
    <3> HIDE DEF x
    <3>1. QED
      BY <1>1, <2>2, <2>3 DEF Hand
  <2>5. hand' \in [Handlers -> Hand] /\ hand'[h] = y /\ \A g \in Handlers \ {h} : hand'[g] = hand[g]
    BY <1>1, <2>1, <2>4
  <2>6. Working(hand[h])'
    BY <1>1, <1>2, <2>2, <2>3, <2>5 DEF Working, n
  <2>7. QED
    BY <1>5, <2>2, <2>5, <2>6 DEF Onward, n
<1>6. QED
  BY <1>4, <1>5

LEMMA StopIs ==
    ASSUME PenaltyInv, NEW h \in Handlers, Stop(h)
    PROVE  /\ hand' \in [Handlers -> Hand] /\ hand'[h] = Idle /\ Working(hand[h])'
           /\ \A g \in Handlers \ {h} : hand'[g] = hand[g]
BY NobodyIsNoCommand DEF Stop, PenaltyInv, TypeOK, Working

-----------------------------------------------------------------------------
(* What a step may do to the agreement.                                    *)

Same(j) == row'[j] = row[j] /\ (RoleOf[j] \in held' <=> RoleOf[j] \in held)

BlockExcused == excused \cap {"block", "missed"} # {}

LEMMA SameAgrees ==
    ASSUME NEW j \in RoleKinds, RoleAgrees(j), Same(j),
           \A g \in Handlers : (On(g, j)' <=> On(g, j)) /\ (On(g, j) => hand'[g] = hand[g])
    PROVE  RoleAgrees(j)'
<1>1. RowSays(j)' <=> RowSays(j)
  BY DEF RowSays, Same
<1>2. ASSUME NEW g \in Handlers, On(g, j)
      PROVE  RoleMid(hand[g], j)'
  <2>1. RoleMid(hand[g], j) /\ hand'[g] = hand[g]
    BY <1>2 DEF RoleAgrees
  <2>2. QED
    BY <1>1, <2>1 DEF RoleMid, Same, Granted, Revoked, Taken
<1>3. QED
  BY <1>1, <1>2 DEF RoleAgrees

LEMMA SameBlockAgrees ==
    ASSUME BlockAgrees, row'["block"] = row["block"], standing' = standing,
           \A g \in Handlers : (On(g, "block")' <=> On(g, "block")) /\ (On(g, "block") => hand'[g] = hand[g])
    PROVE  BlockAgrees'
<1>1. InRow("block")' = InRow("block")
  BY DEF InRow
<1>2. ASSUME NEW g \in Handlers, On(g, "block")
      PROVE  BlockMid(hand[g])'
  <2>1. BlockMid(hand[g]) /\ hand'[g] = hand[g]
    BY <1>2 DEF BlockAgrees
  <2>2. QED
    BY <1>1, <2>1 DEF BlockMid
<1>3. QED
  BY <1>1, <1>2 DEF BlockAgrees

(* No command moves.                                                       *)
LEMMA StillAgrees ==
    ASSUME PenaltyInv, hand' = hand, excused \subseteq excused',
           \A j \in RoleKinds \ excused' : Same(j),
           BlockExcused' \/ (row'["block"] = row["block"] /\ standing' = standing)
    PROVE  Agree' /\ Alone'
<1>1. \A g, k : On(g, k)' <=> On(g, k)
  BY DEF On
<1>2. Alone'
  BY <1>1 DEF PenaltyInv, Alone
<1>3. ASSUME NEW j \in RoleKinds \ excused'
      PROVE  RoleAgrees(j)'
  BY <1>1, SameAgrees DEF PenaltyInv, Agree
<1>4. ~BlockExcused' => BlockAgrees'
  BY <1>1, SameBlockAgrees DEF PenaltyInv, Agree, BlockExcused
<1>5. QED
  BY <1>2, <1>3, <1>4 DEF Agree, BlockExcused

(* One command moves: the kind it is about agrees, the others are left.    *)
LEMMA HandlerKeepsAgree ==
    ASSUME PenaltyInv, NEW h \in Handlers, NEW k \in Kinds, On(h, k),
           \A g \in Handlers \ {h} : hand'[g] = hand[g],
           hand'[h] = Idle \/ hand'[h].cmd = hand[h].cmd,
           excused \subseteq excused',
           \A j \in RoleKinds \ (excused' \cup {k}) : Same(j),
           k \in RoleKinds \ excused' => IF hand'[h] = Idle THEN RowSays(k)' ELSE RoleMid(hand[h], k)',
           k # "block" => BlockExcused' \/ (row'["block"] = row["block"] /\ standing' = standing),
           k = "block" => \/ BlockExcused'
                          \/ IF hand'[h] = Idle THEN InRow("block")' = standing' ELSE BlockMid(hand[h])'
    PROVE  Agree' /\ Alone'
<1>1. \A g \in Handlers : \A j : On(g, j)' => On(g, j)
  BY NobodyIsNoCommand DEF On
<1>2. Alone'
  BY <1>1 DEF PenaltyInv, Alone
<1>3. On(h, k)' <=> hand'[h] # Idle
  BY NobodyIsNoCommand DEF On
<1>4. \A g \in Handlers \ {h} : \A j : On(g, j)' <=> On(g, j)
  BY DEF On
<1>5. \A j : j # k => ~On(h, j) /\ ~On(h, j)'
  BY <1>1 DEF On
<1>6. \A g \in Handlers \ {h} : k \notin excused => ~On(g, k)
  BY DEF PenaltyInv, Alone
<1>7. ASSUME NEW j \in RoleKinds \ excused'
      PROVE  RoleAgrees(j)'
  <2>1. CASE j = k
    <3>1. \A g \in Handlers \ {h} : ~On(g, j)'
      BY <1>4, <1>6, <2>1
    <3>2. CASE hand'[h] = Idle
      BY <1>3, <2>1, <3>1, <3>2 DEF RoleAgrees
    <3>3. CASE hand'[h] # Idle
      BY <1>3, <2>1, <3>1, <3>3 DEF RoleAgrees
    <3>4. QED
      BY <3>2, <3>3
  <2>2. CASE j # k
    <3>1. RoleAgrees(j) /\ Same(j)
      BY <2>2 DEF PenaltyInv, Agree
    <3>2. \A g \in Handlers : (On(g, j)' <=> On(g, j)) /\ (On(g, j) => hand'[g] = hand[g])
      BY <1>4, <1>5, <2>2
    <3>3. QED
      BY <3>1, <3>2, SameAgrees
  <2>3. QED
    BY <2>1, <2>2
<1>8. ~BlockExcused' => BlockAgrees'
  <2>1. CASE k = "block"
    <3>1. ~BlockExcused' => \A g \in Handlers \ {h} : ~On(g, "block")'
      BY <1>4, <1>6, <2>1 DEF BlockExcused
    <3>2. QED
      BY <1>3, <2>1, <3>1 DEF BlockAgrees
  <2>2. CASE k # "block"
    <3>1. \A g \in Handlers : (On(g, "block")' <=> On(g, "block")) /\ (On(g, "block") => hand'[g] = hand[g])
      BY <1>4, <1>5, <2>2
    <3>2. ~BlockExcused' => BlockAgrees
      BY DEF PenaltyInv, Agree, BlockExcused
    <3>3. QED
      BY <2>2, <3>1, <3>2, SameBlockAgrees
  <2>3. QED
    BY <2>1, <2>2
<1>9. QED
  BY <1>2, <1>7, <1>8 DEF Agree, BlockExcused

-----------------------------------------------------------------------------
(* The steps.                                                              *)

(* Only h's record moves, on or to Idle.                                   *)
Moves(h) ==
    /\ hand' \in [Handlers -> Hand]
    /\ Working(hand[h])'
    /\ \A g \in Handlers \ {h} : hand'[g] = hand[g]
    /\ hand'[h] = Idle \/ hand'[h].cmd = hand[h].cmd

LEMMA OnwardMoves ==
    ASSUME NEW h \in Handlers, NEW list, Onward(h, list)
    PROVE  Moves(h)
BY DEF Onward, Moves

LEMMA StopMoves ==
    ASSUME PenaltyInv, NEW h \in Handlers, Stop(h)
    PROVE  Moves(h)
BY StopIs DEF Moves

LEMMA MovesKeep ==
    ASSUME PenaltyInv, NEW h \in Handlers, Moves(h), TypeOK', Agree', Alone'
    PROVE  PenaltyInv'
<1>1. ASSUME NEW g \in Handlers
      PROVE  Working(hand[g])'
  <2>1. CASE g = h
    BY <2>1 DEF Moves
  <2>2. CASE g # h
    <3>1. hand'[g] = hand[g] /\ Working(hand[g])
      BY <2>2 DEF Moves, PenaltyInv
    <3>2. QED
      BY <3>1 DEF Working
  <2>3. QED
    BY <2>1, <2>2
<1>2. QED
  BY <1>1 DEF PenaltyInv

(* What is list of a handler in the middle of a command on a kind that is *)
(* not excused.                                                            *)
LEMMA InTheMiddle ==
    ASSUME PenaltyInv, NEW h \in Handlers, NEW k \in Kinds, On(h, k)
    PROVE  /\ k \in RoleKinds \ excused => RoleMid(hand[h], k)
           /\ k = "block" /\ ~BlockExcused => BlockMid(hand[h])
BY DEF PenaltyInv, Agree, RoleAgrees, BlockAgrees, BlockExcused

LEMMA MishapIs ==
    ASSUME PenaltyInv, NEW S \in SUBSET Kinds, Mishap(S)
    PROVE  /\ excused' = excused \cup S /\ excused' \subseteq Kinds \cup {"missed"}
           /\ mishaps' \in 0 .. MaxMishaps
BY CommandsBounds DEF Mishap, PenaltyInv, TypeOK

LEMMA NoMishap ==
    ASSUME PenaltyInv, Calm \/ Mishap({})
    PROVE  excused' = excused /\ mishaps' \in 0 .. MaxMishaps
BY CommandsBounds DEF Mishap, Calm, PenaltyInv, TypeOK

LEMMA CommandsAre ==
    \A c \in {"mute", "unmute", "blacklist", "unblacklist", "prison", "unprison", "block", "unblock"} :
        c \in DOMAIN Program
BY ProgramIs

LEMMA RoleHandlerKeeps ==
    ASSUME PenaltyInv, NEW h \in Handlers, NEW k \in RoleKinds, On(h, k), Moves(h),
           excused \subseteq excused',
           \A j \in RoleKinds \ (excused' \cup {k}) : Same(j),
           k \notin excused' => IF hand'[h] = Idle THEN RowSays(k)' ELSE RoleMid(hand[h], k)',
           row'["block"] = row["block"], standing' = standing
    PROVE  Agree' /\ Alone'
<1>1. k \in Kinds /\ k # "block"
  BY RolesAre
<1>2. QED
  BY <1>1, HandlerKeepsAgree DEF Moves

LEMMA BlockHandlerKeeps ==
    ASSUME PenaltyInv, NEW h \in Handlers, On(h, "block"), Moves(h),
           excused \subseteq excused',
           \A j \in RoleKinds \ excused' : Same(j),
           \/ BlockExcused'
           \/ IF hand'[h] = Idle THEN InRow("block")' = standing' ELSE BlockMid(hand[h])'
    PROVE  Agree' /\ Alone'
<1>1. PICK k : k = "block"
  OBVIOUS
<1>2. k \in Kinds /\ k \notin RoleKinds
  BY <1>1, RolesAre
<1>3. /\ On(h, k)
      /\ \A g \in Handlers \ {h} : hand'[g] = hand[g]
      /\ hand'[h] = Idle \/ hand'[h].cmd = hand[h].cmd
  BY <1>1 DEF Moves
<1>4. QED
  BY <1>1, <1>2, <1>3, HandlerKeepsAgree

(* A handler that is not at its last step goes on to the next.             *)
LEMMA OnwardTo ==
    ASSUME NEW h \in Handlers, NEW list, Onward(h, list), hand[h].cmd \in DOMAIN Program,
           hand[h].step # Len(Program[hand[h].cmd])
    PROVE  /\ hand'[h].cmd = hand[h].cmd /\ hand'[h].step = hand[h].step + 1
           /\ hand'[h].known = list /\ hand'[h].on = hand[h].on
           /\ hand'[h] # Idle
BY NobodyIsNoCommand DEF Onward

LEMMA LengthOf ==
    /\ Len(Program["mute"]) = 2 /\ Len(Program["unmute"]) = 2 /\ Len(Program["blacklist"]) = 2
    /\ Len(Program["unblacklist"]) = 2 /\ Len(Program["unblock"]) = 2
    /\ Len(Program["prison"]) = 3 /\ Len(Program["unprison"]) = 3 /\ Len(Program["block"]) = 3
BY StepsAre DEF Two, Three

LEMMA HandRanges ==
    ASSUME PenaltyInv, NEW h \in Handlers
    PROVE  /\ hand[h] \in Hand /\ hand[h].on \in SUBSET Ordinary
           /\ hand[h].known \in SUBSET Roles /\ hand[h].on \in SUBSET Roles
<1>1. hand[h] \in Hand
  BY DEF PenaltyInv, TypeOK
<1>2. hand[h].on \in SUBSET Ordinary /\ hand[h].known \in SUBSET Roles
  BY <1>1 DEF Hand
<1>3. QED
  BY <1>1, <1>2 DEF Roles

LEMMA InRowIs ==
    ASSUME PenaltyInv, NEW k \in Kinds
    PROVE  InRow(k) \in SUBSET Roles
BY DEF PenaltyInv, TypeOK, InRow

LEMMA SnapshotKeeps ==
    ASSUME PenaltyInv, NEW h \in Handlers, Snapshot(h)
    PROVE  PenaltyInv'
<1>1. /\ Next2Do(h) = "snapshot" /\ Next2Do(h) # "none"
      /\ UNCHANGED <<held, row, standing, given>>
  BY DEF Snapshot
<1>2. /\ hand[h].cmd = "prison" /\ hand[h].step = 1 /\ On(h, "prison")
  BY <1>1, Doing, KindsAre DEF AtStep, On
<1>3. PICK list \in SUBSET Roles :
         /\ GoOn(h, list)
         /\ roleCache' \in {NoRow} \cup SUBSET Roles
         /\ Calm \/ Mishap({})
  BY DEF Snapshot, PenaltyInv, TypeOK
<1>4. Onward(h, list)
  BY <1>1, <1>3, GoOnIs
<1>5. excused' = excused /\ mishaps' \in 0 .. MaxMishaps
  BY <1>3, NoMishap
<1>6. Moves(h)
  BY <1>4, OnwardMoves
<1>7. TypeOK'
  BY <1>1, <1>3, <1>5, <1>6 DEF PenaltyInv, TypeOK, Moves
<1>8. hand'[h].cmd = "prison" /\ hand'[h].step = 2 /\ hand'[h] # Idle
  <2>1. hand[h].cmd \in DOMAIN Program /\ hand[h].step # Len(Program[hand[h].cmd])
    BY <1>2, LengthOf, CommandsAre
  <2>2. /\ hand'[h].cmd = hand[h].cmd /\ hand'[h].step = hand[h].step + 1
        /\ hand'[h] # Idle /\ hand'[h].known = list
    BY <1>4, <2>1, OnwardTo
  <2>3. QED
    BY <1>2, <2>2
<1>9. "prison" \in RoleKinds \ excused' => RoleMid(hand[h], "prison")'
  <2>1. SUFFICES ASSUME "prison" \in RoleKinds \ excused
                 PROVE  RoleMid(hand[h], "prison")'
    BY <1>5
  <2>2. RowSays("prison")
    BY <1>2, <2>1, InTheMiddle, RolesAre DEF RoleMid, Granted, Revoked, Taken
  <2>3. QED
    BY <1>1, <1>8, <2>2 DEF RoleMid, RowSays, Granted, Revoked, Taken
<1>10. Agree' /\ Alone'
  <2>1. \A j \in RoleKinds \ (excused' \cup {"prison"}) : Same(j)
    BY <1>1 DEF Same
  <2>2. QED
    BY <1>1, <1>2, <1>5, <1>6, <1>8, <1>9, <2>1, RoleHandlerKeeps DEF RoleKinds
<1>11. QED
  BY <1>6, <1>7, <1>10, MovesKeep

LEMMA ReadKeeps ==
    ASSUME PenaltyInv, NEW h \in Handlers, Read(h)
    PROVE  PenaltyInv'
<1>1. /\ Next2Do(h) = "read" /\ Next2Do(h) # "none" /\ GoOn(h, InRow(Kind(h)))
      /\ UNCHANGED <<held, row, roleCache, standing, excused, given, mishaps>>
  BY DEF Read
<1>2. /\ hand[h].cmd = "block" /\ hand[h].step = 1 /\ On(h, "block") /\ Kind(h) = "block"
  BY <1>1, Doing, KindsAre DEF AtStep, On, Kind
<1>3. InRow("block") \in SUBSET Roles
  BY InRowIs, RolesAre
<1>4. Onward(h, InRow("block"))
  BY <1>1, <1>2, <1>3, GoOnIs
<1>5. Moves(h)
  BY <1>4, OnwardMoves
<1>6. TypeOK'
  BY <1>1, <1>5 DEF PenaltyInv, TypeOK, Moves
<1>7. /\ hand'[h].cmd = "block" /\ hand'[h].step = 2 /\ hand'[h] # Idle
      /\ hand'[h].known = InRow("block")
  <2>1. hand[h].cmd \in DOMAIN Program /\ hand[h].step # Len(Program[hand[h].cmd])
    BY <1>2, LengthOf, CommandsAre
  <2>2. /\ hand'[h].cmd = hand[h].cmd /\ hand'[h].step = hand[h].step + 1
        /\ hand'[h] # Idle /\ hand'[h].known = InRow("block")
    BY <1>4, <2>1, OnwardTo
  <2>3. QED
    BY <1>2, <2>2
<1>8. BlockExcused' \/ BlockMid(hand[h])'
  <2>1. SUFFICES ASSUME ~BlockExcused
                 PROVE  BlockMid(hand[h])'
    BY <1>1 DEF BlockExcused
  <2>2. InRow("block") = standing
    BY <1>2, <2>1, InTheMiddle, RolesAre DEF BlockMid
  <2>3. InRow("block")' = InRow("block")
    BY <1>1 DEF InRow
  <2>4. QED
    BY <1>1, <1>7, <2>2, <2>3 DEF BlockMid
<1>9. Agree' /\ Alone'
  <2>1. \A j \in RoleKinds \ excused' : Same(j)
    BY <1>1 DEF Same
  <2>2. QED
    BY <1>1, <1>2, <1>5, <1>7, <1>8, <2>1, BlockHandlerKeeps
<1>10. QED
  BY <1>5, <1>6, <1>9, MovesKeep

LEMMA TakeAwayKeeps ==
    ASSUME PenaltyInv, NEW h \in Handlers, TakeAway(h)
    PROVE  PenaltyInv'
<1>1. /\ Next2Do(h) = "take away" /\ Next2Do(h) # "none" /\ GoOn(h, hand[h].known)
      /\ held' \in {held, held \ hand[h].on} /\ (Calm \/ Mishap({}))
      /\ UNCHANGED <<row, roleCache, standing, given>>
  BY DEF TakeAway, Stay
<1>2. /\ hand[h].cmd = "block" /\ hand[h].step = 2 /\ On(h, "block")
  BY <1>1, Doing, KindsAre DEF AtStep, On
<1>3. /\ hand[h].on \in SUBSET Ordinary /\ hand[h].known \in SUBSET Roles
  BY HandRanges
<1>4. Onward(h, hand[h].known)
  BY <1>1, <1>3, GoOnIs
<1>5. Moves(h)
  BY <1>4, OnwardMoves
<1>6. excused' = excused /\ mishaps' \in 0 .. MaxMishaps
  BY <1>1, NoMishap
<1>7. TypeOK'
  <2>1. held' \subseteq Roles
    BY <1>1 DEF PenaltyInv, TypeOK
  <2>2. QED
    BY <1>1, <1>5, <1>6, <2>1 DEF PenaltyInv, TypeOK, Moves
<1>8. /\ hand'[h].cmd = "block" /\ hand'[h].step = 3 /\ hand'[h] # Idle
      /\ hand'[h].known = hand[h].known
  <2>1. hand[h].cmd \in DOMAIN Program /\ hand[h].step # Len(Program[hand[h].cmd])
    BY <1>2, LengthOf, CommandsAre
  <2>2. /\ hand'[h].cmd = hand[h].cmd /\ hand'[h].step = hand[h].step + 1
        /\ hand'[h] # Idle /\ hand'[h].known = hand[h].known
    BY <1>4, <2>1, OnwardTo
  <2>3. QED
    BY <1>2, <2>2
<1>9. BlockExcused' \/ BlockMid(hand[h])'
  <2>1. SUFFICES ASSUME ~BlockExcused
                 PROVE  BlockMid(hand[h])'
    BY <1>6 DEF BlockExcused
  <2>2. InRow("block") = standing /\ hand[h].known = InRow("block")
    BY <1>2, <2>1, InTheMiddle, RolesAre DEF BlockMid
  <2>3. InRow("block")' = InRow("block")
    BY <1>1 DEF InRow
  <2>4. QED
    BY <1>1, <1>8, <2>2, <2>3 DEF BlockMid
<1>10. Agree' /\ Alone'
  <2>1. ASSUME NEW j \in RoleKinds PROVE Same(j)
    <3>1. RoleOf[j] \notin hand[h].on
      BY <1>3, RolesAre
    <3>2. QED
      BY <1>1, <3>1 DEF Same
  <2>2. QED
    BY <1>2, <1>5, <1>6, <1>8, <1>9, <2>1, BlockHandlerKeeps
<1>11. QED
  BY <1>5, <1>7, <1>10, MovesKeep

LEMMA GiveBackKeeps ==
    ASSUME PenaltyInv, NEW h \in Handlers, GiveBack(h)
    PROVE  PenaltyInv'
<1>1. /\ Next2Do(h) = "give back" /\ Next2Do(h) # "none"
      /\ UNCHANGED <<row, roleCache, standing, given>>
  BY DEF GiveBack
<1>2. /\ hand[h].cmd = "unprison" /\ hand[h].step = 2 /\ On(h, "prison")
  BY <1>1, Doing, KindsAre DEF AtStep, On
<1>3. hand[h].known \in SUBSET Roles
  BY HandRanges
<1>4. ASSUME NEW some \in SUBSET hand[h].known, held' = held \cup some, GoOn(h, hand[h].known),
             excused' = excused \cup {k \in DOMAIN RoleOf : RoleOf[k] \in some \ held},
             mishaps' = mishaps \/ (mishaps < MaxMishaps /\ mishaps' = mishaps + 1)
      PROVE  PenaltyInv'
  <2>1. Onward(h, hand[h].known)
    BY <1>1, <1>3, <1>4, GoOnIs
  <2>2. Moves(h)
    BY <2>1, OnwardMoves
  <2>3. /\ held' \subseteq Roles /\ excused' \subseteq Kinds \cup {"missed"} /\ excused \subseteq excused'
        /\ mishaps' \in 0 .. MaxMishaps
    <3>1. held' \subseteq Roles /\ excused' \subseteq Kinds \cup {"missed"} /\ excused \subseteq excused'
      BY <1>3, <1>4, RolesAre DEF PenaltyInv, TypeOK
    <3>2. mishaps \in 0 .. MaxMishaps /\ MaxMishaps \in Nat
      BY CommandsBounds DEF PenaltyInv, TypeOK
    <3>3. QED
      BY <1>4, <3>1, <3>2
  <2>4. TypeOK'
    BY <1>1, <1>4, <2>2, <2>3 DEF PenaltyInv, TypeOK, Moves
  <2>5. /\ hand'[h].cmd = "unprison" /\ hand'[h].step = 3 /\ hand'[h] # Idle
    <3>1. hand[h].cmd \in DOMAIN Program /\ hand[h].step # Len(Program[hand[h].cmd])
      BY <1>2, LengthOf, CommandsAre
    <3>2. /\ hand'[h].cmd = hand[h].cmd /\ hand'[h].step = hand[h].step + 1
          /\ hand'[h] # Idle /\ hand'[h].known = hand[h].known
      BY <2>1, <3>1, OnwardTo
    <3>3. QED
      BY <1>2, <3>2
  <2>6. ASSUME NEW j \in RoleKinds \ excused'
        PROVE  Same(j)
    <3>1. ~(RoleOf[j] \in some \ held)
      BY <1>4, <2>6, RolesAre
    <3>2. QED
      BY <1>1, <1>4, <3>1 DEF Same
  <2>7. "prison" \notin excused' => RoleMid(hand[h], "prison")'
    <3>1. SUFFICES ASSUME "prison" \notin excused'
                   PROVE  RoleMid(hand[h], "prison")'
      OBVIOUS
    <3>2. row["prison"] = NoRow
      BY <1>2, <2>3, <3>1, InTheMiddle, RolesAre DEF RoleMid, Taken, RoleKinds
    <3>3. QED
      BY <1>1, <2>5, <3>2 DEF RoleMid, Granted, Revoked, Taken
  <2>8. Agree' /\ Alone'
    BY <1>1, <1>2, <2>2, <2>3, <2>5, <2>6, <2>7, RoleHandlerKeeps DEF RoleKinds
  <2>9. QED
    BY <2>2, <2>4, <2>8, MovesKeep
<1>5. CASE Stop(h) /\ UNCHANGED held /\ Mishap({"prison"})
  <2>1. Moves(h) /\ hand'[h] = Idle
    BY <1>5, StopMoves, StopIs
  <2>2. /\ excused' = excused \cup {"prison"} /\ excused' \subseteq Kinds \cup {"missed"}
        /\ mishaps' \in 0 .. MaxMishaps
    BY <1>5, MishapIs DEF Kinds
  <2>3. TypeOK'
    BY <1>1, <1>5, <2>1, <2>2 DEF PenaltyInv, TypeOK, Moves
  <2>4. \A j \in RoleKinds : Same(j)
    BY <1>1, <1>5 DEF Same
  <2>5. Agree' /\ Alone'
    BY <1>1, <1>2, <2>1, <2>2, <2>4, RoleHandlerKeeps DEF RoleKinds
  <2>6. QED
    BY <2>1, <2>3, <2>5, MovesKeep
<1>6. CASE \E some \in SUBSET hand[h].known :
              /\ held' = held \cup some /\ Stay(h)
              /\ excused' = excused \cup {k \in DOMAIN RoleOf : RoleOf[k] \in some \ held}
              /\ mishaps' = mishaps \/ (mishaps < MaxMishaps /\ mishaps' = mishaps + 1)
  BY <1>4, <1>6 DEF Stay
<1>7. QED
  BY <1>5, <1>6 DEF GiveBack, Mishap

LEMMA TakeFailsKeeps ==
    ASSUME PenaltyInv, NEW h \in Handlers, TakeFails(h)
    PROVE  PenaltyInv'
<1>1. /\ Next2Do(h) = "take" /\ Next2Do(h) # "none" /\ Stop(h)
      /\ Mishap(IF hand[h].cmd \in {"unmute", "unblacklist"} THEN {Kind(h)} ELSE {})
      /\ UNCHANGED <<held, row, roleCache, standing, given>>
  BY DEF TakeFails
<1>2. PICK k \in Kinds : k = Kind(h) /\ On(h, k)
  BY <1>1, Doing
<1>3. /\ hand[h].cmd \in DOMAIN Program /\ k = KindOf[hand[h].cmd]
      /\ \/ hand[h].cmd \in {"unmute", "unblacklist"} /\ hand[h].step = 2
         \/ hand[h].cmd \in {"unprison", "unblock"} /\ hand[h].step = 1
  BY <1>1, <1>2, Doing DEF Kind, AtStep
<1>4. Moves(h) /\ hand'[h] = Idle
  BY <1>1, StopMoves, StopIs
<1>5. /\ excused \subseteq excused' /\ excused' \subseteq Kinds \cup {"missed"} /\ mishaps' \in 0 .. MaxMishaps
      /\ hand[h].cmd \in {"unmute", "unblacklist"} => k \in excused'
  <2>1. CASE hand[h].cmd \in {"unmute", "unblacklist"}
    <3>1. Mishap({k}) /\ {k} \in SUBSET Kinds
      BY <1>1, <1>2, <2>1
    <3>2. QED
      BY <3>1, MishapIs
  <2>2. CASE hand[h].cmd \notin {"unmute", "unblacklist"}
    <3>1. Mishap({}) /\ {} \in SUBSET Kinds
      BY <1>1, <2>2
    <3>2. QED
      BY <2>2, <3>1, MishapIs
  <2>3. QED
    BY <2>1, <2>2
<1>6. TypeOK'
  BY <1>1, <1>4, <1>5 DEF PenaltyInv, TypeOK, Moves
<1>7. \A j \in RoleKinds : Same(j)
  BY <1>1 DEF Same
<1>8. InRow("block")' = InRow("block") /\ row'["block"] = row["block"]
  BY <1>1 DEF InRow
<1>9. Agree' /\ Alone'
  <2>1. CASE k \in RoleKinds
    <3>1. ASSUME k \notin excused' PROVE RowSays(k)'
      <4>1. RoleMid(hand[h], k) /\ hand[h].cmd \notin {"unmute", "unblacklist"} /\ hand[h].step = 1
        BY <1>2, <1>3, <1>5, <2>1, <3>1, InTheMiddle
      <4>2. RowSays(k)
        BY <4>1 DEF RoleMid, Granted, Revoked, Taken
      <4>3. QED
        BY <1>1, <4>2 DEF RowSays
    <3>2. QED
      BY <1>1, <1>2, <1>4, <1>5, <1>7, <1>8, <2>1, <3>1, RoleHandlerKeeps
  <2>2. CASE k = "block"
    <3>1. On(h, "block") /\ hand[h].cmd = "unblock" /\ hand[h].step = 1
      BY <1>2, <1>3, <2>2, KindsAre
    <3>2. BlockExcused' \/ InRow("block")' = standing'
      <4>1. ~BlockExcused' => ~BlockExcused
        BY <1>5 DEF BlockExcused
      <4>2. ~BlockExcused => InRow("block") = standing
        BY <3>1, InTheMiddle, RolesAre DEF BlockMid
      <4>3. QED
        BY <1>1, <1>8, <4>1, <4>2
    <3>3. QED
      BY <1>4, <1>5, <1>7, <3>1, <3>2, BlockHandlerKeeps
  <2>3. QED
    BY <1>2, <2>1, <2>2, RolesAre DEF RoleKinds, Kinds
<1>10. QED
  BY <1>4, <1>6, <1>9, MovesKeep

LEMMA TakeAndMissKeeps ==
    ASSUME PenaltyInv, NEW h \in Handlers, TakeAndMiss(h)
    PROVE  PenaltyInv'
<1>1. /\ Next2Do(h) = "take" /\ Next2Do(h) # "none" /\ Kind(h) = "block" /\ Stop(h)
      /\ row' = [row EXCEPT !["block"] = NoRow]
      /\ excused' = IF InRow("block") = {} THEN excused ELSE excused \cup {"missed"}
      /\ UNCHANGED <<held, roleCache, standing, given, mishaps>>
  BY DEF TakeAndMiss, Misses
<1>2. On(h, "block") /\ hand[h].step = 1 /\ hand[h].cmd = "unblock"
  <2>1. On(h, "block") /\ hand[h].cmd \in DOMAIN Program /\ AtStep("take", hand[h].cmd, hand[h].step)
    BY <1>1, Doing
  <2>2. KindOf[hand[h].cmd] = "block"
    BY <1>1 DEF Kind
  <2>3. QED
    BY <2>1, <2>2, KindsAre DEF AtStep
<1>3. Moves(h) /\ hand'[h] = Idle
  BY <1>1, StopMoves, StopIs
<1>4. row' \in [Kinds -> {NoRow} \cup SUBSET Roles] /\ row'["block"] = NoRow
      /\ \A j \in RoleKinds : row'[j] = row[j]
  BY <1>1, RolesAre DEF PenaltyInv, TypeOK
<1>5. excused' \subseteq Kinds \cup {"missed"} /\ excused \subseteq excused'
  BY <1>1 DEF PenaltyInv, TypeOK
<1>6. TypeOK'
  BY <1>1, <1>3, <1>4, <1>5 DEF PenaltyInv, TypeOK, Moves
<1>7. BlockExcused' \/ InRow("block")' = standing'
  <2>1. SUFFICES ASSUME ~BlockExcused'
                 PROVE  InRow("block")' = standing'
    OBVIOUS
  <2>2. InRow("block") = {} /\ ~BlockExcused
    BY <1>1, <1>5, <2>1 DEF BlockExcused
  <2>3. InRow("block") = standing
    BY <1>2, <2>2, InTheMiddle, RolesAre DEF BlockMid
  <2>4. InRow("block")' = {}
    BY <1>4 DEF InRow
  <2>5. QED
    BY <1>1, <2>2, <2>3, <2>4
<1>8. Agree' /\ Alone'
  <2>1. \A j \in RoleKinds \ excused' : Same(j)
    BY <1>1, <1>4 DEF Same
  <2>2. QED
    BY <1>2, <1>3, <1>5, <1>7, <2>1, BlockHandlerKeeps
<1>9. QED
  BY <1>3, <1>6, <1>8, MovesKeep

LEMMA WriteBackKeeps ==
    ASSUME PenaltyInv, NEW h \in Handlers, WriteBack(h)
    PROVE  PenaltyInv'
<1> DEFINE left == hand[h].known \ hand[h].on
<1>1. /\ Next2Do(h) = "write back" /\ Next2Do(h) # "none" /\ GoOn(h, hand[h].known)
      /\ UNCHANGED <<held, roleCache, standing, given>>
      /\ \/ row' = (IF left = {} THEN row ELSE [row EXCEPT !["block"] = left]) /\ Calm
         \/ Mishap({"block"}) /\ UNCHANGED row
  BY DEF WriteBack, Stay
<1>2. /\ hand[h].cmd = "unblock" /\ hand[h].step = 2 /\ On(h, "block")
  BY <1>1, Doing, KindsAre DEF AtStep, On
<1>3. left \in SUBSET Roles /\ hand[h].known \in SUBSET Roles
  BY HandRanges
<1>4. Onward(h, hand[h].known)
  BY <1>1, <1>3, GoOnIs
<1>5. Moves(h)
  BY <1>4, OnwardMoves
<1>6. hand'[h] = Idle
  <2>1. hand[h].step = Len(Program[hand[h].cmd])
    BY <1>2, LengthOf
  <2>2. QED
    BY <1>4, <2>1 DEF Onward
<1> HIDE DEF left
<1>7. CASE row' = (IF left = {} THEN row ELSE [row EXCEPT !["block"] = left]) /\ Calm
  <2>1. row' \in [Kinds -> {NoRow} \cup SUBSET Roles] /\ \A j \in RoleKinds : row'[j] = row[j]
    BY <1>3, <1>7, RolesAre DEF PenaltyInv, TypeOK
  <2>2. excused' = excused /\ mishaps' \in 0 .. MaxMishaps
    BY <1>7, NoMishap
  <2>3. TypeOK'
    BY <1>1, <1>5, <2>1, <2>2 DEF PenaltyInv, TypeOK, Moves
  <2>4. BlockExcused' \/ InRow("block")' = standing'
    <3>1. SUFFICES ASSUME ~BlockExcused
                   PROVE  InRow("block")' = standing
      BY <1>1, <2>2 DEF BlockExcused
    <3>2. row["block"] = NoRow /\ left = standing
      BY <1>2, <3>1, InTheMiddle, RolesAre DEF BlockMid, left
    <3>3. CASE left = {}
      BY <1>7, <3>2, <3>3 DEF InRow
    <3>4. CASE left # {}
      <4>1. row'["block"] = left /\ left # NoRow
        BY <1>3, <1>7, <3>4, RolesApart DEF PenaltyInv, TypeOK, Kinds
      <4>2. QED
        BY <3>2, <4>1 DEF InRow
    <3>5. QED
      BY <3>3, <3>4
  <2>5. \A j \in RoleKinds \ excused' : Same(j)
    BY <1>1, <2>1 DEF Same
  <2>6. Agree' /\ Alone'
    BY <1>2, <1>5, <1>6, <2>2, <2>4, <2>5, BlockHandlerKeeps
  <2>7. QED
    BY <1>5, <2>3, <2>6, MovesKeep
<1>8. CASE Mishap({"block"}) /\ UNCHANGED row
  <2>1. /\ excused' = excused \cup {"block"} /\ excused' \subseteq Kinds \cup {"missed"}
        /\ mishaps' \in 0 .. MaxMishaps
    BY <1>8, MishapIs DEF Kinds
  <2>2. TypeOK'
    BY <1>1, <1>5, <1>8, <2>1 DEF PenaltyInv, TypeOK, Moves
  <2>3. BlockExcused'
    BY <2>1 DEF BlockExcused
  <2>4. \A j \in RoleKinds \ excused' : Same(j)
    BY <1>1, <1>8 DEF Same
  <2>5. Agree' /\ Alone'
    BY <1>2, <1>5, <1>6, <2>1, <2>3, <2>4, BlockHandlerKeeps
  <2>6. QED
    BY <1>5, <2>2, <2>5, MovesKeep
<1>9. QED
  BY <1>1, <1>7, <1>8

LEMMA ChangeRoleKeeps ==
    ASSUME PenaltyInv, NEW h \in Handlers, ChangeRole(h)
    PROVE  PenaltyInv'
<1>1. Next2Do(h) \in {"grant", "revoke"} /\ Next2Do(h) # "none" /\ UNCHANGED <<row, roleCache, standing, given>>
  BY DEF ChangeRole
<1>2. PICK k \in Kinds : k = Kind(h) /\ On(h, k)
  BY <1>1, Doing
<1>3. /\ hand[h].cmd \in DOMAIN Program /\ AtStep(Next2Do(h), hand[h].cmd, hand[h].step)
      /\ k = KindOf[hand[h].cmd]
  BY <1>1, <1>2, Doing DEF Kind
<1>4. k \in RoleKinds
  BY <1>1, <1>3, KindsAre DEF AtStep, RoleKinds
<1>5. hand[h].known \in SUBSET Roles
  BY HandRanges
<1>6. RoleOf[k] \in Roles /\ \A j \in RoleKinds : j # k => RoleOf[j] # RoleOf[k]
  BY <1>4, RolesAre
<1>7. CASE /\ held' = IF Next2Do(h) = "grant" THEN held \cup {RoleOf[k]} ELSE held \ {RoleOf[k]}
           /\ GoOn(h, hand[h].known) /\ Calm
  <2>1. Onward(h, hand[h].known)
    BY <1>1, <1>5, <1>7, GoOnIs
  <2>2. Moves(h)
    BY <2>1, OnwardMoves
  <2>3. held' \subseteq Roles
    BY <1>6, <1>7 DEF PenaltyInv, TypeOK
  <2>4. excused' = excused /\ mishaps' \in 0 .. MaxMishaps
    BY <1>7, NoMishap
  <2>5. TypeOK'
    BY <1>1, <2>2, <2>3, <2>4 DEF PenaltyInv, TypeOK, Moves
  <2>6. \A j \in RoleKinds \ (excused' \cup {k}) : Same(j)
    BY <1>1, <1>6, <1>7 DEF Same
  <2>7. k \notin excused' => IF hand'[h] = Idle THEN RowSays(k)' ELSE RoleMid(hand[h], k)'
    <3>1. SUFFICES ASSUME k \notin excused
                   PROVE  IF hand'[h] = Idle THEN RowSays(k)' ELSE RoleMid(hand[h], k)'
      BY <2>4
    <3>2. RoleMid(hand[h], k)
      BY <1>2, <1>4, <3>1, InTheMiddle
    <3>3. CASE Next2Do(h) = "grant"
      <4>1. \/ hand[h].cmd \in {"mute", "blacklist"} /\ hand[h].step = 1
            \/ hand[h].cmd = "prison" /\ hand[h].step = 2
        BY <1>3, <3>3 DEF AtStep
      <4>2. hand[h].step # Len(Program[hand[h].cmd])
        <5>1. CASE hand[h].cmd \in {"mute", "blacklist"} /\ hand[h].step = 1
          <6>1. Len(Program[hand[h].cmd]) = 2
            BY <5>1, LengthOf
          <6>2. QED
            BY <5>1, <6>1
        <5>2. CASE hand[h].cmd = "prison" /\ hand[h].step = 2
          <6>1. Len(Program[hand[h].cmd]) = 3
            BY <5>2, LengthOf
          <6>2. QED
            BY <5>2, <6>1
        <5>3. QED
          BY <4>1, <5>1, <5>2
      <4>3. hand'[h].cmd = hand[h].cmd /\ hand'[h].step = hand[h].step + 1 /\ hand'[h] # Idle
        BY <1>3, <2>1, <4>2, OnwardTo
      <4>4. Granted(hand'[h]) /\ ~Revoked(hand'[h]) /\ ~Taken(hand'[h])
        BY <4>1, <4>3 DEF Granted, Revoked, Taken
      <4>5. RoleOf[k] \in held'
        BY <1>7, <3>3
      <4>6. QED
        BY <4>3, <4>4, <4>5 DEF RoleMid, Granted, Revoked, Taken
    <3>4. CASE Next2Do(h) = "revoke" /\ hand[h].cmd \in {"unmute", "unblacklist"}
      <4>1. hand[h].step = 1 /\ hand[h].step # Len(Program[hand[h].cmd])
        <5>1. hand[h].step = 1
          BY <1>3, <3>4 DEF AtStep
        <5>2. Len(Program[hand[h].cmd]) = 2
          BY <3>4, LengthOf
        <5>3. QED
          BY <5>1, <5>2
      <4>2. hand'[h].cmd = hand[h].cmd /\ hand'[h].step = hand[h].step + 1 /\ hand'[h] # Idle
        BY <1>3, <2>1, <4>1, OnwardTo
      <4>3. ~Granted(hand'[h]) /\ Revoked(hand'[h]) /\ ~Taken(hand'[h])
        BY <3>4, <4>1, <4>2 DEF Granted, Revoked, Taken
      <4>4. RoleOf[k] \notin held'
        BY <1>7, <3>4
      <4>5. QED
        BY <4>2, <4>3, <4>4 DEF RoleMid, Granted, Revoked, Taken
    <3>5. CASE Next2Do(h) = "revoke" /\ hand[h].cmd = "unprison"
      <4>1. hand[h].step = 3 /\ hand[h].step = Len(Program[hand[h].cmd])
        BY <1>3, <3>5, LengthOf DEF AtStep
      <4>2. hand'[h] = Idle
        BY <2>1, <4>1 DEF Onward
      <4>3. row'[k] = NoRow
        BY <1>1, <3>2, <3>5, <4>1 DEF RoleMid, Taken
      <4>4. RoleOf[k] \notin held'
        BY <1>7, <3>5
      <4>5. QED
        BY <4>2, <4>3, <4>4 DEF RowSays
    <3>6. QED
      BY <1>1, <1>3, <3>3, <3>4, <3>5 DEF AtStep
  <2>8. Agree' /\ Alone'
    BY <1>1, <1>2, <1>4, <2>2, <2>4, <2>6, <2>7, RoleHandlerKeeps
  <2>9. QED
    BY <2>2, <2>5, <2>8, MovesKeep
<1>8. CASE /\ Stop(h) /\ UNCHANGED held
           /\ Mishap(IF hand[h].cmd = "unprison" THEN {"prison"} ELSE {})
  <2>1. Moves(h) /\ hand'[h] = Idle
    BY <1>8, StopMoves, StopIs
  <2>2. /\ excused' = excused \cup (IF hand[h].cmd = "unprison" THEN {"prison"} ELSE {})
        /\ excused' \subseteq Kinds \cup {"missed"} /\ mishaps' \in 0 .. MaxMishaps
    BY <1>8, MishapIs DEF Kinds
  <2>3. TypeOK'
    BY <1>1, <1>8, <2>1, <2>2 DEF PenaltyInv, TypeOK, Moves
  <2>4. \A j \in RoleKinds : Same(j)
    BY <1>1, <1>8 DEF Same
  <2>5. k \notin excused' => RowSays(k)'
    <3>1. SUFFICES ASSUME k \notin excused'
                   PROVE  RowSays(k)'
      OBVIOUS
    <3>2. hand[h].cmd # "unprison" /\ k \notin excused
      BY <1>3, <2>2, <3>1, KindsAre
    <3>3. RoleMid(hand[h], k)
      BY <1>2, <1>4, <3>2, InTheMiddle
    <3>4. ~Granted(hand[h]) /\ ~Revoked(hand[h]) /\ ~Taken(hand[h])
      <4>1. \/ hand[h].cmd \in {"mute", "blacklist", "unmute", "unblacklist"} /\ hand[h].step = 1
            \/ hand[h].cmd = "prison" /\ hand[h].step = 2
        BY <1>1, <1>3, <3>2 DEF AtStep
      <4>2. CASE hand[h].step = 1
        BY <4>1, <4>2 DEF Granted, Revoked, Taken
      <4>3. CASE hand[h].cmd = "prison" /\ hand[h].step = 2
        BY <4>3 DEF Granted, Revoked, Taken
      <4>4. QED
        BY <4>1, <4>2, <4>3
    <3>5. RowSays(k)
      BY <3>3, <3>4 DEF RoleMid
    <3>6. QED
      BY <1>1, <1>8, <3>5 DEF RowSays
  <2>6. Agree' /\ Alone'
    BY <1>1, <1>2, <1>4, <2>1, <2>2, <2>4, <2>5, RoleHandlerKeeps
  <2>7. QED
    BY <2>1, <2>3, <2>6, MovesKeep
<1>9. QED
  BY <1>2, <1>7, <1>8 DEF ChangeRole, Stay

LEMMA SaveKeeps ==
    ASSUME PenaltyInv, NEW h \in Handlers, Save(h)
    PROVE  PenaltyInv'
<1>1. /\ Next2Do(h) = "save" /\ Next2Do(h) # "none" /\ GoOn(h, hand[h].known)
      /\ UNCHANGED <<held, roleCache, given>>
  BY DEF Save, Stay
<1>2. PICK k \in Kinds : k = Kind(h) /\ On(h, k)
  BY <1>1, Doing
<1>3. /\ hand[h].cmd \in DOMAIN Program /\ k = KindOf[hand[h].cmd]
      /\ \/ hand[h].cmd \in {"mute", "blacklist"} /\ hand[h].step = 2
         \/ hand[h].cmd \in {"prison", "block"} /\ hand[h].step = 3
  BY <1>1, <1>2, Doing DEF Kind, AtStep
<1>4. hand[h].step = Len(Program[hand[h].cmd])
  <2>1. CASE hand[h].cmd \in {"mute", "blacklist"} /\ hand[h].step = 2
    BY <2>1, LengthOf
  <2>2. CASE hand[h].cmd \in {"prison", "block"} /\ hand[h].step = 3
    BY <2>2, LengthOf
  <2>3. QED
    BY <1>3, <2>1, <2>2
<1>5. /\ hand[h].known \in SUBSET Roles /\ hand[h].on \in SUBSET Roles
      /\ hand[h].on \in SUBSET Ordinary
  BY HandRanges
<1>6. Onward(h, hand[h].known)
  BY <1>1, <1>5, GoOnIs
<1>7. Moves(h) /\ hand'[h] = Idle
  BY <1>4, <1>6, OnwardMoves DEF Onward
<1>8. Saved(h) \in SUBSET Roles /\ Saved(h) # NoRow
  BY <1>5, RolesApart DEF Saved
<1>9. CASE /\ row' = [row EXCEPT ![k] = Saved(h)]
           /\ standing' = IF k = "block" THEN standing \cup hand[h].on ELSE standing
           /\ Calm
  <2>1. /\ row' \in [Kinds -> {NoRow} \cup SUBSET Roles] /\ row'[k] = Saved(h)
        /\ \A j \in Kinds \ {k} : row'[j] = row[j]
    BY <1>8, <1>9 DEF PenaltyInv, TypeOK
  <2>2. excused' = excused /\ mishaps' \in 0 .. MaxMishaps
    BY <1>9, NoMishap
  <2>3. standing' \subseteq Ordinary
    BY <1>5, <1>9 DEF PenaltyInv, TypeOK
  <2>4. TypeOK'
    BY <1>1, <1>7, <2>1, <2>2, <2>3 DEF PenaltyInv, TypeOK, Moves
  <2>5. CASE k = "block"
    <3>1. hand[h].cmd = "block"
      BY <1>3, <2>5, KindsAre
    <3>2. BlockExcused' \/ InRow("block")' = standing'
      <4>1. SUFFICES ASSUME ~BlockExcused
                     PROVE  InRow("block")' = standing'
        BY <2>2 DEF BlockExcused
      <4>2. InRow("block") = standing /\ hand[h].known = InRow("block")
        BY <1>2, <1>3, <2>5, <3>1, <4>1, InTheMiddle DEF BlockMid
      <4>3. row'["block"] = standing \cup hand[h].on /\ row'["block"] # NoRow
        BY <1>2, <1>8, <2>1, <2>5, <4>2 DEF Saved
      <4>4. QED
        BY <1>9, <2>5, <4>3 DEF InRow
    <3>3. \A j \in RoleKinds \ excused' : Same(j)
      BY <1>1, <2>1, <2>5, RolesAre DEF Same
    <3>4. Agree' /\ Alone'
      BY <1>2, <1>7, <2>2, <2>5, <3>2, <3>3, BlockHandlerKeeps
    <3>5. QED
      BY <1>7, <2>4, <3>4, MovesKeep
  <2>6. CASE k # "block"
    <3>1. k \in RoleKinds
      BY <2>6 DEF Kinds, RoleKinds
    <3>2. row'["block"] = row["block"] /\ standing' = standing
      BY <1>9, <2>1, <2>6, RolesAre
    <3>3. \A j \in RoleKinds \ (excused' \cup {k}) : Same(j)
      BY <1>1, <2>1, RolesAre DEF Same
    <3>4. k \notin excused' => RowSays(k)'
      <4>1. SUFFICES ASSUME k \notin excused
                     PROVE  RowSays(k)'
        BY <2>2
      <4>2. RoleMid(hand[h], k) /\ hand[h].cmd # "block"
        BY <1>2, <1>3, <2>6, <3>1, <4>1, InTheMiddle, KindsAre
      <4>3. Granted(hand[h])
        BY <1>3, <4>2 DEF Granted
      <4>4. RoleOf[k] \in held
        BY <4>2, <4>3 DEF RoleMid
      <4>5. QED
        BY <1>1, <1>8, <2>1, <4>4 DEF RowSays
    <3>5. Agree' /\ Alone'
      BY <1>2, <1>7, <2>2, <3>1, <3>2, <3>3, <3>4, RoleHandlerKeeps
    <3>6. QED
      BY <1>7, <2>4, <3>5, MovesKeep
  <2>7. QED
    BY <2>5, <2>6
<1>10. CASE Mishap({k}) /\ UNCHANGED <<row, standing>>
  <2>1. /\ excused' = excused \cup {k} /\ excused' \subseteq Kinds \cup {"missed"}
        /\ mishaps' \in 0 .. MaxMishaps
    BY <1>10, MishapIs
  <2>2. TypeOK'
    BY <1>1, <1>7, <1>10, <2>1 DEF PenaltyInv, TypeOK, Moves
  <2>3. \A j \in RoleKinds : Same(j)
    BY <1>1, <1>10 DEF Same
  <2>4. Agree' /\ Alone'
    <3>1. CASE k = "block"
      <4>1. BlockExcused'
        BY <2>1, <3>1 DEF BlockExcused
      <4>2. QED
        BY <1>2, <1>7, <2>1, <2>3, <3>1, <4>1, BlockHandlerKeeps
    <3>2. CASE k # "block"
      <4>1. k \in RoleKinds
        BY <3>2 DEF Kinds, RoleKinds
      <4>2. QED
        BY <1>2, <1>7, <1>10, <2>1, <2>3, <4>1, RoleHandlerKeeps
    <3>3. QED
      BY <3>1, <3>2
  <2>5. QED
    BY <1>7, <2>2, <2>4, MovesKeep
<1>11. QED
  BY <1>2, <1>9, <1>10 DEF Save

LEMMA TakeRowKeeps ==
    ASSUME PenaltyInv, NEW h \in Handlers, TakeRow(h)
    PROVE  PenaltyInv'
<1>1. /\ Next2Do(h) = "take" /\ Next2Do(h) # "none" /\ GoOn(h, InRow(Kind(h)))
      /\ UNCHANGED <<held, roleCache, excused, given, mishaps>>
      /\ row' = [row EXCEPT ![Kind(h)] = NoRow]
      /\ standing' = IF Kind(h) = "block" THEN standing \ hand[h].on ELSE standing
  BY DEF TakeRow
<1>2. PICK k \in Kinds : k = Kind(h) /\ On(h, k)
  BY <1>1, Doing
<1>3. /\ hand[h].cmd \in DOMAIN Program /\ k = KindOf[hand[h].cmd]
      /\ \/ hand[h].cmd \in {"unmute", "unblacklist"} /\ hand[h].step = 2
         \/ hand[h].cmd \in {"unprison", "unblock"} /\ hand[h].step = 1
  BY <1>1, <1>2, Doing DEF Kind, AtStep
<1>4. InRow(k) \in SUBSET Roles
  BY InRowIs
<1>5. Onward(h, InRow(k))
  <2>1. GoOn(h, InRow(k))
    BY <1>1, <1>2
  <2>2. QED
    BY <1>1, <1>4, <2>1, GoOnIs
<1>6. Moves(h)
  BY <1>5, OnwardMoves
<1>7. /\ row' \in [Kinds -> {NoRow} \cup SUBSET Roles] /\ row'[k] = NoRow
      /\ \A j \in Kinds \ {k} : row'[j] = row[j]
  BY <1>1, <1>2 DEF PenaltyInv, TypeOK
<1>8. TypeOK'
  <2>1. standing' \subseteq Ordinary
    BY <1>1 DEF PenaltyInv, TypeOK
  <2>2. QED
    BY <1>1, <1>6, <1>7, <2>1 DEF PenaltyInv, TypeOK, Moves
<1>9. CASE k = "block"
  <2>1. hand[h].cmd = "unblock" /\ hand[h].step = 1
    BY <1>3, <1>9, KindsAre
  <2>2. hand[h].step # Len(Program[hand[h].cmd])
    BY <2>1, LengthOf
  <2>3. /\ hand'[h].cmd = hand[h].cmd /\ hand'[h].step = hand[h].step + 1 /\ hand'[h] # Idle
        /\ hand'[h].known = InRow(k) /\ hand'[h].on = hand[h].on
    BY <1>3, <1>5, <2>2, OnwardTo
  <2>4. BlockExcused' \/ BlockMid(hand[h])'
    <3>1. SUFFICES ASSUME ~BlockExcused
                   PROVE  BlockMid(hand[h])'
      BY <1>1 DEF BlockExcused
    <3>2. InRow("block") = standing
      BY <1>2, <1>9, <2>1, <3>1, InTheMiddle DEF BlockMid
    <3>3. hand'[h].known \ hand'[h].on = standing'
      BY <1>1, <1>2, <1>9, <2>3, <3>2
    <3>4. hand'[h].cmd = "unblock" /\ hand'[h].step = 2 /\ row'["block"] = NoRow
      BY <1>7, <1>9, <2>1, <2>3
    <3>5. QED
      BY <3>3, <3>4 DEF BlockMid
  <2>5. \A j \in RoleKinds \ excused' : Same(j)
    BY <1>1, <1>7, <1>9, RolesAre DEF Same
  <2>6. Agree' /\ Alone'
    BY <1>1, <1>2, <1>6, <1>9, <2>3, <2>4, <2>5, BlockHandlerKeeps
  <2>7. QED
    BY <1>6, <1>8, <2>6, MovesKeep
<1>10. CASE k # "block"
  <2>1. k \in RoleKinds
    BY <1>10 DEF Kinds, RoleKinds
  <2>2. row'["block"] = row["block"] /\ standing' = standing
    BY <1>1, <1>2, <1>7, <1>10, RolesAre
  <2>3. \A j \in RoleKinds \ (excused' \cup {k}) : Same(j)
    BY <1>1, <1>7, RolesAre DEF Same
  <2>4. k \notin excused' => IF hand'[h] = Idle THEN RowSays(k)' ELSE RoleMid(hand[h], k)'
    <3>1. SUFFICES ASSUME k \notin excused
                   PROVE  IF hand'[h] = Idle THEN RowSays(k)' ELSE RoleMid(hand[h], k)'
      BY <1>1
    <3>2. RoleMid(hand[h], k) /\ hand[h].cmd # "unblock"
      BY <1>2, <1>3, <1>10, <2>1, <3>1, InTheMiddle, KindsAre
    <3>3. CASE hand[h].cmd \in {"unmute", "unblacklist"} /\ hand[h].step = 2
      <4>1. hand'[h] = Idle
        <5>1. hand[h].step = Len(Program[hand[h].cmd])
          BY <3>3, LengthOf
        <5>2. QED
          BY <1>5, <5>1 DEF Onward
      <4>2. Revoked(hand[h])
        BY <3>3 DEF Revoked
      <4>3. RoleOf[k] \notin held
        BY <3>2, <4>2 DEF RoleMid
      <4>4. QED
        BY <1>1, <1>7, <4>1, <4>3 DEF RowSays
    <3>4. CASE hand[h].cmd = "unprison" /\ hand[h].step = 1
      <4>1. hand[h].step # Len(Program[hand[h].cmd])
        BY <3>4, LengthOf
      <4>2. hand'[h].cmd = hand[h].cmd /\ hand'[h].step = hand[h].step + 1 /\ hand'[h] # Idle
        BY <1>3, <1>5, <4>1, OnwardTo
      <4>3. ~Granted(hand'[h]) /\ ~Revoked(hand'[h]) /\ Taken(hand'[h])
        BY <3>4, <4>2 DEF Granted, Revoked, Taken
      <4>4. QED
        BY <1>7, <4>2, <4>3 DEF RoleMid, Granted, Revoked, Taken
    <3>5. QED
      BY <1>3, <3>2, <3>3, <3>4
  <2>5. Agree' /\ Alone'
    BY <1>1, <1>2, <1>6, <2>1, <2>2, <2>3, <2>4, RoleHandlerKeeps
  <2>6. QED
    BY <1>6, <1>8, <2>5, MovesKeep
<1>11. QED
  BY <1>9, <1>10

LEMMA CommandKeeps ==
    ASSUME PenaltyInv, NEW h \in Handlers, NEW cmd \in Commands, Command(h, cmd)
    PROVE  PenaltyInv'
<1>1. cmd \in DOMAIN Program /\ KindOf[cmd] \in Kinds
  BY CommandsBounds, LengthsAre
<1>2. PICK k \in Kinds : k = KindOf[cmd]
  BY <1>1
<1>3. /\ hand[h] = Idle /\ given < MaxCommands /\ given' = given + 1
      /\ UNCHANGED <<held, row, roleCache, standing, mishaps>>
      /\ excused' = IF \E g \in Handlers \ {h} : hand[g] # Idle /\ Kind(g) = k
                    THEN excused \cup {k} ELSE excused
  BY <1>2 DEF Command
<1>4. PICK on \in SUBSET Ordinary :
         hand' = [hand EXCEPT ![h] = [cmd |-> cmd, on |-> on, known |-> {}, step |-> 1]]
  BY DEF Command
<1>5. [cmd |-> cmd, on |-> on, known |-> {}, step |-> 1] \in Hand
  BY <1>1 DEF Hand
<1>6. /\ hand' \in [Handlers -> Hand] /\ \A g \in Handlers \ {h} : hand'[g] = hand[g]
      /\ hand'[h].cmd = cmd /\ hand'[h].step = 1
  BY <1>4, <1>5 DEF PenaltyInv, TypeOK
<1>7. excused \subseteq excused' /\ excused' \subseteq Kinds \cup {"missed"}
  BY <1>3 DEF PenaltyInv, TypeOK
<1>8. TypeOK'
  <2>1. given' \in 0 .. MaxCommands
    BY <1>3, CommandsBounds DEF PenaltyInv, TypeOK
  <2>2. QED
    BY <1>3, <1>6, <1>7, <2>1 DEF PenaltyInv, TypeOK
<1>9. ASSUME NEW g \in Handlers
      PROVE  Working(hand[g])'
  <2>1. CASE g = h
    <3>1. 1 \in 1 .. Len(Program[cmd])
      <4>1. Len(Program[cmd]) \in {2, 3}
        BY <1>1, LengthsAre
      <4>2. QED
        BY <4>1
    <3>2. QED
      BY <1>1, <1>6, <2>1, <3>1 DEF Working
  <2>2. CASE g # h
    <3>1. hand'[g] = hand[g] /\ Working(hand[g])
      BY <1>6, <2>2 DEF PenaltyInv
    <3>2. QED
      BY <3>1 DEF Working
  <2>3. QED
    BY <2>1, <2>2
<1>10. \A j : ~On(h, j) /\ (On(h, j)' <=> j = k)
  BY <1>1, <1>2, <1>3, <1>6, NobodyIsNoCommand DEF On
<1>11. \A g \in Handlers \ {h} : \A j : On(g, j)' <=> On(g, j)
  BY <1>6 DEF On
<1>12. (\E g \in Handlers \ {h} : On(g, k)) => k \in excused'
  <2>1. SUFFICES ASSUME NEW g \in Handlers \ {h}, On(g, k)
                 PROVE  k \in excused'
    OBVIOUS
  <2>2. hand[g] # Idle /\ Kind(g) = k
    BY <2>1, NobodyIsNoCommand DEF On, Kind
  <2>3. QED
    BY <1>3, <2>2
<1>13. Alone'
  <2>1. ASSUME NEW f \in Handlers, NEW g \in Handlers, NEW j \in Kinds, f # g, On(f, j)', On(g, j)'
        PROVE  j \in excused'
    <3>1. CASE f = h \/ g = h
      <4>1. j = k /\ \E i \in Handlers \ {h} : On(i, k)
        BY <1>10, <1>11, <2>1, <3>1
      <4>2. QED
        BY <1>12, <4>1
    <3>2. CASE f # h /\ g # h
      <4>1. On(f, j) /\ On(g, j)
        BY <1>11, <2>1, <3>2
      <4>2. QED
        BY <1>7, <2>1, <4>1 DEF PenaltyInv, Alone
    <3>3. QED
      BY <3>1, <3>2
  <2>2. QED
    BY <2>1 DEF Alone
<1>14. ASSUME NEW j \in RoleKinds \ excused'
       PROVE  RoleAgrees(j)'
  <2>1. RoleAgrees(j)
    BY <1>7 DEF PenaltyInv, Agree
  <2>2. CASE j = k
    <3>1. \A g \in Handlers : ~On(g, k)
      BY <1>10, <1>12, <2>2
    <3>2. RowSays(k)'
      BY <1>3, <2>1, <2>2, <3>1 DEF RoleAgrees, RowSays
    <3>3. RoleMid(hand[h], k)'
      <4>1. ~Granted(hand'[h]) /\ ~Revoked(hand'[h]) /\ ~Taken(hand'[h])
        BY <1>6 DEF Granted, Revoked, Taken
      <4>2. QED
        BY <3>2, <4>1 DEF RoleMid, Granted, Revoked, Taken
    <3>4. QED
      BY <1>11, <2>2, <3>1, <3>2, <3>3 DEF RoleAgrees
  <2>3. CASE j # k
    <3>1. Same(j)
      BY <1>3 DEF Same
    <3>2. \A g \in Handlers : (On(g, j)' <=> On(g, j)) /\ (On(g, j) => hand'[g] = hand[g])
      BY <1>6, <1>10, <1>11, <2>3
    <3>3. QED
      BY <2>1, <3>1, <3>2, SameAgrees
  <2>4. QED
    BY <2>2, <2>3
<1>15. ~BlockExcused' => BlockAgrees'
  <2>1. SUFFICES ASSUME ~BlockExcused'
                 PROVE  BlockAgrees'
    OBVIOUS
  <2>2. BlockAgrees /\ "block" \notin excused'
    BY <1>7, <2>1 DEF PenaltyInv, Agree, BlockExcused
  <2>3. CASE k = "block"
    <3>1. \A g \in Handlers : ~On(g, "block")
      BY <1>10, <1>12, <2>2, <2>3
    <3>2. InRow("block")' = standing'
      BY <1>3, <2>2, <3>1 DEF BlockAgrees, InRow
    <3>3. BlockMid(hand[h])'
      BY <1>6, <3>2 DEF BlockMid
    <3>4. QED
      BY <1>11, <3>1, <3>2, <3>3 DEF BlockAgrees
  <2>4. CASE k # "block"
    <3>1. \A g \in Handlers : (On(g, "block")' <=> On(g, "block")) /\ (On(g, "block") => hand'[g] = hand[g])
      BY <1>6, <1>10, <1>11, <2>4
    <3>2. QED
      BY <1>3, <2>2, <3>1, SameBlockAgrees
  <2>5. QED
    BY <2>3, <2>4
<1>16. QED
  BY <1>8, <1>9, <1>13, <1>14, <1>15 DEF PenaltyInv, Agree, BlockExcused

(* Steps that move no command.                                             *)
LEMMA StillKeeps ==
    ASSUME PenaltyInv, TypeOK', hand' = hand, Agree', Alone'
    PROVE  PenaltyInv'
BY DEF PenaltyInv, Working

LEMMA RolesSeenKeeps ==
    ASSUME PenaltyInv, RolesRead \/ RolesExpire
    PROVE  PenaltyInv'
<1>1. /\ UNCHANGED <<held, row, hand, standing, excused, given, mishaps>>
      /\ roleCache' \in {held, NoRow}
  BY DEF RolesRead, RolesExpire
<1>2. TypeOK'
  BY <1>1 DEF PenaltyInv, TypeOK
<1>3. Agree' /\ Alone'
  BY <1>1, StillAgrees DEF Same
<1>4. QED
  BY <1>1, <1>2, <1>3, StillKeeps

LEMMA WipeKeeps ==
    ASSUME PenaltyInv, NEW kinds \in SUBSET Kinds, Wipe(kinds)
    PROVE  PenaltyInv'
<1>1. /\ row' = [k \in Kinds |-> IF k \in kinds THEN NoRow ELSE row[k]] /\ Mishap(kinds)
      /\ standing' = IF "block" \in kinds THEN {} ELSE standing
      /\ UNCHANGED <<held, roleCache, hand, given>>
  BY DEF Wipe
<1>2. /\ excused' = excused \cup kinds /\ excused' \subseteq Kinds \cup {"missed"}
      /\ mishaps' \in 0 .. MaxMishaps
  BY <1>1, MishapIs
<1>3. /\ row' \in [Kinds -> {NoRow} \cup SUBSET Roles] /\ standing' \subseteq Ordinary
      /\ \A j \in Kinds \ kinds : row'[j] = row[j]
  BY <1>1 DEF PenaltyInv, TypeOK
<1>4. TypeOK'
  BY <1>1, <1>2, <1>3 DEF PenaltyInv, TypeOK
<1>5. \A j \in RoleKinds \ excused' : Same(j)
  BY <1>1, <1>2, <1>3, RolesAre DEF Same
<1>6. BlockExcused' \/ (row'["block"] = row["block"] /\ standing' = standing)
  BY <1>1, <1>2, <1>3, RolesAre DEF BlockExcused
<1>7. Agree' /\ Alone'
  BY <1>1, <1>2, <1>5, <1>6, StillAgrees
<1>8. QED
  BY <1>1, <1>4, <1>7, StillKeeps

LEMMA EditKeeps ==
    ASSUME PenaltyInv, Edit
    PROVE  PenaltyInv'
<1>1. PICK r \in Roles :
         /\ held' = IF r \in held THEN held \ {r} ELSE held \cup {r}
         /\ Mishap({k \in DOMAIN RoleOf : RoleOf[k] = r})
  BY DEF Edit
<1>2. UNCHANGED <<row, roleCache, hand, standing, given>>
  BY DEF Edit
<1>3. /\ excused' = excused \cup {k \in DOMAIN RoleOf : RoleOf[k] = r}
      /\ excused' \subseteq Kinds \cup {"missed"} /\ mishaps' \in 0 .. MaxMishaps
  <2>1. {k \in DOMAIN RoleOf : RoleOf[k] = r} \in SUBSET Kinds
    BY RolesAre
  <2>2. QED
    BY <1>1, <2>1, MishapIs
<1>4. TypeOK'
  BY <1>1, <1>2, <1>3 DEF PenaltyInv, TypeOK
<1>5. \A j \in RoleKinds \ excused' : Same(j)
  BY <1>1, <1>2, <1>3, RolesAre DEF Same
<1>6. Agree' /\ Alone'
  BY <1>2, <1>3, <1>5, StillAgrees
<1>7. QED
  BY <1>2, <1>4, <1>6, StillKeeps

(* A restart forgets every command, and excuses what it was about.         *)
LEMMA RestartKeeps ==
    ASSUME PenaltyInv, Restart
    PROVE  PenaltyInv'
<1> DEFINE S == {Kind(h) : h \in {g \in Handlers : hand[g] # Idle}}
<1>1. /\ Mishap(S) /\ hand' = [h \in Handlers |-> Idle] /\ roleCache' = NoRow
      /\ UNCHANGED <<held, row, standing, given>>
  BY DEF Restart
<1>2. ASSUME NEW g \in Handlers, hand[g] # Idle
      PROVE  hand[g].cmd \in DOMAIN Program /\ Kind(g) \in Kinds
  BY <1>2, LengthsAre DEF PenaltyInv, Working, Kind
<1>3. S \in SUBSET Kinds
  BY <1>2
<1>4. \A g \in Handlers, j \in Kinds : On(g, j) => j \in S
  BY NobodyIsNoCommand DEF On, Kind
<1> HIDE DEF S
<1>5. /\ excused' = excused \cup S /\ excused' \subseteq Kinds \cup {"missed"}
      /\ mishaps' \in 0 .. MaxMishaps
  BY <1>1, <1>3, MishapIs
<1>6. hand' \in [Handlers -> Hand] /\ \A g \in Handlers : hand'[g] = Idle
  BY <1>1, NobodyIsNoCommand
<1>7. TypeOK'
  BY <1>1, <1>5, <1>6 DEF PenaltyInv, TypeOK
<1>8. \A g \in Handlers : Working(hand[g])' /\ \A j : ~On(g, j)'
  BY <1>6, NobodyIsNoCommand DEF Working, On
<1>9. ASSUME NEW j \in RoleKinds \ excused'
      PROVE  RoleAgrees(j)'
  <2>1. RoleAgrees(j) /\ \A g \in Handlers : ~On(g, j)
    BY <1>4, <1>5, RolesAre DEF PenaltyInv, Agree
  <2>2. RowSays(j)'
    BY <1>1, <2>1 DEF RoleAgrees, RowSays
  <2>3. QED
    BY <1>8, <2>2 DEF RoleAgrees
<1>10. ~BlockExcused' => BlockAgrees'
  <2>1. SUFFICES ASSUME ~BlockExcused'
                 PROVE  BlockAgrees'
    OBVIOUS
  <2>2. BlockAgrees /\ \A g \in Handlers : ~On(g, "block")
    BY <1>4, <1>5, <2>1, RolesAre DEF PenaltyInv, Agree, BlockExcused
  <2>3. InRow("block")' = standing'
    BY <1>1, <2>2 DEF BlockAgrees, InRow
  <2>4. QED
    BY <1>8, <2>3 DEF BlockAgrees
<1>11. Alone'
  BY <1>8 DEF Alone
<1>12. QED
  BY <1>7, <1>8, <1>9, <1>10, <1>11 DEF PenaltyInv, Agree, BlockExcused

LEMMA InitKeeps == Init => PenaltyInv
<1> SUFFICES ASSUME Init
             PROVE  PenaltyInv
  OBVIOUS
<1>1. TypeOK
  <2>1. held \subseteq Roles /\ row \in [Kinds -> {NoRow} \cup SUBSET Roles]
    BY DEF Init, Roles
  <2>2. hand \in [Handlers -> Hand]
    BY NobodyIsNoCommand DEF Init
  <2>3. QED
    BY <2>1, <2>2, CommandsBounds DEF Init, TypeOK
<1>2. \A g \in Handlers : hand[g] = Idle /\ \A j : ~On(g, j)
  BY NobodyIsNoCommand DEF Init, On
<1>3. \A j \in RoleKinds : RowSays(j)
  <2>1. ASSUME NEW j \in RoleKinds
        PROVE  RowSays(j)
    <3>1. row[j] = NoRow /\ RoleOf[j] \notin held
      BY RolesAre DEF Init
    <3>2. QED
      BY <3>1 DEF RowSays
  <2>2. QED
    BY <2>1
<1>4. InRow("block") = standing
  BY RolesAre DEF Init, InRow
<1>5. Agree /\ Alone
  BY <1>2, <1>3, <1>4 DEF Agree, Alone, RoleAgrees, BlockAgrees
<1>6. QED
  BY <1>1, <1>2, <1>5 DEF PenaltyInv, Working

LEMMA NextKeeps == PenaltyInv /\ [Next]_vars => PenaltyInv'
<1> SUFFICES ASSUME PenaltyInv, [Next]_vars
             PROVE  PenaltyInv'
  OBVIOUS
<1>1. ASSUME NEW h \in Handlers, NEW cmd \in Commands, Command(h, cmd)
      PROVE  PenaltyInv'
  BY <1>1, CommandKeeps
<1>2. ASSUME NEW h \in Handlers, ChangeRole(h)
      PROVE  PenaltyInv'
  BY <1>2, ChangeRoleKeeps
<1>3. ASSUME NEW h \in Handlers, GiveBack(h)
      PROVE  PenaltyInv'
  BY <1>3, GiveBackKeeps
<1>4. ASSUME NEW h \in Handlers, TakeAway(h)
      PROVE  PenaltyInv'
  BY <1>4, TakeAwayKeeps
<1>5. ASSUME NEW h \in Handlers, Snapshot(h)
      PROVE  PenaltyInv'
  BY <1>5, SnapshotKeeps
<1>6. ASSUME NEW h \in Handlers, Read(h)
      PROVE  PenaltyInv'
  BY <1>6, ReadKeeps
<1>7. ASSUME NEW h \in Handlers, TakeRow(h)
      PROVE  PenaltyInv'
  BY <1>7, TakeRowKeeps
<1>8. ASSUME NEW h \in Handlers, TakeAndMiss(h) \/ TakeFails(h)
      PROVE  PenaltyInv'
  BY <1>8, TakeAndMissKeeps, TakeFailsKeeps
<1>9. ASSUME NEW h \in Handlers, Save(h)
      PROVE  PenaltyInv'
  BY <1>9, SaveKeeps
<1>10. ASSUME NEW h \in Handlers, WriteBack(h)
       PROVE  PenaltyInv'
  BY <1>10, WriteBackKeeps
<1>11. CASE ClearAllPunishments \/ DeletePunishmentAt
  <2>1. PICK kinds \in SUBSET Kinds : Wipe(kinds)
    BY <1>11 DEF ClearAllPunishments, DeletePunishmentAt
  <2>2. QED
    BY <2>1, WipeKeeps
<1>12. CASE UNCHANGED vars
  <2>1. /\ UNCHANGED <<held, row, hand, standing, excused>> /\ TypeOK'
    BY <1>12 DEF vars, PenaltyInv, TypeOK
  <2>2. Agree' /\ Alone'
    BY <2>1, StillAgrees DEF Same
  <2>3. QED
    BY <2>1, <2>2, StillKeeps
<1>13. QED
  BY <1>1, <1>2, <1>3, <1>4, <1>5, <1>6, <1>7, <1>8, <1>9, <1>10, <1>11, <1>12,
     RolesSeenKeeps, EditKeeps, RestartKeeps DEF Next

LEMMA Invariant == Spec => []PenaltyInv
BY InitKeeps, NextKeeps, PTL DEF Spec

(* The rows, the roles and the commands at work have their types at every  *)
(* moment of every behaviour.                                              *)
THEOREM PenaltyTypes == Spec => []TypeOK
<1>1. PenaltyInv => TypeOK
  BY DEF PenaltyInv
<1>2. QED
  BY <1>1, Invariant, PTL

(* Whichever commands meet, and wherever a call fails or the process       *)
(* restarts: once no command is at work, the record of every punishment    *)
(* that nothing excused says what Discord shows, and the block's row names *)
(* the roles blocked and not lifted (bot/index.ts, storage/database.ts).   *)
THEOREM RecordsAgree == Spec => []RecordsMatch
<1>1. PenaltyInv => RecordsMatch
  <2>1. SUFFICES ASSUME PenaltyInv, \A h \in Handlers : hand[h] = Idle
                 PROVE  /\ \A k \in (DOMAIN RoleOf) \ excused : (row[k] # NoRow) <=> RoleOf[k] \in held
                        /\ excused \cap {"block", "missed"} = {} => InRow("block") = standing
    BY DEF RecordsMatch
  <2>2. \A h \in Handlers : \A j : ~On(h, j)
    BY <2>1, NobodyIsNoCommand DEF On
  <2>3. \A k \in RoleKinds \ excused : RowSays(k)
    BY <2>1, <2>2 DEF PenaltyInv, Agree, RoleAgrees
  <2>4. excused \cap {"block", "missed"} = {} => InRow("block") = standing
    BY <2>1, <2>2 DEF PenaltyInv, Agree, BlockAgrees
  <2>5. QED
    BY <2>3, <2>4, RolesAre DEF RowSays
<1>2. QED
  BY <1>1, Invariant, PTL

-----------------------------------------------------------------------------
(* Voice time.                                                             *)

(* What a member's running clock has not been paid yet.                    *)
Due(s, m) == IF s[m] = Pay!Untracked THEN 0 ELSE ticks - s[m]

Clocks == [Voices -> {Pay!Untracked} \cup Nat]
Passes == [who : Voices \cup {Nobody}, at : Nat, minutes : Nat, todo : SUBSET Voices]

(* A member no pass caught leaving has a clock only while in voice, is on  *)
(* a pass's list only then, and what was paid and is about to be paid is   *)
(* within the time spent.                                                  *)
Fair(m) ==
    /\ session[m] # Pay!Untracked => m \in inVoice
    /\ m \in tick.todo => m \in inVoice
    /\ tick.who = m => /\ m \in inVoice /\ session[m] # Pay!Untracked
                       /\ session[m] + tick.minutes * Minute <= tick.at
    /\ leaving[m] * Minute + Due(session, m) <= unpaid[m]

PayInv ==
    /\ ticks \in Nat /\ inVoice \subseteq Voices
    /\ session \in Clocks /\ \A m \in Voices : session[m] <= ticks
    /\ tick \in Passes /\ tick.at <= ticks
    /\ leaving \in [Voices -> Nat] /\ unpaid \in [Voices -> Int]
    /\ \A m \in Voices \ raced : Fair(m)

LEMMA WholeMinutes ==
    ASSUME NEW x \in Nat, NEW n \in Nat \ {0}
    PROVE  x \div n \in Nat /\ (x \div n) * n <= x
OBVIOUS

LEMMA CreditIs ==
    ASSUME Minute \in Nat \ {0}, PayInv, NEW s \in Clocks, NEW m \in Voices, s[m] <= ticks
    PROVE  /\ Pay!MinutesToCredit(s, m) \in Nat
           /\ Pay!MinutesToCredit(s, m) * Minute <= Due(s, m)
           /\ Pay!MinutesToCredit(s, m) > 0 => s[m] # Pay!Untracked
<1>1. CASE s[m] = Pay!Untracked
  BY <1>1 DEF Pay!MinutesToCredit, Due
<1>2. CASE s[m] # Pay!Untracked
  <2>1. ticks - s[m] \in Nat
    BY <1>2 DEF PayInv, Clocks
  <2>2. QED
    BY <1>2, <2>1, WholeMinutes DEF Pay!MinutesToCredit, Due
<1>3. QED
  BY <1>1, <1>2

LEMMA WalkIs ==
    ASSUME Minute \in Nat \ {0}, PayInv, NEW todo \in SUBSET Voices, NEW s \in Clocks,
           \A m \in Voices : s[m] <= ticks, Pay!Walk(todo, s)
    PROVE  /\ session' \in Clocks /\ \A m \in Voices : session'[m] <= ticks
           /\ \A m \in Voices : session'[m] = s[m] \/ (m \in todo /\ session'[m] = ticks)
           /\ tick' \in Passes /\ tick'.todo \subseteq todo /\ tick'.at <= ticks
           /\ \/ tick'.who = Nobody
              \/ /\ tick'.who \in todo /\ tick'.at = ticks
                 /\ s[tick'.who] # Pay!Untracked /\ session'[tick'.who] = s[tick'.who]
                 /\ s[tick'.who] + tick'.minutes * Minute <= ticks
<1>0. ticks \in Nat
  BY DEF PayInv
<1>1. ASSUME NEW group \in SUBSET todo, session' = Pay!Passed(s, group)
      PROVE  /\ session' \in Clocks /\ \A m \in Voices : session'[m] <= ticks
             /\ \A m \in Voices : session'[m] = s[m] \/ (m \in group /\ session'[m] = ticks)
  BY <1>0, <1>1 DEF Pay!Passed, Clocks
<1>2. CASE session' = Pay!Passed(s, todo) /\ tick' = Pay!NoTick
  BY <1>0, <1>1, <1>2 DEF Pay!NoTick, Passes
<1>3. ASSUME NEW m \in todo, NEW group \in SUBSET (todo \ {m}),
             Pay!MinutesToCredit(s, m) > 0, session' = Pay!Passed(s, group),
             tick' = [who |-> m, at |-> ticks, minutes |-> Pay!MinutesToCredit(s, m), todo |-> todo \ (group \cup {m})]
      PROVE  /\ session' \in Clocks /\ \A k \in Voices : session'[k] <= ticks
             /\ \A k \in Voices : session'[k] = s[k] \/ (k \in todo /\ session'[k] = ticks)
             /\ tick' \in Passes /\ tick'.todo \subseteq todo /\ tick'.at <= ticks
             /\ tick'.who \in todo /\ tick'.at = ticks
             /\ s[tick'.who] # Pay!Untracked /\ session'[tick'.who] = s[tick'.who]
             /\ s[tick'.who] + tick'.minutes * Minute <= ticks
  <2>1. /\ Pay!MinutesToCredit(s, m) \in Nat /\ Pay!MinutesToCredit(s, m) * Minute <= Due(s, m)
        /\ s[m] # Pay!Untracked
    BY <1>3, CreditIs
  <2>2. tick' \in Passes
    BY <1>0, <1>3, <2>1 DEF Passes
  <2>3. session'[m] = s[m]
    BY <1>3 DEF Pay!Passed
  <2>4. s[m] + Pay!MinutesToCredit(s, m) * Minute <= ticks
    <3>1. PICK x \in Nat : x = Pay!MinutesToCredit(s, m) * Minute
      BY <2>1
    <3>2. x <= ticks - s[m] /\ s[m] \in Nat
      BY <2>1, <3>1 DEF Due, Clocks
    <3>3. QED
      BY <1>0, <3>1, <3>2
  <2>5. QED
    BY <1>0, <1>1, <1>3, <2>1, <2>2, <2>3, <2>4
<1>4. QED
  BY <1>2, <1>3 DEF Pay!Walk

LEMMA InitPay == ASSUME Minute \in Nat \ {0}, Nobody \notin Voices, Pay!Init PROVE PayInv
<1>1. tick \in Passes /\ tick.at = 0 /\ tick.todo = {} /\ tick.who = Nobody
  BY DEF Pay!Init, Pay!NoTick, Passes
<1>2. \A m \in Voices : Fair(m)
  BY <1>1 DEF Pay!Init, Fair, Due
<1>3. QED
  BY <1>1, <1>2 DEF Pay!Init, PayInv, Clocks, Pay!Untracked

(* A walk over members who are in voice, from clocks that are fair.        *)
LEMMA WalkKeeps ==
    ASSUME Minute \in Nat \ {0}, Nobody \notin Voices, PayInv,
           NEW todo \in SUBSET Voices, NEW s \in Clocks, Pay!Walk(todo, s),
           \A m \in Voices : s[m] <= ticks,
           \A m \in todo \ raced : m \in inVoice,
           \A m \in Voices \ raced :
               /\ s[m] # Pay!Untracked => m \in inVoice
               /\ leaving[m] * Minute + Due(s, m) <= unpaid'[m],
           unpaid' \in [Voices -> Int],
           UNCHANGED <<ticks, inVoice, leaving, raced>>
    PROVE  PayInv'
<1>1. /\ session' \in Clocks /\ \A m \in Voices : session'[m] <= ticks
      /\ \A m \in Voices : session'[m] = s[m] \/ (m \in todo /\ session'[m] = ticks)
      /\ tick' \in Passes /\ tick'.todo \subseteq todo /\ tick'.at <= ticks
      /\ \/ tick'.who = Nobody
         \/ /\ tick'.who \in todo /\ tick'.at = ticks
            /\ s[tick'.who] # Pay!Untracked /\ session'[tick'.who] = s[tick'.who]
            /\ s[tick'.who] + tick'.minutes * Minute <= ticks
  BY WalkIs
<1>2. ASSUME NEW m \in Voices \ raced
      PROVE  Fair(m)'
  <2>1. session'[m] # Pay!Untracked => m \in inVoice
    BY <1>1, <1>2
  <2>2. tick'.who = m => /\ m \in inVoice /\ session'[m] # Pay!Untracked
                         /\ session'[m] + tick'.minutes * Minute <= tick'.at
    BY <1>1, <1>2 DEF PayInv
  <2>3. leaving[m] * Minute + Due(session', m) <= unpaid'[m]
    <3>1. PICK x \in Int : x = leaving[m] * Minute
      BY DEF PayInv
    <3>2. Due(session', m) <= Due(s, m) /\ Due(s, m) \in Int /\ Due(session', m) \in Int
      BY <1>1 DEF Due, PayInv, Clocks, Pay!Untracked
    <3>3. unpaid'[m] \in Int
      BY <1>2
    <3>4. QED
      BY <1>2, <3>1, <3>2, <3>3
  <2>4. QED
    BY <1>1, <1>2, <2>1, <2>2, <2>3 DEF Fair, Due
<1>3. QED
  BY <1>1, <1>2 DEF PayInv

LEMMA MemberKeeps ==
    ASSUME Minute \in Nat \ {0}, Nobody \notin Voices, PayInv, NEW m \in Voices,
           Pay!Join(m) \/ Pay!Leave(m) \/ Pay!PayLeave(m)
    PROVE  PayInv'
<1>1. CASE Pay!Join(m)
  <2>1. session' \in Clocks /\ \A k \in Voices : session'[k] <= ticks
    BY <1>1 DEF Pay!Join, PayInv, Clocks, Pay!Untracked
  <2>2. ASSUME NEW k \in Voices \ raced
        PROVE  Fair(k)'
    <3>1. Fair(k)
      BY <2>2 DEF PayInv
    <3>2. CASE session'[k] = session[k]
      BY <1>1, <3>1, <3>2 DEF Pay!Join, Fair, Due
    <3>3. CASE k = m /\ session[k] = Pay!Untracked /\ session'[k] = ticks
      BY <1>1, <3>1, <3>3 DEF Pay!Join, Fair, Due, PayInv, Pay!Untracked
    <3>4. QED
      BY <1>1, <3>2, <3>3 DEF Pay!Join, PayInv, Clocks
  <2>3. QED
    BY <1>1, <2>1, <2>2 DEF Pay!Join, PayInv
<1>2. CASE Pay!Leave(m)
  <2>1. Pay!MinutesToCredit(session, m) \in Nat /\ Pay!MinutesToCredit(session, m) * Minute <= Due(session, m)
    BY CreditIs DEF PayInv
  <2>2. session' \in Clocks /\ (\A k \in Voices : session'[k] <= ticks) /\ leaving' \in [Voices -> Nat]
    BY <1>2, <2>1 DEF Pay!Leave, PayInv, Clocks, Pay!Untracked
  <2>3. ASSUME NEW k \in Voices \ raced'
        PROVE  Fair(k)'
    <3>1. k \notin raced /\ Fair(k) /\ (k = m => m # tick.who /\ m \notin tick.todo)
      BY <1>2, <2>3 DEF Pay!Leave, PayInv
    <3>2. CASE k # m
      <4>1. session'[k] = session[k] /\ leaving'[k] = leaving[k]
        BY <1>2, <2>3, <3>2 DEF Pay!Leave, PayInv, Clocks
      <4>2. QED
        BY <1>2, <3>1, <3>2, <4>1 DEF Pay!Leave, Fair, Due
    <3>3. CASE k = m
      <4>1. session'[k] = Pay!Untracked /\ leaving'[k] = Pay!MinutesToCredit(session, m) /\ leaving[k] = 0
        BY <1>2, <3>3 DEF Pay!Leave, PayInv, Clocks
      <4>2. Due(session, k) <= unpaid[k]
        <5>1. 0 * Minute = 0 /\ Due(session, k) \in Int /\ unpaid[k] \in Int
          BY <2>3 DEF Due, PayInv, Clocks
        <5>2. 0 * Minute + Due(session, k) <= unpaid[k]
          BY <3>1, <4>1 DEF Fair
        <5>3. QED
          BY <5>1, <5>2
      <4>3. PICK x \in Int : x = Pay!MinutesToCredit(session, m) * Minute
        BY <2>1
      <4>4. Due(session, k) \in Int /\ unpaid[k] \in Int
        BY <2>3 DEF Due, PayInv, Clocks
      <4>5. leaving'[k] * Minute + Due(session', k) <= unpaid[k]
        BY <2>1, <3>3, <4>1, <4>2, <4>3, <4>4 DEF Due
      <4>6. QED
        BY <1>2, <3>1, <3>3, <4>1, <4>5 DEF Pay!Leave, Fair, Due
    <3>4. QED
      BY <3>2, <3>3
  <2>4. QED
    BY <1>2, <2>2, <2>3 DEF Pay!Leave, PayInv
<1>3. CASE Pay!PayLeave(m)
  <2>1. leaving[m] \in Nat /\ unpaid[m] \in Int /\ leaving' \in [Voices -> Nat] /\ leaving'[m] = 0
    BY <1>3 DEF Pay!PayLeave, PayInv
  <2>2. PICK x \in Nat : x = leaving[m] * Minute
    BY <2>1
  <2>3. unpaid' \in [Voices -> Int] /\ (unpaid'[m] = unpaid[m] \/ unpaid'[m] = unpaid[m] - x)
    BY <1>3, <2>1, <2>2 DEF Pay!PayLeave, PayInv
  <2>4. \A k \in Voices \ {m} : unpaid'[k] = unpaid[k] /\ leaving'[k] = leaving[k]
    BY <1>3 DEF Pay!PayLeave, PayInv
  <2>5. ASSUME NEW k \in Voices \ raced
        PROVE  Fair(k)'
    <3>1. Fair(k)
      BY <2>5 DEF PayInv
    <3>2. leaving'[k] * Minute + Due(session, k) <= unpaid'[k]
      <4>1. CASE k # m
        BY <2>4, <3>1, <4>1 DEF Fair
      <4>2. CASE k = m
        <5>1. leaving'[k] * Minute = 0 /\ Due(session, k) \in Int
          BY <2>1, <4>2 DEF Due, PayInv, Clocks
        <5>2. x + Due(session, k) <= unpaid[k]
          BY <2>2, <3>1, <4>2 DEF Fair
        <5>3. QED
          BY <2>1, <2>2, <2>3, <4>2, <5>1, <5>2
      <4>3. QED
        BY <4>1, <4>2
    <3>3. QED
      BY <1>3, <3>1, <3>2 DEF Pay!PayLeave, Fair, Due
  <2>6. QED
    BY <1>3, <2>1, <2>3, <2>5 DEF Pay!PayLeave, PayInv
<1>4. QED
  BY <1>1, <1>2, <1>3

LEMMA ClockKeeps ==
    ASSUME Minute \in Nat \ {0}, Nobody \notin Voices, PayInv, Pay!TickStarts \/ Pay!TickPays
    PROVE  PayInv'
<1>1. CASE Pay!TickStarts
  BY <1>1, WalkKeeps DEF Pay!TickStarts, PayInv, Fair
<1>2. CASE Pay!TickPays
  <2> DEFINE w == tick.who
             s == Pay!Marked(session, w, tick.at)
  <2>1. w \in Voices /\ tick.todo \in SUBSET Voices /\ tick.minutes \in Nat /\ tick.at \in Nat
    BY <1>2 DEF Pay!TickPays, PayInv, Passes
  <2>2. PICK x \in Nat : x = tick.minutes * Minute
    BY <2>1
  <2>3. unpaid' \in [Voices -> Int] /\ (unpaid'[w] = unpaid[w] \/ unpaid'[w] = unpaid[w] - x)
        /\ \A k \in Voices \ {w} : unpaid'[k] = unpaid[k]
    BY <1>2, <2>1, <2>2 DEF Pay!TickPays, PayInv
  <2>4. s \in Clocks /\ (\A k \in Voices \ {w} : s[k] = session[k])
        /\ (s[w] = IF session[w] = Pay!Untracked THEN Pay!Untracked ELSE tick.at)
    BY <2>1 DEF Pay!Marked, PayInv, Clocks
  <2>5. \A k \in Voices : s[k] <= ticks
    BY <2>1, <2>4 DEF PayInv
  <2>6. \A k \in tick.todo \ raced : k \in inVoice
    BY <2>1 DEF PayInv, Fair
  <2>7. ASSUME NEW k \in Voices \ raced
        PROVE  /\ s[k] # Pay!Untracked => k \in inVoice
               /\ leaving[k] * Minute + Due(s, k) <= unpaid'[k]
    <3>1. Fair(k)
      BY <2>7 DEF PayInv
    <3>2. CASE k # w
      BY <2>3, <2>4, <2>7, <3>1, <3>2 DEF Fair, Due
    <3>3. CASE k = w
      <4>1. /\ k \in inVoice /\ session[k] # Pay!Untracked
            /\ session[k] + x <= tick.at
        BY <2>2, <3>1, <3>3 DEF Fair
      <4>2. session[k] \in Nat /\ ticks \in Nat /\ unpaid[k] \in Int /\ tick.at <= ticks /\ Pay!Untracked \notin Nat
        BY <2>7, <4>1 DEF PayInv, Clocks, Pay!Untracked
      <4>3. s[k] = tick.at /\ Due(session, k) = ticks - session[k]
        BY <2>4, <3>3, <4>1 DEF Due
      <4>4. Due(s, k) = ticks - tick.at
        BY <2>1, <4>2, <4>3 DEF Due
      <4>5. PICK y \in Int : y = leaving[k] * Minute
        BY <2>7 DEF PayInv
      <4>6. y + (ticks - session[k]) <= unpaid[k]
        BY <3>1, <4>3, <4>5 DEF Fair
      <4>7. y + (ticks - tick.at) <= unpaid'[k]
        BY <2>1, <2>2, <2>3, <3>3, <4>1, <4>2, <4>5, <4>6
      <4>8. QED
        BY <4>1, <4>4, <4>5, <4>7
    <3>4. QED
      BY <3>2, <3>3
  <2>8. Pay!Walk(tick.todo, s) /\ UNCHANGED <<ticks, inVoice, leaving, raced>>
    BY <1>2 DEF Pay!TickPays
  <2> HIDE DEF s
  <2>9. QED
    BY <2>1, <2>3, <2>4, <2>5, <2>6, <2>7, <2>8, WalkKeeps
<1>3. QED
  BY <1>1, <1>2

LEMMA TimeKeeps ==
    ASSUME Minute \in Nat \ {0}, Nobody \notin Voices, PayInv, Pay!Advance \/ Pay!Restart
    PROVE  PayInv'
<1>1. CASE Pay!Advance
  <2>1. /\ ticks \in Nat /\ ticks' = ticks + 1
        /\ unpaid' \in [Voices -> Int]
        /\ UNCHANGED <<inVoice, session, tick, leaving, raced>>
    BY <1>1 DEF Pay!Advance, PayInv
  <2>2. \A k \in Voices : session[k] <= ticks'
    BY <2>1 DEF PayInv, Clocks, Pay!Untracked
  <2>3. ASSUME NEW k \in Voices \ raced
        PROVE  Fair(k)'
    <3>1. Fair(k)
      BY <2>3 DEF PayInv
    <3>2. PICK x \in Int : x = leaving[k] * Minute
      BY <2>3 DEF PayInv
    <3>3. x + Due(session, k) <= unpaid[k]
      BY <3>1, <3>2 DEF Fair
    <3>4. unpaid'[k] = unpaid[k] + IF k \in inVoice THEN 1 ELSE 0
      BY <1>1, <2>3 DEF Pay!Advance
    <3>5. unpaid[k] \in Int /\ session[k] \in {Pay!Untracked} \cup Nat
      BY <2>3 DEF PayInv, Clocks
    <3>6. Due(session, k)' = IF session'[k] = Pay!Untracked THEN 0 ELSE ticks' - session'[k]
      BY DEF Due, Pay!Untracked
    <3>7. session[k] # Pay!Untracked => k \in inVoice
      BY <3>1 DEF Fair
    <3>8. x + Due(session, k)' <= unpaid'[k]
      <4>1. session'[k] = session[k] /\ ticks' = ticks + 1 /\ ticks \in Nat
        BY <2>1
      <4>2. CASE session[k] = Pay!Untracked
        BY <3>3, <3>4, <3>5, <3>6, <4>1, <4>2 DEF Due
      <4>3. CASE session[k] # Pay!Untracked
        BY <3>3, <3>4, <3>5, <3>6, <3>7, <4>1, <4>3 DEF Due
      <4>4. QED
        BY <4>2, <4>3
    <3>9. leaving'[k] = leaving[k]
      BY <2>1
    <3>10. QED
      BY <2>1, <3>1, <3>2, <3>8, <3>9 DEF Fair, Due
  <2>4. QED
    BY <2>1, <2>2, <2>3 DEF PayInv, Passes
<1>2. CASE Pay!Restart
  <2>1. tick' \in Passes /\ tick'.at = 0 /\ tick'.todo = {} /\ tick'.who = Nobody
    BY <1>2 DEF Pay!Restart, Pay!NoTick, Passes
  <2>2. session' \in Clocks /\ (\A k \in Voices : session'[k] = Pay!Untracked)
    BY <1>2 DEF Pay!Restart, Clocks
  <2>3. leaving' \in [Voices -> Nat] /\ (\A k \in Voices : leaving'[k] = 0)
    BY <1>2 DEF Pay!Restart
  <2>4. ticks' = ticks /\ inVoice' = inVoice /\ unpaid' = unpaid /\ raced' = raced
    BY <1>2 DEF Pay!Restart
  <2>5. ASSUME NEW k \in Voices \ raced
        PROVE  Fair(k)'
    <3>1. 0 <= unpaid[k]
      <4>1. PICK x \in Nat : x = leaving[k] * Minute
        BY <2>5 DEF PayInv
      <4>2. x + Due(session, k) <= unpaid[k] /\ Due(session, k) \in Nat /\ unpaid[k] \in Int
        BY <2>5, <4>1 DEF PayInv, Fair, Due, Clocks
      <4>3. QED
        BY <4>1, <4>2
    <3>2. leaving'[k] * Minute = 0
      BY <2>3, <2>5
    <3>3. QED
      BY <2>1, <2>2, <2>4, <2>5, <3>1, <3>2 DEF Fair, Due
  <2>6. \A k \in Voices : session'[k] <= ticks'
    BY <2>2, <2>4 DEF PayInv, Pay!Untracked
  <2>7. QED
    BY <2>1, <2>2, <2>3, <2>4, <2>5, <2>6 DEF PayInv
<1>3. QED
  BY <1>1, <1>2

LEMMA NextPay ==
    Minute \in Nat \ {0} /\ Nobody \notin Voices /\ PayInv /\ [Pay!Next]_Pay!vars => PayInv'
<1> SUFFICES ASSUME Minute \in Nat \ {0}, Nobody \notin Voices, PayInv, [Pay!Next]_Pay!vars
             PROVE  PayInv'
  OBVIOUS
<1>1. CASE Pay!Next
  BY <1>1, MemberKeeps, ClockKeeps, TimeKeeps DEF Pay!Next
<1>2. CASE UNCHANGED Pay!vars
  BY <1>2 DEF Pay!vars, PayInv, Fair, Due, Clocks, Passes
<1>3. QED
  BY <1>1, <1>2

LEMMA PaidIs ==
    Minute \in Nat \ {0} /\ PayInv => Pay!PaidForPresence
<1> SUFFICES ASSUME Minute \in Nat \ {0}, PayInv, NEW k \in Voices \ raced
             PROVE  unpaid[k] >= 0
  BY DEF Pay!PaidForPresence
<1>1. PICK x \in Nat : x = leaving[k] * Minute
  BY DEF PayInv
<1>2. x + Due(session, k) <= unpaid[k] /\ Due(session, k) \in Nat /\ unpaid[k] \in Int
  BY <1>1 DEF PayInv, Fair, Due, Clocks
<1>3. QED
  BY <1>1, <1>2

LEMMA PaySteps == [GuildNext]_all => [Pay!Next]_Pay!vars
BY DEF GuildNext, all, deeds, pay, Pay!vars

(* Whoever is paid, by the pass of the clock or by the leave handler, and  *)
(* however often they come back or the bot restarts: the minutes paid were *)
(* spent in voice, for everybody no pass caught leaving (bot/index.ts,     *)
(* runtime/levels.ts).                                                     *)
THEOREM PaidMinutesWereSpent ==
    ASSUME Minute \in Nat \ {0}, Nobody \notin Voices
    PROVE  GuildSpec => []PaidForPresence
<1>1. GuildInit => PayInv
  BY InitPay DEF GuildInit
<1>2. PayInv /\ [Pay!Next]_Pay!vars => PayInv'
  BY NextPay
<1>3. PayInv => PaidForPresence
  BY PaidIs DEF PaidForPresence
<1>4. QED
  BY <1>1, <1>2, <1>3, PaySteps, PTL DEF GuildSpec

-----------------------------------------------------------------------------
(* The log rooms.                                                          *)

RoomSet  == [id : Rooms!Ids, name : Rooms!Names, parent : {0} \cup Rooms!Ids]
ListSet  == [rooms : SUBSET RoomSet, cats : SUBSET Rooms!Ids]
PressSet == [at : Rooms!Steps, names : SUBSET Rooms!Names, cat : {0} \cup Rooms!Ids, known : SUBSET Rooms!Pairs,
             made : SUBSET Rooms!Pairs, todo : SUBSET Rooms!Ids, failed : BOOLEAN]

RoomTypes ==
    /\ rooms \subseteq RoomSet /\ cats \subseteq Rooms!Ids
    /\ cached \in ListSet \cup {None} /\ fresh \in BOOLEAN /\ (fresh => cached # None)
    /\ bound \subseteq Rooms!Pairs
    /\ press \in [Presses -> PressSet]
    /\ minted \in 0 .. MaxIds /\ pressed \in 0 .. MaxPresses /\ faults \in 0 .. MaxMishaps
    /\ why \subseteq {"blind", "stale", "met", "hand", "cut"}

RoomConstants == MaxIds \in Nat /\ MaxPresses \in Nat /\ MaxMishaps \in Nat /\ None \notin ListSet

(* What a request that has got this far relies on: the rooms it found or   *)
(* made exist, and every room of a name it has yet to make was found.      *)
Built    == {"list", "cap", "find", "make", "rooms"}
Found    == {"cap", "find", "make", "rooms"}
Exist(pairs) == \A b \in pairs : \E r \in rooms : r.id = b.id

Follows(x) ==
    /\ x.at \in Built => Exist(x.made) /\ Exist(x.known)
    /\ x.at = "save" => Exist(x.known)

Repeats(x) ==
    /\ x.at \in Found => \A r \in rooms : r.name \in x.names => r.name \in Rooms!NamesOf(x.known)
    /\ x.at = "make" => cats = {}

Behind(x)  == x.at \in {"rooms", "delete", "clear"}
Clearing(x) == x.at \in {"delete", "clear"}
Lone       == (\A c, d \in cats : c = d) /\ \A r, q \in rooms : r.name = q.name => r = q
ListIsCurrent == cached \in {None, Rooms!Guild}
SolePress  == \A p, q \in Presses : p # q => press[p] = Rooms!Idle \/ press[q] = Rooms!Idle

Kept     == why \cap {"met", "hand", "stale"} = {}
Seen     == why \cap {"met", "hand", "stale", "blind"} = {}
Finished == why \cap {"met", "hand", "stale", "cut"} = {}

RoomInv ==
    /\ RoomTypes
    /\ "met" \notin why => SolePress
    /\ Kept => ((\A p \in Presses : ~Behind(press[p])) => ListIsCurrent)
    /\ Seen => Lone /\ \A p \in Presses : Repeats(press[p])
    /\ Finished => /\ \A p \in Presses : Follows(press[p])
                   /\ (\A p \in Presses : ~Clearing(press[p])) => Exist(bound)

LEMMA IdleIs ==
    /\ Rooms!Idle.at = "idle" /\ ~Behind(Rooms!Idle) /\ ~Clearing(Rooms!Idle)
    /\ Repeats(Rooms!Idle) /\ Follows(Rooms!Idle) /\ Repeats(Rooms!Idle)' /\ Follows(Rooms!Idle)'
    /\ Rooms!Idle \in PressSet
<1>1. Rooms!Idle.at = "idle"
  BY DEF Rooms!Idle
<1>2. Rooms!Idle \in PressSet
  BY DEF Rooms!Idle, PressSet, Rooms!Steps
<1>3. QED
  BY <1>1, <1>2 DEF Behind, Clearing, Repeats, Follows, Built, Found

LEMMA InitRooms == ASSUME RoomConstants, Rooms!Init PROVE RoomInv
<1>1. \A p \in Presses : press[p] = Rooms!Idle
  BY DEF Rooms!Init
<1>2. RoomTypes
  <2>1. press \in [Presses -> PressSet]
    BY IdleIs DEF Rooms!Init
  <2>2. minted \in 0 .. MaxIds /\ pressed \in 0 .. MaxPresses /\ faults \in 0 .. MaxMishaps
    BY DEF Rooms!Init, RoomConstants
  <2>3. QED
    BY <2>1, <2>2 DEF Rooms!Init, RoomTypes
<1>3. cached = None /\ rooms = {} /\ cats = {} /\ bound = {}
  BY DEF Rooms!Init
<1>4. SolePress /\ ListIsCurrent /\ Lone /\ Exist(bound)
  BY <1>1, <1>3 DEF SolePress, ListIsCurrent, Lone, Exist
<1>5. QED
  BY <1>1, <1>2, <1>4, IdleIs DEF RoomInv

(* A request that goes on, with the others idle unless two have met.       *)
LEMMA PressMoves ==
    ASSUME RoomInv, NEW p \in Presses, press[p] # Rooms!Idle, NEW x, press' = [press EXCEPT ![p] = x],
           RoomTypes', why \subseteq why',
           Kept' /\ SolePress => (~Behind(x) => ListIsCurrent'),
           Seen' /\ SolePress => Lone' /\ Repeats(x)',
           Finished' /\ SolePress => Follows(x)' /\ (~Clearing(x) => Exist(bound)')
    PROVE  RoomInv'
<1>1. press'[p] = x /\ \A q \in Presses \ {p} : press'[q] = press[q]
  BY DEF RoomInv, RoomTypes
<1>2. ASSUME "met" \notin why' PROVE SolePress /\ SolePress' /\ \A q \in Presses \ {p} : press'[q] = Rooms!Idle
  <2>1. SolePress
    BY <1>2 DEF RoomInv
  <2>2. \A q \in Presses \ {p} : press[q] = Rooms!Idle
    BY <2>1 DEF SolePress
  <2>3. QED
    BY <1>1, <2>1, <2>2 DEF SolePress
<1>3. Kept' \/ Seen' \/ Finished' => "met" \notin why'
  BY DEF Kept, Seen, Finished
<1>4. Kept' => ((\A q \in Presses : ~Behind(press[q])) => ListIsCurrent)'
  BY <1>1, <1>2, <1>3 DEF Behind
<1>5. Seen' => Lone' /\ \A q \in Presses : Repeats(press[q])'
  <2>1. ASSUME Seen' PROVE Repeats(x)' /\ Lone' /\ \A q \in Presses \ {p} : press'[q] = Rooms!Idle
    BY <2>1, <1>2, <1>3
  <2>2. ASSUME Seen', NEW q \in Presses PROVE Repeats(press[q])'
    <3>1. press'[q] = x \/ press'[q] = Rooms!Idle
      BY <2>1, <2>2, <1>1
    <3>2. Repeats(x)' /\ Repeats(Rooms!Idle)'
      BY <2>1, <2>2, IdleIs
    <3>3. QED
      BY <3>1, <3>2 DEF Repeats
  <2>3. QED
    BY <2>1, <2>2
<1>6. Finished' => (\A q \in Presses : Follows(press[q])') /\ ((\A q \in Presses : ~Clearing(press[q])) => Exist(bound))'
  <2>1. ASSUME Finished' PROVE Follows(x)' /\ (~Clearing(x) => Exist(bound)') /\ \A q \in Presses \ {p} : press'[q] = Rooms!Idle
    BY <2>1, <1>2, <1>3
  <2>2. ASSUME Finished', NEW q \in Presses PROVE Follows(press[q])'
    <3>1. press'[q] = x \/ press'[q] = Rooms!Idle
      BY <2>1, <2>2, <1>1
    <3>2. Follows(x)' /\ Follows(Rooms!Idle)'
      BY <2>1, <2>2, IdleIs
    <3>3. QED
      BY <3>1, <3>2 DEF Follows
  <2>3. Finished' => ((\A q \in Presses : ~Clearing(press[q])) => Exist(bound))'
    BY <2>1, <1>1 DEF Clearing
  <2>4. QED
    BY <2>2, <2>3
<1>7. QED
  BY <1>2, <1>4, <1>5, <1>6 DEF RoomInv

(* What the request that moves may rely on.                                *)
LEMMA AtWork ==
    ASSUME RoomInv, NEW p \in Presses, press[p] # Rooms!Idle, why \subseteq why'
    PROVE  /\ Kept' /\ SolePress => (~Behind(press[p]) => ListIsCurrent)
           /\ Seen' => Lone /\ Repeats(press[p])
           /\ Finished' /\ SolePress => Follows(press[p]) /\ (~Clearing(press[p]) => Exist(bound))
<1>1. (Kept' => Kept) /\ (Seen' => Seen) /\ (Finished' => Finished)
  BY DEF Kept, Seen, Finished
<1>2. SolePress => \A q \in Presses \ {p} : press[q] = Rooms!Idle
  BY DEF SolePress
<1>3. SolePress /\ ~Behind(press[p]) => \A q \in Presses : ~Behind(press[q])
  BY <1>2, IdleIs DEF Behind
<1>4. SolePress /\ ~Clearing(press[p]) => \A q \in Presses : ~Clearing(press[q])
  BY <1>2, IdleIs DEF Clearing
<1>5. QED
  BY <1>1, <1>3, <1>4 DEF RoomInv

(* A request begins: with another at work, the two have met.               *)
LEMMA PressBegins ==
    ASSUME RoomInv, RoomConstants, NEW p \in Presses, NEW x \in PressSet, Rooms!Begin(p, x),
           UNCHANGED <<rooms, cats, cached, fresh, bound, minted, faults>>,
           x.at \in {"list", "orphans", "check"}, x.made = {}, x.at = "list" => x.known = {}
    PROVE  RoomInv'
<1>1. press[p] = Rooms!Idle /\ press' = [press EXCEPT ![p] = x] /\ pressed' = pressed + 1 /\ pressed < MaxPresses
  BY DEF Rooms!Begin, Rooms!To
<1>2. press'[p] = x /\ \A q \in Presses \ {p} : press'[q] = press[q]
  BY <1>1 DEF RoomInv, RoomTypes
<1>3. why \subseteq why' /\ why' \subseteq why \cup {"met"}
  BY DEF Rooms!Begin
<1>4. RoomTypes'
  <2>1. press' \in [Presses -> PressSet]
    BY <1>1 DEF RoomInv, RoomTypes
  <2>2. pressed' \in 0 .. MaxPresses
    BY <1>1 DEF RoomInv, RoomTypes, RoomConstants
  <2>3. why' \subseteq {"blind", "stale", "met", "hand", "cut"}
    BY <1>3 DEF RoomInv, RoomTypes
  <2>4. QED
    BY <2>1, <2>2, <2>3 DEF RoomInv, RoomTypes
<1>5. "met" \notin why' => SolePress' /\ "met" \notin why
  BY <1>2, <1>3, <1>1 DEF Rooms!Begin, SolePress
<1>6. ~Behind(x) /\ ~Clearing(x) /\ x.at \notin Found /\ x.at # "save" /\ x.at # "make"
  BY DEF Behind, Clearing, Found
<1>7. Kept' => ((\A q \in Presses : ~Behind(press[q])) => ListIsCurrent)'
  <2>1. SUFFICES ASSUME Kept', \A q \in Presses : ~Behind(press'[q]) PROVE ListIsCurrent'
    BY DEF Behind
  <2>2. \A q \in Presses : ~Behind(press[q])
    BY <2>1, <1>1, <1>2, IdleIs
  <2>3. Kept
    BY <2>1, <1>3 DEF Kept
  <2>4. ListIsCurrent
    BY <2>2, <2>3 DEF RoomInv
  <2>5. QED
    BY <2>4 DEF ListIsCurrent, Rooms!Guild
<1>8. Seen' => Lone' /\ \A q \in Presses : Repeats(press[q])'
  <2>1. SUFFICES ASSUME Seen' PROVE Lone' /\ \A q \in Presses : Repeats(press[q])'
    OBVIOUS
  <2>2. Lone /\ \A q \in Presses : Repeats(press[q])
    BY <2>1, <1>3 DEF Seen, RoomInv
  <2>3. Lone'
    BY <2>2 DEF Lone
  <2>4. \A q \in Presses : Repeats(press'[q])
    BY <2>2, <1>2, <1>6 DEF Repeats
  <2>5. \A q \in Presses : Repeats(press[q])'
    BY <2>4 DEF Repeats
  <2>6. QED
    BY <2>3, <2>5
<1>9. Finished' => (\A q \in Presses : Follows(press[q])') /\ ((\A q \in Presses : ~Clearing(press[q])) => Exist(bound))'
  <2>1. SUFFICES ASSUME Finished'
                 PROVE  (\A q \in Presses : Follows(press[q])') /\ ((\A q \in Presses : ~Clearing(press[q])) => Exist(bound))'
    OBVIOUS
  <2>2. (\A q \in Presses : Follows(press[q])) /\ ((\A q \in Presses : ~Clearing(press[q])) => Exist(bound))
    BY <2>1, <1>3 DEF Finished, RoomInv
  <2>3. Follows(x)
    BY <1>6 DEF Follows, Exist, Built
  <2>4. \A q \in Presses : Follows(press'[q])
    BY <2>2, <2>3, <1>2
  <2>5. \A q \in Presses : Follows(press[q])'
    BY <2>4 DEF Follows, Exist
  <2>6. (\A q \in Presses : ~Clearing(press'[q])) => \A q \in Presses : ~Clearing(press[q])
    BY <1>1, <1>2, IdleIs
  <2>7. (\A q \in Presses : ~Clearing(press'[q])) => Exist(bound)
    BY <2>2, <2>6
  <2>8. ((\A q \in Presses : ~Clearing(press[q])) => Exist(bound))'
    BY <2>7 DEF Clearing, Exist
  <2>9. QED
    BY <2>5, <2>8
<1>10. QED
  BY <1>4, <1>5, <1>7, <1>8, <1>9 DEF RoomInv

(* A request that reads the list sees the guild as it is, unless it was    *)
(* kept although it is old.                                                *)
LEMMA ListsRead ==
    ASSUME RoomTypes, RoomConstants, NEW list \in Rooms!Lists, Rooms!ReadsList(list)
    PROVE  /\ list \in ListSet /\ cached' = list /\ fresh' \in BOOLEAN /\ cached' # None
           /\ faults' \in 0 .. MaxMishaps /\ why \subseteq why' /\ why' \subseteq why \cup {"stale"}
           /\ ListIsCurrent /\ "stale" \notin why' => list = Rooms!Guild
<1>1. Rooms!Guild \in ListSet
  BY DEF RoomTypes, Rooms!Guild, ListSet
<1>2. list \in ListSet /\ list # None
  BY <1>1 DEF Rooms!Lists, RoomTypes, RoomConstants
<1>3. CASE fresh /\ list = cached /\ UNCHANGED <<cached, fresh>> /\ Rooms!Calm
  BY <1>2, <1>3 DEF Rooms!Calm, ListIsCurrent, RoomTypes
<1>4. CASE ~fresh /\ list = Rooms!Guild /\ cached' = Rooms!Guild /\ fresh' = TRUE /\ Rooms!Calm
  BY <1>2, <1>4 DEF Rooms!Calm, RoomTypes
<1>5. CASE ~fresh /\ list = cached /\ UNCHANGED <<cached, fresh>> /\ Rooms!Mishap({"stale"})
  BY <1>2, <1>5 DEF Rooms!Mishap, RoomTypes, RoomConstants
<1>6. QED
  BY <1>3, <1>4, <1>5 DEF Rooms!ReadsList

LEMMA RoomMishap ==
    ASSUME RoomTypes, RoomConstants, NEW reasons \in SUBSET {"blind", "stale", "met", "hand", "cut"}
    PROVE  /\ Rooms!Mishap(reasons) => faults' \in 0 .. MaxMishaps /\ why' = why \cup reasons
                                 /\ why' \subseteq {"blind", "stale", "met", "hand", "cut"}
           /\ Rooms!Calm => faults' \in 0 .. MaxMishaps /\ why' = why
                                 /\ why' \subseteq {"blind", "stale", "met", "hand", "cut"}
<1>1. Rooms!Calm => faults' = faults /\ why' = why
  BY DEF Rooms!Calm
<1>2. Rooms!Mishap(reasons) => faults' \in 0 .. MaxMishaps
  BY DEF Rooms!Mishap, RoomTypes, RoomConstants
<1>3. Rooms!Mishap(reasons) => why' = why \cup reasons
  BY DEF Rooms!Mishap
<1>4. why \cup reasons \subseteq {"blind", "stale", "met", "hand", "cut"}
  BY DEF RoomTypes
<1>5. QED
  BY <1>1, <1>2, <1>3, <1>4 DEF RoomTypes

LEMMA StepSetup == ASSUME RoomInv, RoomConstants, NEW p \in Presses, Rooms!Setup(p) PROVE RoomInv'
<1>1. PICK mode \in DOMAIN TwoModes : Rooms!Begin(p, [Rooms!Idle EXCEPT !.at = "list", !.names = TwoModes[mode]])
  BY DEF Rooms!Setup
<1>2. PICK x : x = [Rooms!Idle EXCEPT !.at = "list", !.names = TwoModes[mode]]
  OBVIOUS
<1>3. TwoModes[mode] \subseteq Rooms!Names
  BY DEF Rooms!Names
<1>4. x \in PressSet /\ x.at = "list" /\ x.made = {} /\ x.known = {}
  BY <1>2, <1>3 DEF Rooms!Idle, PressSet, Rooms!Steps
<1>5. QED
  BY <1>1, <1>2, <1>4, PressBegins DEF Rooms!Setup

LEMMA StepTeardown == ASSUME RoomInv, RoomConstants, NEW p \in Presses, Rooms!Teardown(p) PROVE RoomInv'
<1>1. PICK x : x = [Rooms!Idle EXCEPT !.at = "orphans", !.known = bound]
  OBVIOUS
<1>2. bound \subseteq Rooms!Pairs
  BY DEF RoomInv, RoomTypes
<1>3. x \in PressSet /\ x.at = "orphans" /\ x.made = {}
  BY <1>1, <1>2 DEF Rooms!Idle, PressSet, Rooms!Steps
<1>4. QED
  BY <1>1, <1>3, PressBegins DEF Rooms!Teardown

LEMMA StepOpenForm == ASSUME RoomInv, RoomConstants, NEW p \in Presses, Rooms!OpenForm(p) PROVE RoomInv'
<1>1. PICK x : x = [Rooms!Idle EXCEPT !.at = "check", !.known = bound]
  OBVIOUS
<1>2. bound \subseteq Rooms!Pairs
  BY DEF RoomInv, RoomTypes
<1>3. x \in PressSet /\ x.at = "check" /\ x.made = {}
  BY <1>1, <1>2 DEF Rooms!Idle, PressSet, Rooms!Steps
<1>4. QED
  BY <1>1, <1>3, PressBegins DEF Rooms!OpenForm

(* A step of a request at work that leaves rooms and categories as they    *)
(* are, and the bindings too.                                              *)
LEMMA PressReads ==
    ASSUME RoomInv, RoomConstants, NEW p \in Presses, press[p] # Rooms!Idle, NEW x \in PressSet, Rooms!To(p, x),
           UNCHANGED <<rooms, cats, bound, minted, pressed>>,
           cached' \in ListSet \cup {None}, fresh' \in BOOLEAN, fresh' => cached' # None,
           faults' \in 0 .. MaxMishaps, why \subseteq why',
           why' \subseteq {"blind", "stale", "met", "hand", "cut"},
           Kept' /\ SolePress => (~Behind(x) => ListIsCurrent'),
           Seen' /\ SolePress /\ Lone /\ Repeats(press[p]) => Repeats(x),
           Finished' /\ SolePress /\ Follows(press[p]) => Follows(x),
           Finished' /\ Clearing(press[p]) => Clearing(x)
    PROVE  RoomInv'
<1>1. press' = [press EXCEPT ![p] = x]
  BY DEF Rooms!To
<1>2. RoomTypes'
  <2>1. press' \in [Presses -> PressSet]
    BY <1>1 DEF RoomInv, RoomTypes
  <2>2. QED
    BY <2>1 DEF RoomInv, RoomTypes
<1>3. Seen' /\ SolePress => Lone' /\ Repeats(x)'
  <2>1. Seen' /\ SolePress => Lone /\ Repeats(x)
    BY AtWork
  <2>2. (Lone => Lone') /\ (Repeats(x) => Repeats(x)')
    BY DEF Lone, Repeats
  <2>3. QED
    BY <2>1, <2>2
<1>4. Finished' /\ SolePress => Follows(x)' /\ (~Clearing(x) => Exist(bound)')
  <2>1. Finished' /\ SolePress => Follows(x) /\ (~Clearing(x) => Exist(bound))
    BY AtWork
  <2>2. (Follows(x) => Follows(x)') /\ (Exist(bound) => Exist(bound)')
    BY DEF Follows, Exist
  <2>3. QED
    BY <2>1, <2>2
<1>5. QED
  BY <1>1, <1>2, <1>3, <1>4, PressMoves

LEMMA StandsAt ==
    ASSUME RoomInv, NEW p \in Presses, press[p].at # "idle"
    PROVE  press[p] # Rooms!Idle /\ press[p] \in PressSet /\ RoomTypes
BY IdleIs DEF RoomInv, RoomTypes

(* The same, for a step that reads the list, and for one that cannot.      *)
LEMMA PressReadsList ==
    ASSUME RoomInv, RoomConstants, NEW p \in Presses, press[p].at # "idle", ~Behind(press[p]),
           NEW list \in Rooms!Lists, Rooms!ReadsList(list), NEW x \in PressSet, Rooms!To(p, x),
           UNCHANGED <<rooms, cats, bound, minted, pressed>>,
           list = Rooms!Guild /\ Lone /\ Repeats(press[p]) => Repeats(x),
           list = Rooms!Guild /\ Follows(press[p]) => Follows(x)
    PROVE  RoomInv'
<1>1. press[p] # Rooms!Idle /\ RoomTypes
  BY StandsAt
<1>2. /\ list \in ListSet /\ cached' = list /\ fresh' \in BOOLEAN /\ cached' # None
      /\ faults' \in 0 .. MaxMishaps /\ why \subseteq why' /\ why' \subseteq why \cup {"stale"}
      /\ ListIsCurrent /\ "stale" \notin why' => list = Rooms!Guild
  BY <1>1, ListsRead
<1>3. Kept' /\ SolePress => list = Rooms!Guild
  BY <1>1, <1>2, AtWork DEF Kept
<1>4. Kept' /\ SolePress => ListIsCurrent'
  <2>1. Rooms!Guild' = Rooms!Guild
    BY DEF Rooms!Guild
  <2>2. QED
    BY <1>2, <1>3, <2>1 DEF ListIsCurrent
<1>5. (Seen' => Kept') /\ (Finished' => Kept')
  BY DEF Seen, Kept, Finished
<1>6. Seen' /\ SolePress /\ Lone /\ Repeats(press[p]) => Repeats(x)
  BY <1>3, <1>5
<1>7. Finished' /\ SolePress /\ Follows(press[p]) => Follows(x)
  BY <1>3, <1>5
<1>8. ~Clearing(press[p])
  BY DEF Behind, Clearing
<1>9. why' \subseteq {"blind", "stale", "met", "hand", "cut"}
  BY <1>1, <1>2 DEF RoomTypes
<1>10. QED
  BY <1>1, <1>2, <1>4, <1>6, <1>7, <1>8, <1>9, PressReads

LEMMA PressCannotRead ==
    ASSUME RoomInv, RoomConstants, NEW p \in Presses, press[p].at # "idle", ~Behind(press[p]), Rooms!CannotRead,
           NEW reasons \in SUBSET {"blind"}, Rooms!Mishap(reasons), NEW x \in PressSet, Rooms!To(p, x),
           UNCHANGED <<rooms, cats, bound, minted, pressed>>,
           reasons = {} /\ Repeats(press[p]) => Repeats(x),
           Follows(press[p]) => Follows(x)
    PROVE  RoomInv'
<1>1. press[p] # Rooms!Idle /\ RoomTypes
  BY StandsAt
<1>2. cached = None /\ cached' = cached /\ fresh' = fresh
  BY DEF Rooms!CannotRead
<1>3. /\ faults' \in 0 .. MaxMishaps /\ why' = why \cup reasons
      /\ why' \subseteq {"blind", "stale", "met", "hand", "cut"}
  BY <1>1, RoomMishap
<1>4. Seen' => reasons = {}
  BY <1>3 DEF Seen
<1>5. ListIsCurrent'
  BY <1>2 DEF ListIsCurrent
<1>6. ~Clearing(press[p])
  BY DEF Behind, Clearing
<1>7. fresh' \in BOOLEAN /\ (fresh' => cached' # None) /\ cached' \in ListSet \cup {None}
  BY <1>1, <1>2 DEF RoomTypes
<1>8. QED
  BY <1>1, <1>3, <1>4, <1>5, <1>6, <1>7, PressReads

(* What a list says is reused names every planned room it has.             *)
LEMMA ReusedAre ==
    ASSUME NEW list, NEW names \in SUBSET Rooms!Names, NEW found \in Rooms!Reused(list, names)
    PROVE  /\ found \in SUBSET Rooms!Pairs
           /\ \A r \in list.rooms : r.name \in names => r.name \in Rooms!NamesOf(found)
           /\ \A b \in found : \E r \in list.rooms : r.id = b.id
<1> DEFINE there == {n \in names : \E r \in list.rooms : r.name = n}
<1>1. PICK f \in [there -> Rooms!Ids] : /\ \A n \in there : \E r \in list.rooms : r.name = n /\ r.id = f[n]
                                        /\ found = {[name |-> n, id |-> f[n]] : n \in there}
  BY DEF Rooms!Reused
<1>2. found \in SUBSET Rooms!Pairs
  BY <1>1 DEF Rooms!Pairs
<1>3. \A b \in found : \E r \in list.rooms : r.id = b.id
  BY <1>1
<1>4. ASSUME NEW r \in list.rooms, r.name \in names PROVE r.name \in Rooms!NamesOf(found)
  <2>1. r.name \in there
    BY <1>4
  <2>2. [name |-> r.name, id |-> f[r.name]] \in found
    BY <1>1, <2>1
  <2>3. QED
    BY <2>2 DEF Rooms!NamesOf
<1>5. QED
  BY <1>2, <1>3, <1>4

LEMMA StepListRooms == ASSUME RoomInv, RoomConstants, NEW p \in Presses, Rooms!ListRooms(p) PROVE RoomInv'
<1>1. press[p].at = "list" /\ UNCHANGED <<rooms, cats, bound, minted, pressed>>
  BY DEF Rooms!ListRooms
<1>2. press[p].at # "idle" /\ ~Behind(press[p])
  BY <1>1 DEF Behind
<1>3. press[p] \in PressSet
  BY <1>2, StandsAt
<1>4. ASSUME NEW list \in Rooms!Lists, NEW found \in Rooms!Reused(list, press[p].names), Rooms!ReadsList(list),
             Rooms!To(p, [press[p] EXCEPT !.at = "cap", !.known = found])
      PROVE  RoomInv'
  <2>1. PICK x : x = [press[p] EXCEPT !.at = "cap", !.known = found]
    OBVIOUS
  <2>2. press[p].names \in SUBSET Rooms!Names
    BY <1>3 DEF PressSet
  <2>3. /\ found \in SUBSET Rooms!Pairs
        /\ \A r \in list.rooms : r.name \in press[p].names => r.name \in Rooms!NamesOf(found)
        /\ \A b \in found : \E r \in list.rooms : r.id = b.id
    BY <2>2, ReusedAre
  <2>4. x \in PressSet /\ x.at = "cap" /\ x.known = found /\ x.names = press[p].names /\ x.made = press[p].made
    BY <1>3, <2>1, <2>3 DEF PressSet, Rooms!Steps
  <2>5. list = Rooms!Guild => list.rooms = rooms
    BY DEF Rooms!Guild
  <2>6. list = Rooms!Guild => Repeats(x)
    BY <2>3, <2>4, <2>5 DEF Repeats
  <2>7. list = Rooms!Guild /\ Follows(press[p]) => Follows(x)
    BY <1>1, <2>3, <2>4, <2>5 DEF Follows, Built, Exist
  <2>8. QED
    BY <1>1, <1>2, <1>4, <2>1, <2>4, <2>6, <2>7, PressReadsList
<1>5. ASSUME Rooms!CannotRead, Rooms!To(p, [press[p] EXCEPT !.at = "cap"]), Rooms!Mishap({"blind"}) PROVE RoomInv'
  <2>1. PICK x : x = [press[p] EXCEPT !.at = "cap"]
    OBVIOUS
  <2>2. x \in PressSet /\ x.at = "cap" /\ x.known = press[p].known /\ x.made = press[p].made
    BY <1>3, <2>1 DEF PressSet, Rooms!Steps
  <2>3. Follows(press[p]) => Follows(x)
    BY <1>1, <2>2 DEF Follows, Built, Exist
  <2>4. QED
    BY <1>1, <1>2, <1>5, <2>1, <2>2, <2>3, PressCannotRead
<1>6. QED
  BY <1>4, <1>5 DEF Rooms!ListRooms

(* A request that ends, or goes on with the same names and rooms.          *)
LEMMA GoesOn ==
    ASSUME NEW x \in PressSet, NEW at \in Rooms!Steps
    PROVE  LET y == [x EXCEPT !.at = at] IN
           y \in PressSet /\ y.at = at /\ y.known = x.known /\ y.made = x.made /\ y.names = x.names
BY DEF PressSet

LEMMA StepCheckCap == ASSUME RoomInv, RoomConstants, NEW p \in Presses, Rooms!CheckCap(p) PROVE RoomInv'
<1>1. press[p].at = "cap" /\ UNCHANGED <<rooms, cats, bound, minted, pressed>>
  BY DEF Rooms!CheckCap
<1>2. press[p].at # "idle" /\ ~Behind(press[p])
  BY <1>1 DEF Behind
<1>3. press[p] \in PressSet
  BY <1>2, StandsAt
<1>4. PICK x : x = [press[p] EXCEPT !.at = "find"]
  OBVIOUS
<1>5. x \in PressSet /\ x.at = "find" /\ x.known = press[p].known /\ x.made = press[p].made /\ x.names = press[p].names
  BY <1>3, <1>4, GoesOn DEF Rooms!Steps
<1>6. (Repeats(press[p]) => Repeats(x)) /\ (Follows(press[p]) => Follows(x))
  BY <1>1, <1>5 DEF Repeats, Follows, Built, Found
<1>7. ASSUME NEW list \in Rooms!Lists, Rooms!ReadsList(list), Rooms!Done(p) \/ Rooms!To(p, x) PROVE RoomInv'
  <2>1. CASE Rooms!Done(p)
    BY <1>1, <1>2, <1>7, <2>1, IdleIs, PressReadsList DEF Rooms!Done
  <2>2. CASE Rooms!To(p, x)
    BY <1>1, <1>2, <1>5, <1>6, <1>7, <2>2, PressReadsList
  <2>3. QED
    BY <1>7, <2>1, <2>2
<1>8. ASSUME Rooms!CannotRead, Rooms!To(p, x), Rooms!Mishap({}) PROVE RoomInv'
  <2>1. {} \in SUBSET {"blind"}
    OBVIOUS
  <2>2. QED
    BY <1>1, <1>2, <1>5, <1>6, <1>8, <2>1, PressCannotRead
<1>9. QED
  BY <1>4, <1>7, <1>8 DEF Rooms!CheckCap

LEMMA StepFindCategory == ASSUME RoomInv, RoomConstants, NEW p \in Presses, Rooms!FindCategory(p) PROVE RoomInv'
<1>1. press[p].at = "find" /\ UNCHANGED <<rooms, cats, bound, minted, pressed>>
  BY DEF Rooms!FindCategory
<1>2. press[p].at # "idle" /\ ~Behind(press[p])
  BY <1>1 DEF Behind
<1>3. press[p] \in PressSet /\ RoomTypes
  BY <1>2, StandsAt
<1>4. ASSUME NEW list \in Rooms!Lists, Rooms!ReadsList(list), list.cats = {}, Rooms!To(p, [press[p] EXCEPT !.at = "make"]) PROVE RoomInv'
  <2>1. PICK x : x = [press[p] EXCEPT !.at = "make"]
    OBVIOUS
  <2>2. x \in PressSet /\ x.at = "make" /\ x.known = press[p].known /\ x.made = press[p].made /\ x.names = press[p].names
    BY <1>3, <2>1, GoesOn DEF Rooms!Steps
  <2>3. list = Rooms!Guild /\ Repeats(press[p]) => Repeats(x)
    BY <1>1, <1>4, <2>2 DEF Repeats, Found, Rooms!Guild
  <2>4. Follows(press[p]) => Follows(x)
    BY <1>1, <2>2 DEF Follows, Built
  <2>5. QED
    BY <1>1, <1>2, <1>4, <2>1, <2>2, <2>3, <2>4, PressReadsList
<1>5. ASSUME NEW list \in Rooms!Lists, Rooms!ReadsList(list), NEW c \in list.cats,
             Rooms!To(p, [press[p] EXCEPT !.at = "rooms", !.cat = c])
      PROVE  RoomInv'
  <2>1. PICK x : x = [press[p] EXCEPT !.at = "rooms", !.cat = c]
    OBVIOUS
  <2>2. c \in Rooms!Ids
    <3>1. list \in ListSet
      BY <1>3, <1>5, ListsRead
    <3>2. QED
      BY <1>5, <3>1 DEF ListSet
  <2>3. x \in PressSet /\ x.at = "rooms" /\ x.known = press[p].known /\ x.made = press[p].made /\ x.names = press[p].names
    BY <1>3, <2>1, <2>2 DEF PressSet, Rooms!Steps
  <2>4. (Repeats(press[p]) => Repeats(x)) /\ (Follows(press[p]) => Follows(x))
    BY <1>1, <2>3 DEF Repeats, Follows, Built, Found
  <2>5. QED
    BY <1>1, <1>2, <1>5, <2>1, <2>3, <2>4, PressReadsList
<1>6. ASSUME Rooms!CannotRead, Rooms!Done(p), Rooms!Mishap({}) PROVE RoomInv'
  <2>1. {} \in SUBSET {"blind"}
    OBVIOUS
  <2>2. QED
    BY <1>1, <1>2, <1>6, <2>1, IdleIs, PressCannotRead DEF Rooms!Done
<1>7. QED
  BY <1>4, <1>5, <1>6 DEF Rooms!FindCategory

LEMMA StepCheckForm == ASSUME RoomInv, RoomConstants, NEW p \in Presses, Rooms!CheckForm(p) PROVE RoomInv'
<1>1. press[p].at = "check" /\ UNCHANGED <<rooms, cats, bound, minted, pressed>>
  BY DEF Rooms!CheckForm
<1>2. press[p].at # "idle" /\ ~Behind(press[p])
  BY <1>1 DEF Behind
<1>3. press[p] \in PressSet
  BY <1>2, StandsAt
<1>4. ASSUME NEW list \in Rooms!Lists, Rooms!ReadsList(list), Rooms!Done(p) PROVE RoomInv'
  BY <1>1, <1>2, <1>4, IdleIs, PressReadsList DEF Rooms!Done
<1>5. ASSUME NEW list \in Rooms!Lists, Rooms!ReadsList(list), Rooms!IdsOf(press[p].known) \subseteq {r.id : r \in list.rooms},
             NEW b \in {press[p].known} \cup {press[p].known \ {q} : q \in press[p].known},
             Rooms!To(p, [press[p] EXCEPT !.at = "save", !.known = b])
      PROVE  RoomInv'
  <2>1. PICK x : x = [press[p] EXCEPT !.at = "save", !.known = b]
    OBVIOUS
  <2>2. b \subseteq press[p].known
    BY <1>5
  <2>3. x \in PressSet /\ x.at = "save" /\ x.known = b
    BY <1>3, <2>1, <2>2 DEF PressSet, Rooms!Steps
  <2>4. Repeats(x)
    BY <2>3 DEF Repeats, Found
  <2>5. list = Rooms!Guild => list.rooms = rooms
    BY DEF Rooms!Guild
  <2>6. \A e \in b : \E r \in list.rooms : r.id = e.id
    BY <1>5, <2>2 DEF Rooms!IdsOf
  <2>7. list = Rooms!Guild => Follows(x)
    BY <2>3, <2>5, <2>6 DEF Follows, Built, Exist
  <2>8. QED
    BY <1>1, <1>2, <1>5, <2>1, <2>3, <2>4, <2>7, PressReadsList
<1>6. ASSUME Rooms!CannotRead, Rooms!Done(p), Rooms!Mishap({}) PROVE RoomInv'
  <2>1. {} \in SUBSET {"blind"}
    OBVIOUS
  <2>2. QED
    BY <1>1, <1>2, <1>6, <2>1, IdleIs, PressCannotRead DEF Rooms!Done
<1>7. QED
  BY <1>4, <1>5, <1>6 DEF Rooms!CheckForm

LEMMA StepListOrphans == ASSUME RoomInv, RoomConstants, NEW p \in Presses, Rooms!ListOrphans(p) PROVE RoomInv'
<1>1. press[p].at = "orphans" /\ UNCHANGED <<rooms, cats, bound, minted, pressed>>
  BY DEF Rooms!ListOrphans
<1>2. press[p].at # "idle" /\ ~Behind(press[p])
  BY <1>1 DEF Behind
<1>3. press[p] \in PressSet /\ RoomTypes
  BY <1>2, StandsAt
<1>4. ASSUME NEW list \in Rooms!Lists, Rooms!ReadsList(list), NEW c \in IF list.cats = {} THEN {0} ELSE list.cats,
             NEW todo, todo = Rooms!IdsOf(press[p].known) \cup {r.id : r \in {q \in list.rooms : q.parent = c /\ c # 0}},
             Rooms!Done(p) \/ Rooms!To(p, [press[p] EXCEPT !.at = "existing", !.cat = c, !.todo = todo])
      PROVE  RoomInv'
  <2>1. PICK x : x = [press[p] EXCEPT !.at = "existing", !.cat = c, !.todo = todo]
    OBVIOUS
  <2>2. list \in ListSet
    BY <1>3, <1>4, ListsRead
  <2>3. c \in {0} \cup Rooms!Ids
    BY <1>4, <2>2 DEF ListSet
  <2>4. todo \subseteq Rooms!Ids
    <3>1. Rooms!IdsOf(press[p].known) \subseteq Rooms!Ids
      BY <1>3 DEF Rooms!IdsOf, PressSet, Rooms!Pairs
    <3>2. {r.id : r \in {q \in list.rooms : q.parent = c /\ c # 0}} \subseteq Rooms!Ids
      BY <2>2 DEF ListSet, RoomSet
    <3>3. QED
      BY <1>4, <3>1, <3>2
  <2>5. x \in PressSet /\ x.at = "existing"
    BY <1>3, <2>1, <2>3, <2>4 DEF PressSet, Rooms!Steps
  <2>6. Repeats(x) /\ Follows(x)
    BY <2>5 DEF Repeats, Follows, Built, Found
  <2>7. CASE Rooms!Done(p)
    BY <1>1, <1>2, <1>4, <2>7, IdleIs, PressReadsList DEF Rooms!Done
  <2>8. CASE Rooms!To(p, x)
    BY <1>1, <1>2, <1>4, <2>5, <2>6, <2>8, PressReadsList
  <2>9. QED
    BY <1>4, <2>1, <2>7, <2>8
<1>5. ASSUME Rooms!CannotRead, Rooms!Done(p), Rooms!Mishap({}) PROVE RoomInv'
  <2>1. {} \in SUBSET {"blind"}
    OBVIOUS
  <2>2. QED
    BY <1>1, <1>2, <1>5, <2>1, IdleIs, PressCannotRead DEF Rooms!Done
<1>6. QED
  BY <1>4, <1>5 DEF Rooms!ListOrphans

LEMMA StepListExisting == ASSUME RoomInv, RoomConstants, NEW p \in Presses, Rooms!ListExisting(p) PROVE RoomInv'
<1>1. press[p].at = "existing" /\ UNCHANGED <<rooms, cats, bound, minted, pressed>>
  BY DEF Rooms!ListExisting
<1>2. press[p].at # "idle" /\ ~Behind(press[p])
  BY <1>1 DEF Behind
<1>3. press[p] \in PressSet
  BY <1>2, StandsAt
<1>4. ASSUME NEW list \in Rooms!Lists, Rooms!ReadsList(list),
             Rooms!To(p, [press[p] EXCEPT !.at = "delete", !.todo = @ \cap {r.id : r \in list.rooms}])
      PROVE  RoomInv'
  <2>1. PICK x : x = [press[p] EXCEPT !.at = "delete", !.todo = @ \cap {r.id : r \in list.rooms}]
    OBVIOUS
  <2>2. x \in PressSet /\ x.at = "delete"
    BY <1>3, <2>1 DEF PressSet, Rooms!Steps
  <2>3. Repeats(x) /\ Follows(x)
    BY <2>2 DEF Repeats, Follows, Built, Found
  <2>4. QED
    BY <1>1, <1>2, <1>4, <2>1, <2>2, <2>3, PressReadsList
<1>5. ASSUME Rooms!CannotRead, Rooms!Done(p), Rooms!Mishap({}) PROVE RoomInv'
  <2>1. {} \in SUBSET {"blind"}
    OBVIOUS
  <2>2. QED
    BY <1>1, <1>2, <1>5, <2>1, IdleIs, PressCannotRead DEF Rooms!Done
<1>6. QED
  BY <1>4, <1>5 DEF Rooms!ListExisting

(* A step that leaves the types alone but for the request.                 *)
LEMMA PressKept ==
    ASSUME RoomTypes, NEW p \in Presses, NEW x \in PressSet, Rooms!To(p, x), UNCHANGED pressed,
           rooms' \subseteq RoomSet, cats' \subseteq Rooms!Ids, bound' \subseteq Rooms!Pairs,
           cached' \in ListSet \cup {None}, fresh' \in BOOLEAN, fresh' => cached' # None,
           minted' \in 0 .. MaxIds, faults' \in 0 .. MaxMishaps,
           why' \subseteq {"blind", "stale", "met", "hand", "cut"}
    PROVE  RoomTypes' /\ press' = [press EXCEPT ![p] = x]
BY DEF RoomTypes, Rooms!To

LEMMA StepMakeCategory == ASSUME RoomInv, RoomConstants, NEW p \in Presses, Rooms!MakeCategory(p) PROVE RoomInv'
<1>1. press[p].at = "make" /\ UNCHANGED <<rooms, cached, fresh, bound, pressed>>
  BY DEF Rooms!MakeCategory
<1>2. press[p].at # "idle" /\ ~Behind(press[p]) /\ ~Clearing(press[p])
  BY <1>1 DEF Behind, Clearing
<1>3. press[p] # Rooms!Idle /\ press[p] \in PressSet /\ RoomTypes
  BY <1>2, StandsAt
<1>4. ASSUME minted < MaxIds, minted' = minted + 1, cats' = cats \cup {minted'},
             Rooms!To(p, [press[p] EXCEPT !.at = "rooms", !.cat = minted']), Rooms!Calm
      PROVE  RoomInv'
  <2>1. PICK x : x = [press[p] EXCEPT !.at = "rooms", !.cat = minted']
    OBVIOUS
  <2>2. minted' \in Rooms!Ids /\ minted' \in 0 .. MaxIds
    BY <1>3, <1>4 DEF RoomTypes, RoomConstants, Rooms!Ids
  <2>3. x \in PressSet /\ x.at = "rooms" /\ x.known = press[p].known /\ x.made = press[p].made /\ x.names = press[p].names
    BY <1>3, <2>1, <2>2 DEF PressSet, Rooms!Steps
  <2>4. why' = why /\ faults' = faults
    BY <1>4 DEF Rooms!Calm
  <2>5. cats' \subseteq Rooms!Ids
    BY <1>3, <1>4, <2>2 DEF RoomTypes
  <2>6. RoomTypes' /\ press' = [press EXCEPT ![p] = x]
    BY <1>1, <1>3, <1>4, <2>1, <2>2, <2>3, <2>4, <2>5, PressKept DEF RoomTypes
  <2>7. Seen' /\ SolePress => Lone' /\ Repeats(x)'
    <3>1. SUFFICES ASSUME Lone, Repeats(press[p]) PROVE Lone' /\ Repeats(x)'
      BY <1>3, <2>4, AtWork
    <3>2. cats' = {minted'}
      BY <1>1, <1>4, <3>1 DEF Repeats
    <3>3. Lone'
      BY <1>1, <3>1, <3>2 DEF Lone
    <3>4. Repeats(x)'
      BY <1>1, <2>3, <3>1 DEF Repeats, Found
    <3>5. QED
      BY <3>3, <3>4
  <2>8. Finished' /\ SolePress => Follows(x)' /\ (~Clearing(x) => Exist(bound)')
    <3>1. SUFFICES ASSUME Follows(press[p]), Exist(bound) PROVE Follows(x)' /\ Exist(bound)'
      BY <1>2, <1>3, <2>4, AtWork
    <3>2. Exist(bound)'
      BY <1>1, <3>1 DEF Exist
    <3>3. Follows(x)'
      BY <1>1, <2>3, <3>1 DEF Follows, Built, Exist
    <3>4. QED
      BY <3>2, <3>3
  <2>9. Behind(x)
    BY <2>3 DEF Behind
  <2>10. QED
    BY <1>3, <2>4, <2>6, <2>7, <2>8, <2>9, PressMoves
<1>5. ASSUME Rooms!Done(p), Rooms!Mishap({}), UNCHANGED <<cats, minted>> PROVE RoomInv'
  <2>1. faults' \in 0 .. MaxMishaps /\ why' = why /\ why' \subseteq {"blind", "stale", "met", "hand", "cut"}
    BY <1>3, <1>5, RoomMishap
  <2>2. Kept' /\ SolePress => ListIsCurrent'
    <3>1. Kept' /\ SolePress => ListIsCurrent
      BY <1>2, <1>3, <2>1, AtWork
    <3>2. QED
      BY <1>1, <1>5, <3>1 DEF ListIsCurrent, Rooms!Guild
  <2>3. QED
    BY <1>1, <1>2, <1>3, <1>5, <2>1, <2>2, IdleIs, PressReads DEF Rooms!Done, RoomTypes
<1>6. QED
  BY <1>4, <1>5 DEF Rooms!MakeCategory

LEMMA StepMakeRoom == ASSUME RoomInv, RoomConstants, NEW p \in Presses, Rooms!MakeRoom(p) PROVE RoomInv'
<1>1. press[p].at = "rooms" /\ UNCHANGED <<cats, cached, fresh, bound, pressed>>
  BY DEF Rooms!MakeRoom
<1>2. press[p].at # "idle" /\ ~Clearing(press[p])
  BY <1>1 DEF Clearing
<1>3. press[p] # Rooms!Idle /\ press[p] \in PressSet /\ RoomTypes
  BY <1>2, StandsAt
<1>4. PICK n \in press[p].names \ Rooms!NamesOf(press[p].known) :
          \/ /\ press[p].cat \in cats /\ minted < MaxIds /\ minted' = minted + 1
             /\ rooms' = rooms \cup {[id |-> minted', name |-> n, parent |-> press[p].cat]}
             /\ Rooms!To(p, [press[p] EXCEPT !.names = @ \ {n}, !.made = @ \cup {[name |-> n, id |-> minted']}])
             /\ Rooms!Calm
          \/ Rooms!To(p, [press[p] EXCEPT !.names = @ \ {n}]) /\ Rooms!Mishap({}) /\ UNCHANGED <<rooms, minted>>
          \/ Rooms!To(p, [press[p] EXCEPT !.names = @ \ {n}]) /\ Rooms!Calm /\ UNCHANGED <<rooms, minted>>
  BY DEF Rooms!MakeRoom
<1>5. n \in Rooms!Names
  BY <1>3, <1>4 DEF PressSet
<1>6. CASE /\ press[p].cat \in cats /\ minted < MaxIds /\ minted' = minted + 1
           /\ rooms' = rooms \cup {[id |-> minted', name |-> n, parent |-> press[p].cat]}
           /\ Rooms!To(p, [press[p] EXCEPT !.names = @ \ {n}, !.made = @ \cup {[name |-> n, id |-> minted']}])
           /\ Rooms!Calm
  <2>1. PICK x : x = [press[p] EXCEPT !.names = @ \ {n}, !.made = @ \cup {[name |-> n, id |-> minted']}]
    OBVIOUS
  <2>2. minted' \in Rooms!Ids /\ minted' \in 0 .. MaxIds
    BY <1>3, <1>6 DEF RoomTypes, RoomConstants, Rooms!Ids
  <2>3. PICK room : room = [id |-> minted', name |-> n, parent |-> press[p].cat]
    OBVIOUS
  <2>4. room \in RoomSet /\ room.id = minted' /\ room.name = n /\ rooms' = rooms \cup {room}
    BY <1>3, <1>5, <1>6, <2>2, <2>3 DEF RoomSet, PressSet
  <2>5. [name |-> n, id |-> minted'] \in Rooms!Pairs
    BY <1>5, <2>2 DEF Rooms!Pairs
  <2>6. /\ x \in PressSet /\ x.at = "rooms" /\ x.known = press[p].known
        /\ x.made = press[p].made \cup {[name |-> n, id |-> minted']} /\ x.names = press[p].names \ {n}
    BY <1>1, <1>3, <2>1, <2>5 DEF PressSet
  <2>7. why' = why /\ faults' = faults
    BY <1>6 DEF Rooms!Calm
  <2>8. rooms' \subseteq RoomSet
    BY <1>3, <2>4 DEF RoomTypes
  <2>9. RoomTypes' /\ press' = [press EXCEPT ![p] = x]
    BY <1>1, <1>3, <1>6, <2>1, <2>2, <2>6, <2>7, <2>8, PressKept DEF RoomTypes
  <2>10. Seen' /\ SolePress => Lone' /\ Repeats(x)'
    <3>1. SUFFICES ASSUME Lone, Repeats(press[p]) PROVE Lone' /\ Repeats(x)'
      BY <1>3, <2>7, AtWork
    <3>2. \A r \in rooms : r.name # n
      BY <1>1, <1>4, <3>1 DEF Repeats, Found
    <3>3. Lone'
      BY <1>1, <2>4, <3>1, <3>2 DEF Lone
    <3>4. \A r \in rooms' : r.name \in x.names => r.name \in Rooms!NamesOf(x.known)
      BY <1>1, <2>4, <2>6, <3>1 DEF Repeats, Found
    <3>5. Repeats(x)'
      BY <2>6, <3>4 DEF Repeats
    <3>6. QED
      BY <3>3, <3>5
  <2>11. Finished' /\ SolePress => Follows(x)' /\ (~Clearing(x) => Exist(bound)')
    <3>1. SUFFICES ASSUME Follows(press[p]), Exist(bound) PROVE Follows(x)' /\ Exist(bound)'
      BY <1>2, <1>3, <2>7, AtWork
    <3>2. Exist(bound)'
      BY <1>1, <2>4, <3>1 DEF Exist
    <3>3. \A b \in x.known : \E r \in rooms' : r.id = b.id
      BY <1>1, <2>4, <2>6, <3>1 DEF Follows, Built, Exist
    <3>4. \A b \in x.made : \E r \in rooms' : r.id = b.id
      BY <1>1, <2>4, <2>6, <3>1 DEF Follows, Built, Exist
    <3>5. Follows(x)'
      BY <2>6, <3>3, <3>4 DEF Follows, Exist
    <3>6. QED
      BY <3>2, <3>5
  <2>12. Behind(x)
    BY <2>6 DEF Behind
  <2>13. QED
    BY <1>3, <2>7, <2>9, <2>10, <2>11, <2>12, PressMoves
<1>7. CASE Rooms!To(p, [press[p] EXCEPT !.names = @ \ {n}]) /\ (Rooms!Mishap({}) \/ Rooms!Calm) /\ UNCHANGED <<rooms, minted>>
  <2>1. PICK x : x = [press[p] EXCEPT !.names = @ \ {n}]
    OBVIOUS
  <2>2. x \in PressSet /\ x.at = "rooms" /\ x.known = press[p].known /\ x.made = press[p].made /\ x.names \subseteq press[p].names
    BY <1>1, <1>3, <2>1 DEF PressSet
  <2>3. faults' \in 0 .. MaxMishaps /\ why' = why /\ why' \subseteq {"blind", "stale", "met", "hand", "cut"}
    BY <1>3, <1>7, RoomMishap
  <2>4. Behind(x) /\ (Repeats(press[p]) => Repeats(x)) /\ (Follows(press[p]) => Follows(x))
    BY <1>1, <2>2 DEF Behind, Repeats, Follows, Built, Found
  <2>5. QED
    BY <1>1, <1>2, <1>3, <1>7, <2>1, <2>2, <2>3, <2>4, PressReads DEF RoomTypes
<1>8. QED
  BY <1>4, <1>6, <1>7

LEMMA StepBindRooms == ASSUME RoomInv, RoomConstants, NEW p \in Presses, Rooms!BindRooms(p) PROVE RoomInv'
<1>1. press[p].at = "rooms" /\ Rooms!To(p, Rooms!Idle) /\ UNCHANGED <<rooms, cats, minted, pressed>>
  BY DEF Rooms!BindRooms, Rooms!Done
<1>2. press[p].at # "idle" /\ ~Clearing(press[p])
  BY <1>1 DEF Clearing
<1>3. press[p] # Rooms!Idle /\ press[p] \in PressSet /\ RoomTypes
  BY <1>2, StandsAt
<1>4. PICK created : created = press[p].made \cup press[p].known
  OBVIOUS
<1>5. created \subseteq Rooms!Pairs
  BY <1>3, <1>4 DEF PressSet
<1>6. ASSUME Rooms!Invalidate, Rooms!Calm, bound' \in {bound, created} PROVE RoomInv'
  <2>1. why' = why /\ faults' = faults /\ cached' = None /\ fresh' = FALSE
    BY <1>6 DEF Rooms!Invalidate, Rooms!Calm
  <2>2. RoomTypes' /\ press' = [press EXCEPT ![p] = Rooms!Idle]
    BY <1>1, <1>3, <1>5, <1>6, <2>1, IdleIs, PressKept DEF RoomTypes
  <2>3. ListIsCurrent'
    BY <2>1 DEF ListIsCurrent
  <2>4. Seen' /\ SolePress => Lone'
    <3>1. Seen' /\ SolePress => Lone
      BY <1>3, <2>1, AtWork
    <3>2. QED
      BY <1>1, <3>1 DEF Lone
  <2>5. Finished' /\ SolePress => Exist(bound)'
    <3>1. SUFFICES ASSUME Follows(press[p]), Exist(bound) PROVE Exist(bound)'
      BY <1>2, <1>3, <2>1, AtWork
    <3>2. \A b \in created : \E r \in rooms : r.id = b.id
      BY <1>1, <1>4, <3>1 DEF Follows, Built, Exist
    <3>3. QED
      BY <1>1, <1>6, <3>1, <3>2 DEF Exist
  <2>6. QED
    BY <1>3, <2>1, <2>2, <2>3, <2>4, <2>5, IdleIs, PressMoves
<1>7. ASSUME Rooms!Mishap(IF cached = None THEN {"cut"} ELSE {"cut", "stale"}), UNCHANGED <<bound, cached, fresh>> PROVE RoomInv'
  <2>1. PICK reasons \in SUBSET {"blind", "stale", "met", "hand", "cut"} :
             /\ reasons = IF cached = None THEN {"cut"} ELSE {"cut", "stale"}
             /\ Rooms!Mishap(reasons)
    BY <1>7
  <2>2. faults' \in 0 .. MaxMishaps /\ why' = why \cup reasons /\ why' \subseteq {"blind", "stale", "met", "hand", "cut"}
    BY <1>3, <2>1, RoomMishap
  <2>3. Kept' => cached = None
    BY <2>1, <2>2 DEF Kept
  <2>4. Kept' /\ SolePress => ListIsCurrent'
    BY <1>7, <2>3 DEF ListIsCurrent
  <2>5. ~Finished'
    BY <2>1, <2>2 DEF Finished
  <2>6. QED
    BY <1>1, <1>2, <1>3, <1>7, <2>2, <2>4, <2>5, IdleIs, PressReads DEF RoomTypes
<1>8. QED
  BY <1>4, <1>6, <1>7 DEF Rooms!BindRooms

LEMMA StepDeleteRoom == ASSUME RoomInv, RoomConstants, NEW p \in Presses, Rooms!DeleteRoom(p) PROVE RoomInv'
<1>1. press[p].at = "delete" /\ UNCHANGED <<cats, cached, fresh, bound, minted, pressed>>
  BY DEF Rooms!DeleteRoom
<1>2. press[p].at # "idle"
  BY <1>1
<1>3. press[p] # Rooms!Idle /\ press[p] \in PressSet /\ RoomTypes
  BY <1>2, StandsAt
<1>4. PICK id \in press[p].todo :
          \/ /\ rooms' = {r \in rooms : r.id # id}
             /\ Rooms!To(p, [press[p] EXCEPT !.todo = @ \ {id}]) /\ Rooms!Calm
          \/ /\ Rooms!To(p, [press[p] EXCEPT !.todo = @ \ {id}, !.failed = TRUE])
             /\ UNCHANGED rooms /\ (Rooms!Mishap({"cut"}) \/ Rooms!Calm)
  BY DEF Rooms!DeleteRoom
<1>5. PICK x : x \in {[press[p] EXCEPT !.todo = @ \ {id}], [press[p] EXCEPT !.todo = @ \ {id}, !.failed = TRUE]}
               /\ Rooms!To(p, x)
  BY <1>4
<1>6. x \in PressSet /\ x.at = "delete"
  BY <1>1, <1>3, <1>5 DEF PressSet
<1>7. faults' \in 0 .. MaxMishaps /\ why \subseteq why' /\ why' \subseteq {"blind", "stale", "met", "hand", "cut"}
  BY <1>3, <1>4, RoomMishap
<1>8. rooms' \subseteq rooms
  BY <1>4
<1>9. RoomTypes' /\ press' = [press EXCEPT ![p] = x]
  BY <1>1, <1>3, <1>5, <1>6, <1>7, <1>8, PressKept DEF RoomTypes
<1>10. Seen' /\ SolePress => Lone'
  <2>1. Seen' /\ SolePress => Lone
    BY <1>3, <1>7, AtWork
  <2>2. QED
    BY <1>1, <1>8, <2>1 DEF Lone
<1>11. Repeats(x)' /\ Follows(x)' /\ Behind(x) /\ Clearing(x)
  BY <1>6 DEF Repeats, Follows, Behind, Clearing, Built, Found
<1>12. QED
  BY <1>3, <1>7, <1>9, <1>10, <1>11, PressMoves

LEMMA StepDeleteCategory == ASSUME RoomInv, RoomConstants, NEW p \in Presses, Rooms!DeleteCategory(p) PROVE RoomInv'
<1>1. press[p].at = "delete" /\ UNCHANGED <<rooms, bound, minted, pressed>>
  BY DEF Rooms!DeleteCategory
<1>2. press[p].at # "idle"
  BY <1>1
<1>3. press[p] # Rooms!Idle /\ press[p] \in PressSet /\ RoomTypes
  BY <1>2, StandsAt
<1>4. PICK x : x = [press[p] EXCEPT !.at = "clear"]
  OBVIOUS
<1>5. x \in PressSet /\ x.at = "clear"
  BY <1>3, <1>4, GoesOn DEF Rooms!Steps
<1>6. Repeats(x)' /\ Follows(x)' /\ Behind(x) /\ Clearing(x)
  BY <1>5 DEF Repeats, Follows, Behind, Clearing, Built, Found
<1>7. Rooms!Guild \in ListSet /\ Rooms!Guild # None
  BY <1>3 DEF RoomTypes, Rooms!Guild, ListSet, RoomConstants
<1>8. \/ /\ Rooms!To(p, x) /\ UNCHANGED <<cats, cached, fresh>> /\ Rooms!Calm
      \/ /\ Rooms!To(p, x) /\ cached' = Rooms!Guild /\ fresh' = TRUE /\ cats' \subseteq cats /\ (Rooms!Calm \/ Rooms!Mishap({}))
      \/ /\ Rooms!Invalidate /\ Rooms!To(p, Rooms!Idle) /\ Rooms!Mishap({"cut"}) /\ UNCHANGED cats
  BY <1>4 DEF Rooms!DeleteCategory, Rooms!Done
<1>9. faults' \in 0 .. MaxMishaps /\ why \subseteq why' /\ why' \subseteq {"blind", "stale", "met", "hand", "cut"}
  BY <1>3, <1>8, RoomMishap
<1>10. cats' \subseteq cats
  BY <1>8
<1>11. Seen' /\ SolePress => Lone'
  <2>1. Seen' /\ SolePress => Lone
    BY <1>3, <1>9, AtWork
  <2>2. QED
    BY <1>1, <1>10, <2>1 DEF Lone
<1>12. cached' \in ListSet \cup {None} /\ fresh' \in BOOLEAN /\ (fresh' => cached' # None)
  <2>1. CASE UNCHANGED <<cached, fresh>>
    BY <1>3, <2>1 DEF RoomTypes
  <2>2. CASE cached' = Rooms!Guild /\ fresh' = TRUE
    BY <1>7, <2>2
  <2>3. CASE cached' = None /\ fresh' = FALSE
    BY <2>3
  <2>4. QED
    BY <1>8, <2>1, <2>2, <2>3 DEF Rooms!Invalidate
<1>13. CASE Rooms!To(p, x)
  <2>1. RoomTypes' /\ press' = [press EXCEPT ![p] = x]
    BY <1>1, <1>3, <1>5, <1>9, <1>10, <1>12, <1>13, PressKept DEF RoomTypes
  <2>2. QED
    BY <1>3, <1>6, <1>9, <1>11, <2>1, PressMoves
<1>14. CASE Rooms!Invalidate /\ Rooms!To(p, Rooms!Idle) /\ Rooms!Mishap({"cut"})
  <2>1. RoomTypes' /\ press' = [press EXCEPT ![p] = Rooms!Idle]
    BY <1>1, <1>3, <1>9, <1>10, <1>12, <1>14, IdleIs, PressKept DEF RoomTypes
  <2>2. ListIsCurrent'
    BY <1>14 DEF ListIsCurrent, Rooms!Invalidate
  <2>3. ~Finished'
    BY <1>14 DEF Finished, Rooms!Mishap
  <2>4. QED
    BY <1>3, <1>9, <1>11, <2>1, <2>2, <2>3, IdleIs, PressMoves
<1>15. QED
  BY <1>8, <1>13, <1>14

LEMMA StepClearBindings == ASSUME RoomInv, RoomConstants, NEW p \in Presses, Rooms!ClearBindings(p) PROVE RoomInv'
<1>1. press[p].at = "clear" /\ Rooms!To(p, Rooms!Idle) /\ UNCHANGED <<rooms, cats, minted, pressed>>
  BY DEF Rooms!ClearBindings, Rooms!Done
<1>2. press[p].at # "idle"
  BY <1>1
<1>3. press[p] # Rooms!Idle /\ press[p] \in PressSet /\ RoomTypes
  BY <1>2, StandsAt
<1>4. \/ bound' = {} /\ Rooms!Invalidate /\ Rooms!Calm
      \/ Rooms!Mishap({"cut", "stale"}) /\ UNCHANGED <<bound, cached, fresh>>
  BY DEF Rooms!ClearBindings
<1>5. faults' \in 0 .. MaxMishaps /\ why \subseteq why' /\ why' \subseteq {"blind", "stale", "met", "hand", "cut"}
  BY <1>3, <1>4, RoomMishap
<1>6. cached' \in ListSet \cup {None} /\ fresh' \in BOOLEAN /\ (fresh' => cached' # None) /\ bound' \subseteq Rooms!Pairs
  <2>1. CASE UNCHANGED <<bound, cached, fresh>>
    BY <1>3, <2>1 DEF RoomTypes
  <2>2. CASE bound' = {} /\ cached' = None /\ fresh' = FALSE
    BY <2>2
  <2>3. QED
    BY <1>4, <2>1, <2>2 DEF Rooms!Invalidate
<1>7. RoomTypes' /\ press' = [press EXCEPT ![p] = Rooms!Idle]
  BY <1>1, <1>3, <1>5, <1>6, IdleIs, PressKept DEF RoomTypes
<1>8. Seen' /\ SolePress => Lone'
  <2>1. Seen' /\ SolePress => Lone
    BY <1>3, <1>5, AtWork
  <2>2. QED
    BY <1>1, <2>1 DEF Lone
<1>9. Kept' => ListIsCurrent'
  BY <1>4 DEF Kept, Rooms!Mishap, Rooms!Invalidate, ListIsCurrent
<1>10. Finished' => Exist(bound)'
  BY <1>4 DEF Finished, Rooms!Mishap, Exist
<1>11. QED
  BY <1>3, <1>5, <1>7, <1>8, <1>9, <1>10, IdleIs, PressMoves

LEMMA StepSaveForm == ASSUME RoomInv, RoomConstants, NEW p \in Presses, Rooms!SaveForm(p) PROVE RoomInv'
<1>1. press[p].at = "save" /\ Rooms!To(p, Rooms!Idle) /\ UNCHANGED <<rooms, cats, cached, fresh, minted, pressed>>
  BY DEF Rooms!SaveForm, Rooms!Done
<1>2. press[p].at # "idle" /\ ~Behind(press[p]) /\ ~Clearing(press[p])
  BY <1>1 DEF Behind, Clearing
<1>3. press[p] # Rooms!Idle /\ press[p] \in PressSet /\ RoomTypes
  BY <1>2, StandsAt
<1>4. bound' \in {bound, press[p].known} /\ (Rooms!Calm \/ Rooms!Mishap({}))
  BY DEF Rooms!SaveForm
<1>5. faults' \in 0 .. MaxMishaps /\ why' = why /\ why' \subseteq {"blind", "stale", "met", "hand", "cut"}
  BY <1>3, <1>4, RoomMishap
<1>6. bound' \subseteq Rooms!Pairs
  BY <1>3, <1>4 DEF RoomTypes, PressSet
<1>7. RoomTypes' /\ press' = [press EXCEPT ![p] = Rooms!Idle]
  BY <1>1, <1>3, <1>5, <1>6, IdleIs, PressKept DEF RoomTypes
<1>8. Seen' /\ SolePress => Lone'
  <2>1. Seen' /\ SolePress => Lone
    BY <1>3, <1>5, AtWork
  <2>2. QED
    BY <1>1, <2>1 DEF Lone
<1>9. Kept' /\ SolePress => ListIsCurrent'
  <2>1. Kept' /\ SolePress => ListIsCurrent
    BY <1>2, <1>3, <1>5, AtWork
  <2>2. QED
    BY <1>1, <2>1 DEF ListIsCurrent, Rooms!Guild
<1>10. Finished' /\ SolePress => Exist(bound)'
  <2>1. SUFFICES ASSUME Follows(press[p]), Exist(bound) PROVE Exist(bound)'
    BY <1>2, <1>3, <1>5, AtWork
  <2>2. QED
    BY <1>1, <1>4, <2>1 DEF Follows, Exist
<1>11. QED
  BY <1>3, <1>5, <1>7, <1>8, <1>9, <1>10, IdleIs, PressMoves

(* The list grows old; no request moves.                                   *)
LEMMA StepExpire == ASSUME RoomInv, Rooms!Expire PROVE RoomInv'
<1>1. fresh' = FALSE /\ UNCHANGED <<rooms, cats, cached, bound, press, minted, pressed, faults, why>>
  BY DEF Rooms!Expire
<1>2. RoomTypes'
  BY <1>1 DEF RoomInv, RoomTypes
<1>3. (SolePress => SolePress') /\ (Lone => Lone') /\ (ListIsCurrent => ListIsCurrent') /\ (Exist(bound) => Exist(bound)')
  BY <1>1 DEF SolePress, Lone, ListIsCurrent, Rooms!Guild, Exist
<1>4. \A p \in Presses : (Repeats(press[p]) => Repeats(press[p])') /\ (Follows(press[p]) => Follows(press[p])')
  BY <1>1 DEF Repeats, Follows, Exist
<1>5. /\ (\A p \in Presses : ~Behind(press[p]))' => \A p \in Presses : ~Behind(press[p])
      /\ (\A p \in Presses : ~Clearing(press[p]))' => \A p \in Presses : ~Clearing(press[p])
  BY <1>1 DEF Behind, Clearing
<1>6. (Kept' => Kept) /\ (Seen' => Seen) /\ (Finished' => Finished)
  BY <1>1 DEF Kept, Seen, Finished
<1>7. QED
  BY <1>1, <1>2, <1>3, <1>4, <1>5, <1>6 DEF RoomInv

(* A person at Discord: nothing is claimed of the rooms any more.          *)
LEMMA StepDeletedByHand == ASSUME RoomInv, RoomConstants, Rooms!DeletedByHand PROVE RoomInv'
<1>1. Rooms!Mishap({"hand"}) /\ UNCHANGED <<cached, fresh, bound, press, minted, pressed>>
  BY DEF Rooms!DeletedByHand
<1>2. RoomTypes
  BY DEF RoomInv
<1>3. faults' \in 0 .. MaxMishaps /\ why' = why \cup {"hand"} /\ why' \subseteq {"blind", "stale", "met", "hand", "cut"}
  BY <1>1, <1>2, RoomMishap
<1>4. rooms' \subseteq RoomSet /\ cats' \subseteq Rooms!Ids
  <2>1. CASE \E r \in rooms : rooms' = rooms \ {r} /\ UNCHANGED cats
    BY <1>2, <2>1 DEF RoomTypes
  <2>2. CASE \E c \in cats : cats' = cats \ {c} /\ rooms' = {[r EXCEPT !.parent = IF @ = c THEN 0 ELSE @] : r \in rooms}
    <3>1. PICK c \in cats : cats' = cats \ {c} /\ rooms' = {[r EXCEPT !.parent = IF @ = c THEN 0 ELSE @] : r \in rooms}
      BY <2>2
    <3>2. ASSUME NEW r \in RoomSet PROVE [r EXCEPT !.parent = IF @ = c THEN 0 ELSE @] \in RoomSet
      BY DEF RoomSet
    <3>3. QED
      BY <1>2, <3>1, <3>2 DEF RoomTypes
  <2>3. QED
    BY <2>1, <2>2 DEF Rooms!DeletedByHand
<1>5. RoomTypes'
  BY <1>1, <1>2, <1>3, <1>4 DEF RoomTypes
<1>6. ~Kept' /\ ~Seen' /\ ~Finished' /\ ("met" \notin why' => SolePress')
  BY <1>1, <1>3 DEF Kept, Seen, Finished, RoomInv, SolePress
<1>7. QED
  BY <1>5, <1>6 DEF RoomInv

LEMMA NextRooms == ASSUME RoomConstants PROVE RoomInv /\ [Rooms!Next]_Rooms!vars => RoomInv'
<1> SUFFICES ASSUME RoomInv, [Rooms!Next]_Rooms!vars PROVE RoomInv'
  OBVIOUS
<1>1. CASE UNCHANGED Rooms!vars
  BY <1>1 DEF Rooms!vars, RoomInv, RoomTypes, SolePress, ListIsCurrent, Rooms!Guild, Lone, Repeats, Follows, Exist, Behind,
              Clearing, Kept, Seen, Finished
<1>2. ASSUME NEW p \in Presses,
             \/ Rooms!Setup(p) \/ Rooms!ListRooms(p) \/ Rooms!CheckCap(p) \/ Rooms!FindCategory(p) \/ Rooms!MakeCategory(p)
             \/ Rooms!MakeRoom(p) \/ Rooms!BindRooms(p)
      PROVE  RoomInv'
  BY <1>2, StepSetup, StepListRooms, StepCheckCap, StepFindCategory, StepMakeCategory, StepMakeRoom, StepBindRooms
<1>3. ASSUME NEW p \in Presses,
             \/ Rooms!Teardown(p) \/ Rooms!ListOrphans(p) \/ Rooms!ListExisting(p) \/ Rooms!DeleteRoom(p)
             \/ Rooms!DeleteCategory(p) \/ Rooms!ClearBindings(p)
             \/ Rooms!OpenForm(p) \/ Rooms!CheckForm(p) \/ Rooms!SaveForm(p)
      PROVE  RoomInv'
  BY <1>3, StepTeardown, StepListOrphans, StepListExisting, StepDeleteRoom, StepDeleteCategory, StepClearBindings,
     StepOpenForm, StepCheckForm, StepSaveForm
<1>4. CASE Rooms!Expire \/ Rooms!DeletedByHand
  BY <1>4, StepExpire, StepDeletedByHand
<1>5. QED
  BY <1>1, <1>2, <1>3, <1>4 DEF Rooms!Next

LEMMA RoomsAre == ASSUME RoomConstants, RoomInv PROVE Rooms!TypeOK /\ Rooms!RoomsMatchRouting
<1>1. Rooms!TypeOK
  <2>1. cached = None \/ (cached.rooms \subseteq [id : Rooms!Ids, name : Rooms!Names, parent : {0} \cup Rooms!Ids] /\ cached.cats \subseteq Rooms!Ids)
    BY DEF RoomInv, RoomTypes, ListSet, RoomSet
  <2>2. \A p \in Presses : press[p].at \in Rooms!Steps /\ press[p].made \subseteq Rooms!Pairs /\ press[p].known \subseteq Rooms!Pairs
    BY DEF RoomInv, RoomTypes, PressSet
  <2>3. QED
    BY <2>1, <2>2 DEF RoomInv, RoomTypes, RoomSet, Rooms!TypeOK
<1>2. ASSUME \A p \in Presses : press[p] = Rooms!Idle, why \cap {"blind", "stale", "met", "hand"} = {} PROVE Rooms!NoDoubles
  <2>1. Lone
    BY <1>2 DEF RoomInv, Seen
  <2>2. cats = {} \/ \E c : cats = {c}
    <3>1. CASE cats # {}
      <4>1. PICK c : c \in cats
        BY <3>1
      <4>2. cats = {c}
        BY <2>1, <4>1 DEF Lone
      <4>3. QED
        BY <4>2
    <3>2. QED
      BY <3>1
  <2>3. Cardinality(cats) \in {0, 1}
    BY <2>2, FS_EmptySet, FS_Singleton
  <2>4. Rooms!Cardinality(cats) <= 1
    <3>1. Rooms!Cardinality(cats) = Cardinality(cats)
      BY DEF Rooms!Cardinality, Cardinality
    <3>2. QED
      BY <2>3, <3>1
  <2>5. QED
    BY <2>1, <2>4 DEF Rooms!NoDoubles, Lone
<1>3. ASSUME \A p \in Presses : press[p] = Rooms!Idle, why \cap {"met", "hand", "cut", "stale"} = {}
      PROVE  \A b \in bound : \E r \in rooms : r.id = b.id
  <2>1. \A p \in Presses : ~Clearing(press[p])
    BY <1>3, IdleIs
  <2>2. Exist(bound)
    BY <1>3, <2>1 DEF RoomInv, Finished
  <2>3. QED
    BY <2>2 DEF Exist
<1>4. QED
  BY <1>1, <1>2, <1>3 DEF Rooms!RoomsMatchRouting

LEMMA RoomSteps == [GuildNext]_all => [Rooms!Next]_Rooms!vars
BY DEF GuildNext, all, deeds, logs, Rooms!vars

(* However often setup is pressed, rooms are taken down and forms saved,   *)
(* and wherever a request is cut off: between requests that did not meet,  *)
(* and but for the disturbances LogSetup names, no room and no category is *)
(* there twice, and every binding names a room that exists (server/        *)
(* index.ts, "a second press repairs a partial setup instead of doubling   *)
(* the list").                                                             *)
THEOREM RoutingNamesTheRooms == ASSUME RoomConstants PROVE GuildSpec => []RoomsMatchRouting
<1>1. GuildInit => RoomInv
  BY InitRooms DEF GuildInit
<1>2. RoomInv /\ [Rooms!Next]_Rooms!vars => RoomInv'
  BY NextRooms
<1>3. RoomInv => RoomsMatchRouting
  BY RoomsAre DEF RoomsMatchRouting
<1>4. QED
  BY <1>1, <1>2, <1>3, RoomSteps, PTL DEF GuildSpec

-----------------------------------------------------------------------------
(* The sync of level roles.                                                *)

WorkerSet == [at : {"idle", "plan", "apply"}, who : {0} \cup Ranked, lv : Levels!Levels,
              adds : SUBSET Levels!Roles, removes : SUBSET Levels!Roles]
PassSet == [at : {"none", "start", "page", "member"}, rules : SUBSET SomeRules, page : SUBSET Ranked,
            seen : [Ranked -> Levels!Levels], cursor : {0} \cup Ranked]
JobSet  == [status : {"none", "pending", "running", "completed", "failed"}, cursor : {0} \cup Ranked]

LevelConstants ==
    /\ Ranked \subseteq Nat \ {0} /\ IsFiniteSet(Ranked) /\ BatchSize \in Nat \ {0}
    /\ Cap \in Nat /\ MaxAwards \in Nat /\ MaxTroubles \in Nat

LevelTypes ==
    /\ rules \subseteq SomeRules /\ (known = None \/ known \subseteq SomeRules)
    /\ xp \in [Ranked -> Levels!Levels] /\ rewards \in [Ranked -> SUBSET Levels!Roles]
    /\ job \in JobSet /\ pass \in PassSet
    /\ busy \in [Levels!Workers -> WorkerSet]
    /\ \A h \in Levels!Workers : busy[h].at # "idle" => busy[h].who \in Ranked
    /\ admin \in {"idle", "audit", "request", "audit only"}
    /\ awards \in 0 .. MaxAwards /\ troubles \in 0 .. MaxTroubles
    /\ quiet \in BOOLEAN /\ ready \in BOOLEAN /\ orphan \in BOOLEAN

(* The job and its pass.                                                   *)
JobInv ==
    /\ pass.at # "member" => busy["sync"].at = "idle"
    /\ busy["sync"].at # "plan"
    /\ pass.at \in {"none", "start"} => pass.cursor = 0
    /\ pass.at # "none" => job.status \in {"pending", "running"}
    /\ job.status = "running" => pass.at # "none" \/ orphan
    /\ orphan => job.status = "running" /\ pass.at = "none"

(* A member the pass has been to has the roles earned, or will have once   *)
(* the calls that are left for it are made.                                *)
Wanted(m)     == Levels!DesiredRoles(rules, Levels!Capped(xp[m]))
InLine(m)     == rewards[m] \cap Levels!Named(rules) = Wanted(m)
Underway(m)   == busy["sync"].at = "apply" /\ busy["sync"].who = m
Nearly(m)     == /\ busy["sync"].adds \cap busy["sync"].removes = {}
                 /\ ((rewards[m] \cup busy["sync"].adds) \ busy["sync"].removes) \cap Levels!Named(rules) = Wanted(m)
Reconciled(m) == (Underway(m) => Nearly(m)) /\ (~Underway(m) => InLine(m))

(* While nothing but the pass moves: whoever is behind the cursor is       *)
(* reconciled, and the page has the next ranked members, as they are.      *)
BehindIt  == \A m \in Ranked : Levels!HasXp(m) /\ m <= pass.cursor => Reconciled(m)
PageNext  == /\ \A m \in pass.page : m > pass.cursor /\ pass.seen[m] = xp[m]
             /\ \A m \in Ranked \ pass.page : Levels!HasXp(m) /\ m > pass.cursor => \A k \in pass.page : k < m

QuietPass ==
    /\ busy["text"].at = "idle" /\ busy["voice"].at = "idle"
    /\ pass.at \in {"page", "member"} => pass.rules = rules /\ rules # {} /\ BehindIt
    /\ pass.at = "member" => PageNext
    /\ job.status = "completed" => \A m \in Ranked : Levels!HasXp(m) => InLine(m)

SyncInv == LevelTypes /\ JobInv /\ (quiet => QuietPass)

-----------------------------------------------------------------------------
(* Levels, ranks and pages.                                                *)

LEMMA LeastIs ==
    ASSUME NEW S \in SUBSET Nat, S # {}
    PROVE  Levels!Least(S) \in S /\ \A y \in S : Levels!Least(S) <= y
<1>1. \E x \in S : \A y \in S : ~(<<y, x>> \in OpToRel(<, Nat))
  BY WFMin, NatLessThanWellFounded
<1>2. PICK x \in S : \A y \in S : ~(<<y, x>> \in OpToRel(<, Nat))
  BY <1>1
<1>3. ASSUME NEW y \in S PROVE x <= y
  <2>1. y < x => <<y, x>> \in OpToRel(<, Nat)
    BY DEF OpToRel
  <2>2. x \in Nat /\ y \in Nat /\ ~(y < x)
    BY <1>2, <2>1
  <2>3. QED
    BY <2>2
<1>4. QED
  BY <1>2, <1>3 DEF Levels!Least

LEMMA LeastOfTwo ==
    ASSUME NEW a \in Nat, NEW b \in Nat
    PROVE  Levels!Least({a, b}) \in Nat /\ Levels!Least({a, b}) <= a /\ Levels!Least({a, b}) <= b
<1>1. {a, b} \in SUBSET Nat /\ {a, b} # {}
  OBVIOUS
<1>2. Levels!Least({a, b}) \in {a, b} /\ \A y \in {a, b} : Levels!Least({a, b}) <= y
  BY <1>1, LeastIs
<1>3. QED
  BY <1>2

LEMMA CapsAre ==
    ASSUME LevelConstants, NEW lv \in Levels!Levels
    PROVE  /\ Levels!Capped(lv) \in Levels!Levels
           /\ \A track \in {"text", "voice"} : Levels!LevelsAfter(track, lv) \in Levels!Levels
<1>1. lv.text \in 0 .. Cap /\ lv.voice \in 0 .. Cap
  BY DEF Levels!Levels
<1>2. \A c \in Nat : Levels!Least({lv.text, c}) \in 0 .. Cap /\ Levels!Least({lv.voice, c}) \in 0 .. Cap
  BY <1>1, LeastOfTwo DEF LevelConstants
<1>3. \A t, v \in 0 .. Cap : [text |-> t, voice |-> v] \in Levels!Levels
  BY DEF Levels!Levels
<1>4. QED
  BY <1>2, <1>3 DEF Levels!Capped, Levels!LevelsAfter, LevelConstants

LEMMA DesiredAreNamed ==
    ASSUME NEW rs, NEW lv
    PROVE  Levels!DesiredRoles(rs, lv) \subseteq Levels!Named(rs)
BY DEF Levels!DesiredRoles, Levels!Named

LEMMA NamedAreRoles == ASSUME NEW rs \in SUBSET SomeRules PROVE Levels!Named(rs) \subseteq Levels!Roles
BY DEF Levels!Named, Levels!Roles

LEMMA IdleHandIs == ASSUME LevelConstants PROVE Levels!IdleHand \in WorkerSet /\ Levels!IdleHand.at = "idle"
<1>1. Levels!Zero \in Levels!Levels
  BY DEF Levels!Zero, Levels!Levels, LevelConstants
<1>2. QED
  BY <1>1 DEF Levels!IdleHand, WorkerSet

LEMMA NoPassIs ==
    ASSUME LevelConstants
    PROVE  /\ Levels!NoPass \in PassSet /\ Levels!NoPass.at = "none" /\ Levels!NoPass.cursor = 0
           /\ [Levels!NoPass EXCEPT !.at = "start"] \in PassSet /\ [Levels!NoPass EXCEPT !.at = "start"].at = "start"
           /\ [Levels!NoPass EXCEPT !.at = "start"].cursor = 0
<1>1. Levels!Zero \in Levels!Levels
  BY DEF Levels!Zero, Levels!Levels, LevelConstants
<1>2. [m \in Ranked |-> Levels!Zero] \in [Ranked -> Levels!Levels]
  BY <1>1
<1>3. QED
  BY <1>2 DEF Levels!NoPass, PassSet

LEMMA JudgedIs ==
    ASSUME LevelConstants, LevelTypes, NEW m \in Ranked, NEW rs \in SUBSET SomeRules, NEW lv
    PROVE  /\ Levels!Judged(m, rs, lv) \in WorkerSet /\ Levels!Judged(m, rs, lv).at \in {"idle", "apply"}
           /\ Levels!Judged(m, rs, lv).at # "idle" => Levels!Judged(m, rs, lv).who = m
<1> DEFINE desired == Levels!DesiredRoles(rs, lv)
           adds    == IF rs = {} THEN {} ELSE desired \ rewards[m]
           removes == (Levels!Named(rs) \cap rewards[m]) \ desired
           hands   == [at |-> "apply", who |-> m, lv |-> Levels!Zero, adds |-> adds, removes |-> removes]
<1>1. adds \subseteq Levels!Roles /\ removes \subseteq Levels!Roles
  BY DesiredAreNamed, NamedAreRoles
<1>2. Levels!Zero \in Levels!Levels
  BY DEF Levels!Zero, Levels!Levels, LevelConstants
<1>3. hands \in WorkerSet /\ hands.at = "apply" /\ hands.who = m
  BY <1>1, <1>2 DEF WorkerSet
<1>4. Levels!Judged(m, rs, lv) \in {Levels!IdleHand, hands}
  BY DEF Levels!Judged
<1>5. QED
  BY <1>3, <1>4, IdleHandIs

(* What is left to do for a member makes the roles those that are earned.  *)
LEMMA JudgedReconciles ==
    ASSUME NEW m, NEW rs, rs # {}, NEW lv
    PROVE  /\ Levels!Judged(m, rs, lv).at = "idle" => rewards[m] \cap Levels!Named(rs) = Levels!DesiredRoles(rs, lv)
           /\ Levels!Judged(m, rs, lv).adds \cap Levels!Judged(m, rs, lv).removes = {}
           /\ Levels!Judged(m, rs, lv).at = "apply" =>
                 ((rewards[m] \cup Levels!Judged(m, rs, lv).adds) \ Levels!Judged(m, rs, lv).removes) \cap Levels!Named(rs) = Levels!DesiredRoles(rs, lv)
<1> DEFINE desired == Levels!DesiredRoles(rs, lv)
           adds    == desired \ rewards[m]
           removes == (Levels!Named(rs) \cap rewards[m]) \ desired
           hands   == [at |-> "apply", who |-> m, lv |-> Levels!Zero, adds |-> adds, removes |-> removes]
<1>1. desired \subseteq Levels!Named(rs)
  BY DesiredAreNamed
<1>2. Levels!Judged(m, rs, lv) = IF adds \cup removes = {} THEN Levels!IdleHand ELSE hands
  BY DEF Levels!Judged
<1>3. CASE adds \cup removes = {}
  <2>1. Levels!Judged(m, rs, lv) = Levels!IdleHand
    BY <1>2, <1>3
  <2>2. Levels!IdleHand.at = "idle" /\ Levels!IdleHand.adds = {} /\ Levels!IdleHand.removes = {}
    BY DEF Levels!IdleHand
  <2>3. rewards[m] \cap Levels!Named(rs) = desired
    BY <1>1, <1>3
  <2>4. QED
    BY <2>1, <2>2, <2>3
<1>4. CASE adds \cup removes # {}
  <2>1. Levels!Judged(m, rs, lv) = hands
    BY <1>2, <1>4
  <2>2. hands.at = "apply" /\ hands.adds = adds /\ hands.removes = removes
    OBVIOUS
  <2>3. ((rewards[m] \cup adds) \ removes) \cap Levels!Named(rs) = desired
    BY <1>1
  <2>4. adds \cap removes = {}
    OBVIOUS
  <2>5. QED
    BY <2>1, <2>2, <2>3, <2>4
<1>5. QED
  BY <1>3, <1>4

(* A page has the ranked members that come next, and one if there is one.  *)
LEMMA PageIs ==
    ASSUME LevelConstants
    PROVE  /\ Levels!Page \subseteq Ranked
           /\ \A m \in Levels!Page : Levels!HasXp(m) /\ m > pass.cursor
           /\ \A m \in Ranked \ Levels!Page : Levels!HasXp(m) /\ m > pass.cursor => \A k \in Levels!Page : k < m
           /\ Levels!Page = {} => \A m \in Ranked : ~(Levels!HasXp(m) /\ m > pass.cursor)
<1> DEFINE rest == {m \in Ranked : Levels!HasXp(m) /\ m > pass.cursor}
           upto(m) == {k \in rest : k <= m}
<1>1. Levels!Page = {m \in rest : Cardinality(upto(m)) <= BatchSize}
  <2>1. \A m \in rest : Levels!Cardinality(upto(m)) = Cardinality(upto(m))
    BY DEF Levels!Cardinality, Cardinality
  <2>2. Levels!Page = {m \in rest : Levels!Cardinality(upto(m)) <= BatchSize}
    BY DEF Levels!Page
  <2>3. QED
    BY <2>1, <2>2
<1>2. rest \in SUBSET Ranked /\ rest \in SUBSET Nat /\ IsFiniteSet(rest)
  <2>1. rest \in SUBSET Ranked /\ Ranked \subseteq Nat /\ IsFiniteSet(Ranked)
    BY DEF LevelConstants
  <2>2. QED
    BY <2>1, FS_Subset
<1>3. \A m \in Ranked : IsFiniteSet(upto(m)) /\ Cardinality(upto(m)) \in Nat
  <2>1. \A m \in Ranked : upto(m) \in SUBSET rest
    OBVIOUS
  <2>2. QED
    BY <1>2, <2>1, FS_Subset, FS_CardinalityType
<1>4. ASSUME NEW m \in Ranked \ Levels!Page, m \in rest, NEW k \in Levels!Page PROVE k < m
  <2>0. m \in Nat /\ k \in Nat
    BY <1>1, <1>2, <1>4
  <2>1. SUFFICES ASSUME m <= k PROVE FALSE
    BY <2>0
  <2>2. k \in rest /\ Cardinality(upto(k)) <= BatchSize
    BY <1>1
  <2>3. upto(m) \in SUBSET upto(k)
    <3>1. \A j \in rest : j <= m => j <= k
      BY <1>2, <1>4, <2>1, <2>2
    <3>2. QED
      BY <3>1
  <2>4. Cardinality(upto(m)) <= Cardinality(upto(k))
    BY <1>3, <2>2, <2>3, FS_Subset
  <2>5. Cardinality(upto(m)) <= BatchSize
    BY <1>3, <1>2, <2>2, <2>4 DEF LevelConstants
  <2>6. QED
    BY <1>1, <1>4, <2>5
<1>5. ASSUME Levels!Page = {}, NEW m \in rest PROVE FALSE
  <2>1. Levels!Least(rest) \in rest /\ \A y \in rest : Levels!Least(rest) <= y
    BY <1>2, <1>5, LeastIs
  <2>2. upto(Levels!Least(rest)) = {Levels!Least(rest)}
    <3>1. \A y \in upto(Levels!Least(rest)) : y = Levels!Least(rest)
      BY <1>2, <2>1
    <3>2. Levels!Least(rest) \in upto(Levels!Least(rest))
      BY <1>2, <2>1
    <3>3. QED
      BY <3>1, <3>2
  <2>3. Cardinality(upto(Levels!Least(rest))) = 1
    BY <2>2, FS_Singleton
  <2>4. Levels!Least(rest) \in Levels!Page
    BY <1>1, <2>1, <2>3 DEF LevelConstants
  <2>5. QED
    BY <1>5, <2>4
<1>6. QED
  BY <1>1, <1>2, <1>4, <1>5

-----------------------------------------------------------------------------
(* The steps.                                                              *)

LEMMA InitSync == ASSUME LevelConstants, Levels!Init PROVE SyncInv
<1>1. Levels!IdleHand \in WorkerSet /\ Levels!IdleHand.at = "idle" /\ Levels!NoPass \in PassSet /\ Levels!NoPass.at = "none" /\ Levels!NoPass.cursor = 0
  BY IdleHandIs, NoPassIs
<1>2. busy \in [Levels!Workers -> WorkerSet] /\ \A h \in Levels!Workers : busy[h].at = "idle"
  BY <1>1 DEF Levels!Init
<1>3. xp \in [Ranked -> Levels!Levels] /\ rewards \in [Ranked -> SUBSET Levels!Roles]
  <2>1. Levels!Zero \in Levels!Levels
    BY DEF Levels!Zero, Levels!Levels, LevelConstants
  <2>2. QED
    BY <2>1 DEF Levels!Init
<1>4. job \in JobSet /\ job.status = "none"
  BY DEF Levels!Init, JobSet
<1>5. awards \in 0 .. MaxAwards /\ troubles \in 0 .. MaxTroubles
  BY DEF Levels!Init, LevelConstants
<1>6. LevelTypes
  BY <1>1, <1>2, <1>3, <1>4, <1>5 DEF Levels!Init, LevelTypes
<1>7. JobInv
  BY <1>1, <1>2, <1>4 DEF Levels!Init, JobInv, Levels!Workers
<1>8. QED
  BY <1>6, <1>7 DEF Levels!Init, SyncInv

LEMMA BoundsHold ==
    ASSUME LevelConstants, LevelTypes
    PROVE  /\ Levels!Mishap => troubles' \in 0 .. MaxTroubles /\ awards' \in 0 .. MaxAwards
           /\ Levels!Calm => troubles' \in 0 .. MaxTroubles /\ awards' \in 0 .. MaxAwards
<1>1. MaxTroubles \in Nat /\ MaxAwards \in Nat /\ troubles \in 0 .. MaxTroubles /\ awards \in 0 .. MaxAwards
  BY DEF LevelConstants, LevelTypes
<1>2. QED
  BY <1>1 DEF Levels!Mishap, Levels!Calm

(* Nothing the quiet pass is about has changed.                            *)
LEMMA QuietPassStays ==
    ASSUME QuietPass, UNCHANGED <<rules, xp, rewards, busy, pass>>, job'.status = "completed" => job.status = "completed"
    PROVE  QuietPass'
<1>1. \A m \in Ranked : (InLine(m) => InLine(m)') /\ (Reconciled(m) => Reconciled(m)') /\ (Levels!HasXp(m)' => Levels!HasXp(m))
  BY DEF InLine, Reconciled, Nearly, Underway, Wanted, Levels!Named, Levels!HasXp
<1>2. (BehindIt => BehindIt') /\ (PageNext => PageNext')
  BY <1>1 DEF BehindIt, PageNext, Levels!HasXp
<1>3. QED
  BY <1>1, <1>2 DEF QuietPass

LEMMA JobStays ==
    ASSUME JobInv, UNCHANGED <<pass, orphan>>, busy'["sync"] = busy["sync"],
           job'.status = job.status \/ (job'.status = "pending" /\ job.status # "running")
    PROVE  JobInv'
BY DEF JobInv

LEMMA RequestedIs ==
    ASSUME LevelConstants, LevelTypes
    PROVE  /\ Levels!Requested \in JobSet /\ Levels!Requested.status # "completed"
           /\ \/ Levels!Requested.status = job.status
              \/ Levels!Requested.status = "pending" /\ job.status # "running"
<1>1. job \in JobSet
  BY DEF LevelTypes
<1>2. CASE job.status \in {"pending", "running"}
  <2>1. Levels!Requested = job
    BY <1>2 DEF Levels!Requested
  <2>2. QED
    BY <1>1, <1>2, <2>1
<1>3. CASE job.status = "failed"
  <2>1. Levels!Requested = [job EXCEPT !.status = "pending"]
    BY <1>3 DEF Levels!Requested
  <2>2. QED
    BY <1>1, <1>3, <2>1 DEF JobSet
<1>4. CASE job.status \in {"none", "completed"}
  <2>1. Levels!Requested = [status |-> "pending", cursor |-> 0]
    BY <1>4 DEF Levels!Requested
  <2>2. QED
    BY <1>4, <2>1 DEF JobSet
<1>5. QED
  BY <1>1, <1>2, <1>3, <1>4 DEF JobSet

LEMMA StepEditRules == ASSUME LevelConstants, SyncInv, Levels!EditRules PROVE SyncInv'
<1>1. quiet' = FALSE /\ UNCHANGED <<known, pass, busy, rewards, xp, job, ready, orphan>> /\ Levels!Mishap
  BY DEF Levels!EditRules, Levels!bot
<1>2. rules' \subseteq SomeRules /\ admin' \in {"audit", "audit only"}
  BY DEF Levels!EditRules, SyncInv, LevelTypes
<1>3. troubles' \in 0 .. MaxTroubles /\ awards' \in 0 .. MaxAwards
  BY <1>1, BoundsHold DEF SyncInv
<1>4. LevelTypes'
  BY <1>1, <1>2, <1>3 DEF SyncInv, LevelTypes
<1>5. JobInv'
  BY <1>1, JobStays DEF SyncInv
<1>6. QED
  BY <1>1, <1>4, <1>5 DEF SyncInv

LEMMA StepSetMemberXp == ASSUME LevelConstants, SyncInv, Levels!SetMemberXp PROVE SyncInv'
<1>1. quiet' = FALSE /\ UNCHANGED <<known, pass, busy, rewards, rules, job, ready, orphan>> /\ Levels!Mishap /\ admin' = "audit"
  BY DEF Levels!SetMemberXp, Levels!bot
<1>2. xp' \in [Ranked -> Levels!Levels]
  <2>1. PICK m \in Ranked : \E lv \in {Levels!Zero, [xp[m] EXCEPT !.text = 0]} : xp' = [xp EXCEPT ![m] = lv]
    BY DEF Levels!SetMemberXp
  <2>2. Levels!Zero \in Levels!Levels /\ [xp[m] EXCEPT !.text = 0] \in Levels!Levels
    <3>1. xp[m] \in Levels!Levels
      BY DEF SyncInv, LevelTypes
    <3>2. 0 \in 0 .. Cap
      BY DEF LevelConstants
    <3>3. QED
      BY <3>1, <3>2 DEF Levels!Zero, Levels!Levels
  <2>3. QED
    BY <2>1, <2>2 DEF SyncInv, LevelTypes
<1>3. troubles' \in 0 .. MaxTroubles /\ awards' \in 0 .. MaxAwards
  BY <1>1, BoundsHold DEF SyncInv
<1>4. LevelTypes'
  BY <1>1, <1>2, <1>3 DEF SyncInv, LevelTypes
<1>5. JobInv'
  BY <1>1, JobStays DEF SyncInv
<1>6. QED
  BY <1>1, <1>4, <1>5 DEF SyncInv

LEMMA StepAudit == ASSUME LevelConstants, SyncInv, Levels!Audit PROVE SyncInv'
<1>1. UNCHANGED <<rules, xp, job, known, pass, busy, rewards, quiet, ready, orphan>>
  BY DEF Levels!Audit, Levels!db, Levels!bot
<1>2. admin' \in {"request", "idle"} /\ troubles' \in 0 .. MaxTroubles /\ awards' \in 0 .. MaxAwards
  BY BoundsHold DEF Levels!Audit, SyncInv
<1>3. LevelTypes'
  BY <1>1, <1>2 DEF SyncInv, LevelTypes
<1>4. JobInv'
  BY <1>1, JobStays DEF SyncInv
<1>5. quiet' => QuietPass'
  BY <1>1, QuietPassStays DEF SyncInv
<1>6. QED
  BY <1>3, <1>4, <1>5 DEF SyncInv

LEMMA StepRequestSync == ASSUME LevelConstants, SyncInv, Levels!RequestSync PROVE SyncInv'
<1>1. UNCHANGED <<rules, xp, known, pass, busy, rewards, awards, troubles, quiet, ready, orphan>> /\ job' = Levels!Requested /\ admin' = "idle"
  BY DEF Levels!RequestSync, Levels!bot
<1>2. /\ job' \in JobSet /\ job'.status # "completed"
      /\ job'.status = job.status \/ (job'.status = "pending" /\ job.status # "running")
  BY <1>1, RequestedIs DEF SyncInv
<1>3. LevelTypes'
  BY <1>1, <1>2 DEF SyncInv, LevelTypes
<1>4. JobInv'
  BY <1>1, <1>2, JobStays DEF SyncInv
<1>5. quiet' => QuietPass'
  BY <1>1, <1>2, QuietPassStays DEF SyncInv
<1>6. QED
  BY <1>3, <1>4, <1>5 DEF SyncInv

LEMMA StepCacheExpires == ASSUME LevelConstants, SyncInv, Levels!CacheExpires PROVE SyncInv'
<1>1. UNCHANGED <<rules, xp, job, pass, busy, rewards, admin, awards, troubles, quiet, ready, orphan>> /\ known' = None
  BY DEF Levels!CacheExpires, Levels!db
<1>2. LevelTypes'
  BY <1>1 DEF SyncInv, LevelTypes
<1>3. JobInv'
  BY <1>1, JobStays DEF SyncInv
<1>4. quiet' => QuietPass'
  BY <1>1, QuietPassStays DEF SyncInv
<1>5. QED
  BY <1>2, <1>3, <1>4 DEF SyncInv

(* A handler of a level-up moves: the pass is no longer alone, or was not. *)
LEMMA TrackMoves ==
    ASSUME LevelTypes, NEW track \in {"text", "voice"}, NEW x \in WorkerSet, x.at # "idle" => x.who \in Ranked,
           busy' \in {busy, [busy EXCEPT ![track] = x]}
    PROVE  /\ busy' \in [Levels!Workers -> WorkerSet] /\ busy'["sync"] = busy["sync"]
           /\ \A h \in Levels!Workers : busy'[h].at # "idle" => busy'[h].who \in Ranked
BY DEF LevelTypes, Levels!Workers

LEMMA StepAward == ASSUME LevelConstants, SyncInv, NEW track \in {"text", "voice"}, Levels!Award(track) PROVE SyncInv'
<1>1. quiet' = FALSE /\ UNCHANGED <<known, pass, rewards, rules, job, admin, ready, orphan, troubles>>
  BY DEF Levels!Award
<1>2. awards' \in 0 .. MaxAwards
  <2>1. awards < MaxAwards /\ awards' = awards + 1
    BY DEF Levels!Award
  <2>2. awards \in 0 .. MaxAwards /\ MaxAwards \in Nat
    BY DEF LevelConstants, SyncInv, LevelTypes
  <2>3. QED
    BY <2>1, <2>2
<1>3. PICK m \in Ranked :
         /\ xp[m][track] < Cap
         /\ xp' = [xp EXCEPT ![m][track] = @ + 1]
         /\ busy' \in {busy, [busy EXCEPT ![track] = [Levels!IdleHand EXCEPT !.at = "plan", !.who = m, !.lv = Levels!LevelsAfter(track, xp'[m])]]}
  BY DEF Levels!Award
<1>4. xp' \in [Ranked -> Levels!Levels]
  <2>1. xp[m] \in Levels!Levels /\ xp[m].text \in 0 .. Cap /\ xp[m].voice \in 0 .. Cap
    BY DEF SyncInv, LevelTypes, Levels!Levels
  <2>2. PICK lv : lv = [xp[m] EXCEPT ![track] = xp[m][track] + 1]
    OBVIOUS
  <2>3. lv \in Levels!Levels
    <3>1. CASE track = "text"
      <4>1. lv = [xp[m] EXCEPT !.text = xp[m].text + 1] /\ xp[m].text < Cap
        BY <1>3, <2>2, <3>1
      <4>2. xp[m].text + 1 \in 0 .. Cap
        BY <2>1, <4>1 DEF LevelConstants
      <4>3. QED
        BY <2>1, <4>1, <4>2 DEF Levels!Levels
    <3>2. CASE track = "voice"
      <4>1. lv = [xp[m] EXCEPT !.voice = xp[m].voice + 1] /\ xp[m].voice < Cap
        BY <1>3, <2>2, <3>2
      <4>2. xp[m].voice + 1 \in 0 .. Cap
        BY <2>1, <4>1 DEF LevelConstants
      <4>3. QED
        BY <2>1, <4>1, <4>2 DEF Levels!Levels
    <3>3. QED
      BY <3>1, <3>2
  <2>4. xp' = [xp EXCEPT ![m] = lv]
    BY <1>3, <2>2
  <2>5. QED
    BY <2>3, <2>4 DEF SyncInv, LevelTypes
<1>5. PICK x : x = [Levels!IdleHand EXCEPT !.at = "plan", !.who = m, !.lv = Levels!LevelsAfter(track, xp'[m])]
  OBVIOUS
<1>6. x \in WorkerSet /\ x.who = m
  <2>1. Levels!LevelsAfter(track, xp'[m]) \in Levels!Levels
    BY <1>4, CapsAre
  <2>2. Levels!IdleHand \in WorkerSet
    BY IdleHandIs
  <2>3. QED
    BY <1>5, <2>1, <2>2 DEF WorkerSet
<1>7. /\ busy' \in [Levels!Workers -> WorkerSet] /\ busy'["sync"] = busy["sync"]
      /\ \A h \in Levels!Workers : busy'[h].at # "idle" => busy'[h].who \in Ranked
  BY <1>3, <1>5, <1>6, TrackMoves DEF SyncInv
<1>8. LevelTypes'
  BY <1>1, <1>2, <1>4, <1>7 DEF SyncInv, LevelTypes
<1>9. JobInv'
  BY <1>1, <1>7, JobStays DEF SyncInv
<1>10. QED
  BY <1>1, <1>8, <1>9 DEF SyncInv

(* The rules a handler or a pass gets, and what becomes of the cache.      *)
LEMMA RulesRead ==
    ASSUME LevelConstants, LevelTypes, NEW rs \in IF known # None THEN {known} ELSE {rules, {}}, Levels!ReadsRules(rs)
    PROVE  /\ rs \in SUBSET SomeRules /\ (known' = None \/ known' \subseteq SomeRules)
           /\ troubles' \in 0 .. MaxTroubles /\ awards' \in 0 .. MaxAwards
<1>1. rs \in SUBSET SomeRules
  BY DEF LevelTypes
<1>2. known' = None \/ known' \subseteq SomeRules
  BY DEF LevelTypes, Levels!ReadsRules
<1>3. QED
  BY <1>1, <1>2, BoundsHold DEF Levels!ReadsRules

LEMMA StepLevelUp == ASSUME LevelConstants, SyncInv, NEW track \in {"text", "voice"}, Levels!LevelUp(track) PROVE SyncInv'
<1>1. busy[track].at = "plan" /\ UNCHANGED <<rules, xp, job, pass, rewards, admin, quiet, ready, orphan>>
  BY DEF Levels!LevelUp, Levels!db
<1>2. PICK rs \in IF known # None THEN {known} ELSE {rules, {}} :
         /\ Levels!ReadsRules(rs)
         /\ busy' \in {[busy EXCEPT ![track] = Levels!Judged(busy[track].who, rs, busy[track].lv)], [busy EXCEPT ![track] = Levels!IdleHand]}
  BY DEF Levels!LevelUp
<1>3. /\ rs \in SUBSET SomeRules /\ (known' = None \/ known' \subseteq SomeRules)
      /\ troubles' \in 0 .. MaxTroubles /\ awards' \in 0 .. MaxAwards
  BY <1>2, RulesRead DEF SyncInv
<1>4. busy[track].who \in Ranked
  BY <1>1 DEF SyncInv, LevelTypes, Levels!Workers
<1>5. PICK x \in {Levels!Judged(busy[track].who, rs, busy[track].lv), Levels!IdleHand} : busy' = [busy EXCEPT ![track] = x]
  BY <1>2
<1>6. x \in WorkerSet /\ (x.at # "idle" => x.who \in Ranked)
  BY <1>3, <1>4, <1>5, JudgedIs, IdleHandIs DEF SyncInv
<1>7. /\ busy' \in [Levels!Workers -> WorkerSet] /\ busy'["sync"] = busy["sync"]
      /\ \A h \in Levels!Workers : busy'[h].at # "idle" => busy'[h].who \in Ranked
  BY <1>5, <1>6, TrackMoves DEF SyncInv
<1>8. LevelTypes'
  BY <1>1, <1>3, <1>7 DEF SyncInv, LevelTypes
<1>9. JobInv'
  BY <1>1, <1>7, JobStays DEF SyncInv
<1>10. ~quiet
  BY <1>1 DEF SyncInv, QuietPass
<1>11. QED
  BY <1>1, <1>8, <1>9, <1>10 DEF SyncInv

(* One role more or less, granted or taken as was judged.                  *)
LEMMA StepChangeRole == ASSUME LevelConstants, SyncInv, NEW h \in Levels!Workers, Levels!ChangeRole(h) PROVE SyncInv'
<1>1. busy[h].at = "apply" /\ UNCHANGED <<rules, xp, job, known, pass, admin, ready, orphan>>
  BY DEF Levels!ChangeRole, Levels!db
<1>2. busy[h] \in WorkerSet /\ busy[h].who \in Ranked /\ busy \in [Levels!Workers -> WorkerSet]
  BY <1>1 DEF SyncInv, LevelTypes
<1>3. PICK r \in IF busy[h].adds # {} THEN busy[h].adds ELSE busy[h].removes :
         /\ \/ /\ rewards' = [rewards EXCEPT ![busy[h].who] = IF busy[h].adds # {} THEN @ \cup {r} ELSE @ \ {r}]
               /\ UNCHANGED quiet /\ Levels!Calm
            \/ Levels!Mishap /\ UNCHANGED rewards /\ quiet' = FALSE
         /\ LET left == [busy[h] EXCEPT !.adds = @ \ {r}, !.removes = IF busy[h].adds # {} THEN @ ELSE @ \ {r}]
            IN  busy' = [busy EXCEPT ![h] = IF left.adds \cup left.removes = {} THEN Levels!IdleHand ELSE left]
  BY DEF Levels!ChangeRole
<1>4. PICK left : left = [busy[h] EXCEPT !.adds = @ \ {r}, !.removes = IF busy[h].adds # {} THEN @ ELSE @ \ {r}]
  OBVIOUS
<1>5. /\ left \in WorkerSet /\ left.at = "apply" /\ left.who = busy[h].who /\ left.adds = busy[h].adds \ {r}
      /\ left.removes = IF busy[h].adds # {} THEN busy[h].removes ELSE busy[h].removes \ {r}
  BY <1>1, <1>2, <1>4 DEF WorkerSet
<1>6. PICK x : x = IF left.adds \cup left.removes = {} THEN Levels!IdleHand ELSE left
  OBVIOUS
<1>7. x \in WorkerSet /\ x.at \in {"idle", "apply"} /\ (x.at # "idle" => x.who \in Ranked) /\ busy' = [busy EXCEPT ![h] = x]
  BY <1>2, <1>3, <1>4, <1>5, <1>6, IdleHandIs
<1>8. r \in Levels!Roles
  BY <1>2, <1>3 DEF WorkerSet
<1>9. rewards' \in [Ranked -> SUBSET Levels!Roles]
  <2>1. rewards \in [Ranked -> SUBSET Levels!Roles]
    BY DEF SyncInv, LevelTypes
  <2>2. QED
    BY <1>2, <1>3, <1>8, <2>1
<1>10. troubles' \in 0 .. MaxTroubles /\ awards' \in 0 .. MaxAwards /\ quiet' \in BOOLEAN
  <2>1. troubles' \in 0 .. MaxTroubles /\ awards' \in 0 .. MaxAwards
    BY <1>3, BoundsHold DEF SyncInv
  <2>2. quiet \in BOOLEAN
    BY DEF SyncInv, LevelTypes
  <2>3. QED
    BY <1>3, <2>1, <2>2
<1>11. busy' \in [Levels!Workers -> WorkerSet] /\ busy'[h] = x /\ \A g \in Levels!Workers \ {h} : busy'[g] = busy[g]
  BY <1>2, <1>7
<1>12. \A g \in Levels!Workers : busy'[g].at # "idle" => busy'[g].who \in Ranked
  BY <1>7, <1>11 DEF SyncInv, LevelTypes
<1>13. LevelTypes'
  BY <1>1, <1>9, <1>10, <1>11, <1>12 DEF SyncInv, LevelTypes
<1>14. JobInv'
  <2>1. busy["sync"].at = "idle" => busy'["sync"].at = "idle"
    BY <1>1, <1>11 DEF Levels!Workers
  <2>2. busy'["sync"].at # "plan"
    BY <1>7, <1>11 DEF SyncInv, JobInv, Levels!Workers
  <2>3. QED
    BY <1>1, <2>1, <2>2 DEF SyncInv, JobInv
<1>15. ASSUME quiet' PROVE QuietPass'
  <2>1. quiet /\ rewards' = [rewards EXCEPT ![busy[h].who] = IF busy[h].adds # {} THEN @ \cup {r} ELSE @ \ {r}]
    BY <1>3, <1>15
  <2>2. QuietPass /\ h = "sync"
    BY <1>1, <2>1 DEF SyncInv, QuietPass, Levels!Workers
  <2>3. pass.at = "member" /\ job.status \in {"pending", "running"} /\ ~orphan
    BY <1>1, <2>2 DEF SyncInv, JobInv
  <2>4. \A m \in Ranked : m # busy[h].who => rewards'[m] = rewards[m]
    BY <2>1 DEF SyncInv, LevelTypes
  <2>5. rewards'[busy[h].who] = IF busy[h].adds # {} THEN rewards[busy[h].who] \cup {r} ELSE rewards[busy[h].who] \ {r}
    BY <1>2, <2>1 DEF SyncInv, LevelTypes
  <2>6. ASSUME NEW m \in Ranked, Reconciled(m) PROVE Reconciled(m)'
    <3>1. Wanted(m)' = Wanted(m) /\ Levels!Named(rules)' = Levels!Named(rules)
      BY <1>1 DEF Wanted, Levels!Named
    <3>2. CASE m # busy[h].who
      <4>1. ~Underway(m) /\ ~Underway(m)'
        <5>1. x.at = "idle" \/ x.who = busy[h].who
          BY <1>5, <1>6, IdleHandIs
        <5>2. QED
          BY <1>11, <2>2, <3>2, <5>1 DEF Underway
      <4>2. InLine(m)'
        BY <2>4, <2>6, <3>1, <3>2, <4>1 DEF Reconciled, InLine
      <4>3. QED
        BY <4>1, <4>2 DEF Reconciled
    <3>3. CASE m = busy[h].who
      <4>1. Nearly(m)
        BY <1>1, <2>2, <2>6, <3>3 DEF Reconciled, Underway
      <4>2. left.adds \cap left.removes = {}
        BY <1>5, <2>2, <4>1 DEF Nearly
      <4>3. (rewards'[m] \cup left.adds) \ left.removes = (rewards[m] \cup busy[h].adds) \ busy[h].removes
        <5>1. CASE busy[h].adds # {}
          <6>1. r \in busy[h].adds /\ r \notin busy[h].removes
            BY <1>3, <2>2, <4>1, <5>1 DEF Nearly
          <6>2. QED
            BY <1>5, <2>5, <3>3, <5>1, <6>1
        <5>2. CASE busy[h].adds = {}
          <6>1. r \in busy[h].removes
            BY <1>3, <5>2
          <6>2. QED
            BY <1>5, <2>5, <3>3, <5>2, <6>1
        <5>3. QED
          BY <5>1, <5>2
      <4>4. ((rewards'[m] \cup left.adds) \ left.removes) \cap Levels!Named(rules) = Wanted(m)
        BY <2>2, <4>1, <4>3 DEF Nearly
      <4>5. CASE left.adds \cup left.removes = {}
        <5>1. ~Underway(m)'
          BY <1>6, <1>11, <2>2, <4>5, IdleHandIs DEF Underway
        <5>2. rewards'[m] \cap Levels!Named(rules) = Wanted(m)
          BY <4>4, <4>5
        <5>3. InLine(m)'
          BY <3>1, <5>2 DEF InLine
        <5>4. QED
          BY <5>1, <5>3 DEF Reconciled
      <4>6. CASE left.adds \cup left.removes # {}
        <5>1. busy'["sync"] = left
          BY <1>6, <1>11, <2>2, <4>6
        <5>2. Nearly(m)'
          BY <3>1, <4>2, <4>4, <5>1 DEF Nearly
        <5>3. Underway(m)'
          BY <1>5, <3>3, <5>1 DEF Underway
        <5>4. QED
          BY <5>2, <5>3 DEF Reconciled
      <4>7. QED
        BY <4>5, <4>6
    <3>4. QED
      BY <3>2, <3>3
  <2>7. BehindIt => BehindIt'
    BY <1>1, <2>6 DEF BehindIt, Levels!HasXp
  <2>8. PageNext => PageNext'
    BY <1>1 DEF PageNext, Levels!HasXp
  <2>9. busy'["text"].at = "idle" /\ busy'["voice"].at = "idle"
    BY <1>11, <2>2 DEF QuietPass, Levels!Workers
  <2>10. QED
    BY <1>1, <2>2, <2>3, <2>7, <2>8, <2>9 DEF QuietPass
<1>16. QED
  BY <1>13, <1>14, <1>15 DEF SyncInv

LEMMA StepClaimJob == ASSUME LevelConstants, SyncInv, Levels!ClaimJob PROVE SyncInv'
<1>1. /\ job.status = "pending" /\ job' = [job EXCEPT !.status = "running"] /\ pass.at = "none"
      /\ \/ pass' = [Levels!NoPass EXCEPT !.at = "start"] /\ Levels!Calm /\ UNCHANGED orphan
         \/ UNCHANGED pass /\ Levels!Mishap /\ orphan' = TRUE
      /\ UNCHANGED <<rules, xp, known, busy, rewards, admin, quiet, ready>>
  BY DEF Levels!ClaimJob
<1>2. job' \in JobSet /\ job'.status = "running"
  BY <1>1 DEF SyncInv, LevelTypes, JobSet
<1>3. /\ pass' \in PassSet /\ pass'.at \in {"none", "start"} /\ pass'.cursor = 0
      /\ pass'.at # "none" => ~orphan'
      /\ pass'.at = "none" => orphan'
  <2>1. pass \in PassSet /\ pass.cursor = 0 /\ ~orphan
    BY <1>1 DEF SyncInv, LevelTypes, JobInv
  <2>2. CASE pass' = [Levels!NoPass EXCEPT !.at = "start"] /\ UNCHANGED orphan
    BY <2>1, <2>2, NoPassIs
  <2>3. CASE UNCHANGED pass /\ orphan' = TRUE
    BY <1>1, <2>1, <2>3
  <2>4. QED
    BY <1>1, <2>2, <2>3
<1>4. troubles' \in 0 .. MaxTroubles /\ awards' \in 0 .. MaxAwards /\ orphan' \in BOOLEAN
  BY <1>1, BoundsHold DEF SyncInv, LevelTypes
<1>5. LevelTypes'
  BY <1>1, <1>2, <1>3, <1>4 DEF SyncInv, LevelTypes
<1>6. JobInv'
  BY <1>1, <1>2, <1>3 DEF SyncInv, JobInv
<1>7. quiet' => QuietPass'
  BY <1>1, <1>2, <1>3 DEF SyncInv, QuietPass
<1>8. QED
  BY <1>5, <1>6, <1>7 DEF SyncInv

LEMMA StepPassBreaks == ASSUME LevelConstants, SyncInv, Levels!PassBreaks PROVE SyncInv'
<1>1. /\ quiet' = FALSE /\ pass' = Levels!NoPass /\ busy["sync"].at = "idle" /\ Levels!Mishap
      /\ UNCHANGED <<rules, xp, known, busy, rewards, admin, ready>>
      /\ \/ job' = [job EXCEPT !.status = "failed"] /\ UNCHANGED orphan
         \/ UNCHANGED job /\ orphan' = (job.status = "running")
      /\ pass.at # "none"
  BY DEF Levels!PassBreaks, Levels!FailsJob
<1>2. job' \in JobSet /\ (job'.status = "running" <=> orphan')
  <2>1. job \in JobSet /\ ~orphan
    BY <1>1 DEF SyncInv, LevelTypes, JobInv
  <2>2. CASE job' = [job EXCEPT !.status = "failed"] /\ UNCHANGED orphan
    <3>1. job' \in JobSet /\ job'.status = "failed"
      BY <2>1, <2>2 DEF JobSet
    <3>2. QED
      BY <2>1, <2>2, <3>1
  <2>3. CASE UNCHANGED job /\ orphan' = (job.status = "running")
    BY <2>1, <2>3
  <2>4. QED
    BY <1>1, <2>2, <2>3
<1>3. pass' \in PassSet /\ pass'.at = "none" /\ pass'.cursor = 0
  BY <1>1, NoPassIs
<1>4. troubles' \in 0 .. MaxTroubles /\ awards' \in 0 .. MaxAwards
  BY <1>1, BoundsHold DEF SyncInv
<1>5. LevelTypes'
  BY <1>1, <1>2, <1>3, <1>4 DEF SyncInv, LevelTypes
<1>6. JobInv'
  BY <1>1, <1>2, <1>3 DEF SyncInv, JobInv
<1>7. QED
  BY <1>1, <1>5, <1>6 DEF SyncInv

LEMMA StepRestart == ASSUME LevelConstants, SyncInv, Levels!Restart PROVE SyncInv'
<1>1. /\ quiet' = FALSE /\ pass' = Levels!NoPass /\ busy' = [h \in Levels!Workers |-> Levels!IdleHand] /\ known' = None
      /\ ready' = FALSE /\ orphan' = (job.status = "running") /\ Levels!Mishap /\ UNCHANGED <<rules, xp, job, rewards, admin>>
  BY DEF Levels!Restart
<1>2. pass' \in PassSet /\ pass'.at = "none" /\ pass'.cursor = 0
  BY <1>1, NoPassIs
<1>3. troubles' \in 0 .. MaxTroubles /\ awards' \in 0 .. MaxAwards
  BY <1>1, BoundsHold DEF SyncInv
<1>4. busy' \in [Levels!Workers -> WorkerSet] /\ \A h \in Levels!Workers : busy'[h].at = "idle"
  BY <1>1, IdleHandIs
<1>5. LevelTypes'
  BY <1>1, <1>2, <1>3, <1>4 DEF SyncInv, LevelTypes
<1>6. JobInv'
  BY <1>1, <1>2, <1>4 DEF JobInv, Levels!Workers
<1>7. QED
  BY <1>1, <1>5, <1>6 DEF SyncInv

LEMMA StepReady == ASSUME LevelConstants, SyncInv, Levels!Ready PROVE SyncInv'
<1>1. /\ ready' = TRUE /\ UNCHANGED <<rules, xp, known, pass, busy, rewards, admin, awards, troubles, quiet>>
      /\ \/ job' = Levels!ResetStale /\ orphan' = FALSE
         \/ UNCHANGED <<job, orphan>>
  BY DEF Levels!Ready, Levels!bot
<1>2. /\ Levels!ResetStale \in JobSet /\ Levels!ResetStale.status # "running"
      /\ Levels!ResetStale.status = "completed" => job.status = "completed"
      /\ job.status \in {"pending", "running"} => Levels!ResetStale.status = "pending"
  BY DEF Levels!ResetStale, SyncInv, LevelTypes, JobSet
<1>3. job' \in JobSet /\ (job'.status = "completed" => job.status = "completed")
  BY <1>1, <1>2 DEF SyncInv, LevelTypes
<1>4. LevelTypes'
  BY <1>1, <1>3 DEF SyncInv, LevelTypes
<1>5. JobInv'
  BY <1>1, <1>2 DEF SyncInv, JobInv
<1>6. quiet' => QuietPass'
  BY <1>1, <1>3, QuietPassStays DEF SyncInv
<1>7. QED
  BY <1>4, <1>5, <1>6 DEF SyncInv

LEMMA StepMemberLeaves == ASSUME LevelConstants, SyncInv, Levels!MemberLeaves PROVE SyncInv'
<1>1. quiet' = FALSE /\ Levels!Mishap /\ UNCHANGED <<rules, known, pass, busy, admin, ready, orphan>>
  BY DEF Levels!MemberLeaves, Levels!bot
<1>2. PICK m \in Ranked : /\ rewards' = [rewards EXCEPT ![m] = {}]
                          /\ xp' \in {xp, [xp EXCEPT ![m] = Levels!Zero]} /\ job' \in {job, Levels!Requested}
  BY DEF Levels!MemberLeaves
<1>3. rewards' \in [Ranked -> SUBSET Levels!Roles]
  BY <1>2 DEF SyncInv, LevelTypes
<1>4. xp' \in [Ranked -> Levels!Levels]
  <2>1. Levels!Zero \in Levels!Levels
    BY DEF Levels!Zero, Levels!Levels, LevelConstants
  <2>2. QED
    BY <1>2, <2>1 DEF SyncInv, LevelTypes
<1>5. job' \in JobSet /\ (job'.status = job.status \/ (job'.status = "pending" /\ job.status # "running"))
  <2>1. job \in JobSet
    BY DEF SyncInv, LevelTypes
  <2>2. QED
    BY <1>2, <2>1, RequestedIs DEF SyncInv
<1>6. troubles' \in 0 .. MaxTroubles /\ awards' \in 0 .. MaxAwards
  BY <1>1, BoundsHold DEF SyncInv
<1>7. LevelTypes'
  BY <1>1, <1>3, <1>4, <1>5, <1>6 DEF SyncInv, LevelTypes
<1>8. JobInv'
  BY <1>1, <1>5, JobStays DEF SyncInv
<1>9. QED
  BY <1>1, <1>7, <1>8 DEF SyncInv

LEMMA StepPassReadsRules == ASSUME LevelConstants, SyncInv, Levels!PassReadsRules PROVE SyncInv'
<1>1. pass.at = "start" /\ UNCHANGED <<rules, xp, busy, rewards, admin, ready, orphan>>
  BY DEF Levels!PassReadsRules
<1>2. PICK rs \in IF known # None THEN {known} ELSE {rules, {}} :
         /\ Levels!ReadsRules(rs)
         /\ IF rs = {} THEN Levels!Completes
            ELSE pass' = [pass EXCEPT !.at = "page", !.rules = rs] /\ UNCHANGED job
         /\ quiet' = (rs = rules /\ \A h \in Levels!Workers : busy[h] = Levels!IdleHand)
  BY DEF Levels!PassReadsRules
<1>3. /\ rs \in SUBSET SomeRules /\ (known' = None \/ known' \subseteq SomeRules)
      /\ troubles' \in 0 .. MaxTroubles /\ awards' \in 0 .. MaxAwards
  BY <1>2, RulesRead DEF SyncInv
<1>4. busy["sync"].at = "idle" /\ job.status \in {"pending", "running"} /\ ~orphan /\ job \in JobSet /\ pass \in PassSet
  BY <1>1 DEF SyncInv, JobInv, LevelTypes
<1>5. quiet' \in BOOLEAN
  BY <1>2
<1>6. quiet' => busy["text"].at = "idle" /\ busy["voice"].at = "idle" /\ rs = rules
  BY <1>2, IdleHandIs DEF Levels!Workers
<1>7. CASE rs = {}
  <2>1. job' = [job EXCEPT !.status = "completed"] /\ pass' = Levels!NoPass
    BY <1>2, <1>7 DEF Levels!Completes
  <2>2. job' \in JobSet /\ job'.status = "completed"
    BY <1>4, <2>1 DEF JobSet
  <2>3. pass' \in PassSet /\ pass'.at = "none" /\ pass'.cursor = 0
    BY <2>1, NoPassIs
  <2>4. LevelTypes'
    BY <1>1, <1>3, <1>5, <2>2, <2>3 DEF SyncInv, LevelTypes
  <2>5. JobInv'
    BY <1>1, <1>4, <2>2, <2>3 DEF JobInv
  <2>6. ASSUME quiet', NEW m \in Ranked PROVE InLine(m)'
    <3>1. rules' = {}
      BY <1>1, <1>6, <1>7, <2>6
    <3>2. Levels!Named(rules') = {} /\ Wanted(m)' = {}
      BY <3>1 DEF Levels!Named, Wanted, Levels!DesiredRoles
    <3>3. QED
      BY <3>2 DEF InLine
  <2>7. quiet' => QuietPass'
    BY <1>1, <1>6, <2>3, <2>6 DEF QuietPass
  <2>8. QED
    BY <2>4, <2>5, <2>7 DEF SyncInv
<1>8. CASE rs # {}
  <2>1. pass' = [pass EXCEPT !.at = "page", !.rules = rs] /\ job' = job
    BY <1>2, <1>8
  <2>2. pass' \in PassSet /\ pass'.at = "page" /\ pass'.rules = rs /\ pass'.cursor = pass.cursor
    BY <1>3, <1>4, <2>1 DEF PassSet
  <2>3. LevelTypes'
    BY <1>1, <1>3, <1>5, <2>1, <2>2 DEF SyncInv, LevelTypes
  <2>4. JobInv'
    BY <1>1, <1>4, <2>1, <2>2 DEF JobInv
  <2>5. pass.cursor = 0
    BY <1>1 DEF SyncInv, JobInv
  <2>6. BehindIt'
    BY <2>2, <2>5 DEF BehindIt, LevelConstants
  <2>7. quiet' => QuietPass'
    BY <1>1, <1>4, <1>6, <1>8, <2>1, <2>2, <2>6 DEF QuietPass
  <2>8. QED
    BY <2>3, <2>4, <2>7 DEF SyncInv
<1>9. QED
  BY <1>7, <1>8

LEMMA StepReadPage == ASSUME LevelConstants, SyncInv, Levels!ReadPage PROVE SyncInv'
<1>1. pass.at = "page" /\ UNCHANGED <<rules, xp, known, busy, rewards, admin, awards, troubles, quiet, ready, orphan>>
  BY DEF Levels!ReadPage
<1>2. busy["sync"].at = "idle" /\ job.status \in {"pending", "running"} /\ ~orphan /\ job \in JobSet /\ pass \in PassSet
  BY <1>1 DEF SyncInv, JobInv, LevelTypes
<1>3. \A m \in Ranked : InLine(m)' <=> InLine(m)
  BY <1>1 DEF InLine, Wanted, Levels!Named
<1>4. CASE Levels!Page = {}
  <2>1. job' = [job EXCEPT !.status = "completed"] /\ pass' = Levels!NoPass
    BY <1>4 DEF Levels!Completes, Levels!ReadPage
  <2>2. job' \in JobSet /\ job'.status = "completed"
    BY <1>2, <2>1 DEF JobSet
  <2>3. pass' \in PassSet /\ pass'.at = "none" /\ pass'.cursor = 0
    BY <2>1, NoPassIs
  <2>4. LevelTypes'
    BY <1>1, <2>2, <2>3 DEF SyncInv, LevelTypes
  <2>5. JobInv'
    BY <1>1, <1>2, <2>2, <2>3 DEF JobInv
  <2>6. ASSUME quiet', NEW m \in Ranked, Levels!HasXp(m) PROVE InLine(m)
    <3>1. BehindIt
      BY <1>1, <2>6 DEF SyncInv, QuietPass
    <3>2. ~(m > pass.cursor)
      BY <1>4, <2>6, PageIs
    <3>3. m \in Nat /\ pass.cursor \in Nat
      <4>1. \A k \in {0} \cup Ranked : k \in Nat
        BY DEF LevelConstants
      <4>2. pass.cursor \in {0} \cup Ranked
        BY <1>2 DEF PassSet
      <4>3. QED
        BY <4>1, <4>2
    <3>4. m <= pass.cursor
      BY <3>2, <3>3
    <3>5. Reconciled(m) /\ ~Underway(m)
      BY <1>2, <2>6, <3>1, <3>4 DEF BehindIt, Underway
    <3>6. QED
      BY <3>5 DEF Reconciled
  <2>7. quiet' => QuietPass'
    <3>1. \A m \in Ranked : Levels!HasXp(m)' => Levels!HasXp(m)
      BY <1>1 DEF Levels!HasXp
    <3>2. quiet' => busy'["text"].at = "idle" /\ busy'["voice"].at = "idle"
      BY <1>1 DEF SyncInv, QuietPass
    <3>3. QED
      BY <1>3, <2>3, <2>6, <3>1, <3>2 DEF QuietPass
  <2>8. QED
    BY <2>4, <2>5, <2>7 DEF SyncInv
<1>5. CASE Levels!Page # {}
  <2>1. PICK seen : seen = [m \in Ranked |-> IF m \in Levels!Page THEN xp[m] ELSE Levels!Zero]
    OBVIOUS
  <2>2. job' = job /\ pass' = [pass EXCEPT !.at = "member", !.page = Levels!Page, !.seen = seen]
    BY <1>5, <2>1 DEF Levels!ReadPage
  <2>3. Levels!Page \subseteq Ranked
    BY PageIs
  <2>4. seen \in [Ranked -> Levels!Levels]
    <3>1. Levels!Zero \in Levels!Levels
      BY DEF Levels!Zero, Levels!Levels, LevelConstants
    <3>2. xp \in [Ranked -> Levels!Levels]
      BY DEF SyncInv, LevelTypes
    <3>3. QED
      BY <2>1, <3>1, <3>2
  <2>5. /\ pass' \in PassSet /\ pass'.at = "member" /\ pass'.page = Levels!Page /\ pass'.seen = seen
        /\ pass'.cursor = pass.cursor /\ pass'.rules = pass.rules
    BY <1>2, <2>2, <2>3, <2>4 DEF PassSet
  <2>6. LevelTypes'
    BY <1>1, <2>2, <2>5 DEF SyncInv, LevelTypes
  <2>7. JobInv'
    BY <1>1, <1>2, <2>2, <2>5 DEF JobInv
  <2>8. ASSUME quiet' PROVE QuietPass'
    <3>1. quiet /\ QuietPass
      BY <1>1, <2>8 DEF SyncInv
    <3>2. \A m \in Ranked : Reconciled(m)' <=> Reconciled(m)
      BY <1>1, <1>3 DEF Reconciled, Underway, Nearly, Wanted, Levels!Named
    <3>3. BehindIt'
      BY <1>1, <2>5, <3>1, <3>2 DEF BehindIt, QuietPass, Levels!HasXp
    <3>4. PageNext'
      <4>1. \A m \in Levels!Page : m > pass.cursor /\ seen[m] = xp[m]
        BY <2>1, <2>3, PageIs
      <4>2. \A m \in Ranked \ Levels!Page : Levels!HasXp(m) /\ m > pass.cursor => \A k \in Levels!Page : k < m
        BY PageIs
      <4>3. QED
        BY <1>1, <2>5, <4>1, <4>2 DEF PageNext, Levels!HasXp
    <3>5. job'.status # "completed"
      BY <1>2, <2>2
    <3>6. QED
      BY <1>1, <2>5, <3>1, <3>3, <3>4, <3>5 DEF QuietPass
  <2>9. QED
    BY <2>6, <2>7, <2>8 DEF SyncInv
<1>6. QED
  BY <1>4, <1>5

LEMMA StepSyncMember == ASSUME LevelConstants, SyncInv, Levels!SyncMember PROVE SyncInv'
<1>1. PICK m : m = Levels!Least(pass.page)
  OBVIOUS
<1>2. /\ pass.at = "member" /\ busy["sync"].at = "idle" /\ pass.page # {}
      /\ pass' = [pass EXCEPT !.page = @ \ {m}, !.cursor = m, !.seen[m] = Levels!Zero]
      /\ \/ /\ busy' = [busy EXCEPT !["sync"] = Levels!Judged(m, pass.rules, Levels!Capped(pass.seen[m]))]
            /\ UNCHANGED quiet /\ Levels!Calm
         \/ Levels!Mishap /\ quiet' = FALSE /\ UNCHANGED busy
      /\ UNCHANGED <<rules, xp, job, known, rewards, admin, ready, orphan>>
  BY <1>1 DEF Levels!SyncMember, Levels!db
<1>3. pass \in PassSet /\ job.status \in {"pending", "running"} /\ ~orphan
  BY <1>2 DEF SyncInv, JobInv, LevelTypes
<1>4. /\ m \in pass.page /\ m \in Ranked /\ \A y \in pass.page : m <= y
      /\ pass.page \subseteq Ranked /\ pass.rules \in SUBSET SomeRules
  <2>1. pass.page \subseteq Ranked /\ pass.rules \in SUBSET SomeRules
    BY <1>3 DEF PassSet
  <2>2. pass.page \in SUBSET Nat
    BY <2>1 DEF LevelConstants
  <2>3. QED
    BY <1>1, <1>2, <2>1, <2>2, LeastIs
<1>5. /\ pass' \in PassSet /\ pass'.at = "member" /\ pass'.page = pass.page \ {m} /\ pass'.cursor = m
      /\ pass'.rules = pass.rules /\ \A k \in pass.page \ {m} : pass'.seen[k] = pass.seen[k]
  <2>1. Levels!Zero \in Levels!Levels
    BY DEF Levels!Zero, Levels!Levels, LevelConstants
  <2>2. PICK seen : seen = [pass.seen EXCEPT ![m] = Levels!Zero]
    OBVIOUS
  <2>3. seen \in [Ranked -> Levels!Levels] /\ \A k \in pass.page \ {m} : seen[k] = pass.seen[k]
    BY <1>3, <1>4, <2>1, <2>2 DEF PassSet
  <2>4. pass' = [pass EXCEPT !.page = pass.page \ {m}, !.cursor = m, !.seen = seen]
    BY <1>2, <2>2
  <2>5. pass.page \ {m} \in SUBSET Ranked /\ m \in {0} \cup Ranked
    BY <1>4
  <2>6. pass' \in PassSet
    BY <1>3, <2>3, <2>4, <2>5 DEF PassSet
  <2>7. /\ pass'.at = pass.at /\ pass'.page = pass.page \ {m} /\ pass'.cursor = m
        /\ pass'.rules = pass.rules /\ pass'.seen = seen
    BY <1>3, <2>4 DEF PassSet
  <2>8. QED
    BY <1>2, <2>3, <2>6, <2>7
<1>6. troubles' \in 0 .. MaxTroubles /\ awards' \in 0 .. MaxAwards
  BY <1>2, BoundsHold DEF SyncInv
<1>7. PICK x : x = Levels!Judged(m, pass.rules, Levels!Capped(pass.seen[m]))
  OBVIOUS
<1>8. x \in WorkerSet /\ x.at \in {"idle", "apply"} /\ (x.at # "idle" => x.who = m)
  BY <1>4, <1>7, JudgedIs DEF SyncInv
<1>9. busy' \in {busy, [busy EXCEPT !["sync"] = x]}
  BY <1>2, <1>7
<1>10. /\ busy' \in [Levels!Workers -> WorkerSet] /\ busy'["sync"] \in {busy["sync"], x}
       /\ \A h \in Levels!Workers \ {"sync"} : busy'[h] = busy[h]
  <2>1. busy \in [Levels!Workers -> WorkerSet] /\ "sync" \in Levels!Workers
    BY DEF SyncInv, LevelTypes, Levels!Workers
  <2>2. QED
    BY <1>8, <1>9, <2>1
<1>11. \A h \in Levels!Workers : busy'[h].at # "idle" => busy'[h].who \in Ranked
  BY <1>2, <1>4, <1>8, <1>10 DEF SyncInv, LevelTypes
<1>12. quiet' \in BOOLEAN
  BY <1>2 DEF SyncInv, LevelTypes
<1>13. LevelTypes'
  BY <1>2, <1>5, <1>6, <1>10, <1>11, <1>12 DEF SyncInv, LevelTypes
<1>14. JobInv'
  BY <1>2, <1>3, <1>5, <1>8, <1>10 DEF SyncInv, JobInv
<1>15. ASSUME quiet' PROVE QuietPass'
  <2>1. quiet /\ QuietPass /\ busy' = [busy EXCEPT !["sync"] = x]
    BY <1>2, <1>7, <1>15 DEF SyncInv
  <2>2. busy'["sync"] = x /\ busy'["text"] = busy["text"] /\ busy'["voice"] = busy["voice"]
    BY <2>1 DEF SyncInv, LevelTypes, Levels!Workers
  <2>3. pass.rules = rules /\ rules # {} /\ BehindIt /\ PageNext
    BY <1>2, <2>1 DEF QuietPass
  <2>4. pass.seen[m] = xp[m] /\ m > pass.cursor
    BY <1>4, <2>3 DEF PageNext
  <2>5. \A k \in Ranked : k \in Nat
    BY DEF LevelConstants
  <2>6. pass.cursor \in Nat
    BY <1>3, <2>5 DEF PassSet
  <2>7. \A k \in Ranked : (Wanted(k)' = Wanted(k)) /\ Levels!Named(rules)' = Levels!Named(rules) /\ rewards' = rewards
    BY <1>2 DEF Wanted, Levels!Named
  <2>8. Reconciled(m)'
    <3>1. x = Levels!Judged(m, rules, Levels!Capped(xp[m])) /\ rules # {}
      BY <1>7, <2>3, <2>4
    <3>2. /\ x.at = "idle" => rewards[m] \cap Levels!Named(rules) = Wanted(m)
          /\ x.adds \cap x.removes = {}
          /\ x.at = "apply" => ((rewards[m] \cup x.adds) \ x.removes) \cap Levels!Named(rules) = Wanted(m)
      <4>1. PICK lv : lv = Levels!Capped(xp[m])
        OBVIOUS
      <4>2. x = Levels!Judged(m, rules, lv) /\ Wanted(m) = Levels!DesiredRoles(rules, lv)
        BY <3>1, <4>1 DEF Wanted
      <4>3. PICK rs : rs = rules
        OBVIOUS
      <4>4. rs # {}
        BY <3>1, <4>3
      <4>5. /\ Levels!Judged(m, rs, lv).at = "idle" => rewards[m] \cap Levels!Named(rs) = Levels!DesiredRoles(rs, lv)
            /\ Levels!Judged(m, rs, lv).adds \cap Levels!Judged(m, rs, lv).removes = {}
            /\ Levels!Judged(m, rs, lv).at = "apply" =>
                  ((rewards[m] \cup Levels!Judged(m, rs, lv).adds) \ Levels!Judged(m, rs, lv).removes) \cap Levels!Named(rs) = Levels!DesiredRoles(rs, lv)
        BY <4>4, JudgedReconciles
      <4>6. x = Levels!Judged(m, rs, lv) /\ Wanted(m) = Levels!DesiredRoles(rs, lv)
        BY <4>2, <4>3
      <4>7. QED
        BY <4>3, <4>5, <4>6
    <3>3. Underway(m)' => Nearly(m)'
      BY <1>4, <2>2, <2>7, <3>2 DEF Underway, Nearly
    <3>4. ~Underway(m)' => x.at = "idle"
      BY <1>8, <2>2 DEF Underway
    <3>5. ~Underway(m)' => InLine(m)'
      BY <1>4, <2>7, <3>2, <3>4 DEF InLine
    <3>6. QED
      BY <3>3, <3>5 DEF Reconciled
  <2>9. ASSUME NEW k \in Ranked, k # m, Reconciled(k) PROVE Reconciled(k)'
    <3>1. ~Underway(k) /\ ~Underway(k)'
      BY <1>2, <1>8, <2>2, <2>9 DEF Underway
    <3>2. QED
      BY <2>7, <2>9, <3>1 DEF Reconciled, InLine
  <2>10. BehindIt'
    <3>1. SUFFICES ASSUME NEW k \in Ranked, Levels!HasXp(k), k <= m PROVE Reconciled(k)'
      BY <1>2, <1>5 DEF BehindIt, Levels!HasXp
    <3>2. CASE k <= pass.cursor
      BY <2>3, <2>4, <2>5, <2>6, <3>1, <3>2, <1>4, <2>9 DEF BehindIt
    <3>3. CASE k > pass.cursor
      <4>1. k \in pass.page
        <5>1. SUFFICES ASSUME k \notin pass.page PROVE FALSE
          OBVIOUS
        <5>2. m < k
          BY <1>4, <2>3, <3>1, <3>3, <5>1 DEF PageNext
        <5>3. QED
          BY <1>4, <2>5, <3>1, <5>2
      <4>2. k = m
        BY <1>4, <2>5, <3>1, <4>1
      <4>3. QED
        BY <2>8, <4>2
    <3>4. QED
      BY <2>5, <2>6, <3>2, <3>3
  <2>11. PageNext'
    <3>1. \A k \in pass.page \ {m} : k > m /\ pass'.seen[k] = xp[k]
      BY <1>4, <1>5, <2>3, <2>5 DEF PageNext
    <3>2. \A k \in Ranked \ (pass.page \ {m}) : Levels!HasXp(k) /\ k > m => \A j \in pass.page \ {m} : j < k
      BY <1>4, <2>3, <2>4, <2>5, <2>6 DEF PageNext
    <3>3. QED
      BY <1>2, <1>5, <3>1, <3>2 DEF PageNext, Levels!HasXp
  <2>12. QED
    BY <1>2, <1>3, <1>5, <2>1, <2>2, <2>3, <2>10, <2>11 DEF QuietPass
<1>16. QED
  BY <1>13, <1>14, <1>15 DEF SyncInv

LEMMA StepSaveProgress == ASSUME LevelConstants, SyncInv, Levels!SaveProgress PROVE SyncInv'
<1>1. /\ pass.at = "member" /\ busy["sync"].at = "idle" /\ pass.page = {}
      /\ job' = [job EXCEPT !.cursor = pass.cursor] /\ pass' = [pass EXCEPT !.at = "page"]
      /\ UNCHANGED <<rules, xp, known, busy, rewards, admin, awards, troubles, quiet, ready, orphan>>
  BY DEF Levels!SaveProgress
<1>2. pass \in PassSet /\ job \in JobSet /\ job.status \in {"pending", "running"} /\ ~orphan
  BY <1>1 DEF SyncInv, JobInv, LevelTypes
<1>3. pass' \in PassSet /\ pass'.at = "page" /\ pass'.cursor = pass.cursor /\ pass'.rules = pass.rules
  BY <1>1, <1>2 DEF PassSet
<1>4. job' \in JobSet /\ job'.status = job.status
  BY <1>1, <1>2 DEF JobSet, PassSet
<1>5. LevelTypes'
  BY <1>1, <1>3, <1>4 DEF SyncInv, LevelTypes
<1>6. JobInv'
  BY <1>1, <1>3, <1>4 DEF SyncInv, JobInv
<1>7. ASSUME quiet' PROVE QuietPass'
  <2>1. quiet /\ QuietPass
    BY <1>1, <1>7 DEF SyncInv
  <2>2. \A m \in Ranked : Reconciled(m)' <=> Reconciled(m)
    BY <1>1 DEF Reconciled, InLine, Underway, Nearly, Wanted, Levels!Named
  <2>3. BehindIt'
    BY <1>1, <1>3, <2>1, <2>2 DEF BehindIt, QuietPass, Levels!HasXp
  <2>4. QED
    BY <1>1, <1>2, <1>3, <1>4, <2>1, <2>3 DEF QuietPass
<1>8. QED
  BY <1>5, <1>6, <1>7 DEF SyncInv

LEMMA NextSync == ASSUME LevelConstants PROVE SyncInv /\ [Levels!Next]_Levels!vars => SyncInv'
<1> SUFFICES ASSUME SyncInv, [Levels!Next]_Levels!vars PROVE SyncInv'
  OBVIOUS
<1>1. CASE UNCHANGED Levels!vars
  <2>1. UNCHANGED <<rules, xp, job, known, pass, busy, rewards, admin, awards, troubles, quiet, ready, orphan>>
    BY <1>1 DEF Levels!vars, Levels!db, Levels!bot
  <2>2. LevelTypes'
    BY <2>1 DEF SyncInv, LevelTypes
  <2>3. JobInv'
    BY <2>1, JobStays DEF SyncInv
  <2>4. quiet' => QuietPass'
    BY <2>1, QuietPassStays DEF SyncInv
  <2>5. QED
    BY <2>2, <2>3, <2>4 DEF SyncInv
<1>2. CASE Levels!EditRules \/ Levels!SetMemberXp \/ Levels!Audit \/ Levels!RequestSync \/ Levels!CacheExpires
  BY <1>2, StepEditRules, StepSetMemberXp, StepAudit, StepRequestSync, StepCacheExpires
<1>3. ASSUME NEW track \in {"text", "voice"}, Levels!Award(track) \/ Levels!LevelUp(track) PROVE SyncInv'
  BY <1>3, StepAward, StepLevelUp
<1>4. ASSUME NEW h \in Levels!Workers, Levels!ChangeRole(h) PROVE SyncInv'
  BY <1>4, StepChangeRole
<1>5. CASE Levels!Sync
  BY <1>5, StepClaimJob, StepPassReadsRules, StepReadPage, StepSyncMember, StepSaveProgress DEF Levels!Sync
<1>6. CASE Levels!PassBreaks \/ Levels!Restart \/ Levels!Ready \/ Levels!MemberLeaves
  BY <1>6, StepPassBreaks, StepRestart, StepReady, StepMemberLeaves
<1>7. QED
  BY <1>1, <1>2, <1>3, <1>4, <1>5, <1>6 DEF Levels!Next

LEMMA SyncIs == ASSUME SyncInv PROVE Levels!TypeOK /\ Levels!PassReconciles /\ Levels!RunningJobsHaveAPass
<1>1. Levels!TypeOK
  BY DEF SyncInv, LevelTypes, Levels!TypeOK, WorkerSet, PassSet, JobSet
<1>2. Levels!PassReconciles
  BY DEF SyncInv, QuietPass, Levels!PassReconciles, InLine, Wanted
<1>3. Levels!RunningJobsHaveAPass
  BY DEF SyncInv, JobInv, Levels!RunningJobsHaveAPass
<1>4. QED
  BY <1>1, <1>2, <1>3

LEMMA LevelSteps == [GuildNext]_all => [Levels!Next]_Levels!vars
BY DEF GuildNext, all, deeds, levels, Levels!vars, Levels!db, Levels!bot

(* Whatever levels are earned, rules edited, passes broken off and calls   *)
(* refused: a pass that ran while nothing else moved leaves every ranked   *)
(* member with the roles their levels ask for, and a job that says it runs *)
(* has a pass; excused is a job left without one by a claim whose answer   *)
(* was lost, by a failure nobody could write down or by a restart, until a *)
(* boot's reset succeeds, which is not sure to (bot/src/index.ts,          *)
(* runLevelRoleSyncJob and resetStaleSyncJobs).                            *)
THEOREM PassesReconcile == ASSUME LevelConstants PROVE GuildSpec => []SyncReconciles
<1>1. GuildInit => SyncInv
  BY InitSync DEF GuildInit
<1>2. SyncInv /\ [Levels!Next]_Levels!vars => SyncInv'
  BY NextSync
<1>3. SyncInv => SyncReconciles
  BY SyncIs DEF SyncReconciles
<1>4. QED
  BY <1>1, <1>2, <1>3, LevelSteps, PTL DEF GuildSpec

-----------------------------------------------------------------------------
(* The gate of the moderation commands.                                    *)

GateConstants ==
    /\ Burst \in Nat \ {0, 1} /\ Span \in Nat \ {0} /\ Patience \in Nat
    /\ MaxClock \in Nat /\ MaxSaves \in Nat /\ MaxLeaves \in Nat
    /\ Staff # {} /\ Staff \subseteq {1, 2}

GateSteps == {"idle", "asked", "gate", "acting", "replied", "kept", "done"}
GateCalls == [at : GateSteps, who : Staff, roles : SUBSET {1, 2},
              conf : TwoConfigs \cup {Gates!Nothing}, since : 0 .. MaxClock]
Refusals  == [of : Calls, at : 0 .. clock]

CallTypes ==
    /\ req \in [Calls -> GateCalls]
    /\ \A i \in Calls : req[i].since <= clock
    /\ \A i \in Calls : req[i].at \in {"gate", "acting", "replied", "kept"} => req[i].conf \in TwoConfigs

GateTypes ==
    /\ clock \in 0 .. MaxClock /\ saves \in 0 .. MaxSaves /\ leaves \in 0 .. MaxLeaves
    /\ config \in TwoConfigs /\ tiers = [admin |-> {}, moderator |-> {1}]
    /\ tags \in [Staff -> SUBSET {1, 2}] /\ until \in [Staff -> Nat]
    /\ hits \in [Staff -> SUBSET Refusals] /\ raised \in [Staff -> SUBSET Refusals]
    /\ pending \subseteq [of : Calls, expires : Nat]
    /\ gone \subseteq Calls /\ owed \subseteq Calls
    /\ CallTypes

(* Whoever ran waits at least until its cooldown is over.                  *)
RanInv ==
    /\ ran \in Seq([who : Staff, at : 0 .. clock, cooldown : Nat])
    /\ \A j \in 1 .. Len(ran) : ran[j].cooldown = 0 \/ ran[j].at + ran[j].cooldown <= until[ran[j].who]
    /\ Gates!OneRunPerCooldown

(* What was raised within a span is among what the detector counts.        *)
FloodInv ==
    \A a \in Staff :
        /\ IsFiniteSet(hits[a])
        /\ \A r \in raised[a] : clock - r.at < Span => r \in hits[a]
        /\ \A t \in 0 .. MaxClock : LET W == {r \in raised[a] : t <= r.at /\ r.at < t + Span}
                                    IN  IsFiniteSet(W) /\ Cardinality(W) < Burst
        /\ Cardinality(hits[a]) = 1 => hits[a] \subseteq raised[a]

(* A reply that may still be withdrawn is pending, or already gone.        *)
ReplyInv ==
    /\ gone = owed
    /\ \A e \in pending : req[e.of].at = "kept" /\ e.expires = req[e.of].since + Patience
    /\ \A i \in Calls : req[i].at = "kept" /\ clock < req[i].since + Patience
                          => i \in gone \/ [of |-> i, expires |-> req[i].since + Patience] \in pending

GateInv == GateTypes /\ RanInv /\ FloodInv /\ ReplyInv

LEMMA ConfigsAre ==
    \A c \in TwoConfigs : c.cooldown \in Nat
<1>1. PICK open : open = [enabled |-> TRUE, level |-> "moderator", allowedUsers |-> {}, allowedRoles |-> {2},
                          deniedUsers |-> {}, deniedRoles |-> {}, cooldown |-> 2, withdrawn |-> TRUE]
  OBVIOUS
<1>2. TwoConfigs = {open, [open EXCEPT !.level = "admin", !.cooldown = 0, !.deniedRoles = {1}]}
  BY <1>1 DEF TwoConfigs
<1>3. /\ open.cooldown = 2
      /\ [open EXCEPT !.level = "admin", !.cooldown = 0, !.deniedRoles = {1}].cooldown = 0
  BY <1>1
<1>4. PICK other : other = [open EXCEPT !.level = "admin", !.cooldown = 0, !.deniedRoles = {1}]
  OBVIOUS
<1>5. TwoConfigs = {open, other} /\ open.cooldown = 2 /\ other.cooldown = 0
  BY <1>2, <1>3, <1>4
<1>6. QED
  BY <1>5

LEMMA GateCounts == \A S : Gates!Cardinality(S) = Cardinality(S)
BY DEF Gates!Cardinality, Cardinality

LEMMA IdleCall == ASSUME GateConstants PROVE Gates!Idle \in GateCalls /\ Gates!Idle.at = "idle" /\ Gates!Idle.since = 0
BY DEF Gates!Idle, GateConstants, GateCalls, GateSteps

LEMMA InitGate == ASSUME GateConstants, Gates!Init PROVE GateInv
<1>1. GateTypes
  <2>1. \A i \in Calls : req[i] = Gates!Idle
    BY DEF Gates!Init
  <2>2. req \in [Calls -> GateCalls]
    BY IdleCall DEF Gates!Init
  <2>3. tags \in [Staff -> SUBSET {1, 2}]
    <3>1. tags = [a \in Staff |-> {a}] /\ \A a \in Staff : a \in {1, 2}
      BY DEF Gates!Init, GateConstants
    <3>2. QED
      BY <3>1
  <2>4. QED
    BY <2>1, <2>2, <2>3, IdleCall DEF Gates!Init, GateTypes, CallTypes, GateConstants, Refusals
<1>2. RanInv
  BY DEF Gates!Init, RanInv, Gates!OneRunPerCooldown
<1>3. FloodInv
  <2>1. \A a \in Staff : hits[a] = {} /\ raised[a] = {}
    BY DEF Gates!Init
  <2>2. \A t : {r \in {} : t <= r.at /\ r.at < t + Span} = {}
    OBVIOUS
  <2>3. IsFiniteSet({}) /\ Cardinality({}) = 0
    BY FS_EmptySet
  <2>4. ASSUME NEW a \in Staff, NEW t \in 0 .. MaxClock
        PROVE  LET W == {r \in raised[a] : t <= r.at /\ r.at < t + Span} IN IsFiniteSet(W) /\ Cardinality(W) < Burst
    <3>1. {r \in raised[a] : t <= r.at /\ r.at < t + Span} = {}
      BY <2>1
    <3>2. 0 < Burst
      BY DEF GateConstants
    <3>3. PICK W : W = {r \in raised[a] : t <= r.at /\ r.at < t + Span}
      OBVIOUS
    <3>4. IsFiniteSet(W) /\ Cardinality(W) < Burst
      BY <2>3, <3>1, <3>2, <3>3
    <3>5. QED
      BY <3>3, <3>4
  <2>5. QED
    BY <2>1, <2>3, <2>4 DEF FloodInv
<1>4. ReplyInv
  BY IdleCall DEF Gates!Init, ReplyInv
<1>5. QED
  BY <1>1, <1>2, <1>3, <1>4 DEF GateInv

(* A call goes on to another step, and is not one that waits for the       *)
(* target to leave.                                                        *)
LEMMA CallMoves ==
    ASSUME GateInv, NEW i \in Calls, NEW step \in GateCalls, Gates!Goes(i, step), UNCHANGED <<clock, pending, gone, owed>>,
           req[i].at # "kept", step.at # "kept", step.since <= clock,
           step.at \in {"gate", "acting", "replied"} => step.conf \in TwoConfigs
    PROVE  CallTypes' /\ ReplyInv'
<1>1. req' \in [Calls -> GateCalls] /\ req'[i] = step /\ \A j \in Calls \ {i} : req'[j] = req[j]
  BY DEF Gates!Goes, GateInv, GateTypes, CallTypes
<1>2. CallTypes'
  BY <1>1 DEF GateInv, GateTypes, CallTypes
<1>3. \A e \in pending : e.of \in Calls
  BY DEF GateInv, GateTypes
<1>4. ReplyInv'
  BY <1>1, <1>3 DEF GateInv, ReplyInv
<1>5. QED
  BY <1>2, <1>4

LEMMA CallIs ==
    ASSUME GateInv, NEW i \in Calls, NEW at \in GateSteps, NEW conf \in TwoConfigs
    PROVE  /\ req[i] \in GateCalls /\ req[i].since <= clock /\ req[i].who \in Staff
           /\ [req[i] EXCEPT !.at = at] \in GateCalls /\ [req[i] EXCEPT !.at = at].at = at
           /\ [req[i] EXCEPT !.at = at].since = req[i].since /\ [req[i] EXCEPT !.at = at].conf = req[i].conf
           /\ [req[i] EXCEPT !.at = at, !.conf = conf] \in GateCalls
           /\ [req[i] EXCEPT !.at = at, !.conf = conf].at = at
           /\ [req[i] EXCEPT !.at = at, !.conf = conf].since = req[i].since
           /\ [req[i] EXCEPT !.at = at, !.conf = conf].conf = conf
<1>1. PICK r \in GateCalls : r = req[i]
  BY DEF GateInv, GateTypes, CallTypes
<1>2. r.since <= clock
  BY <1>1 DEF GateInv, GateTypes, CallTypes
<1>3. QED
  BY <1>1, <1>2 DEF GateCalls

LEMMA CallGoesTo ==
    ASSUME GateInv, NEW i \in Calls, NEW at \in GateSteps \ {"kept"}, Gates!To(i, at), req[i].at # "kept",
           at \in {"gate", "acting", "replied"} => req[i].conf \in TwoConfigs, UNCHANGED <<clock, pending, gone, owed>>
    PROVE  CallTypes' /\ ReplyInv'
<1>1. config \in TwoConfigs
  BY DEF GateInv, GateTypes
<1>2. PICK step : step = [req[i] EXCEPT !.at = at]
  OBVIOUS
<1>3. step \in GateCalls /\ step.at = at /\ step.since <= clock /\ step.conf = req[i].conf
  <2>1. at \in GateSteps
    OBVIOUS
  <2>2. /\ [req[i] EXCEPT !.at = at] \in GateCalls /\ [req[i] EXCEPT !.at = at].at = at
        /\ [req[i] EXCEPT !.at = at].since = req[i].since /\ [req[i] EXCEPT !.at = at].conf = req[i].conf
        /\ req[i].since <= clock
    BY <1>1, <2>1, CallIs
  <2>3. QED
    BY <1>2, <2>2
<1>4. QED
  BY <1>2, <1>3, CallMoves DEF Gates!To

(* The detector counts a refusal and raises it, or has had enough.         *)
LEMMA RejectKeeps ==
    ASSUME GateConstants, GateInv, NEW i \in Calls, Gates!Reject(i), req[i].at # "kept",
           UNCHANGED <<clock, pending, gone, owed>>
    PROVE  /\ CallTypes' /\ ReplyInv' /\ FloodInv'
           /\ hits' \in [Staff -> SUBSET Refusals] /\ raised' \in [Staff -> SUBSET Refusals]
<1>1. CallTypes' /\ ReplyInv'
  BY CallGoesTo DEF Gates!Reject, GateSteps
<1>2. PICK a \in Staff : a = req[i].who
  BY DEF GateInv, GateTypes, CallTypes, GateCalls
<1>3. PICK new : new = [of |-> i, at |-> clock]
  OBVIOUS
<1>4. new \in Refusals /\ new.at = clock /\ clock \in Nat
  BY <1>3 DEF Refusals, GateInv, GateTypes
<1>5. PICK H : H = {h \in hits[a] : clock - h.at < Span} \cup {new}
  OBVIOUS
<1>6. /\ hits' = [hits EXCEPT ![a] = H]
      /\ raised' = IF Cardinality(H) >= Burst THEN raised ELSE [raised EXCEPT ![a] = raised[a] \cup {new}]
  BY <1>2, <1>3, <1>5, GateCounts DEF Gates!Reject, Gates!Recorded
<1>7. /\ hits \in [Staff -> SUBSET Refusals] /\ raised \in [Staff -> SUBSET Refusals]
      /\ IsFiniteSet(hits[a])
  BY DEF GateInv, GateTypes, FloodInv
<1>8. H \subseteq hits[a] \cup {new} /\ IsFiniteSet(H) /\ Cardinality(H) \in Nat /\ H \subseteq Refusals
  BY <1>4, <1>5, <1>7, FS_AddElement, FS_Subset, FS_CardinalityType
<1>9. /\ hits' \in [Staff -> SUBSET Refusals] /\ raised' \in [Staff -> SUBSET Refusals]
      /\ hits'[a] = H /\ \A b \in Staff \ {a} : hits'[b] = hits[b] /\ raised'[b] = raised[b]
      /\ raised[a] \subseteq raised'[a]
      /\ \/ Cardinality(H) < Burst /\ raised'[a] = raised[a] \cup {new}
         \/ Cardinality(H) >= Burst /\ raised'[a] = raised[a]
  <2>1. hits' \in [Staff -> SUBSET Refusals] /\ hits'[a] = H /\ \A b \in Staff \ {a} : hits'[b] = hits[b]
    BY <1>6, <1>7, <1>8
  <2>2. Cardinality(H) < Burst \/ Cardinality(H) >= Burst
    BY <1>8 DEF GateConstants
  <2>3. CASE Cardinality(H) >= Burst
    BY <1>6, <1>7, <2>1, <2>3
  <2>4. CASE ~(Cardinality(H) >= Burst)
    <3>1. raised' = [raised EXCEPT ![a] = raised[a] \cup {new}] /\ Cardinality(H) < Burst
      BY <1>6, <2>2, <2>4
    <3>2. raised[a] \cup {new} \subseteq Refusals
      BY <1>4, <1>7
    <3>3. /\ raised' \in [Staff -> SUBSET Refusals] /\ raised'[a] = raised[a] \cup {new}
          /\ \A b \in Staff \ {a} : raised'[b] = raised[b]
      BY <1>7, <3>1, <3>2
    <3>4. QED
      BY <2>1, <3>1, <3>3
  <2>5. QED
    BY <2>3, <2>4
<1>10. \A r \in raised'[a] : clock - r.at < Span => r \in H
  BY <1>5, <1>9 DEF GateInv, FloodInv
<1>11. ASSUME NEW t \in 0 .. MaxClock
       PROVE  LET W == {r \in raised'[a] : t <= r.at /\ r.at < t + Span} IN IsFiniteSet(W) /\ Cardinality(W) < Burst
  <2> DEFINE V == {r \in raised[a] : t <= r.at /\ r.at < t + Span}
  <2> DEFINE W == {r \in raised'[a] : t <= r.at /\ r.at < t + Span}
  <2>1. IsFiniteSet(V) /\ Cardinality(V) < Burst
    BY DEF GateInv, FloodInv
  <2>2. CASE W = V
    BY <2>1, <2>2
  <2>3. CASE W # V
    <3>1. Cardinality(H) < Burst /\ raised'[a] = raised[a] \cup {new} /\ t <= clock
      BY <1>4, <1>9, <2>3
    <3>2. W \subseteq H
      <4>1. ASSUME NEW r \in W PROVE r \in H
        <5>1. r \in raised'[a] /\ t <= r.at /\ r.at \in Int /\ r \in Refusals
          BY <1>9, <4>1 DEF Refusals
        <5>2. new \in W /\ clock < t + Span
          BY <1>4, <1>9, <2>3
        <5>3. clock - r.at < Span
          BY <1>4, <5>1, <5>2 DEF GateConstants
        <5>4. QED
          BY <1>10, <5>1, <5>3
      <4>2. QED
        BY <4>1
    <3> HIDE DEF W, V
    <3>3. IsFiniteSet(W) /\ Cardinality(W) <= Cardinality(H) /\ Cardinality(W) \in Nat
      BY <1>8, <3>2, FS_Subset, FS_CardinalityType
    <3>4. QED
      BY <1>8, <3>1, <3>3 DEF GateConstants, W
  <2>4. QED
    BY <2>2, <2>3
<1>12. Cardinality(hits'[a]) = 1 => hits'[a] \subseteq raised'[a]
  <2>1. SUFFICES ASSUME Cardinality(H) = 1 PROVE H \subseteq raised'[a]
    BY <1>9
  <2>2. raised'[a] = raised[a] \cup {new}
    BY <1>9, <2>1 DEF GateConstants
  <2>3. H = {new}
    <3>1. new \in H /\ IsFiniteSet(H \ {new}) /\ Cardinality(H \ {new}) = 0
      BY <1>5, <1>8, <2>1, FS_RemoveElement
    <3>2. QED
      BY <3>1, FS_EmptySet
  <2>4. QED
    BY <2>2, <2>3
<1>13. FloodInv'
  BY <1>8, <1>9, <1>10, <1>11, <1>12 DEF GateInv, FloodInv
<1>14. QED
  BY <1>1, <1>9, <1>13

(* What a handler's step leaves alone.                                     *)
Rest == <<clock, saves, leaves, config, tiers, tags, pending, gone, owed>>

LEMMA StepGoes ==
    ASSUME GateInv, NEW i \in Calls, NEW step \in GateCalls, Gates!Goes(i, step), UNCHANGED <<Rest, until, hits, raised, ran>>,
           req[i].at # "kept", step.at # "kept", step.since <= clock,
           step.at \in {"gate", "acting", "replied"} => step.conf \in TwoConfigs
    PROVE  GateInv'
<1>1. CallTypes' /\ ReplyInv'
  BY CallMoves DEF Rest
<1>2. RanInv' /\ FloodInv'
  BY DEF Rest, GateInv, RanInv, FloodInv, Gates!OneRunPerCooldown
<1>3. GateTypes'
  BY <1>1 DEF Rest, GateInv, GateTypes, Refusals
<1>4. QED
  BY <1>1, <1>2, <1>3 DEF GateInv

LEMMA StepTo ==
    ASSUME GateInv, NEW i \in Calls, NEW at \in GateSteps \ {"kept"}, Gates!To(i, at), req[i].at # "kept",
           at \in {"gate", "acting", "replied"} => req[i].conf \in TwoConfigs, UNCHANGED <<Rest, until, hits, raised, ran>>
    PROVE  GateInv'
<1>1. config \in TwoConfigs
  BY DEF GateInv, GateTypes
<1>2. PICK step : step = [req[i] EXCEPT !.at = at]
  OBVIOUS
<1>3. step \in GateCalls /\ step.at = at /\ step.since <= clock /\ step.conf = req[i].conf
  <2>1. at \in GateSteps
    OBVIOUS
  <2>2. /\ [req[i] EXCEPT !.at = at] \in GateCalls /\ [req[i] EXCEPT !.at = at].at = at
        /\ [req[i] EXCEPT !.at = at].since = req[i].since /\ [req[i] EXCEPT !.at = at].conf = req[i].conf
        /\ req[i].since <= clock
    BY <1>1, <2>1, CallIs
  <2>3. QED
    BY <1>2, <2>2
<1>4. QED
  BY <1>2, <1>3, StepGoes DEF Gates!To

LEMMA StepRejects ==
    ASSUME GateConstants, GateInv, NEW i \in Calls, Gates!Reject(i), req[i].at # "kept", UNCHANGED Rest,
           until' \in [Staff -> Nat], RanInv'
    PROVE  GateInv'
<1>1. /\ CallTypes' /\ ReplyInv' /\ FloodInv'
      /\ hits' \in [Staff -> SUBSET Refusals] /\ raised' \in [Staff -> SUBSET Refusals]
  BY RejectKeeps DEF Rest
<1>2. GateTypes'
  BY <1>1 DEF Rest, GateInv, GateTypes, Refusals
<1>3. QED
  BY <1>1, <1>2 DEF GateInv

LEMMA StepInvoke == ASSUME GateConstants, GateInv, NEW i \in Calls, NEW a \in Staff, Gates!Invoke(i, a) PROVE GateInv'
<1>1. PICK step : step = [Gates!Idle EXCEPT !.at = "asked", !.who = a, !.roles = tags[a]]
  OBVIOUS
<1>2. tags[a] \in SUBSET {1, 2} /\ clock \in Nat
  BY DEF GateInv, GateTypes
<1>3. step \in GateCalls /\ step.at = "asked" /\ step.since = 0
  BY <1>1, <1>2, IdleCall DEF GateCalls, GateSteps
<1>4. Gates!Goes(i, step) /\ req[i].at = "idle" /\ UNCHANGED <<Rest, until, hits, raised, ran>>
  BY <1>1 DEF Gates!Invoke, Gates!Outside, Gates!rows, Gates!security, Gates!replies, Gates!At, Rest
<1>5. step.since <= clock
  BY <1>2, <1>3
<1>6. QED
  BY <1>3, <1>4, <1>5, StepGoes

LEMMA StepReadConfig == ASSUME GateConstants, GateInv, NEW i \in Calls, Gates!ReadConfig(i) PROVE GateInv'
<1>1. req[i].at = "asked" /\ UNCHANGED <<Rest, until, ran>>
  BY DEF Gates!ReadConfig, Gates!Outside, Gates!rows, Gates!replies, Gates!At, Rest
<1>2. config \in TwoConfigs
  BY DEF GateInv, GateTypes
<1>3. CASE Gates!Reject(i)
  <2>1. RanInv'
    BY <1>1 DEF Rest, GateInv, RanInv, Gates!OneRunPerCooldown
  <2>2. QED
    BY <1>1, <1>3, <2>1, StepRejects DEF GateInv, GateTypes
<1>4. CASE Gates!Goes(i, [req[i] EXCEPT !.at = "gate", !.conf = config]) /\ UNCHANGED Gates!security
  <2>1. PICK step : step = [req[i] EXCEPT !.at = "gate", !.conf = config]
    OBVIOUS
  <2>2. step \in GateCalls /\ step.at = "gate" /\ step.since <= clock /\ step.conf \in TwoConfigs
    <3>1. "gate" \in GateSteps
      BY DEF GateSteps
    <3>2. PICK r \in GateCalls : r = req[i] /\ r.since <= clock
      BY DEF GateInv, GateTypes, CallTypes
    <3>3. step = [r EXCEPT !.at = "gate", !.conf = config]
      BY <2>1, <3>2
    <3>4. step \in GateCalls /\ step.at = "gate" /\ step.since = r.since /\ step.conf = config
      BY <1>2, <3>1, <3>3 DEF GateCalls
    <3>5. QED
      BY <1>2, <3>2, <3>4
  <2>3. QED
    BY <1>1, <1>4, <2>1, <2>2, StepGoes DEF Gates!security
<1>5. QED
  BY <1>3, <1>4 DEF Gates!ReadConfig

LEMMA StepAct == ASSUME GateConstants, GateInv, NEW i \in Calls, Gates!Act(i) PROVE GateInv'
<1>1. req[i].at = "acting" /\ UNCHANGED <<Rest, until, ran>>
  BY DEF Gates!Act, Gates!Outside, Gates!rows, Gates!replies, Gates!At, Rest
<1>2. CASE Gates!Reject(i)
  <2>1. RanInv'
    BY <1>1 DEF Rest, GateInv, RanInv, Gates!OneRunPerCooldown
  <2>2. QED
    BY <1>1, <1>2, <2>1, StepRejects DEF GateInv, GateTypes
<1>3. CASE Gates!To(i, "replied") /\ UNCHANGED Gates!security
  <2>1. req[i].conf \in TwoConfigs
    BY <1>1 DEF GateInv, GateTypes, CallTypes
  <2>2. QED
    BY <1>1, <1>3, <2>1, StepTo DEF Gates!security, GateSteps
<1>4. QED
  BY <1>2, <1>3 DEF Gates!Act

LEMMA RunsStay ==
    ASSUME NEW S, NEW T, S \subseteq T, NEW s \in Seq(S)
    PROVE  s \in Seq(T)
OBVIOUS

LEMMA ElementOfRuns ==
    ASSUME NEW S, NEW s \in Seq(S), NEW j \in 1 .. Len(s)
    PROVE  s[j] \in S
OBVIOUS

LEMMA StepGate == ASSUME GateConstants, GateInv, NEW i \in Calls, Gates!Gate(i) PROVE GateInv'
<1>1. req[i].at = "gate" /\ UNCHANGED Rest /\ req[i].conf \in TwoConfigs
  BY DEF Gates!Gate, Gates!Outside, Gates!rows, Gates!replies, Gates!At, Rest, GateInv, GateTypes, CallTypes
<1>2. CASE Gates!Reject(i) /\ UNCHANGED <<until, ran>>
  <2>1. RanInv'
    BY <1>1, <1>2 DEF Rest, GateInv, RanInv, Gates!OneRunPerCooldown
  <2>2. QED
    BY <1>1, <1>2, <2>1, StepRejects DEF GateInv, GateTypes
<1>3. CASE Gates!To(i, "done") /\ UNCHANGED <<Gates!security, until, ran>>
  BY <1>1, <1>3, StepTo DEF Gates!security, GateSteps
<1>4. CASE /\ ~Gates!Remaining(req[i].who)
           /\ ran' = Append(ran, [who |-> req[i].who, at |-> clock, cooldown |-> req[i].conf.cooldown])
           /\ Gates!Start(req[i].who, req[i].conf.cooldown)
           /\ (Gates!To(i, "acting") /\ UNCHANGED Gates!security) \/ Gates!Reject(i)
  <2>1. PICK a \in Staff : a = req[i].who
    BY DEF GateInv, GateTypes, CallTypes, GateCalls
  <2>2. PICK w \in Nat : w = req[i].conf.cooldown
    BY <1>1, ConfigsAre
  <2>3. /\ ~(until[a] > clock) /\ ran' = Append(ran, [who |-> a, at |-> clock, cooldown |-> w])
        /\ until' = IF w > 0 THEN [until EXCEPT ![a] = clock + w] ELSE until
    BY <1>4, <2>1, <2>2 DEF Gates!Remaining, Gates!Start
  <2>4. clock \in Nat /\ until \in [Staff -> Nat] /\ ran \in Seq([who : Staff, at : 0 .. clock, cooldown : Nat])
    BY DEF GateInv, GateTypes, RanInv
  <2>5. /\ until' \in [Staff -> Nat] /\ \A b \in Staff : until[b] <= until'[b]
        /\ w = 0 \/ clock + w <= until'[a]
    BY <2>3, <2>4
  <2>6. PICK new : new = [who |-> a, at |-> clock, cooldown |-> w]
    OBVIOUS
  <2>7. new \in [who : Staff, at : 0 .. clock, cooldown : Nat] /\ new.who = a /\ new.at = clock /\ new.cooldown = w
    BY <2>4, <2>6
  <2>8. /\ ran' \in Seq([who : Staff, at : 0 .. clock, cooldown : Nat]) /\ Len(ran') = Len(ran) + 1
        /\ ran'[Len(ran) + 1] = new /\ \A j \in 1 .. Len(ran) : ran'[j] = ran[j]
    BY <2>3, <2>4, <2>6, <2>7
  <2>9. ASSUME NEW j \in 1 .. Len(ran')
        PROVE  ran'[j].cooldown = 0 \/ ran'[j].at + ran'[j].cooldown <= until'[ran'[j].who]
    <3>1. CASE j = Len(ran) + 1
      BY <2>5, <2>7, <2>8, <3>1
    <3>2. CASE j \in 1 .. Len(ran)
      <4>1. ran[j] \in [who : Staff, at : 0 .. clock, cooldown : Nat] /\ ran'[j] = ran[j]
        <5>1. ran[j] \in [who : Staff, at : 0 .. clock, cooldown : Nat]
          BY <2>4, <3>2, ElementOfRuns
        <5>2. QED
          BY <2>8, <3>2, <5>1
      <4>2. ran[j].cooldown = 0 \/ ran[j].at + ran[j].cooldown <= until[ran[j].who]
        BY <3>2 DEF GateInv, RanInv
      <4>3. PICK b \in Staff : b = ran[j].who
        BY <4>1
      <4>4. ran[j].at \in 0 .. clock /\ ran[j].cooldown \in Nat
        BY <4>1
      <4>5. until[b] \in Nat /\ until'[b] \in Nat /\ until[b] <= until'[b] /\ ran[j].at \in Nat
        BY <2>4, <2>5, <4>4
      <4>6. QED
        BY <4>1, <4>2, <4>3, <4>4, <4>5
    <3>3. QED
      BY <2>4, <2>8, <3>1, <3>2
  <2>10. ASSUME NEW j \in 1 .. Len(ran'), NEW k \in 1 .. Len(ran'), j < k, ran'[j].who = ran'[k].who
         PROVE  ran'[k].at >= ran'[j].at + ran'[j].cooldown
    <3>0. Len(ran) \in Nat /\ DOMAIN ran = 1 .. Len(ran)
      BY <2>4
    <3>1. j \in 1 .. Len(ran) /\ ran'[j] = ran[j] /\ ran[j] \in [who : Staff, at : 0 .. clock, cooldown : Nat]
      <4>1. j \in 1 .. Len(ran)
        BY <2>8, <2>10, <3>0
      <4>2. ran[j] \in [who : Staff, at : 0 .. clock, cooldown : Nat]
        BY <2>4, <4>1, ElementOfRuns
      <4>3. QED
        BY <2>8, <4>1, <4>2
    <3>2. CASE k \in 1 .. Len(ran)
      <4>1. ran'[k] = ran[k] /\ ran[j].who = ran[k].who
        BY <2>8, <2>10, <3>1, <3>2
      <4>2. ran[k].at >= ran[j].at + ran[j].cooldown
        BY <2>10, <3>0, <3>1, <3>2, <4>1 DEF GateInv, RanInv, Gates!OneRunPerCooldown
      <4>3. QED
        BY <3>1, <4>1, <4>2
    <3>3. CASE k = Len(ran) + 1
      <4>1. ran'[k].at = clock /\ ran[j].who = a
        BY <2>7, <2>8, <2>10, <3>1, <3>3
      <4>2. ran[j].cooldown = 0 \/ ran[j].at + ran[j].cooldown <= until[a]
        BY <3>1, <4>1 DEF GateInv, RanInv
      <4>3. ran[j].at \in 0 .. clock /\ ran[j].cooldown \in Nat /\ until[a] \in Nat /\ until[a] <= clock
        BY <2>3, <2>4, <3>1
      <4>4. QED
        BY <2>4, <3>1, <4>1, <4>2, <4>3
    <3>4. QED
      BY <2>4, <2>8, <3>2, <3>3
  <2>11. RanInv'
    <3>1. DOMAIN ran' = 1 .. Len(ran')
      BY <2>8
    <3>2. Gates!OneRunPerCooldown'
      BY <2>10, <3>1 DEF Gates!OneRunPerCooldown
    <3>3. clock' = clock
      BY <1>1 DEF Rest
    <3>4. QED
      BY <2>8, <2>9, <3>2, <3>3 DEF RanInv
  <2>12. CASE Gates!Reject(i)
    BY <1>1, <2>5, <2>11, <2>12, StepRejects
  <2>13. CASE Gates!To(i, "acting") /\ UNCHANGED Gates!security
    <3>1. CallTypes' /\ ReplyInv'
      BY <1>1, <2>13, CallGoesTo DEF Rest, GateSteps
    <3>2. FloodInv'
      BY <1>1, <2>13 DEF Rest, Gates!security, GateInv, FloodInv
    <3>3. GateTypes'
      BY <1>1, <2>5, <2>13, <3>1 DEF Rest, Gates!security, GateInv, GateTypes, Refusals
    <3>4. QED
      BY <2>11, <3>1, <3>2, <3>3 DEF GateInv
  <2>14. QED
    BY <1>4, <2>12, <2>13
<1>5. QED
  BY <1>2, <1>3, <1>4 DEF Gates!Gate

(* The reply is kept while Discord lets it be deleted.                     *)
LEMMA StepRetractOnLeave == ASSUME GateConstants, GateInv, NEW i \in Calls, Gates!RetractOnLeave(i) PROVE GateInv'
<1>1. /\ req[i].at = "replied" /\ req[i].conf \in TwoConfigs
      /\ UNCHANGED <<clock, saves, leaves, config, tiers, tags, until, hits, raised, gone, owed, ran>>
  BY DEF Gates!RetractOnLeave, Gates!Outside, Gates!rows, Gates!security, Gates!At, GateInv, GateTypes, CallTypes
<1>2. CASE UNCHANGED pending /\ Gates!To(i, "done")
  BY <1>1, <1>2, StepTo DEF Rest, GateSteps
<1>3. CASE Gates!Remember(i) /\ Gates!Goes(i, [req[i] EXCEPT !.at = "kept", !.since = clock])
  <2>1. PICK r \in GateCalls : r = req[i] /\ r.at = "replied" /\ r.conf \in TwoConfigs
    BY <1>1 DEF GateInv, GateTypes, CallTypes
  <2>2. PICK step : step = [r EXCEPT !.at = "kept", !.since = clock]
    OBVIOUS
  <2>3. clock \in 0 .. MaxClock /\ clock \in Nat
    BY DEF GateInv, GateTypes
  <2>4. step \in GateCalls /\ step.at = "kept" /\ step.since = clock /\ step.conf = r.conf
    BY <2>2, <2>3 DEF GateCalls, GateSteps
  <2>5. req' \in [Calls -> GateCalls] /\ req'[i] = step /\ \A j \in Calls \ {i} : req'[j] = req[j]
    BY <1>3, <2>1, <2>2, <2>4 DEF Gates!Goes, GateInv, GateTypes, CallTypes
  <2>6. PICK new : new = [of |-> i, expires |-> clock + Patience]
    OBVIOUS
  <2>7. pending' = {e \in pending : e.expires > clock} \cup {new}
    BY <1>3, <2>6 DEF Gates!Remember, Gates!Live
  <2>8. new \in [of : Calls, expires : Nat] /\ new.of = i /\ new.expires = clock + Patience
    BY <2>3, <2>6 DEF GateConstants
  <2>9. CallTypes'
    BY <1>1, <2>1, <2>3, <2>4, <2>5 DEF GateInv, GateTypes, CallTypes
  <2>10. ReplyInv'
    <3>1. \A e \in pending : e.of \in Calls /\ e.of # i /\ req[e.of].at = "kept" /\ e.expires = req[e.of].since + Patience
      BY <1>1 DEF GateInv, GateTypes, ReplyInv
    <3>2. \A e \in pending' : req'[e.of].at = "kept" /\ e.expires = req'[e.of].since + Patience
      BY <2>4, <2>5, <2>7, <2>8, <3>1
    <3>3. ASSUME NEW j \in Calls, req'[j].at = "kept", clock < req'[j].since + Patience
          PROVE  j \in gone \/ [of |-> j, expires |-> req'[j].since + Patience] \in pending'
      <4>1. CASE j = i
        BY <2>4, <2>5, <2>6, <2>7, <4>1
      <4>2. CASE j # i
        <5>1. req'[j] = req[j]
          BY <2>5, <4>2
        <5>2. j \in gone \/ [of |-> j, expires |-> req[j].since + Patience] \in pending
          BY <3>3, <5>1 DEF GateInv, ReplyInv
        <5>3. req[j].since + Patience > clock
          <6>1. req[j].since \in Nat
            BY DEF GateInv, GateTypes, CallTypes, GateCalls
          <6>2. QED
            BY <2>3, <3>3, <5>1, <6>1 DEF GateConstants
        <5>4. [of |-> j, expires |-> req[j].since + Patience].expires > clock
          BY <5>3
        <5>5. QED
          BY <2>7, <5>1, <5>2, <5>4
      <4>3. QED
        BY <4>1, <4>2
    <3>4. QED
      BY <1>1, <3>2, <3>3 DEF GateInv, ReplyInv
  <2>11. GateTypes'
    BY <1>1, <2>7, <2>8, <2>9 DEF GateInv, GateTypes, Refusals
  <2>12. RanInv' /\ FloodInv'
    BY <1>1 DEF GateInv, RanInv, FloodInv, Gates!OneRunPerCooldown
  <2>13. QED
    BY <2>10, <2>11, <2>12 DEF GateInv
<1>4. QED
  BY <1>2, <1>3 DEF Gates!RetractOnLeave

(* The target leaves.                                                      *)
LEMMA StepRetract == ASSUME GateConstants, GateInv, Gates!Retract PROVE GateInv'
<1>1. /\ leaves < MaxLeaves /\ leaves' = leaves + 1 /\ pending' = {}
      /\ UNCHANGED <<clock, config, tiers, tags, req, until, hits, raised, ran, saves>>
  BY DEF Gates!Retract, Gates!rows, Gates!security
<1>2. /\ gone' = gone \cup {e.of : e \in {d \in pending : d.expires > clock}}
      /\ owed' = owed \cup {i \in Calls : req[i].at = "kept" /\ clock < req[i].since + Patience}
  BY DEF Gates!Retract, Gates!Live, Gates!At
<1>3. /\ pending \subseteq [of : Calls, expires : Nat] /\ clock \in Nat /\ gone \subseteq Calls /\ gone = owed
      /\ \A i \in Calls : req[i].since \in Nat
  BY DEF GateInv, GateTypes, CallTypes, GateCalls, ReplyInv
<1>4. gone' = owed'
  <2>1. ASSUME NEW d \in pending, d.expires > clock PROVE d.of \in owed'
    <3>1. d.of \in Calls /\ req[d.of].at = "kept" /\ d.expires = req[d.of].since + Patience
      BY <1>3 DEF GateInv, ReplyInv
    <3>2. clock < req[d.of].since + Patience
      BY <1>3, <2>1, <3>1 DEF GateConstants
    <3>3. QED
      BY <1>2, <3>1, <3>2
  <2>2. ASSUME NEW i \in Calls, req[i].at = "kept", clock < req[i].since + Patience PROVE i \in gone'
    <3>1. CASE i \in gone
      BY <1>2, <3>1
    <3>2. CASE [of |-> i, expires |-> req[i].since + Patience] \in pending
      <4>1. PICK e \in pending : e = [of |-> i, expires |-> req[i].since + Patience]
        BY <3>2
      <4>2. e.of = i /\ e.expires > clock
        BY <1>3, <2>2, <4>1 DEF GateConstants
      <4>3. QED
        BY <1>2, <4>2
    <3>3. QED
      BY <2>2, <3>1, <3>2 DEF GateInv, ReplyInv
  <2>3. QED
    BY <1>2, <1>3, <2>1, <2>2
<1>5. owed' \subseteq Calls
  BY <1>2, <1>3
<1>6. GateTypes'
  BY <1>1, <1>4, <1>5 DEF GateInv, GateTypes, CallTypes, Refusals, GateConstants
<1>7. ReplyInv'
  <2>1. ASSUME NEW i \in Calls, req[i].at = "kept", clock < req[i].since + Patience PROVE i \in gone'
    BY <1>2, <1>4, <2>1
  <2>2. QED
    BY <1>1, <1>4, <2>1 DEF ReplyInv
<1>8. RanInv' /\ FloodInv'
  BY <1>1 DEF GateInv, RanInv, FloodInv, Gates!OneRunPerCooldown
<1>9. QED
  BY <1>6, <1>7, <1>8 DEF GateInv

LEMMA StepGateTick == ASSUME GateConstants, GateInv, Gates!Tick PROVE GateInv'
<1>1. /\ clock < MaxClock /\ clock' = clock + 1 /\ clock \in Nat /\ clock' \in Nat
      /\ UNCHANGED <<config, tiers, tags, req, until, hits, raised, pending, gone, owed, ran, saves, leaves>>
  BY DEF Gates!Tick, Gates!rows, Gates!security, Gates!replies, GateInv, GateTypes
<1>2. Refusals \subseteq Refusals' /\ clock' \in 0 .. MaxClock
  BY <1>1 DEF Refusals, GateConstants
<1>3. CallTypes'
  <2>1. \A i \in Calls : req[i].since \in 0 .. clock
    BY DEF GateInv, GateTypes, CallTypes, GateCalls
  <2>2. \A i \in Calls : req[i].since <= clock'
    BY <1>1, <2>1
  <2>3. QED
    BY <1>1, <2>2 DEF GateInv, GateTypes, CallTypes
<1>4. hits' \in [Staff -> SUBSET Refusals'] /\ raised' \in [Staff -> SUBSET Refusals']
  BY <1>1, <1>2 DEF GateInv, GateTypes
<1>5. GateTypes'
  BY <1>1, <1>2, <1>3, <1>4 DEF GateInv, GateTypes
<1>6. RanInv'
  <2>1. [who : Staff, at : 0 .. clock, cooldown : Nat] \subseteq [who : Staff, at : 0 .. clock', cooldown : Nat]
    BY <1>1
  <2>2. ran' \in Seq([who : Staff, at : 0 .. clock', cooldown : Nat])
    <3>1. ran' = ran /\ ran \in Seq([who : Staff, at : 0 .. clock, cooldown : Nat])
      BY <1>1 DEF GateInv, RanInv
    <3>2. PICK S, T : /\ S = [who : Staff, at : 0 .. clock, cooldown : Nat]
                      /\ T = [who : Staff, at : 0 .. clock', cooldown : Nat]
      OBVIOUS
    <3>3. S \subseteq T /\ ran \in Seq(S)
      BY <2>1, <3>1, <3>2
    <3>4. ran \in Seq(T)
      BY <3>3, RunsStay
    <3>5. QED
      BY <3>1, <3>2, <3>4
  <2>3. QED
    BY <1>1, <2>2 DEF GateInv, RanInv, Gates!OneRunPerCooldown
<1>7. FloodInv'
  <2>1. ASSUME NEW a \in Staff, NEW r \in raised[a], clock' - r.at < Span PROVE r \in hits[a]
    <3>1. r.at \in Int
      BY DEF GateInv, GateTypes, Refusals
    <3>2. clock - r.at < Span
      BY <1>1, <2>1, <3>1 DEF GateConstants
    <3>3. QED
      BY <3>2 DEF GateInv, FloodInv
  <2>2. QED
    BY <1>1, <2>1 DEF GateInv, FloodInv
<1>8. ReplyInv'
  <2>1. ASSUME NEW i \in Calls, clock' < req[i].since + Patience PROVE clock < req[i].since + Patience
    <3>1. req[i].since \in Nat
      BY DEF GateInv, GateTypes, CallTypes, GateCalls
    <3>2. QED
      BY <1>1, <2>1, <3>1 DEF GateConstants
  <2>2. QED
    BY <1>1, <2>1 DEF GateInv, ReplyInv
<1>9. QED
  BY <1>5, <1>6, <1>7, <1>8 DEF GateInv

LEMMA NextGate == ASSUME GateConstants PROVE GateInv /\ [Gates!Next]_Gates!vars => GateInv'
<1> SUFFICES ASSUME GateConstants, GateInv, [Gates!Next]_Gates!vars PROVE GateInv'
  OBVIOUS
<1>1. CASE Gates!Save
  <2>1. /\ saves' = saves + 1 /\ saves < MaxSaves /\ config' \in TwoConfigs /\ tiers' = [admin |-> {}, moderator |-> {1}]
        /\ UNCHANGED <<clock, tags, req, until, hits, raised, pending, gone, owed, ran, leaves>>
    BY <1>1 DEF Gates!Save, Gates!security, Gates!replies, GateInv, GateTypes
  <2>2. GateTypes'
    BY <2>1 DEF GateInv, GateTypes, CallTypes, Refusals, GateConstants
  <2>3. RanInv' /\ FloodInv' /\ ReplyInv'
    BY <2>1 DEF GateInv, RanInv, FloodInv, ReplyInv, Gates!OneRunPerCooldown
  <2>4. QED
    BY <2>2, <2>3 DEF GateInv
<1>2. CASE UNCHANGED Gates!vars
  <2>1. UNCHANGED <<clock, config, tiers, tags, req, until, hits, raised, pending, gone, owed, ran, saves, leaves>>
    BY <1>2 DEF Gates!vars, Gates!rows, Gates!security, Gates!replies
  <2>2. QED
    BY <2>1 DEF GateInv, GateTypes, CallTypes, Refusals, RanInv, FloodInv, ReplyInv, Gates!OneRunPerCooldown
<1>3. QED
  BY <1>1, <1>2, StepGateTick, StepRetract, StepInvoke, StepReadConfig, StepGate, StepAct, StepRetractOnLeave
     DEF Gates!Next

LEMMA GateIs == ASSUME GateInv PROVE Gates!CommandsKeepTheRules
<1>1. Gates!FloodIsBounded
  BY GateCounts DEF GateInv, FloodInv, Gates!FloodIsBounded
<1>2. Gates!OneRunPerCooldown /\ Gates!WithdrawnAsOwed
  BY DEF GateInv, RanInv, ReplyInv, Gates!WithdrawnAsOwed
<1>3. QED
  BY <1>1, <1>2 DEF Gates!CommandsKeepTheRules

LEMMA GateSteady == [GuildNext]_all => [Gates!Next]_Gates!vars
BY DEF GuildNext, all, books, gates, Gates!vars, Gates!rows, Gates!security, Gates!replies

(* However many runs of a member are under way and whatever is saved        *)
(* meanwhile: each run waits for the cooldown of the one before; a flood of *)
(* refusals raises fewer events in any span than make a burst; and what is  *)
(* withdrawn when the target leaves is all that could still be withdrawn    *)
(* (bot/index.ts, onCommand; lib/retraction.ts).                            *)
THEOREM GateKeepsTheRules == ASSUME GateConstants PROVE GuildSpec => []CommandsKeepTheRules
<1>1. GuildInit => GateInv
  BY InitGate DEF GuildInit
<1>2. GateInv /\ [Gates!Next]_Gates!vars => GateInv'
  BY NextGate
<1>3. GateInv => CommandsKeepTheRules
  BY GateIs DEF CommandsKeepTheRules
<1>4. QED
  BY <1>1, <1>2, <1>3, GateSteady, PTL DEF GuildSpec

-----------------------------------------------------------------------------
(* What the log says of the voice rooms.                                   *)

VoiceConstants == Out \notin Channels /\ MaxSteps \in Nat

Entry == [n : 1 .. MaxSteps, who : Talkers, from : Channels, to : Channels \cup {Out}]

VoiceTypes ==
    /\ where \in [Talkers -> Channels \cup {Out}]
    /\ flags \in [Talkers -> SUBSET Flags] /\ since \in [Talkers -> SUBSET Flags]
    /\ asking \subseteq Entry
    /\ came \in [Talkers -> [Channels -> Nat]] /\ went \in [Talkers -> [Channels -> Nat]]
    /\ net \in [Talkers -> [Flags -> Int]]
    /\ steps \in 0 .. MaxSteps

Comes(m, r) == {a \in asking : a.who = m /\ a.to = r}
Goes(m, r)  == {a \in asking : a.who = m /\ a.from = r}

(* With the entries that are still to be written the rooms add up always.  *)
RoomsInv ==
    /\ IsFiniteSet(asking) /\ \A a \in asking : a.n <= steps
    /\ \A m \in Talkers, r \in Channels :
          came[m][r] + Cardinality(Comes(m, r)) - went[m][r] - Cardinality(Goes(m, r))
             = IF where[m] = r THEN 1 ELSE 0

VoiceInv == VoiceTypes /\ RoomsInv /\ Voice!FlagsAddUp

-----------------------------------------------------------------------------
(* The sets Discord only says have changed.                                *)

SetConstants ==
    /\ MaxChanges \in Nat /\ MaxRefusals \in Nat
    /\ NoSnapshot \notin Sets!Sets /\ Unasked \notin Sets!Sets

SetTypes ==
    /\ sort \in Sort /\ real \in Sets!Sets /\ told \in Sets!Sets
    /\ snapshot \in Sets!Sets \cup {NoSnapshot}
    /\ changes \in 0 .. MaxChanges /\ refusals \in 0 .. MaxRefusals
    /\ answers \in Nat /\ heldAsOf \in 0 .. answers
    /\ fetches \subseteq [n : Nat, asOf : 0 .. answers, got : Sets!Sets \cup {Unasked}]

(* Who has asked and had no answer yet will know what is new; with nobody  *)
(* left to ask, the last answer is the set as it is.                       *)
LastAnswer ==
    (\A f \in fetches : f.got # Unasked) =>
        /\ \A f \in fetches : f.asOf = answers => f.got = real
        /\ answers > 0 /\ heldAsOf = answers => snapshot = real

SetsInv ==
    /\ SetTypes
    /\ told = Sets!Before
    /\ \A f \in fetches : f.got # Unasked => f.asOf > 0
    /\ changes > 0 /\ answers = 0 => fetches # {}
    /\ LastAnswer


-----------------------------------------------------------------------------
LEMMA InitSets == ASSUME SetConstants, Sets!Init PROVE SetsInv
<1>1. Sets!Nothing \in Sets!Sets
  BY DEF Sets!Nothing, Sets!Sets
<1>2. SetTypes
  BY <1>1 DEF SetConstants, Sets!Init, SetTypes
<1>3. told = Sets!Before
  BY DEF Sets!Init, Sets!Before
<1>4. changes = 0 /\ answers = 0 /\ fetches = {}
  BY DEF Sets!Init
<1>5. LastAnswer
  BY <1>4 DEF LastAnswer
<1>6. QED
  BY <1>2, <1>3, <1>4, <1>5 DEF SetsInv

LEMMA StepChanges ==
    ASSUME SetConstants, SetsInv, NEW t \in Things, NEW v \in Values \cup {Absent}, Sets!Changes(t, v) PROVE SetsInv'
<1> DEFINE new == [n |-> changes + 1, asOf |-> 0, got |-> Unasked]
<1>1. /\ changes < MaxChanges /\ changes' = changes + 1 /\ real' = [real EXCEPT ![t] = v]
      /\ fetches' = fetches \cup {new}
      /\ UNCHANGED <<sort, snapshot, told, answers, heldAsOf, refusals>>
  BY DEF Sets!Changes
<1>2. new.got = Unasked /\ new \in [n : Nat, asOf : 0 .. answers, got : Sets!Sets \cup {Unasked}]
  BY DEF SetsInv, SetTypes
<1>3. real' \in Sets!Sets
  BY <1>1 DEF SetsInv, SetTypes, Sets!Sets
<1> HIDE DEF new
<1>4. SetTypes'
  BY <1>1, <1>2, <1>3 DEF SetsInv, SetTypes, SetConstants
<1>5. (told = Sets!Before)'
  BY <1>1 DEF SetsInv, Sets!Before
<1>6. LastAnswer' /\ fetches' # {}
  BY <1>1, <1>2 DEF LastAnswer
<1>7. \A f \in fetches' : f.got # Unasked => f.asOf > 0
  BY <1>1, <1>2 DEF SetsInv
<1>8. QED
  BY <1>4, <1>5, <1>6, <1>7 DEF SetsInv

LEMMA StepAnswers == ASSUME SetConstants, SetsInv, NEW f \in fetches, Sets!Answers(f) PROVE SetsInv'
<1> DEFINE new == [f EXCEPT !.asOf = answers + 1, !.got = real]
           All == [n : Nat, asOf : 0 .. answers, got : Sets!Sets \cup {Unasked}]
           Later == [n : Nat, asOf : 0 .. answers + 1, got : Sets!Sets \cup {Unasked}]
<1>1. /\ answers' = answers + 1 /\ fetches' = (fetches \ {f}) \cup {new}
      /\ UNCHANGED <<sort, real, snapshot, told, heldAsOf, changes, refusals>>
  BY DEF Sets!Answers
<1>2. fetches \subseteq All /\ answers \in Nat /\ heldAsOf \in 0 .. answers /\ real \in Sets!Sets
  BY DEF SetsInv, SetTypes
<1>3. new \in Later /\ new.got = real /\ new.asOf = answers + 1
  <2>1. PICK later : later = answers + 1
    OBVIOUS
  <2>2. new = [f EXCEPT !.asOf = later, !.got = real]
    BY <2>1
  <2>3. f \in All
    BY <1>2
  <2> HIDE DEF new
  <2>4. new = [n |-> f.n, asOf |-> later, got |-> real] /\ f.n \in Nat
    BY <2>2, <2>3
  <2>5. QED
    BY <1>2, <2>1, <2>4
<1>4. \A g \in fetches : g \in Later /\ g.asOf # answers + 1
  BY <1>2
<1>5. real # Unasked
  BY <1>2 DEF SetConstants
<1> HIDE DEF new
<1>6. fetches' \subseteq Later
  BY <1>1, <1>3, <1>4
<1>7. SetTypes'
  BY <1>1, <1>2, <1>6 DEF SetsInv, SetTypes
<1>8. (told = Sets!Before)'
  BY <1>1 DEF SetsInv, Sets!Before
<1>9. \A g \in fetches' : g.got # Unasked => g.asOf > 0
  BY <1>1, <1>2, <1>3 DEF SetsInv
<1>10. LastAnswer'
  BY <1>1, <1>2, <1>3, <1>4 DEF LastAnswer
<1>11. answers' # 0
  BY <1>1, <1>2
<1>12. QED
  BY <1>7, <1>8, <1>9, <1>10, <1>11 DEF SetsInv

LEMMA StepRefuses == ASSUME SetConstants, SetsInv, NEW f \in fetches, Sets!Refuses(f) PROVE SetsInv'
<1> DEFINE All == [n : Nat, asOf : 0 .. answers, got : Sets!Sets \cup {Unasked}]
           Later == [n : Nat, asOf : 0 .. answers + 1, got : Sets!Sets \cup {Unasked}]
<1>1. /\ refusals < MaxRefusals /\ refusals' = refusals + 1
      /\ answers' = answers + 1 /\ fetches' = fetches \ {f}
      /\ UNCHANGED <<sort, real, snapshot, told, heldAsOf, changes>>
  BY DEF Sets!Refuses
<1>2. fetches \subseteq All /\ answers \in Nat /\ heldAsOf \in 0 .. answers
  BY DEF SetsInv, SetTypes
<1>3. \A g \in fetches : g \in Later /\ g.asOf # answers + 1
  BY <1>2
<1>4. SetTypes'
  BY <1>1, <1>2, <1>3 DEF SetsInv, SetTypes, SetConstants
<1>5. (told = Sets!Before)'
  BY <1>1 DEF SetsInv, Sets!Before
<1>6. LastAnswer'
  BY <1>1, <1>2, <1>3 DEF LastAnswer
<1>7. answers' # 0
  BY <1>1, <1>2
<1>8. QED
  BY <1>1, <1>4, <1>5, <1>6, <1>7 DEF SetsInv

(* A difference that is logged whole leaves the reader with the new set.   *)
LEMMA LoggedIs ==
    ASSUME NEW current \in Sets!Sets, told \in Sets!Sets, told = Sets!Before
    PROVE  Sets!Logged(current) = current
<1>1. \A t \in Things : Sets!Logged(current)[t] = current[t]
  BY DEF Sets!Logged, Sets!Created, Sets!Updated, Sets!Deleted
<1>2. QED
  BY <1>1 DEF Sets!Logged, Sets!Sets

LEMMA StepDiffs == ASSUME SetConstants, SetsInv, NEW f \in fetches, Sets!Diffs(f) PROVE SetsInv'
<1>1. /\ f.got # Unasked /\ fetches' = fetches \ {f}
      /\ told' = IF sort = "pins" /\ snapshot = NoSnapshot THEN f.got ELSE Sets!Logged(f.got)
      /\ snapshot' = f.got /\ heldAsOf' = f.asOf
      /\ UNCHANGED <<sort, real, answers, changes, refusals>>
  BY DEF Sets!Diffs
<1>2. f.got \in Sets!Sets /\ f.asOf \in 0 .. answers /\ f.asOf > 0 /\ answers \in Nat
  BY <1>1 DEF SetsInv, SetTypes
<1>3. told' = f.got
  BY <1>1, <1>2, LoggedIs DEF SetsInv, SetTypes
<1>4. SetTypes'
  BY <1>1, <1>2, <1>3 DEF SetsInv, SetTypes
<1>5. (told = Sets!Before)'
  BY <1>1, <1>2, <1>3 DEF Sets!Before, SetConstants
<1>6. LastAnswer'
  BY <1>1, <1>2 DEF SetsInv, LastAnswer
<1>7. answers' # 0
  BY <1>1, <1>2
<1>8. QED
  BY <1>1, <1>4, <1>5, <1>6, <1>7 DEF SetsInv

LEMMA NextSets == ASSUME SetConstants PROVE SetsInv /\ [Sets!Next]_Sets!vars => SetsInv'
<1> SUFFICES ASSUME SetsInv, [Sets!Next]_Sets!vars PROVE SetsInv'
  OBVIOUS
<1>1. CASE UNCHANGED Sets!vars
  BY <1>1 DEF Sets!vars, SetsInv, SetTypes, Sets!Before, LastAnswer
<1>2. CASE Sets!Next
  BY <1>2, StepChanges, StepAnswers, StepRefuses, StepDiffs DEF Sets!Next
<1>3. QED
  BY <1>1, <1>2

LEMMA SetsIs == ASSUME SetConstants, SetsInv PROVE Sets!TypeOK /\ Sets!LogFollowsDiscord
<1>1. Sets!TypeOK
  BY DEF SetsInv, SetTypes, Sets!TypeOK
<1>2. ASSUME fetches = {}, changes > 0, heldAsOf = answers PROVE told = real
  <2>1. answers > 0
    BY <1>2 DEF SetsInv, SetTypes
  <2>2. snapshot = real
    BY <1>2, <2>1 DEF SetsInv, LastAnswer
  <2>3. QED
    BY <2>1, <2>2 DEF SetsInv, SetTypes, SetConstants, Sets!Before
<1>3. QED
  BY <1>1, <1>2 DEF Sets!LogFollowsDiscord

LEMMA SetSteps == [GuildNext]_all => [Sets!Next]_Sets!vars
BY DEF GuildNext, all, books, sets, Sets!vars

-----------------------------------------------------------------------------
LEMMA InitVoice == ASSUME VoiceConstants, Voice!Init PROVE VoiceInv
<1>1. /\ where = [m \in Talkers |-> Out] /\ asking = {}
      /\ flags = [m \in Talkers |-> {}] /\ since = flags
      /\ came = [m \in Talkers |-> [r \in Channels |-> 0]] /\ went = [m \in Talkers |-> [r \in Channels |-> 0]]
      /\ net = [m \in Talkers |-> [f \in Flags |-> 0]] /\ steps = 0
  BY DEF Voice!Init, Voice!NoEntry, Voice!Nothing
<1>2. VoiceTypes
  BY <1>1 DEF VoiceTypes, VoiceConstants
<1>3. IsFiniteSet({}) /\ Cardinality({}) = 0
  BY FS_EmptySet
<1>4. \A m, r : Comes(m, r) = {} /\ Goes(m, r) = {}
  BY <1>1 DEF Comes, Goes
<1>5. \A m \in Talkers, r \in Channels : where[m] # r /\ came[m][r] = 0 /\ went[m][r] = 0
  BY <1>1 DEF VoiceConstants
<1>6. RoomsInv
  <2>1. \A m, r : Cardinality(Comes(m, r)) = 0 /\ Cardinality(Goes(m, r)) = 0
    BY <1>3, <1>4
  <2>2. 0 + 0 - 0 - 0 = 0
    OBVIOUS
  <2>3. IsFiniteSet(asking) /\ \A a \in asking : a.n <= steps
    BY <1>1, <1>3
  <2>4. QED
    BY <1>5, <2>1, <2>2, <2>3 DEF RoomsInv
<1>7. Voice!FlagsAddUp
  BY <1>1 DEF Voice!FlagsAddUp
<1>8. QED
  BY <1>2, <1>6, <1>7 DEF VoiceInv

(* The flags of a member who comes in are the first the log knows.         *)
LEMMA FlagsBegin ==
    ASSUME VoiceConstants, VoiceInv, NEW m \in Talkers, NEW room \in Channels \cup {Out}, NEW new \in SUBSET Flags,
           Voice!Sends(m, room, new), Voice!BringsAlong(m, new)
    PROVE  /\ flags' \in [Talkers -> SUBSET Flags] /\ since' \in [Talkers -> SUBSET Flags]
           /\ net' \in [Talkers -> [Flags -> Int]] /\ where' \in [Talkers -> Channels \cup {Out}]
           /\ steps' = steps + 1 /\ steps' \in 0 .. MaxSteps
           /\ Voice!FlagsAddUp'
<1>1. /\ where' = [where EXCEPT ![m] = room] /\ flags' = [flags EXCEPT ![m] = new]
      /\ since' = [since EXCEPT ![m] = new] /\ net' = [net EXCEPT ![m] = Voice!Nothing[m]]
      /\ steps < MaxSteps /\ steps' = steps + 1
  BY DEF Voice!Sends, Voice!BringsAlong
<1>2. Voice!Nothing[m] = [f \in Flags |-> 0]
  BY DEF Voice!Nothing
<1>3. /\ flags \in [Talkers -> SUBSET Flags] /\ since \in [Talkers -> SUBSET Flags]
      /\ net \in [Talkers -> [Flags -> Int]] /\ where \in [Talkers -> Channels \cup {Out}]
      /\ steps \in 0 .. MaxSteps
  BY DEF VoiceInv, VoiceTypes
<1>4. /\ flags' \in [Talkers -> SUBSET Flags] /\ since' \in [Talkers -> SUBSET Flags]
      /\ where' \in [Talkers -> Channels \cup {Out}]
  <2>1. flags' \in [Talkers -> SUBSET Flags]
    BY <1>1, <1>3
  <2>2. since' \in [Talkers -> SUBSET Flags]
    BY <1>1, <1>3
  <2>3. where' \in [Talkers -> Channels \cup {Out}]
    BY <1>1, <1>3
  <2>4. QED
    BY <2>1, <2>2, <2>3
<1>5. [f \in Flags |-> 0] \in [Flags -> Int]
  OBVIOUS
<1>6. net' \in [Talkers -> [Flags -> Int]]
  BY <1>1, <1>2, <1>3, <1>5
<1>7. steps' = steps + 1 /\ steps' \in 0 .. MaxSteps
  <2>1. steps < MaxSteps /\ steps' = steps + 1 /\ steps \in 0 .. MaxSteps /\ MaxSteps \in Nat
    BY <1>1, <1>3 DEF VoiceConstants
  <2>2. QED
    BY <2>1
<1>8. ASSUME NEW k \in Talkers, NEW f \in Flags, where'[k] # Out
      PROVE  net'[k][f] = (IF f \in flags'[k] THEN 1 ELSE 0) - (IF f \in since'[k] THEN 1 ELSE 0)
  <2>1. CASE k = m
    <3>1. net'[k][f] = 0 /\ flags'[k] = since'[k]
      BY <1>1, <1>2, <1>3, <2>1
    <3>2. QED
      BY <3>1
  <2>2. CASE k # m
    <3>1. net'[k] = net[k] /\ flags'[k] = flags[k] /\ since'[k] = since[k] /\ where'[k] = where[k]
      BY <1>1, <1>3, <2>2
    <3>2. QED
      BY <1>8, <3>1 DEF VoiceInv, Voice!FlagsAddUp
  <2>3. QED
    BY <2>1, <2>2
<1>9. QED
  BY <1>1, <1>4, <1>6, <1>7, <1>8 DEF Voice!FlagsAddUp

LEMMA StepJoin ==
    ASSUME VoiceConstants, VoiceInv, NEW m \in Talkers, NEW room \in Channels, NEW new \in SUBSET Flags,
           Voice!Join(m, room, new)
    PROVE  VoiceInv'
<1>1. /\ where[m] = Out /\ Voice!Sends(m, room, new) /\ Voice!BringsAlong(m, new)
      /\ came' = [came EXCEPT ![m][room] = came[m][room] + 1] /\ UNCHANGED <<asking, went>>
  BY DEF Voice!Join, Voice!Enters
<1>2. /\ came \in [Talkers -> [Channels -> Nat]] /\ went \in [Talkers -> [Channels -> Nat]]
      /\ where \in [Talkers -> Channels \cup {Out}] /\ asking \subseteq Entry
      /\ steps \in 0 .. MaxSteps
  BY DEF VoiceInv, VoiceTypes
<1>3. where' = [where EXCEPT ![m] = room]
  BY <1>1 DEF Voice!Sends
<1>4. came' \in [Talkers -> [Channels -> Nat]]
  BY <1>1, <1>2
<1>5. VoiceTypes'
  BY <1>1, <1>2, <1>4, FlagsBegin DEF VoiceTypes
<1>6. \A k, r : Comes(k, r)' = Comes(k, r) /\ Goes(k, r)' = Goes(k, r)
  BY <1>1 DEF Comes, Goes
<1>7. IsFiniteSet(asking) /\ \A k, r : IsFiniteSet(Comes(k, r)) /\ IsFiniteSet(Goes(k, r))
  BY FS_Subset DEF VoiceInv, RoomsInv, Comes, Goes
<1>8. \A k, r : Cardinality(Comes(k, r)) \in Nat /\ Cardinality(Goes(k, r)) \in Nat
  BY <1>7, FS_CardinalityType
<1>9. ASSUME NEW k \in Talkers, NEW r \in Channels
      PROVE  came'[k][r] + Cardinality(Comes(k, r)) - went'[k][r] - Cardinality(Goes(k, r))
               = IF where'[k] = r THEN 1 ELSE 0
  <2> DEFINE in == Cardinality(Comes(k, r))
             out == Cardinality(Goes(k, r))
  <2>1. came[k][r] \in Nat /\ went'[k][r] = went[k][r] /\ went[k][r] \in Nat /\ in \in Nat /\ out \in Nat
    BY <1>1, <1>2, <1>8
  <2>2. came[k][r] + in - went[k][r] - out = IF where[k] = r THEN 1 ELSE 0
    BY DEF VoiceInv, RoomsInv
  <2>3. PICK c, w, d : c = came[k][r] /\ w = went[k][r] /\ d = came'[k][r]
    OBVIOUS
  <2>4. c \in Nat /\ w \in Nat /\ c + in - w - out = (IF where[k] = r THEN 1 ELSE 0)
    BY <2>1, <2>2, <2>3
  <2>5. \/ where[k] # r /\ where'[k] = r /\ d = c + 1
        \/ (where[k] = r <=> where'[k] = r) /\ d = c
    BY <1>1, <1>2, <1>3, <2>3 DEF VoiceConstants
  <2>6. went'[k][r] = w
    BY <2>1, <2>3
  <2> HIDE DEF in, out
  <2>7. d + in - w - out = IF where'[k] = r THEN 1 ELSE 0
    BY <2>1, <2>4, <2>5
  <2>8. QED
    BY <2>3, <2>6, <2>7 DEF in, out
<1>10. \A a \in asking' : a.n <= steps'
  <2>1. steps' = steps + 1 /\ \A a \in asking : a.n <= steps /\ a.n \in Nat
    BY <1>2, <1>1 DEF Voice!Sends, VoiceInv, RoomsInv, Entry
  <2>2. QED
    BY <1>1, <1>2, <2>1
<1>11. RoomsInv'
  BY <1>1, <1>6, <1>7, <1>9, <1>10 DEF RoomsInv
<1>12. QED
  BY <1>1, <1>5, <1>11, FlagsBegin DEF VoiceInv

LEMMA StepDeparts ==
    ASSUME VoiceConstants, VoiceInv, NEW m \in Talkers, NEW to \in Channels \cup {Out}, NEW new \in SUBSET Flags,
           Voice!Departs(m, to, new)
    PROVE  VoiceInv'
<1> DEFINE a == [n |-> steps + 1, who |-> m, from |-> where[m], to |-> to]
<1>1. /\ where[m] \in Channels \ {to} /\ Voice!Sends(m, to, new) /\ Voice!BringsAlong(m, new)
      /\ asking' = asking \cup {a} /\ UNCHANGED <<came, went>>
  BY DEF Voice!Departs
<1>2. /\ came \in [Talkers -> [Channels -> Nat]] /\ went \in [Talkers -> [Channels -> Nat]]
      /\ where \in [Talkers -> Channels \cup {Out}] /\ asking \subseteq Entry
      /\ steps \in 0 .. MaxSteps /\ MaxSteps \in Nat
  BY DEF VoiceInv, VoiceTypes, VoiceConstants
<1>3. where' = [where EXCEPT ![m] = to] /\ steps < MaxSteps /\ steps' = steps + 1
  BY <1>1 DEF Voice!Sends
<1>4. a \in Entry /\ a.n = steps + 1 /\ a.who = m /\ a.from = where[m] /\ a.to = to
  BY <1>1, <1>2, <1>3 DEF Entry
<1> HIDE DEF a
<1>5. VoiceTypes'
  BY <1>1, <1>2, <1>4, FlagsBegin DEF VoiceTypes
<1>6. IsFiniteSet(asking) /\ \A b \in asking : b.n <= steps /\ b.n \in Nat
  BY <1>2 DEF VoiceInv, RoomsInv, Entry
<1>7. a \notin asking
  BY <1>2, <1>4, <1>6
<1>8. IsFiniteSet(asking') /\ \A b \in asking' : b.n <= steps'
  <2>1. IsFiniteSet(asking')
    BY <1>1, <1>6, FS_AddElement
  <2>2. QED
    BY <1>1, <1>2, <1>3, <1>4, <1>6, <2>1
<1>9. \A k, r : /\ IsFiniteSet(Comes(k, r)) /\ a \notin Comes(k, r)
                /\ IsFiniteSet(Goes(k, r)) /\ a \notin Goes(k, r)
  BY <1>6, <1>7, FS_Subset DEF Comes, Goes
<1>10. \A k, r : /\ Cardinality(Comes(k, r)) \in Nat /\ Cardinality(Comes(k, r) \cup {a}) = Cardinality(Comes(k, r)) + 1
                 /\ Cardinality(Goes(k, r)) \in Nat /\ Cardinality(Goes(k, r) \cup {a}) = Cardinality(Goes(k, r)) + 1
  BY <1>9, FS_CardinalityType, FS_AddElement
<1>11. \A k, r : /\ Comes(k, r)' = IF k = m /\ r = to THEN Comes(k, r) \cup {a} ELSE Comes(k, r)
                 /\ Goes(k, r)' = IF k = m /\ r = where[m] THEN Goes(k, r) \cup {a} ELSE Goes(k, r)
  BY <1>1, <1>4 DEF Comes, Goes
<1>12. ASSUME NEW k \in Talkers, NEW r \in Channels
      PROVE  came'[k][r] + Cardinality(Comes(k, r)') - went'[k][r] - Cardinality(Goes(k, r)')
               = IF where'[k] = r THEN 1 ELSE 0
  <2> DEFINE in == Cardinality(Comes(k, r))
             out == Cardinality(Goes(k, r))
             inNext == Cardinality(Comes(k, r)')
             outNext == Cardinality(Goes(k, r)')
  <2>1. /\ came'[k][r] = came[k][r] /\ came[k][r] \in Nat /\ went'[k][r] = went[k][r] /\ went[k][r] \in Nat
        /\ in \in Nat /\ out \in Nat
    BY <1>1, <1>2, <1>10
  <2>2. came[k][r] + in - went[k][r] - out = IF where[k] = r THEN 1 ELSE 0
    BY DEF VoiceInv, RoomsInv
  <2>3. /\ inNext = IF k = m /\ r = to THEN in + 1 ELSE in
        /\ outNext = IF k = m /\ r = where[m] THEN out + 1 ELSE out
    BY <1>10, <1>11
  <2>4. /\ k # m => where'[k] = where[k]
        /\ k = m => where'[k] = to /\ where[m] # to
    BY <1>1, <1>2, <1>3
  <2> HIDE DEF in, out, inNext, outNext
  <2>5. PICK c, w : c = came[k][r] /\ w = went[k][r]
    OBVIOUS
  <2>6. /\ c \in Nat /\ w \in Nat /\ came'[k][r] = c /\ went'[k][r] = w
        /\ c + in - w - out = (IF where[k] = r THEN 1 ELSE 0)
    BY <2>1, <2>2, <2>5
  <2>7. \/ inNext = in /\ outNext = out /\ (where'[k] = r <=> where[k] = r)
        \/ inNext = in + 1 /\ outNext = out /\ where'[k] = r /\ where[k] # r
        \/ inNext = in /\ outNext = out + 1 /\ where'[k] # r /\ where[k] = r
    BY <2>3, <2>4
  <2>8. c + inNext - w - outNext = IF where'[k] = r THEN 1 ELSE 0
    BY <2>1, <2>6, <2>7
  <2>9. QED
    BY <2>6, <2>8 DEF inNext, outNext
<1>13. RoomsInv'
  BY <1>8, <1>12 DEF RoomsInv
<1>14. QED
  BY <1>1, <1>5, <1>13, FlagsBegin DEF VoiceInv

LEMMA StepAnswered ==
    ASSUME VoiceConstants, VoiceInv, NEW a \in asking, Voice!Answered(a)
    PROVE  VoiceInv'
<1>1. /\ asking' = asking \ {a}
      /\ went' = [went EXCEPT ![a.who][a.from] = went[a.who][a.from] + 1]
      /\ IF a.to = Out THEN UNCHANGED came
         ELSE came' = [came EXCEPT ![a.who][a.to] = came[a.who][a.to] + 1]
      /\ UNCHANGED <<where, flags, net, since, steps>>
  BY DEF Voice!Answered, Voice!Enters
<1>2. /\ came \in [Talkers -> [Channels -> Nat]] /\ went \in [Talkers -> [Channels -> Nat]]
      /\ asking \subseteq Entry
  BY DEF VoiceInv, VoiceTypes
<1>3. a.who \in Talkers /\ a.from \in Channels /\ a.to \in Channels \cup {Out}
  BY <1>2 DEF Entry
<1>4. ASSUME NEW k \in Talkers, NEW r \in Channels
      PROVE  /\ went[k][r] \in Nat /\ came[k][r] \in Nat
             /\ went'[k][r] = IF k = a.who /\ r = a.from THEN went[k][r] + 1 ELSE went[k][r]
             /\ came'[k][r] = IF k = a.who /\ r = a.to THEN came[k][r] + 1 ELSE came[k][r]
  <2>1. went'[k][r] = IF k = a.who /\ r = a.from THEN went[k][r] + 1 ELSE went[k][r]
    BY <1>1, <1>2, <1>3
  <2>2. CASE a.to = Out
    BY <1>1, <1>2, <2>1, <2>2 DEF VoiceConstants
  <2>3. CASE a.to # Out
    BY <1>1, <1>2, <1>3, <2>1, <2>3
  <2>4. QED
    BY <2>2, <2>3
<1>5. went' \in [Talkers -> [Channels -> Nat]]
  BY <1>1, <1>2, <1>3
<1>6. came' \in [Talkers -> [Channels -> Nat]]
  <2>1. CASE a.to = Out
    BY <1>1, <1>2, <2>1
  <2>2. CASE a.to # Out
    <3>1. came' = [came EXCEPT ![a.who][a.to] = came[a.who][a.to] + 1] /\ a.to \in Channels
      BY <1>1, <1>3, <2>2
    <3>2. QED
      BY <1>2, <1>3, <3>1
  <2>3. QED
    BY <2>1, <2>2
<1>7. VoiceTypes'
  BY <1>1, <1>2, <1>5, <1>6 DEF VoiceInv, VoiceTypes
<1>8. IsFiniteSet(asking) /\ IsFiniteSet(asking') /\ \A b \in asking' : b.n <= steps'
  BY <1>1, FS_RemoveElement DEF VoiceInv, RoomsInv
<1>9. \A k, r : IsFiniteSet(Comes(k, r)) /\ IsFiniteSet(Goes(k, r))
  BY <1>8, FS_Subset DEF Comes, Goes
<1>10. \A k, r : /\ Cardinality(Comes(k, r)) \in Nat /\ Cardinality(Goes(k, r)) \in Nat
                 /\ a \in Comes(k, r) => Cardinality(Comes(k, r) \ {a}) = Cardinality(Comes(k, r)) - 1
                 /\ a \in Goes(k, r) => Cardinality(Goes(k, r) \ {a}) = Cardinality(Goes(k, r)) - 1
  BY <1>9, FS_CardinalityType, FS_RemoveElement
<1>11. \A k, r : /\ Comes(k, r)' = Comes(k, r) \ {a} /\ Goes(k, r)' = Goes(k, r) \ {a}
                 /\ (a \in Comes(k, r) <=> k = a.who /\ r = a.to)
                 /\ (a \in Goes(k, r) <=> k = a.who /\ r = a.from)
  BY <1>1 DEF Comes, Goes
<1>12. ASSUME NEW k \in Talkers, NEW r \in Channels
      PROVE  came'[k][r] + Cardinality(Comes(k, r)') - went'[k][r] - Cardinality(Goes(k, r)')
               = IF where'[k] = r THEN 1 ELSE 0
  <2> DEFINE in == Cardinality(Comes(k, r))
             out == Cardinality(Goes(k, r))
             inNext == Cardinality(Comes(k, r)')
             outNext == Cardinality(Goes(k, r)')
  <2>1. in \in Nat /\ out \in Nat
    BY <1>10
  <2>2. came[k][r] + in - went[k][r] - out = IF where[k] = r THEN 1 ELSE 0
    BY DEF VoiceInv, RoomsInv
  <2>3. inNext = IF k = a.who /\ r = a.to THEN in - 1 ELSE in
    <3>1. CASE a \in Comes(k, r)
      BY <1>10, <1>11, <3>1
    <3>2. CASE a \notin Comes(k, r)
      <4>1. Comes(k, r)' = Comes(k, r)
        BY <1>11, <3>2
      <4>2. QED
        BY <1>11, <3>2, <4>1
    <3>3. QED
      BY <3>1, <3>2
  <2>4. outNext = IF k = a.who /\ r = a.from THEN out - 1 ELSE out
    <3>1. CASE a \in Goes(k, r)
      BY <1>10, <1>11, <3>1
    <3>2. CASE a \notin Goes(k, r)
      <4>1. Goes(k, r)' = Goes(k, r)
        BY <1>11, <3>2
      <4>2. QED
        BY <1>11, <3>2, <4>1
    <3>3. QED
      BY <3>1, <3>2
  <2>5. where'[k] = where[k]
    BY <1>1
  <2> HIDE DEF in, out, inNext, outNext
  <2>6. PICK c, w, d, v : c = came[k][r] /\ w = went[k][r] /\ d = came'[k][r] /\ v = went'[k][r]
    OBVIOUS
  <2>7. /\ c \in Nat /\ w \in Nat
        /\ v = IF k = a.who /\ r = a.from THEN w + 1 ELSE w
        /\ d = IF k = a.who /\ r = a.to THEN c + 1 ELSE c
    BY <1>4, <2>6
  <2>8. d + inNext = c + in /\ v + outNext = w + out /\ d \in Nat /\ v \in Nat /\ inNext \in Int /\ outNext \in Int
    BY <2>1, <2>3, <2>4, <2>7
  <2>9. d + inNext - v - outNext = IF where'[k] = r THEN 1 ELSE 0
    BY <2>1, <2>2, <2>5, <2>6, <2>7, <2>8
  <2>10. QED
    BY <2>6, <2>9 DEF inNext, outNext
<1>13. RoomsInv'
  BY <1>8, <1>12 DEF RoomsInv
<1>14. Voice!FlagsAddUp'
  BY <1>1 DEF VoiceInv, Voice!FlagsAddUp
<1>15. QED
  BY <1>7, <1>13, <1>14 DEF VoiceInv

LEMMA StepToggles ==
    ASSUME VoiceConstants, VoiceInv, NEW m \in Talkers, NEW new \in SUBSET Flags, Voice!Toggles(m, new)
    PROVE  VoiceInv'
<1> DEFINE Change(f) == IF f \in new \ flags[m] THEN 1 ELSE IF f \in flags[m] \ new THEN -1 ELSE 0
<1>1. /\ where' = [where EXCEPT ![m] = where[m]] /\ flags' = [flags EXCEPT ![m] = new]
      /\ steps < MaxSteps /\ steps' = steps + 1
      /\ net' = [net EXCEPT ![m] = [f \in Flags |-> net[m][f] + Change(f)]]
      /\ UNCHANGED <<asking, came, went, since>>
  BY DEF Voice!Toggles, Voice!Sends
<1>2. /\ where \in [Talkers -> Channels \cup {Out}] /\ flags \in [Talkers -> SUBSET Flags]
      /\ net \in [Talkers -> [Flags -> Int]] /\ steps \in 0 .. MaxSteps /\ asking \subseteq Entry
  BY DEF VoiceInv, VoiceTypes
<1>3. where' = where
  BY <1>1, <1>2
<1>4. \A f : Change(f) \in Int
  OBVIOUS
<1>5. [f \in Flags |-> net[m][f] + Change(f)] \in [Flags -> Int]
  <2> HIDE DEF Change
  <2>1. \A f \in Flags : net[m][f] + Change(f) \in Int
    BY <1>2, <1>4
  <2>2. QED
    BY <2>1
<1>6. VoiceTypes'
  <2>1. net' \in [Talkers -> [Flags -> Int]]
    BY <1>1, <1>2, <1>5
  <2>2. flags' \in [Talkers -> SUBSET Flags]
    BY <1>1, <1>2
  <2>3. steps' \in 0 .. MaxSteps
    BY <1>1, <1>2 DEF VoiceConstants
  <2>4. QED
    BY <1>1, <1>3, <2>1, <2>2, <2>3 DEF VoiceInv, VoiceTypes
<1>7. \A k, r : Comes(k, r)' = Comes(k, r) /\ Goes(k, r)' = Goes(k, r)
  BY <1>1 DEF Comes, Goes
<1>8. \A a \in asking' : a.n <= steps'
  <2>1. \A a \in asking : a.n <= steps /\ a.n \in Nat
    BY <1>2 DEF VoiceInv, RoomsInv, Entry
  <2>2. QED
    BY <1>1, <1>2, <2>1
<1>9. RoomsInv'
  BY <1>1, <1>3, <1>7, <1>8 DEF VoiceInv, RoomsInv
<1>10. ASSUME NEW k \in Talkers, NEW f \in Flags, where'[k] # Out
      PROVE  net'[k][f] = (IF f \in flags'[k] THEN 1 ELSE 0) - (IF f \in since'[k] THEN 1 ELSE 0)
  <2>1. net[k][f] = (IF f \in flags[k] THEN 1 ELSE 0) - (IF f \in since[k] THEN 1 ELSE 0)
    BY <1>3, <1>10 DEF VoiceInv, Voice!FlagsAddUp
  <2>2. CASE k = m
    <3>1. net'[k][f] = net[m][f] + Change(f) /\ flags'[k] = new /\ since'[k] = since[k]
      BY <1>1, <1>2, <2>2
    <3>2. QED
      BY <2>1, <2>2, <3>1
  <2>3. CASE k # m
    <3>1. net'[k] = net[k] /\ flags'[k] = flags[k] /\ since'[k] = since[k]
      BY <1>1, <1>2, <2>3
    <3>2. QED
      BY <2>1, <3>1
  <2>4. QED
    BY <2>2, <2>3
<1>11. QED
  BY <1>6, <1>9, <1>10 DEF VoiceInv, Voice!FlagsAddUp

LEMMA NextVoice == ASSUME VoiceConstants PROVE VoiceInv /\ [Voice!Next]_Voice!vars => VoiceInv'
<1> SUFFICES ASSUME VoiceInv, [Voice!Next]_Voice!vars PROVE VoiceInv'
  OBVIOUS
<1>1. CASE UNCHANGED Voice!vars
  BY <1>1 DEF Voice!vars, VoiceInv, VoiceTypes, RoomsInv, Comes, Goes, Voice!FlagsAddUp
<1>2. ASSUME NEW m \in Talkers, Voice!Hangs(m) PROVE VoiceInv'
  BY <1>2, StepDeparts DEF Voice!Hangs
<1>3. ASSUME NEW m \in Talkers, NEW new \in SUBSET Flags, Voice!Moves(m, new) PROVE VoiceInv'
  BY <1>3, StepDeparts DEF Voice!Moves
<1>4. QED
  BY <1>1, <1>2, <1>3, StepJoin, StepToggles, StepAnswered DEF Voice!Next

LEMMA VoiceIs == ASSUME VoiceConstants, VoiceInv PROVE Voice!TypeOK /\ Voice!VoiceAddsUp
<1>1. Voice!TypeOK
  BY DEF VoiceInv, VoiceTypes, Voice!TypeOK, Entry
<1>2. ASSUME asking = {}, NEW m \in Talkers, NEW r \in Channels
      PROVE  came[m][r] - went[m][r] = IF where[m] = r THEN 1 ELSE 0
  <2>1. Cardinality(Comes(m, r)) = 0 /\ Cardinality(Goes(m, r)) = 0
    BY <1>2, FS_EmptySet DEF Comes, Goes
  <2>2. came[m][r] \in Nat /\ went[m][r] \in Nat
    BY DEF VoiceInv, VoiceTypes
  <2>3. QED
    BY <2>1, <2>2 DEF VoiceInv, RoomsInv
<1>3. QED
  BY <1>1, <1>2 DEF VoiceInv, Voice!VoiceAddsUp, Voice!RoomsAddUp

LEMMA VoiceSteps == [GuildNext]_all => [Voice!Next]_Voice!vars
BY DEF GuildNext, all, books, voice, Voice!vars

-----------------------------------------------------------------------------
(* What the log says of the messages.                                      *)

WordConstants == Messages \subseteq Nat /\ Cap \in Nat /\ MaxHours \in Nat /\ MaxEdits \in Nat

Remembered == [id : Messages, content : Texts, named : BOOLEAN, cachedAt : 0 .. MaxHours]

WordTypes ==
    /\ hour \in 0 .. MaxHours /\ edits \in 0 .. MaxEdits
    /\ live \subseteq Messages
    /\ texts \in [Messages -> SUBSET Texts] /\ files \subseteq Messages
    /\ wrote \in [Messages -> [at : 0 .. MaxHours, bot : BOOLEAN]]
    /\ bucket \subseteq Remembered
    /\ reported \subseteq [of : Messages, content : Texts, age : 0 .. MaxHours, named : BOOLEAN]

(* An entry is what somebody wrote, when they wrote it.                    *)
Said(x) ==
    /\ x.content \in texts[x.id] /\ ~wrote[x.id].bot /\ x.cachedAt = wrote[x.id].at
    /\ x.named => x.id \in files

SentInOrder ==
    /\ \A m \in Messages : wrote[m].at <= hour
    /\ \A m \in live : texts[m] # {}
    /\ \A k, m \in Messages : k < m /\ texts[m] # {} => texts[k] # {} /\ wrote[k].at <= wrote[m].at

Recent(m) == texts[m] # {} /\ ~wrote[m].bot /\ hour - wrote[m].at <= 1

(* What people said since the message of an entry has its entries.         *)
NoGap == \A x \in bucket, m \in Messages : x.id < m /\ Recent(m) => \E y \in bucket : y.id = m

WordsInv ==
    /\ WordTypes
    /\ SentInOrder
    /\ \A x \in bucket : Said(x)
    /\ IsFiniteSet(bucket) /\ Cardinality(bucket) <= Cap
    /\ NoGap
    /\ Words!TextsWereWritten

-----------------------------------------------------------------------------
(* The cache: what evict leaves.                                           *)

LEMMA WordCounts == \A S : Words!Cardinality(S) = Cardinality(S)
BY DEF Words!Cardinality, Cardinality

(* At most Cap entries stay: those of the last messages.                   *)
LEMMA EvictFits ==
    ASSUME WordConstants, NEW E \in SUBSET Remembered, IsFiniteSet(E)
    PROVE  /\ Words!Evict(E) \subseteq E /\ IsFiniteSet(Words!Evict(E)) /\ Cardinality(Words!Evict(E)) <= Cap
           /\ \A x \in Words!Evict(E), y \in E : x.id < y.id /\ ~Words!Old(y) => y \in Words!Evict(E)
<1> DEFINE young == {x \in E : ~Words!Old(x)}
           From(x) == {y \in young : y.id >= x.id}
           left == Words!Evict(E)
<1>1. left = {x \in young : Cardinality(From(x)) <= Cap}
  BY WordCounts DEF Words!Evict
<1>2. IsFiniteSet(young) /\ young \subseteq E
  BY FS_Subset
<1>3. \A x : From(x) \subseteq young /\ IsFiniteSet(From(x)) /\ Cardinality(From(x)) \in Nat
  BY <1>2, FS_Subset, FS_CardinalityType
<1>4. left \subseteq E /\ left \subseteq young /\ IsFiniteSet(left)
  <2> HIDE DEF young, From, left
  <2>1. left \subseteq young
    BY <1>1
  <2>2. QED
    BY <1>2, <2>1, FS_Subset
<1>5. \A x \in E : x.id \in Nat
  BY DEF Remembered, WordConstants
<1>6. Cardinality(left) <= Cap
  <2>1. CASE left = {}
    BY <2>1, FS_EmptySet DEF WordConstants
  <2>2. CASE left # {}
    <3> DEFINE ids == {x.id : x \in left}
    <3>1. ids \in SUBSET Nat /\ ids # {}
      <4> HIDE DEF left
      <4>1. QED
        BY <1>4, <1>5, <2>2
    <3>2. Levels!Least(ids) \in ids /\ \A k \in ids : Levels!Least(ids) <= k
      <4> HIDE DEF ids
      <4>1. QED
        BY <3>1, LeastIs
    <3>3. PICK x \in left : x.id = Levels!Least(ids)
      BY <3>2
    <3>4. \A y \in left : y.id >= x.id /\ y \in young
      <4>1. \A y \in left : Levels!Least(ids) <= y.id
        BY <3>2
      <4> HIDE DEF left, ids, young
      <4>2. QED
        BY <1>4, <1>5, <3>3, <4>1
    <3>5. left \subseteq From(x)
      <4> HIDE DEF left, ids
      <4>1. QED
        BY <3>4
    <3>6. Cardinality(left) <= Cardinality(From(x)) /\ Cardinality(left) \in Nat
      <4> HIDE DEF left, From, ids
      <4>1. QED
        BY <1>3, <1>4, <3>5, FS_Subset, FS_CardinalityType
    <3>7. Cardinality(From(x)) <= Cap
      <4> HIDE DEF left, From, young, ids
      <4>1. QED
        BY <1>1
    <3> HIDE DEF left, From, ids
    <3>8. QED
      BY <1>3, <3>6, <3>7 DEF WordConstants
  <2>3. QED
    BY <2>1, <2>2
<1>7. ASSUME NEW x \in left, NEW y \in E, x.id < y.id, ~Words!Old(y) PROVE y \in left
  <2>1. x \in young /\ y \in young /\ x \in E
    BY <1>1, <1>4, <1>7
  <2>2. x.id \in Nat /\ y.id \in Nat
    BY <1>5, <2>1
  <2>3. From(y) \subseteq From(x)
    <3>1. ASSUME NEW z \in From(y) PROVE z \in From(x)
      <4>1. z \in young /\ z \in E /\ z.id >= y.id
        OBVIOUS
      <4>2. z.id \in Nat
        BY <1>5, <4>1
      <4>3. z.id >= x.id
        BY <1>7, <2>2, <4>1, <4>2
      <4>4. QED
        BY <4>1, <4>3
    <3>2. QED
      BY <3>1
  <2> HIDE DEF left, young, From
  <2>4. Cardinality(From(y)) <= Cardinality(From(x))
    BY <1>3, <2>3, FS_Subset
  <2>5. Cardinality(From(x)) <= Cap
    BY <1>1
  <2>6. Cardinality(From(y)) <= Cap
    BY <1>3, <2>4, <2>5 DEF WordConstants
  <2>7. QED
    BY <1>1, <2>1, <2>6
<1> HIDE DEF young, From
<1>8. QED
  BY <1>4, <1>6, <1>7

-----------------------------------------------------------------------------
LEMMA InitWords == ASSUME WordConstants, Words!Init PROVE WordsInv
<1>1. /\ hour = 0 /\ edits = 0 /\ live = {} /\ wrote = [m \in Messages |-> [at |-> 0, bot |-> FALSE]]
      /\ texts = [m \in Messages |-> {}] /\ files = {} /\ bucket = {} /\ reported = {}
  BY DEF Words!Init, Words!NotSent
<1>2. WordTypes
  <2>1. [at |-> 0, bot |-> FALSE] \in [at : 0 .. MaxHours, bot : BOOLEAN]
    BY DEF WordConstants
  <2>2. wrote \in [Messages -> [at : 0 .. MaxHours, bot : BOOLEAN]]
    BY <1>1, <2>1
  <2>3. QED
    BY <1>1, <2>2 DEF WordTypes, WordConstants
<1>3. SentInOrder
  <2>1. \A m \in Messages : wrote[m].at = 0 /\ texts[m] = {}
    BY <1>1
  <2>2. QED
    BY <1>1, <2>1 DEF SentInOrder
<1>4. IsFiniteSet(bucket) /\ Cardinality(bucket) <= Cap
  BY <1>1, FS_EmptySet DEF WordConstants
<1>5. NoGap /\ Words!TextsWereWritten /\ \A x \in bucket : Said(x)
  BY <1>1 DEF NoGap, Words!TextsWereWritten
<1>6. QED
  BY <1>2, <1>3, <1>4, <1>5 DEF WordsInv

(* Entries that are too old may go: nobody misses them.                    *)
LEMMA OldMayGo ==
    ASSUME WordConstants, WordsInv, NEW m \in Messages, Words!Looked(m), hour' = hour, wrote' = wrote, files' = files,
           \A k \in Messages : texts[k] \subseteq texts'[k] /\ (texts'[k] = {} => texts[k] = {})
                                /\ (texts[k] = {} => texts'[k] = {})
    PROVE  /\ bucket' \subseteq bucket /\ IsFiniteSet(bucket') /\ Cardinality(bucket') <= Cap
           /\ \A x \in bucket' : Said(x)'
           /\ NoGap'
<1>1. bucket' = {x \in bucket : x.id # m \/ ~Words!Old(x)}
  BY DEF Words!Looked
<1>2. bucket \subseteq Remembered /\ IsFiniteSet(bucket) /\ Cardinality(bucket) <= Cap /\ Cap \in Nat
  BY DEF WordsInv, WordTypes, WordConstants
<1>3. bucket' \subseteq bucket
  BY <1>1
<1>4. IsFiniteSet(bucket') /\ Cardinality(bucket') <= Cap
  <2>1. IsFiniteSet(bucket') /\ Cardinality(bucket') <= Cardinality(bucket)
    BY <1>2, <1>3, FS_Subset
  <2>2. Cardinality(bucket') \in Nat /\ Cardinality(bucket) \in Nat
    BY <1>2, <2>1, FS_CardinalityType
  <2>3. QED
    BY <1>2, <2>1, <2>2
<1>5. \A x \in bucket : x.id \in Messages
  BY <1>2 DEF Remembered
<1>6. \A x \in bucket' : Said(x)'
  BY <1>3, <1>5 DEF WordsInv, Said
<1>7. ASSUME NEW x \in bucket', NEW k \in Messages, x.id < k, Recent(k)' PROVE \E y \in bucket' : y.id = k
  <2>1. Recent(k)
    BY <1>7 DEF Recent
  <2>2. PICK y \in bucket : y.id = k
    BY <1>3, <1>7, <2>1 DEF WordsInv, NoGap
  <2>3. y.cachedAt = wrote[k].at
    BY <2>2 DEF WordsInv, Said
  <2>4. ~Words!Old(y)
    <3>1. hour - y.cachedAt <= 1
      BY <2>1, <2>3 DEF Recent
    <3>2. hour \in Nat /\ y.cachedAt \in Nat
      BY <1>2 DEF WordsInv, WordTypes, Remembered
    <3>3. QED
      BY <3>1, <3>2 DEF Words!Old
  <2>5. QED
    BY <1>1, <2>2, <2>4
<1>8. QED
  BY <1>3, <1>4, <1>6, <1>7 DEF NoGap

(* What was read from the memory is reported truly.                        *)
LEMMA ReportIsTrue ==
    ASSUME WordConstants, WordsInv, NEW m \in Messages, NEW mem \in SUBSET Words!Get(m), NEW withFiles \in BOOLEAN,
           withFiles => \E x \in Words!Get(m) : x.named,
           Words!Report(m, mem, withFiles), wrote' = wrote, files' = files,
           \A k \in Messages : texts[k] \subseteq texts'[k]
    PROVE  /\ reported' \subseteq [of : Messages, content : Texts, age : 0 .. MaxHours, named : BOOLEAN]
           /\ Words!TextsWereWritten'
<1>1. reported' = {[of |-> m, content |-> x.content, age |-> hour - x.cachedAt, named |-> withFiles] : x \in mem}
  BY DEF Words!Report
<1>2. \A x \in Words!Get(m) : x \in bucket /\ x.id = m /\ ~Words!Old(x)
  BY DEF Words!Get, Words!Find
<1>3. \A x \in bucket : x.content \in Texts /\ x.cachedAt \in 0 .. MaxHours /\ x.id \in Messages
  BY DEF WordsInv, WordTypes, Remembered
<1>4. hour \in 0 .. MaxHours
  BY DEF WordsInv, WordTypes
<1> USE DEF WordConstants
<1>5. ASSUME NEW x \in mem
      PROVE  /\ hour - x.cachedAt \in 0 .. MaxHours /\ hour - x.cachedAt <= 1
             /\ x.content \in Texts /\ x.content \in texts[m] /\ ~wrote[m].bot
  <2>1. x \in bucket /\ x.id = m /\ ~Words!Old(x)
    BY <1>2
  <2>2. Said(x) /\ wrote[m].at <= hour
    BY <2>1 DEF WordsInv, SentInOrder
  <2>3. x.cachedAt <= hour /\ x.cachedAt \in 0 .. MaxHours
    BY <1>3, <2>1, <2>2 DEF Said
  <2>4. ~(hour - x.cachedAt > 1)
    BY <2>1 DEF Words!Old
  <2>5. hour - x.cachedAt \in 0 .. MaxHours /\ hour - x.cachedAt <= 1
    BY <1>4, <2>3, <2>4
  <2>6. QED
    BY <1>3, <2>1, <2>2, <2>5 DEF Said
<1>6. withFiles => m \in files
  BY <1>2 DEF WordsInv, Said
<1>7. ASSUME NEW r \in reported'
      PROVE  /\ r \in [of : Messages, content : Texts, age : 0 .. MaxHours, named : BOOLEAN]
             /\ r.content \in texts'[r.of] /\ r.age <= 1 /\ ~wrote'[r.of].bot /\ (r.named => r.of \in files')
  <2>1. PICK x \in mem : r = [of |-> m, content |-> x.content, age |-> hour - x.cachedAt, named |-> withFiles]
    BY <1>1
  <2>2. r.of = m /\ r.content = x.content /\ r.age = hour - x.cachedAt /\ r.named = withFiles
    BY <2>1
  <2>3. r \in [of : Messages, content : Texts, age : 0 .. MaxHours, named : BOOLEAN]
    BY <1>5, <2>1
  <2>4. texts[m] \subseteq texts'[m]
    OBVIOUS
  <2>5. QED
    BY <1>5, <1>6, <2>2, <2>3, <2>4
<1>8. QED
  BY <1>7 DEF Words!TextsWereWritten

LEMMA StepHour == ASSUME WordConstants, WordsInv, Words!Tick PROVE WordsInv'
<1>1. /\ hour < MaxHours /\ hour' = hour + 1 /\ reported' = {}
      /\ UNCHANGED <<edits, live, wrote, texts, files, bucket>>
  BY DEF Words!Tick
<1>2. hour \in 0 .. MaxHours /\ MaxHours \in Nat
  BY DEF WordsInv, WordTypes, WordConstants
<1>3. WordTypes'
  BY <1>1, <1>2 DEF WordsInv, WordTypes
<1>4. \A m \in Messages : wrote[m].at \in 0 .. MaxHours
  BY DEF WordsInv, WordTypes
<1>5. SentInOrder'
  <2>1. \A m \in Messages : wrote[m].at <= hour'
    BY <1>1, <1>2, <1>4 DEF WordsInv, SentInOrder
  <2>2. QED
    BY <1>1, <2>1 DEF WordsInv, SentInOrder
<1>6. \A m \in Messages : Recent(m)' => Recent(m)
  BY <1>1, <1>2, <1>4 DEF Recent
<1>7. NoGap'
  BY <1>1, <1>6 DEF WordsInv, NoGap
<1>8. \A x \in bucket' : Said(x)'
  BY <1>1 DEF WordsInv, Said
<1>9. Words!TextsWereWritten'
  BY <1>1 DEF Words!TextsWereWritten
<1>10. QED
  BY <1>1, <1>3, <1>5, <1>7, <1>8, <1>9 DEF WordsInv

LEMMA StepMessageCreate ==
    ASSUME WordConstants, WordsInv, NEW m \in Messages, NEW content \in Texts, NEW file \in BOOLEAN, NEW bot \in BOOLEAN,
           Words!MessageCreate(m, content, file, bot)
    PROVE  WordsInv'
<1>0. PICK e, was : /\ e = [id |-> m, content |-> content, named |-> file, cachedAt |-> hour]
                    /\ was = [at |-> hour, bot |-> bot]
  OBVIOUS
<1>1. /\ texts[m] = {} /\ \A k \in Messages : k < m => texts[k] # {}
      /\ live' = live \cup {m} /\ texts' = [texts EXCEPT ![m] = {content}]
      /\ wrote' = [wrote EXCEPT ![m] = was]
      /\ files' = (IF file THEN files \cup {m} ELSE files)
      /\ bucket' = (IF bot THEN bucket ELSE Words!Evict(bucket \cup {e}))
      /\ reported' = {} /\ UNCHANGED <<hour, edits>>
  BY <1>0 DEF Words!MessageCreate, Words!Put
<1>2. e.id = m /\ e.content = content /\ e.named = file /\ e.cachedAt = hour /\ was.at = hour /\ was.bot = bot
  BY <1>0
<1>3. /\ hour \in 0 .. MaxHours /\ bucket \subseteq Remembered /\ texts \in [Messages -> SUBSET Texts]
      /\ wrote \in [Messages -> [at : 0 .. MaxHours, bot : BOOLEAN]] /\ files \subseteq Messages
      /\ live \subseteq Messages /\ Messages \subseteq Nat
  BY DEF WordsInv, WordTypes, WordConstants
<1>4. e \in Remembered /\ was \in [at : 0 .. MaxHours, bot : BOOLEAN]
  BY <1>0, <1>3 DEF Remembered
<1>5. \A k \in Messages : /\ k # m => texts'[k] = texts[k] /\ wrote'[k] = wrote[k]
                          /\ k = m => texts'[k] = {content} /\ wrote'[k] = was
  BY <1>1, <1>3
<1>6. \A k \in Messages : k > m => texts[k] = {}
  BY <1>1, <1>3 DEF WordsInv, SentInOrder
<1>7. SentInOrder'
  <2>1. \A k \in Messages : wrote'[k].at <= hour'
    BY <1>1, <1>2, <1>3, <1>5 DEF WordsInv, SentInOrder
  <2>2. ASSUME NEW k \in Messages, NEW j \in Messages, k < j, texts'[j] # {}
        PROVE  texts'[k] # {} /\ wrote'[k].at <= wrote'[j].at
    <3>1. CASE j = m
      <4>1. k # m /\ texts'[k] = texts[k] /\ wrote'[k] = wrote[k] /\ wrote'[j].at = hour
        BY <1>2, <1>3, <1>5, <2>2, <3>1
      <4>2. wrote[k].at <= hour /\ texts[k] # {}
        BY <1>1, <2>2, <3>1 DEF WordsInv, SentInOrder
      <4>3. QED
        BY <4>1, <4>2
    <3>2. CASE j # m
      <4>1. texts[j] # {} /\ wrote'[j] = wrote[j]
        BY <1>5, <2>2, <3>2
      <4>2. k # m
        BY <1>6, <2>2, <4>1
      <4>3. QED
        BY <1>5, <2>2, <4>1, <4>2 DEF WordsInv, SentInOrder
    <3>3. QED
      BY <3>1, <3>2
  <2>3. \A k \in live' : texts'[k] # {}
    BY <1>1, <1>3, <1>5 DEF WordsInv, SentInOrder
  <2>4. QED
    BY <2>1, <2>2, <2>3 DEF SentInOrder
<1>8. \A x \in bucket : x.id \in Messages /\ x.id # m /\ x.id < m /\ Said(x) /\ Said(x)'
  <2>1. ASSUME NEW x \in bucket PROVE x.id \in Messages /\ x.id # m /\ x.id < m /\ Said(x)
    <3>1. x.id \in Messages /\ Said(x)
      BY <1>3 DEF WordsInv, Remembered
    <3>2. texts[x.id] # {}
      BY <3>1 DEF Said
    <3>3. x.id # m /\ ~(x.id > m) /\ x.id \in Nat /\ m \in Nat
      BY <1>1, <1>3, <1>6, <3>1, <3>2
    <3>4. QED
      BY <3>1, <3>3
  <2>2. ASSUME NEW x \in bucket PROVE Said(x)'
    BY <1>1, <1>5, <2>1 DEF Said
  <2>3. QED
    BY <2>1, <2>2
<1>9. ~bot => Said(e)'
  BY <1>1, <1>2, <1>5 DEF Said
<1>10. IsFiniteSet(bucket \cup {e}) /\ bucket \cup {e} \in SUBSET Remembered
  BY <1>3, <1>4, FS_AddElement DEF WordsInv
<1>11. /\ bucket' \subseteq bucket \cup {e} /\ IsFiniteSet(bucket') /\ Cardinality(bucket') <= Cap
       /\ bot => bucket' = bucket
  BY <1>1, <1>10, EvictFits DEF WordsInv
<1>12. \A x \in bucket' : Said(x)'
  BY <1>8, <1>9, <1>11
<1>13. ASSUME NEW x \in bucket', NEW k \in Messages, x.id < k, Recent(k)' PROVE \E y \in bucket' : y.id = k
  <2>1. x \in bucket
    <3>1. CASE x = e
      <4>1. k > m /\ k # m
        BY <1>2, <1>3, <1>13, <3>1
      <4>2. texts'[k] = {}
        BY <1>5, <1>6, <4>1
      <4>3. QED
        BY <1>13, <4>2 DEF Recent
    <3>2. QED
      BY <1>11, <3>1
  <2>2. CASE k = m
    <3>1. ~bot
      BY <1>2, <1>5, <1>13, <2>2 DEF Recent
    <3>2. ~Words!Old(e)
      BY <1>2, <1>3 DEF Words!Old
    <3>3. e \in bucket'
      BY <1>1, <1>2, <1>10, <1>13, <2>2, <3>1, <3>2, EvictFits
    <3>4. QED
      BY <1>2, <2>2, <3>3
  <2>3. CASE k # m
    <3>1. Recent(k)
      BY <1>1, <1>5, <1>13, <2>3 DEF Recent
    <3>2. PICK y \in bucket : y.id = k
      BY <1>13, <2>1, <3>1 DEF WordsInv, NoGap
    <3>3. ~Words!Old(y)
      <4>1. y.cachedAt = wrote[k].at
        BY <1>8, <3>2 DEF Said
      <4>2. hour - y.cachedAt <= 1 /\ hour \in Nat /\ y.cachedAt \in Nat
        BY <1>3, <3>1, <4>1 DEF Recent, Remembered
      <4>3. QED
        BY <4>2 DEF Words!Old
    <3>4. y \in bucket'
      <4>1. CASE bot
        BY <1>11, <4>1
      <4>2. CASE ~bot
        BY <1>1, <1>10, <1>13, <3>2, <3>3, <4>2, EvictFits
      <4>3. QED
        BY <4>1, <4>2
    <3>5. QED
      BY <3>2, <3>4
  <2>4. QED
    BY <2>2, <2>3
<1>14. WordTypes'
  <2>1. bucket' \subseteq Remembered
    BY <1>10, <1>11
  <2>2. wrote' \in [Messages -> [at : 0 .. MaxHours, bot : BOOLEAN]] /\ texts' \in [Messages -> SUBSET Texts]
    BY <1>1, <1>3, <1>4
  <2>3. files' \subseteq Messages /\ live' \subseteq Messages
    BY <1>1, <1>3
  <2>4. QED
    BY <1>1, <2>1, <2>2, <2>3 DEF WordsInv, WordTypes
<1>15. NoGap' /\ Words!TextsWereWritten'
  BY <1>1, <1>13 DEF NoGap, Words!TextsWereWritten
<1>16. QED
  BY <1>7, <1>11, <1>12, <1>14, <1>15 DEF WordsInv

LEMMA StepMessageUpdate ==
    ASSUME WordConstants, WordsInv, NEW m \in Messages, NEW content \in Texts, Words!MessageUpdate(m, content)
    PROVE  WordsInv'
<1>1. /\ m \in live /\ edits < MaxEdits /\ edits' = edits + 1
      /\ texts' = [texts EXCEPT ![m] = texts[m] \cup {content}]
      /\ Words!Report(m, {x \in Words!Get(m) : x.content # content}, FALSE)
      /\ Words!Looked(m) /\ UNCHANGED <<hour, live, wrote, files>>
  BY DEF Words!MessageUpdate
<1>2. texts \in [Messages -> SUBSET Texts] /\ edits \in 0 .. MaxEdits
  BY DEF WordsInv, WordTypes
<1>3. texts[m] # {}
  BY <1>1 DEF WordsInv, SentInOrder
<1>4. \A k \in Messages : /\ texts[k] \subseteq texts'[k] /\ (texts'[k] = {} => texts[k] = {})
                          /\ (texts[k] = {} => texts'[k] = {})
  BY <1>1, <1>2, <1>3
<1>5. /\ bucket' \subseteq bucket /\ IsFiniteSet(bucket') /\ Cardinality(bucket') <= Cap
      /\ (\A x \in bucket' : Said(x)') /\ NoGap'
  BY <1>1, <1>4, OldMayGo
<1>6. /\ reported' \subseteq [of : Messages, content : Texts, age : 0 .. MaxHours, named : BOOLEAN]
      /\ Words!TextsWereWritten'
  <2> DEFINE mem == {x \in Words!Get(m) : x.content # content}
  <2>1. mem \in SUBSET Words!Get(m) /\ Words!Report(m, mem, FALSE)
    BY <1>1
  <2> HIDE DEF mem
  <2>2. QED
    BY <1>1, <1>4, <2>1, ReportIsTrue
<1>7. SentInOrder'
  BY <1>1, <1>4 DEF WordsInv, WordTypes, SentInOrder
<1>8. texts' \in [Messages -> SUBSET Texts]
  BY <1>1, <1>2
<1>9. edits' \in 0 .. MaxEdits
  BY <1>1, <1>2 DEF WordConstants
<1>10. WordTypes'
  BY <1>1, <1>5, <1>6, <1>8, <1>9 DEF WordsInv, WordTypes
<1>11. QED
  BY <1>5, <1>6, <1>7, <1>10 DEF WordsInv

LEMMA StepMessageDelete ==
    ASSUME WordConstants, WordsInv, NEW m \in Messages, Words!MessageDelete(m)
    PROVE  WordsInv'
<1>1. /\ live' = live \ {m} /\ Words!Looked(m)
      /\ Words!Report(m, Words!Get(m), \E x \in Words!Get(m) : x.named)
      /\ UNCHANGED <<hour, edits, wrote, texts, files>>
  BY DEF Words!MessageDelete
<1>2. /\ bucket' \subseteq bucket /\ IsFiniteSet(bucket') /\ Cardinality(bucket') <= Cap
      /\ (\A x \in bucket' : Said(x)') /\ NoGap'
  BY <1>1, OldMayGo
<1>3. PICK withFiles \in BOOLEAN : /\ withFiles = (\E x \in Words!Get(m) : x.named)
                                   /\ Words!Report(m, Words!Get(m), withFiles)
  BY <1>1
<1>4. /\ reported' \subseteq [of : Messages, content : Texts, age : 0 .. MaxHours, named : BOOLEAN]
      /\ Words!TextsWereWritten'
  BY <1>1, <1>3, ReportIsTrue
<1>5. SentInOrder'
  BY <1>1 DEF WordsInv, WordTypes, SentInOrder
<1>6. WordTypes'
  BY <1>1, <1>2, <1>4 DEF WordsInv, WordTypes
<1>7. QED
  BY <1>2, <1>4, <1>5, <1>6 DEF WordsInv

LEMMA StepMessageBulkDelete ==
    ASSUME WordConstants, WordsInv, NEW those \in SUBSET Messages, Words!MessageBulkDelete(those)
    PROVE  WordsInv'
<1>1. live' = live \ those /\ reported' = {} /\ UNCHANGED <<hour, edits, wrote, texts, files, bucket>>
  BY DEF Words!MessageBulkDelete
<1>2. WordTypes' /\ SentInOrder'
  BY <1>1 DEF WordsInv, WordTypes, SentInOrder
<1>3. NoGap' /\ Words!TextsWereWritten' /\ \A x \in bucket' : Said(x)'
  BY <1>1 DEF WordsInv, NoGap, Recent, Said, Words!TextsWereWritten
<1>4. QED
  BY <1>1, <1>2, <1>3 DEF WordsInv

LEMMA NextWords == ASSUME WordConstants PROVE WordsInv /\ [Words!Next]_Words!vars => WordsInv'
<1> SUFFICES ASSUME WordsInv, [Words!Next]_Words!vars PROVE WordsInv'
  OBVIOUS
<1>1. CASE UNCHANGED Words!vars
  BY <1>1 DEF Words!vars, WordsInv, WordTypes, SentInOrder, NoGap, Recent, Said, Words!TextsWereWritten
<1>2. QED
  BY <1>1, StepHour, StepMessageCreate, StepMessageUpdate, StepMessageDelete, StepMessageBulkDelete DEF Words!Next

LEMMA WordsAre == ASSUME WordConstants, WordsInv PROVE Words!MessagesAreTrue
<1>1. ASSUME NEW m \in Messages, NEW x \in bucket,
             texts[m] # {} /\ ~wrote[m].bot /\ wrote[m].at > x.cachedAt /\ hour - wrote[m].at <= 1
      PROVE  Words!Find(m) # {}
  <2>1. x.id \in Messages /\ x.cachedAt = wrote[x.id].at /\ texts[x.id] # {}
    BY DEF WordsInv, WordTypes, Remembered, Said
  <2>2. wrote[m].at \in Nat /\ wrote[x.id].at \in Nat /\ m \in Nat /\ x.id \in Nat
    <3>1. \A k \in Messages : k \in Nat /\ wrote[k].at \in Nat
      BY DEF WordsInv, WordTypes, WordConstants
    <3>2. QED
      BY <2>1, <3>1
  <2>3. x.id < m
    <3>1. ~(wrote[m].at <= wrote[x.id].at)
      BY <1>1, <2>1, <2>2
    <3>2. ~(m < x.id) /\ m # x.id
      BY <2>1, <2>2, <3>1 DEF WordsInv, SentInOrder
    <3>3. QED
      BY <2>2, <3>2
  <2>4. PICK y \in bucket : y.id = m
    BY <1>1, <2>3 DEF WordsInv, NoGap, Recent
  <2>5. QED
    BY <2>4 DEF Words!Find
<1>2. Words!Cardinality(bucket) <= Cap
  BY WordCounts DEF WordsInv
<1>3. QED
  BY <1>1, <1>2 DEF WordsInv, Words!MessagesAreTrue, Words!LastOnesAreKept

LEMMA WordSteps == [GuildNext]_all => [Words!Next]_Words!vars
BY DEF GuildNext, all, books, words, Words!vars

(* Whatever order the audit log answers in: with no lookup under way the   *)
(* entries of a member's rooms lead to the room the member is in, and those *)
(* of the flags to the flags.  Whatever fetches overlap or are refused: who *)
(* reads the log knows the set, unless an older answer or a refusal came    *)
(* last.  A text in the log was a text of that message, and the memory      *)
(* holds the last messages of people (bot/lib/discord.ts;                   *)
(* logging/derived-state.ts; logging/message-cache.ts).                     *)
THEOREM TheLogAddsUp ==
    ASSUME VoiceConstants, SetConstants, WordConstants PROVE GuildSpec => []LogAddsUp
<1>1. GuildInit => VoiceInv /\ SetsInv /\ WordsInv
  BY InitVoice, InitSets, InitWords DEF GuildInit
<1>2. VoiceInv /\ [Voice!Next]_Voice!vars => VoiceInv'
  BY NextVoice
<1>3. SetsInv /\ [Sets!Next]_Sets!vars => SetsInv'
  BY NextSets
<1>4. WordsInv /\ [Words!Next]_Words!vars => WordsInv'
  BY NextWords
<1>5. VoiceInv /\ SetsInv /\ WordsInv => LogAddsUp
  BY VoiceIs, SetsIs, WordsAre DEF LogAddsUp
<1>6. QED
  BY <1>1, <1>2, <1>3, <1>4, <1>5, VoiceSteps, SetSteps, WordSteps, PTL DEF GuildSpec

-----------------------------------------------------------------------------
(* Who did it.                                                             *)

DoerConstants ==
    /\ Events \subseteq Nat /\ Seconds \in Nat
    /\ Nobody \notin Mods /\ Unknown \notin Mods /\ Pending \notin Mods /\ Nobody \notin Deeds

Deed == [kind : Deeds, on : Targets, by : Mods \cup {Nobody}]

DoerTypes ==
    /\ second \in 0 .. Seconds
    /\ happened \in [Events -> Deed \cup {Doers!NotYet}]
    /\ stage \in [Events -> {"none", "due", "asking", "ended"}]
    /\ auditLog \in Seq(Events)
    /\ asked \in [Events -> 0 .. Seconds]
    /\ kept \in [Doers!Keys -> [actor : Mods \cup {Unknown}, until : Nat]]
    /\ named \in [Events -> Mods \cup {Nobody, Unknown, Pending}]

Known(e) == happened[e] \in Deed

(* Somebody did to the target what an entry about e may be about.          *)
DoneBy(key, actor) == \E f \in Events : Known(f) /\ Doers!Key(f) = key /\ happened[f].by = actor

DoerInv ==
    /\ DoerTypes
    /\ \A e \in Events : stage[e] = "none" <=> happened[e] = Doers!NotYet
    /\ \A i, j \in 1 .. Len(auditLog) : auditLog[i] = auditLog[j] => i = j
    /\ \A i \in 1 .. Len(auditLog) : Known(auditLog[i]) /\ happened[auditLog[i]].by \in Mods
    /\ \A k \in Doers!Keys : kept[k].actor \in Mods => DoneBy(k, kept[k].actor)
    /\ \A e \in Events : named[e] \in Mods => Known(e) /\ DoneBy(Doers!Key(e), named[e])

-----------------------------------------------------------------------------
LEMMA InitDoers == ASSUME DoerConstants, Doers!Init PROVE DoerInv
<1>1. /\ second = 0 /\ auditLog = <<>> /\ happened = [e \in Events |-> Doers!NotYet]
      /\ stage = [e \in Events |-> "none"] /\ asked = [e \in Events |-> 0]
      /\ kept = [k \in Doers!Keys |-> [actor |-> Unknown, until |-> 0]]
      /\ named = [e \in Events |-> Pending]
  BY DEF Doers!Init
<1>2. kept \in [Doers!Keys -> [actor : Mods \cup {Unknown}, until : Nat]] /\ \A k \in Doers!Keys : kept[k].actor = Unknown
  <2>1. [actor |-> Unknown, until |-> 0] \in [actor : Mods \cup {Unknown}, until : Nat]
    OBVIOUS
  <2>2. QED
    BY <1>1, <2>1
<1>3. DoerTypes
  <2>1. auditLog \in Seq(Events)
    BY <1>1
  <2>2. asked \in [Events -> 0 .. Seconds] /\ second \in 0 .. Seconds
    BY <1>1 DEF DoerConstants
  <2>3. QED
    BY <1>1, <1>2, <2>1, <2>2 DEF DoerTypes
<1>4. Len(auditLog) = 0
  BY <1>1
<1>5. QED
  BY <1>1, <1>2, <1>3, <1>4 DEF DoerInv, DoerConstants

LEMMA KnownIs ==
    ASSUME DoerConstants, DoerInv, NEW e \in Events
    PROVE  /\ Known(e) <=> stage[e] # "none"
           /\ Known(e) <=> happened[e] # Doers!NotYet
           /\ Known(e) => Doers!Key(e) \in Doers!Keys
<1>1. Doers!NotYet \notin Deed
  BY DEF DoerConstants, Doers!NotYet, Deed
<1>2. happened[e] \in Deed \cup {Doers!NotYet} /\ (stage[e] = "none" <=> happened[e] = Doers!NotYet)
  BY DEF DoerInv, DoerTypes
<1>3. Known(e) => happened[e].kind \in Deeds /\ happened[e].on \in Targets
  BY DEF Known, Deed
<1>4. Doers!Key(e) = <<Doers!LookupOf(happened[e].kind).type, happened[e].on>>
  BY DEF Doers!Key, Doers!Asks
<1>5. Known(e) => Doers!Key(e) \in Doers!Keys
  BY <1>3, <1>4 DEF Doers!Keys
<1>6. QED
  BY <1>1, <1>2, <1>5 DEF Known

(* What happened later takes no deed back.                                 *)
LEMMA DeedsStay ==
    ASSUME NEW key, NEW actor, DoneBy(key, actor), \A f \in Events : Known(f) => happened'[f] = happened[f]
    PROVE  DoneBy(key, actor)'
<1>1. PICK f \in Events : Known(f) /\ Doers!Key(f) = key /\ happened[f].by = actor
  BY DEF DoneBy
<1>2. happened'[f] = happened[f]
  BY <1>1
<1>3. Known(f)' /\ Doers!Key(f)' = key /\ happened'[f].by = actor
  BY <1>1, <1>2 DEF Known, Doers!Key, Doers!Asks
<1>4. QED
  BY <1>3 DEF DoneBy

(* The newest entry that matches is an entry that matches: of one who did  *)
(* it.                                                                     *)
LEMMA MatchDidIt ==
    ASSUME DoerConstants, DoerInv, NEW e \in Events
    PROVE  /\ Doers!Match(e) \in Mods \cup {Unknown}
           /\ Doers!Match(e) \in Mods => DoneBy(Doers!Key(e), Doers!Match(e))
<1> DEFINE places == Doers!Matches(e)
           least == CHOOSE i \in places : \A j \in places : i <= j
<1>1. CASE places = {}
  BY <1>1 DEF Doers!Match, DoerConstants
<1>2. CASE places # {}
  <2>1. \A i \in places : /\ i \in 1 .. Len(auditLog) /\ i \in Nat
                          /\ Doers!Asks(auditLog[i]).type = Doers!Asks(e).type
                          /\ happened[auditLog[i]].on = happened[e].on
    BY DEF Doers!Matches, Doers!Page, Doers!OfType, DoerInv, DoerTypes
  <2>2. places \in SUBSET Nat
    BY <2>1
  <2>3. Levels!Least(places) \in places /\ \A j \in places : Levels!Least(places) <= j
    <3> HIDE DEF places
    <3>1. QED
      BY <1>2, <2>2, LeastIs
  <2>4. least \in places
    <3> HIDE DEF places
    <3>1. QED
      BY <2>3
  <2>5. Doers!Match(e) = happened[auditLog[least]].by
    BY <1>2 DEF Doers!Match, Doers!Newest
  <2> HIDE DEF least, places
  <2>6. PICK f : f = auditLog[least]
    OBVIOUS
  <2>7. f \in Events /\ Known(f) /\ happened[f].by \in Mods
    <3>1. \A i \in 1 .. Len(auditLog) : auditLog[i] \in Events
      BY DEF DoerInv, DoerTypes
    <3>2. QED
      BY <2>1, <2>4, <2>6, <3>1 DEF DoerInv
  <2>8. Doers!Key(f) = Doers!Key(e)
    BY <2>1, <2>4, <2>6 DEF Doers!Key
  <2>9. Doers!Match(e) = happened[f].by
    BY <2>5, <2>6
  <2>10. QED
    BY <2>7, <2>8, <2>9 DEF DoneBy
<1>3. QED
  BY <1>1, <1>2

(* A handler that ends names who did it, or nobody.                        *)
LEMMA HandlerEnds ==
    ASSUME DoerConstants, DoerInv, NEW e \in Events, stage[e] # "none", NEW actor \in Mods \cup {Unknown},
           actor \in Mods => DoneBy(Doers!Key(e), actor), Doers!Emits(e, actor),
           UNCHANGED <<happened, auditLog>>
    PROVE  /\ stage' \in [Events -> {"none", "due", "asking", "ended"}]
           /\ named' \in [Events -> Mods \cup {Nobody, Unknown, Pending}]
           /\ \A f \in Events : stage'[f] = "none" <=> happened'[f] = Doers!NotYet
           /\ \A f \in Events : named'[f] \in Mods => Known(f)' /\ DoneBy(Doers!Key(f), named[f])'
<1> DEFINE says == IF actor = Unknown /\ happened[e].kind \in {"kick", "disconnect", "move"} THEN Nobody ELSE actor
<1>1. stage' = [stage EXCEPT ![e] = "ended"] /\ named' = [named EXCEPT ![e] = says]
  BY DEF Doers!Emits
<1>2. says \in Mods \cup {Nobody, Unknown} /\ (says \in Mods => says = actor)
  BY DEF DoerConstants
<1> HIDE DEF says
<1>3. stage \in [Events -> {"none", "due", "asking", "ended"}] /\ named \in [Events -> Mods \cup {Nobody, Unknown, Pending}]
  BY DEF DoerInv, DoerTypes
<1>4. stage' \in [Events -> {"none", "due", "asking", "ended"}]
  BY <1>1, <1>3
<1>5. named' \in [Events -> Mods \cup {Nobody, Unknown, Pending}]
  BY <1>1, <1>2, <1>3
<1>6. \A f \in Events : stage'[f] = "none" <=> happened'[f] = Doers!NotYet
  <2>1. \A f \in Events : stage'[f] = "none" <=> stage[f] = "none"
    BY <1>1, <1>3
  <2>2. QED
    BY <2>1 DEF DoerInv
<1>7. \A f : Known(f)' = Known(f) /\ Doers!Key(f)' = Doers!Key(f)
  BY DEF Known, Doers!Key, Doers!Asks
<1>8. ASSUME NEW f \in Events, named'[f] \in Mods PROVE Known(f)' /\ DoneBy(Doers!Key(f), named[f])'
  <2>1. CASE f = e
    <3>1. named'[f] = actor /\ actor \in Mods
      BY <1>1, <1>2, <1>3, <1>8, <2>1
    <3>2. DoneBy(Doers!Key(e), actor) /\ Known(e)
      BY <3>1, KnownIs
    <3>3. PICK g \in Events : Known(g) /\ Doers!Key(g) = Doers!Key(e) /\ happened[g].by = actor
      BY <3>2 DEF DoneBy
    <3>4. Known(g)' /\ Doers!Key(g)' = Doers!Key(f)' /\ happened'[g].by = named'[f]
      BY <1>7, <2>1, <3>1, <3>3
    <3>5. QED
      BY <1>7, <2>1, <3>2, <3>4 DEF DoneBy
  <2>2. CASE f # e
    <3>1. named'[f] = named[f] /\ named[f] \in Mods
      BY <1>1, <1>3, <1>8, <2>2
    <3>2. Known(f) /\ DoneBy(Doers!Key(f), named[f])
      BY <3>1 DEF DoerInv
    <3>3. PICK g \in Events : Known(g) /\ Doers!Key(g) = Doers!Key(f) /\ happened[g].by = named[f]
      BY <3>2 DEF DoneBy
    <3>4. Known(g)' /\ Doers!Key(g)' = Doers!Key(f)' /\ happened'[g].by = named'[f]
      BY <1>7, <3>1, <3>3
    <3>5. QED
      BY <1>7, <3>2, <3>4 DEF DoneBy
  <2>3. QED
    BY <2>1, <2>2
<1>9. QED
  BY <1>4, <1>5, <1>6, <1>8

LEMMA StepHappens ==
    ASSUME DoerConstants, DoerInv, NEW e \in Events, NEW kind \in Deeds, NEW on \in Targets, NEW by \in Mods \cup {Nobody},
           Doers!Happens(e, kind, on, by)
    PROVE  DoerInv'
<1>0. PICK deed : deed = [kind |-> kind, on |-> on, by |-> by]
  OBVIOUS
<1>1. /\ stage[e] = "none" /\ happened' = [happened EXCEPT ![e] = deed]
      /\ stage' = [stage EXCEPT ![e] = "due"] /\ UNCHANGED <<second, auditLog, asked, kept, named>>
  BY <1>0 DEF Doers!Happens
<1>2. deed \in Deed
  BY <1>0 DEF Deed
<1>3. happened \in [Events -> Deed \cup {Doers!NotYet}] /\ stage \in [Events -> {"none", "due", "asking", "ended"}]
  BY DEF DoerInv, DoerTypes
<1>4. happened' \in [Events -> Deed \cup {Doers!NotYet}]
  BY <1>1, <1>2, <1>3
<1>5. DoerTypes'
  <2>1. stage' \in [Events -> {"none", "due", "asking", "ended"}]
    BY <1>1, <1>3
  <2>2. QED
    BY <1>1, <1>4, <2>1 DEF DoerInv, DoerTypes
<1>6. \A f \in Events : Known(f) => happened'[f] = happened[f] /\ Known(f)' /\ Doers!Key(f)' = Doers!Key(f)
  <2>1. ~Known(e)
    BY <1>1, KnownIs
  <2>2. \A f \in Events : Known(f) => happened'[f] = happened[f]
    BY <1>1, <1>3, <2>1
  <2>3. QED
    BY <2>2 DEF Known, Doers!Key, Doers!Asks
<1>7. Doers!NotYet \notin Deed
  BY DEF DoerConstants, Doers!NotYet, Deed
<1>8. \A f \in Events : stage'[f] = "none" <=> happened'[f] = Doers!NotYet
  BY <1>1, <1>2, <1>3, <1>7 DEF DoerInv
<1>9. \A i \in 1 .. Len(auditLog) : auditLog[i] \in Events
  BY DEF DoerInv, DoerTypes
<1>10. \A i \in 1 .. Len(auditLog') : Known(auditLog[i])' /\ happened'[auditLog'[i]].by \in Mods
  <2>1. ASSUME NEW i \in 1 .. Len(auditLog) PROVE Known(auditLog[i])' /\ happened'[auditLog[i]].by \in Mods
    <3>1. Known(auditLog[i]) /\ happened[auditLog[i]].by \in Mods /\ auditLog[i] \in Events
      BY <1>9 DEF DoerInv
    <3>2. happened'[auditLog[i]] = happened[auditLog[i]]
      BY <1>6, <3>1
    <3>3. QED
      BY <1>1, <3>1, <3>2 DEF Known
  <2>2. QED
    BY <1>1, <2>1
<1>11. \A k \in Doers!Keys : kept'[k].actor \in Mods => DoneBy(k, kept[k].actor)'
  <2>1. ASSUME NEW k \in Doers!Keys, kept[k].actor \in Mods PROVE DoneBy(k, kept[k].actor)'
    <3>1. PICK actor : actor = kept[k].actor
      OBVIOUS
    <3>2. PICK f \in Events : Known(f) /\ Doers!Key(f) = k /\ happened[f].by = actor
      BY <2>1, <3>1 DEF DoerInv, DoneBy
    <3>3. Known(f)' /\ Doers!Key(f)' = k /\ happened'[f].by = actor
      BY <1>6, <3>2
    <3>4. kept' = kept
      BY <1>1
    <3>5. QED
      BY <3>1, <3>3, <3>4 DEF DoneBy
  <2>2. QED
    BY <1>1, <2>1
<1>12. \A f \in Events : named'[f] \in Mods => Known(f)' /\ DoneBy(Doers!Key(f), named[f])'
  <2>1. ASSUME NEW f \in Events, named[f] \in Mods PROVE Known(f)' /\ DoneBy(Doers!Key(f), named[f])'
    <3>1. PICK g \in Events : Known(f) /\ Known(g) /\ Doers!Key(g) = Doers!Key(f) /\ happened[g].by = named[f]
      BY <2>1 DEF DoerInv, DoneBy
    <3>2. Known(f)' /\ Known(g)' /\ Doers!Key(g)' = Doers!Key(f)' /\ happened'[g].by = named'[f]
      BY <1>1, <1>6, <3>1
    <3>3. QED
      BY <3>2 DEF DoneBy
  <2>2. QED
    BY <1>1, <2>1
<1>13. \A i, j \in 1 .. Len(auditLog') : auditLog'[i] = auditLog'[j] => i = j
  BY <1>1 DEF DoerInv
<1>14. QED
  BY <1>5, <1>8, <1>10, <1>11, <1>12, <1>13 DEF DoerInv

LEMMA StepEnter == ASSUME DoerConstants, DoerInv, NEW e \in Events, Doers!Enter(e) PROVE DoerInv'
<1>1. /\ happened[e].by \in Mods /\ (\A i \in DOMAIN auditLog : auditLog[i] # e)
      /\ auditLog' = <<e>> \o auditLog /\ UNCHANGED <<second, happened, stage, asked, kept, named>>
  BY DEF Doers!Enter, Doers!Entered
<1>2. auditLog \in Seq(Events)
  BY DEF DoerInv, DoerTypes
<1>3. /\ auditLog' \in Seq(Events) /\ Len(auditLog') = Len(auditLog) + 1 /\ Len(auditLog) \in Nat
      /\ \A i \in 1 .. Len(auditLog') : auditLog'[i] = IF i = 1 THEN e ELSE auditLog[i - 1]
      /\ DOMAIN auditLog = 1 .. Len(auditLog)
  <2>1. <<e>> \in Seq(Events) /\ Len(<<e>>) = 1 /\ <<e>>[1] = e
    OBVIOUS
  <2>2. QED
    BY <1>1, <1>2, <2>1
<1>4. Known(e)
  <2>1. happened[e] # Doers!NotYet
    BY <1>1 DEF Doers!NotYet, DoerConstants
  <2>2. QED
    BY <2>1, KnownIs
<1>5. \A i, j \in 1 .. Len(auditLog') : auditLog'[i] = auditLog'[j] => i = j
  <2>1. \A i \in 1 .. Len(auditLog') : i = 1 \/ i - 1 \in 1 .. Len(auditLog)
    BY <1>3
  <2>2. ASSUME NEW i \in 1 .. Len(auditLog'), NEW j \in 1 .. Len(auditLog'), auditLog'[i] = auditLog'[j] PROVE i = j
    <3>1. i = 1 <=> j = 1
      BY <1>1, <1>3, <2>1, <2>2
    <3>2. CASE i # 1 /\ j # 1
      <4>1. i - 1 = j - 1
        BY <1>3, <2>1, <2>2, <3>2 DEF DoerInv
      <4>2. QED
        BY <4>1
    <3>3. QED
      BY <3>1, <3>2
  <2>3. QED
    BY <2>2
<1>6. \A i \in 1 .. Len(auditLog') : Known(auditLog'[i]) /\ happened[auditLog'[i]].by \in Mods
  <2>1. \A i \in 1 .. Len(auditLog') : i = 1 \/ i - 1 \in 1 .. Len(auditLog)
    BY <1>3
  <2>2. QED
    BY <1>1, <1>3, <1>4, <2>1 DEF DoerInv
<1>7. \A f : Known(f)' = Known(f) /\ Doers!Key(f)' = Doers!Key(f)
  BY <1>1 DEF Known, Doers!Key, Doers!Asks
<1>8. \A k, actor : DoneBy(k, actor)' = DoneBy(k, actor)
  BY <1>1, <1>7 DEF DoneBy
<1>9. DoerTypes'
  BY <1>1, <1>3 DEF DoerInv, DoerTypes
<1>10. \A i \in 1 .. Len(auditLog') : Known(auditLog[i])' /\ happened'[auditLog'[i]].by \in Mods
  BY <1>1, <1>6 DEF Known
<1>11. \A k \in Doers!Keys : kept'[k].actor \in Mods => DoneBy(k, kept[k].actor)'
  BY <1>1 DEF DoerInv, DoneBy, Known, Doers!Key, Doers!Asks
<1>12. \A f \in Events : named'[f] \in Mods => Known(f)' /\ DoneBy(Doers!Key(f), named[f])'
  BY <1>1 DEF DoerInv, DoneBy, Known, Doers!Key, Doers!Asks
<1>13. \A f \in Events : stage'[f] = "none" <=> happened'[f] = Doers!NotYet
  BY <1>1 DEF DoerInv
<1>14. QED
  BY <1>5, <1>9, <1>10, <1>11, <1>12, <1>13 DEF DoerInv

LEMMA StepDeliver == ASSUME DoerConstants, DoerInv, NEW e \in Events, Doers!Deliver(e) PROVE DoerInv'
<1>1. stage[e] = "due" /\ UNCHANGED <<second, happened, auditLog, kept>>
  BY DEF Doers!Deliver
<1>2. Known(e) /\ Doers!Key(e) \in Doers!Keys
  BY <1>1, KnownIs
<1>3. \A k \in Doers!Keys : kept'[k].actor \in Mods => DoneBy(k, kept[k].actor)'
  BY <1>1 DEF DoerInv, DoneBy, Known, Doers!Key, Doers!Asks
<1>4. /\ \A i, j \in 1 .. Len(auditLog') : auditLog'[i] = auditLog'[j] => i = j
      /\ \A i \in 1 .. Len(auditLog') : Known(auditLog[i])' /\ happened'[auditLog'[i]].by \in Mods
  BY <1>1 DEF DoerInv, Known
<1>5. CASE Doers!Fresh(e)
  <2>1. Doers!Emits(e, kept[Doers!Key(e)].actor) /\ asked' = asked
    BY <1>5 DEF Doers!Deliver
  <2>2. PICK actor : actor = kept[Doers!Key(e)].actor
    OBVIOUS
  <2>3. actor \in Mods \cup {Unknown} /\ (actor \in Mods => DoneBy(Doers!Key(e), actor))
    BY <1>2, <2>2 DEF DoerInv, DoerTypes
  <2>4. /\ stage' \in [Events -> {"none", "due", "asking", "ended"}]
        /\ named' \in [Events -> Mods \cup {Nobody, Unknown, Pending}]
        /\ \A f \in Events : stage'[f] = "none" <=> happened'[f] = Doers!NotYet
        /\ \A f \in Events : named'[f] \in Mods => Known(f)' /\ DoneBy(Doers!Key(f), named[f])'
    BY <1>1, <2>1, <2>2, <2>3, HandlerEnds
  <2>5. DoerTypes'
    BY <1>1, <2>1, <2>4 DEF DoerInv, DoerTypes
  <2>6. QED
    BY <1>3, <1>4, <2>4, <2>5 DEF DoerInv
<1>6. CASE ~Doers!Fresh(e)
  <2>1. /\ stage' = [stage EXCEPT ![e] = "asking"] /\ asked' = [asked EXCEPT ![e] = second] /\ named' = named
    BY <1>6 DEF Doers!Deliver
  <2>2. /\ stage \in [Events -> {"none", "due", "asking", "ended"}] /\ asked \in [Events -> 0 .. Seconds]
        /\ second \in 0 .. Seconds
    BY DEF DoerInv, DoerTypes
  <2>3. stage' \in [Events -> {"none", "due", "asking", "ended"}] /\ asked' \in [Events -> 0 .. Seconds]
    BY <2>1, <2>2
  <2>4. \A f \in Events : stage'[f] = "none" <=> happened'[f] = Doers!NotYet
    BY <1>1, <2>1, <2>2 DEF DoerInv
  <2>5. \A f \in Events : named'[f] \in Mods => Known(f)' /\ DoneBy(Doers!Key(f), named[f])'
    BY <1>1, <2>1 DEF DoerInv, DoneBy, Known, Doers!Key, Doers!Asks
  <2>6. DoerTypes'
    BY <1>1, <2>1, <2>3 DEF DoerInv, DoerTypes
  <2>7. QED
    BY <1>3, <1>4, <2>4, <2>5, <2>6 DEF DoerInv
<1>7. QED
  BY <1>5, <1>6

LEMMA StepAnswer == ASSUME DoerConstants, DoerInv, NEW e \in Events, Doers!Answer(e) PROVE DoerInv'
<1>1. /\ stage[e] = "asking" /\ asked' = [asked EXCEPT ![e] = 0] /\ UNCHANGED <<second, happened, auditLog>>
  BY DEF Doers!Answer
<1>2. PICK actor \in {Doers!Match(e), Unknown} :
          /\ Doers!Emits(e, actor)
          /\ kept' = IF Doers!Asks(e).kept THEN [kept EXCEPT ![Doers!Key(e)] = [actor |-> actor, until |-> asked[e] + 1]]
                     ELSE kept
  BY DEF Doers!Answer
<1>3. Known(e) /\ Doers!Key(e) \in Doers!Keys
  BY <1>1, KnownIs
<1>4. actor \in Mods \cup {Unknown} /\ (actor \in Mods => DoneBy(Doers!Key(e), actor))
  BY <1>2, MatchDidIt DEF DoerConstants
<1>5. /\ stage' \in [Events -> {"none", "due", "asking", "ended"}]
      /\ named' \in [Events -> Mods \cup {Nobody, Unknown, Pending}]
      /\ \A f \in Events : stage'[f] = "none" <=> happened'[f] = Doers!NotYet
      /\ \A f \in Events : named'[f] \in Mods => Known(f)' /\ DoneBy(Doers!Key(f), named[f])'
  BY <1>1, <1>2, <1>4, HandlerEnds
<1>6. asked \in [Events -> 0 .. Seconds] /\ kept \in [Doers!Keys -> [actor : Mods \cup {Unknown}, until : Nat]]
  BY DEF DoerInv, DoerTypes
<1>7. PICK entry : entry = [actor |-> actor, until |-> asked[e] + 1]
  OBVIOUS
<1>8. entry \in [actor : Mods \cup {Unknown}, until : Nat] /\ entry.actor = actor
  <2>1. asked[e] + 1 \in Nat
    BY <1>6
  <2>2. QED
    BY <1>4, <1>7, <2>1
<1>9. \A k \in Doers!Keys : kept'[k] = kept[k] \/ (k = Doers!Key(e) /\ kept'[k] = entry)
  BY <1>2, <1>6, <1>7
<1>10. kept' \in [Doers!Keys -> [actor : Mods \cup {Unknown}, until : Nat]]
  BY <1>2, <1>3, <1>6, <1>7, <1>8
<1>11. asked' \in [Events -> 0 .. Seconds]
  <2>1. 0 \in 0 .. Seconds
    BY DEF DoerConstants
  <2>2. QED
    BY <1>1, <1>6, <2>1
<1>12. DoerTypes'
  BY <1>1, <1>5, <1>10, <1>11 DEF DoerInv, DoerTypes
<1>13. ASSUME NEW k \in Doers!Keys, kept'[k].actor \in Mods PROVE DoneBy(k, kept[k].actor)'
  <2>1. PICK who : who = kept'[k].actor
    OBVIOUS
  <2>2. DoneBy(k, who)
    BY <1>4, <1>8, <1>9, <1>13, <2>1 DEF DoerInv
  <2>3. PICK f \in Events : Known(f) /\ Doers!Key(f) = k /\ happened[f].by = who
    BY <2>2 DEF DoneBy
  <2>4. Known(f)' /\ Doers!Key(f)' = k /\ happened'[f].by = kept'[k].actor
    BY <1>1, <2>1, <2>3 DEF Known, Doers!Key, Doers!Asks
  <2>5. QED
    BY <2>4 DEF DoneBy
<1>14. /\ \A i, j \in 1 .. Len(auditLog') : auditLog'[i] = auditLog'[j] => i = j
       /\ \A i \in 1 .. Len(auditLog') : Known(auditLog[i])' /\ happened'[auditLog'[i]].by \in Mods
  BY <1>1 DEF DoerInv, Known
<1>15. QED
  BY <1>5, <1>12, <1>13, <1>14 DEF DoerInv

LEMMA NextDoers == ASSUME DoerConstants PROVE DoerInv /\ [Doers!Next]_Doers!vars => DoerInv'
<1> SUFFICES ASSUME DoerInv, [Doers!Next]_Doers!vars PROVE DoerInv'
  OBVIOUS
<1>1. CASE UNCHANGED Doers!vars
  BY <1>1 DEF Doers!vars, DoerInv, DoerTypes, DoneBy, Known, Doers!Key, Doers!Asks
<1>2. CASE Doers!Tick
  <2>1. second < Seconds /\ second' = second + 1 /\ UNCHANGED <<happened, auditLog, stage, asked, kept, named>>
    BY <1>2 DEF Doers!Tick
  <2>2. second' \in 0 .. Seconds
    BY <2>1 DEF DoerInv, DoerTypes, DoerConstants
  <2>3. QED
    BY <2>1, <2>2 DEF DoerInv, DoerTypes, DoneBy, Known, Doers!Key, Doers!Asks
<1>3. QED
  BY <1>1, <1>2, StepHappens, StepEnter, StepDeliver, StepAnswer DEF Doers!Next

LEMMA DoerIs == ASSUME DoerConstants, DoerInv PROVE Doers!TheDoerIsNamed
<1>1. ASSUME NEW e \in Events, named[e] \in Mods
      PROVE  /\ \E f \in Doers!Alike(e) : happened[f].by = named[e]
             /\ Doers!Alike(e) = {e} => named[e] = happened[e].by
  <2>1. PICK f \in Events : Known(f) /\ Doers!Key(f) = Doers!Key(e) /\ happened[f].by = named[e]
    BY <1>1 DEF DoerInv, DoneBy
  <2>2. f \in Doers!Alike(e)
    BY <2>1, KnownIs DEF Doers!Alike
  <2>3. QED
    BY <2>1, <2>2
<1>2. QED
  BY <1>1 DEF Doers!TheDoerIsNamed

LEMMA DoerSteps == [GuildNext]_all => [Doers!Next]_Doers!vars
BY DEF GuildNext, all, books, doers, Doers!vars

(* However late Discord writes its audit log, whatever it refuses to show  *)
(* and however long an answer is kept: the actor an entry names did such a *)
(* thing to that target, and is the doer where it happened once            *)
(* (bot/lib/discord.ts, resolveAudit).                                     *)
THEOREM DoersAreNamed == ASSUME DoerConstants PROVE GuildSpec => []TheDoerIsNamed
<1>1. GuildInit => DoerInv
  BY InitDoers DEF GuildInit
<1>2. DoerInv /\ [Doers!Next]_Doers!vars => DoerInv'
  BY NextDoers
<1>3. DoerInv => TheDoerIsNamed
  BY DoerIs DEF TheDoerIsNamed
<1>4. QED
  BY <1>1, <1>2, <1>3, DoerSteps, PTL DEF GuildSpec

-----------------------------------------------------------------------------
(* The types of the whole guild.                                           *)

(* No pass pays, and no handler is left to pay, more minutes than there    *)
(* were.                                                                   *)
PayBounds ==
    /\ ticks \in 0 .. MaxMinutes /\ restarts \in 0 .. MaxRestarts /\ raced \subseteq Voices
    /\ tick.minutes <= MaxMinutes /\ (tick.who = Nobody => tick = Pay!NoTick)
    /\ \A m \in Voices : leaving[m] <= MaxMinutes

PayConstants ==
    Minute \in Nat \ {0} /\ Nobody \notin Voices /\ MaxMinutes \in Nat /\ MaxRestarts \in Nat

LEMMA LessThanTimes == ASSUME NEW x \in Nat, NEW n \in Nat \ {0} PROVE x <= x * n
OBVIOUS

LEMMA MinutesAreFew ==
    ASSUME PayConstants, PayInv, PayBounds, NEW s \in Clocks, NEW m \in Voices, s[m] <= ticks
    PROVE  Pay!MinutesToCredit(s, m) <= MaxMinutes
<1> DEFINE x == Pay!MinutesToCredit(s, m)
<1>1. x \in Nat /\ x * Minute <= Due(s, m) /\ Minute \in Nat \ {0}
  BY CreditIs DEF PayConstants
<1>2. Due(s, m) <= ticks /\ Due(s, m) \in Int /\ ticks \in 0 .. MaxMinutes
  BY DEF Due, Clocks, PayInv, PayBounds
<1>3. PICK y : y = x * Minute
  OBVIOUS
<1>4. x <= y /\ y <= Due(s, m) /\ y \in Int
  <2> HIDE DEF x
  <2>1. QED
    BY <1>1, <1>3, LessThanTimes
<1> HIDE DEF x
<1>5. x <= MaxMinutes
  BY <1>1, <1>2, <1>4 DEF PayConstants
<1>6. QED
  BY <1>5 DEF x

LEMMA WalkIsBounded ==
    ASSUME PayConstants, PayInv, PayBounds, NEW todo \in SUBSET Voices, NEW s \in Clocks,
           \A m \in Voices : s[m] <= ticks, Pay!Walk(todo, s)
    PROVE  tick'.minutes <= MaxMinutes /\ (tick'.who = Nobody => tick' = Pay!NoTick)
<1>1. CASE tick' = Pay!NoTick
  <2>1. Pay!NoTick.minutes = 0
    BY DEF Pay!NoTick
  <2>2. QED
    BY <1>1, <2>1 DEF PayConstants
<1>2. ASSUME NEW m \in todo, NEW group,
             tick' = [who |-> m, at |-> ticks, minutes |-> Pay!MinutesToCredit(s, m), todo |-> todo \ (group \cup {m})]
      PROVE  tick'.minutes <= MaxMinutes /\ (tick'.who = Nobody => tick' = Pay!NoTick)
  <2>1. tick'.minutes = Pay!MinutesToCredit(s, m) /\ tick'.who = m
    BY <1>2
  <2>2. Pay!MinutesToCredit(s, m) <= MaxMinutes
    BY MinutesAreFew
  <2>3. QED
    BY <2>1, <2>2 DEF PayConstants
<1>3. QED
  BY <1>1, <1>2 DEF Pay!Walk

LEMMA NextPayBounds == ASSUME PayConstants, PayInv, PayBounds, [Pay!Next]_Pay!vars PROVE PayBounds'
<1>1. CASE UNCHANGED Pay!vars
  BY <1>1 DEF Pay!vars, PayBounds, Pay!NoTick
<1>2. ASSUME NEW m \in Voices, Pay!Join(m) \/ Pay!PayLeave(m) PROVE PayBounds'
  <2>1. UNCHANGED <<ticks, tick, raced, restarts>>
    BY <1>2 DEF Pay!Join, Pay!PayLeave
  <2>2. \A k \in Voices : leaving'[k] = leaving[k] \/ leaving'[k] = 0
    BY <1>2 DEF Pay!Join, Pay!PayLeave, PayInv
  <2>3. \A k \in Voices : leaving'[k] <= MaxMinutes
    BY <2>2 DEF PayBounds, PayConstants
  <2>4. QED
    BY <2>1, <2>3 DEF PayBounds
<1>3. ASSUME NEW m \in Voices, Pay!Leave(m) PROVE PayBounds'
  <2>1. /\ leaving' = [leaving EXCEPT ![m] = Pay!MinutesToCredit(session, m)]
        /\ raced' \subseteq raced \cup {m} /\ UNCHANGED <<ticks, tick, restarts>>
    BY <1>3 DEF Pay!Leave
  <2>2. Pay!MinutesToCredit(session, m) <= MaxMinutes
    BY MinutesAreFew DEF PayInv
  <2>3. \A k \in Voices : leaving'[k] <= MaxMinutes
    BY <2>1, <2>2 DEF PayBounds, PayInv
  <2>4. QED
    BY <2>1, <2>3 DEF PayBounds
<1>4. CASE Pay!TickStarts
  <2>1. Pay!Walk(inVoice, session) /\ UNCHANGED <<ticks, leaving, raced, restarts>>
    BY <1>4 DEF Pay!TickStarts
  <2>2. inVoice \in SUBSET Voices /\ session \in Clocks /\ \A m \in Voices : session[m] <= ticks
    BY DEF PayInv
  <2>3. tick'.minutes <= MaxMinutes /\ (tick'.who = Nobody => tick' = Pay!NoTick)
    BY <2>1, <2>2, WalkIsBounded
  <2>4. QED
    BY <2>1, <2>3 DEF PayBounds, Pay!NoTick
<1>5. CASE Pay!TickPays
  <2> DEFINE s == Pay!Marked(session, tick.who, tick.at)
  <2>1. Pay!Walk(tick.todo, s) /\ UNCHANGED <<ticks, leaving, raced, restarts>>
    BY <1>5 DEF Pay!TickPays
  <2>2. /\ tick.who \in Voices /\ tick.at \in Nat /\ tick.at <= ticks /\ tick.todo \in SUBSET Voices
        /\ session \in Clocks /\ \A m \in Voices : session[m] <= ticks
    BY <1>5 DEF PayInv, Passes, Pay!TickPays
  <2>3. s \in Clocks /\ \A m \in Voices : s[m] <= ticks
    BY <2>2 DEF Pay!Marked, Clocks
  <2> HIDE DEF s
  <2>4. tick'.minutes <= MaxMinutes /\ (tick'.who = Nobody => tick' = Pay!NoTick)
    BY <2>1, <2>2, <2>3, WalkIsBounded
  <2>5. QED
    BY <2>1, <2>4 DEF PayBounds, Pay!NoTick
<1>6. CASE Pay!Advance
  <2>1. ticks < MaxMinutes /\ ticks' = ticks + 1 /\ UNCHANGED <<tick, leaving, raced, restarts>>
    BY <1>6 DEF Pay!Advance
  <2>2. ticks' \in 0 .. MaxMinutes
    BY <2>1 DEF PayBounds, PayConstants
  <2>3. QED
    BY <2>1, <2>2 DEF PayBounds, Pay!NoTick
<1>7. CASE Pay!Restart
  <2>1. /\ restarts < MaxRestarts /\ restarts' = restarts + 1 /\ tick' = Pay!NoTick
        /\ leaving' = [m \in Voices |-> 0] /\ UNCHANGED <<ticks, raced>>
    BY <1>7 DEF Pay!Restart
  <2>2. restarts' \in 0 .. MaxRestarts /\ \A m \in Voices : leaving'[m] <= MaxMinutes
    BY <2>1 DEF PayBounds, PayConstants
  <2>3. tick'.minutes <= MaxMinutes /\ (tick'.who = Nobody => tick' = Pay!NoTick')
    BY <2>1 DEF Pay!NoTick, PayConstants
  <2>4. QED
    BY <2>1, <2>2, <2>3 DEF PayBounds
<1>8. QED
  BY <1>1, <1>2, <1>3, <1>4, <1>5, <1>6, <1>7 DEF Pay!Next

LEMMA PayIsTyped == ASSUME PayConstants, PayInv, PayBounds PROVE Pay!TypeOK
<1>1. session \in [Voices -> {Pay!Untracked} \cup 0 .. MaxMinutes]
  <2>1. \A m \in Voices : session[m] \in {Pay!Untracked} \cup 0 .. MaxMinutes
    BY DEF PayInv, PayBounds, PayConstants, Clocks
  <2>2. QED
    BY <2>1 DEF PayInv, Clocks
<1>2. tick \in [who : Voices \cup {Nobody}, at : 0 .. MaxMinutes, minutes : Pay!Minutes, todo : SUBSET Voices]
  <2>1. tick \in Passes /\ tick.at \in 0 .. MaxMinutes /\ tick.minutes \in 0 .. MaxMinutes
    BY DEF PayInv, PayBounds, PayConstants, Passes
  <2>2. QED
    BY <2>1 DEF Passes, Pay!Minutes
<1>3. leaving \in [Voices -> Pay!Minutes]
  <2>1. \A m \in Voices : leaving[m] \in 0 .. MaxMinutes
    BY DEF PayInv, PayBounds, PayConstants
  <2>2. QED
    BY <2>1 DEF PayInv, Pay!Minutes
<1>4. QED
  BY <1>1, <1>2, <1>3 DEF PayInv, PayBounds, Pay!TypeOK

LEMMA GateIsTyped == ASSUME GateConstants, GateInv PROVE Gates!TypeOK
<1>1. Refusals \subseteq [of : Calls, at : 0 .. MaxClock]
  BY DEF GateInv, GateTypes, Refusals, GateConstants
<1>2. {hits, raised} \subseteq [Staff -> SUBSET [of : Calls, at : 0 .. MaxClock]]
  <2>1. hits \in [Staff -> SUBSET Refusals] /\ raised \in [Staff -> SUBSET Refusals]
    BY DEF GateInv, GateTypes
  <2>2. QED
    BY <1>1, <2>1
<1>3. QED
  BY <1>2 DEF GateInv, GateTypes, CallTypes, GateCalls, GateSteps, Gates!TypeOK

LEMMA DoerIsTyped == ASSUME DoerInv PROVE Doers!TypeOK
<1>1. Doers!IsInjective(auditLog)
  BY DEF DoerInv, DoerTypes, Doers!IsInjective
<1>2. QED
  BY <1>1 DEF DoerInv, DoerTypes, Deed, Doers!TypeOK

LEMMA WordsAreTyped == ASSUME WordsInv PROVE Words!TypeOK
BY DEF WordsInv, WordTypes, Remembered, Words!TypeOK

OnStage == scene \in {"jail", "pay", "levels", "logs", "doers", "voice", "sets", "words", "gates"}

LEMMA JailSteps == [GuildNext]_all => [Next]_vars
BY DEF GuildNext, all, deeds, jail

GuildConstants ==
    /\ PayConstants /\ LevelConstants /\ RoomConstants /\ DoerConstants
    /\ VoiceConstants /\ SetConstants /\ WordConstants /\ GateConstants

DeedsInv == PenaltyInv /\ PayInv /\ PayBounds /\ SyncInv /\ RoomInv
BooksInv == DoerInv /\ VoiceInv /\ SetsInv /\ WordsInv /\ GateInv

(* The punishments, voice time, the level roles, the log rooms, what the   *)
(* log says and the gate of the commands keep the types of their variables *)
(* at every moment.                                                        *)
THEOREM GuildIsTyped == ASSUME GuildConstants PROVE GuildSpec => []TypesOK
<1> USE DEF GuildConstants, DeedsInv, BooksInv
<1>1. GuildInit => OnStage /\ DeedsInv /\ BooksInv
  <2> SUFFICES ASSUME GuildInit PROVE OnStage /\ DeedsInv /\ BooksInv
    OBVIOUS
  <2>1. PayInv
    BY InitPay DEF GuildInit, PayConstants
  <2>2. PayBounds
    BY DEF GuildInit, Pay!Init, Pay!NoTick, PayBounds, PayConstants
  <2>3. PenaltyInv /\ SyncInv /\ RoomInv
    BY InitKeeps, InitSync, InitRooms DEF GuildInit
  <2>4. BooksInv
    BY InitDoers, InitVoice, InitSets, InitWords, InitGate DEF GuildInit
  <2>5. QED
    BY <2>1, <2>2, <2>3, <2>4 DEF GuildInit, OnStage
<1>2. OnStage /\ [GuildNext]_all => OnStage'
  BY DEF GuildNext, all, OnStage
<1>3. DeedsInv /\ [GuildNext]_all => DeedsInv'
  <2> SUFFICES ASSUME DeedsInv, [GuildNext]_all PROVE DeedsInv'
    OBVIOUS
  <2>1. PenaltyInv'
    BY JailSteps, NextKeeps
  <2>2. PayInv' /\ PayBounds'
    BY PaySteps, NextPay, NextPayBounds DEF PayConstants
  <2>3. SyncInv'
    BY LevelSteps, NextSync
  <2>4. RoomInv'
    BY RoomSteps, NextRooms
  <2>5. QED
    BY <2>1, <2>2, <2>3, <2>4
<1>4. BooksInv /\ [GuildNext]_all => BooksInv'
  <2> SUFFICES ASSUME BooksInv, [GuildNext]_all PROVE BooksInv'
    OBVIOUS
  <2>1. DoerInv'
    BY DoerSteps, NextDoers
  <2>2. VoiceInv'
    BY VoiceSteps, NextVoice
  <2>3. SetsInv'
    BY SetSteps, NextSets
  <2>4. WordsInv'
    BY WordSteps, NextWords
  <2>5. GateInv'
    BY GateSteady, NextGate
  <2>6. QED
    BY <2>1, <2>2, <2>3, <2>4, <2>5
<1>5. OnStage /\ DeedsInv /\ BooksInv => TypesOK
  <2> SUFFICES ASSUME OnStage, DeedsInv, BooksInv PROVE TypesOK
    OBVIOUS
  <2>1. TypeOK /\ Pay!TypeOK
    BY PayIsTyped DEF PenaltyInv
  <2>2. Levels!TypeOK /\ Rooms!TypeOK
    BY SyncIs, RoomsAre
  <2>3. Doers!TypeOK /\ Voice!TypeOK /\ Sets!TypeOK /\ Words!TypeOK /\ Gates!TypeOK
    BY DoerIsTyped, VoiceIs, SetsIs, WordsAreTyped, GateIsTyped
  <2>4. QED
    BY <2>1, <2>2, <2>3 DEF TypesOK, OnStage
<1> HIDE DEF GuildConstants, DeedsInv, BooksInv
<1>6. QED
  BY <1>1, <1>2, <1>3, <1>4, <1>5, PTL DEF GuildSpec
=============================================================================
