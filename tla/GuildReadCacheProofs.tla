------------------------- MODULE GuildReadCacheProofs -------------------------
(***************************************************************************)
(* Theorems about GuildReadCache, for one cache in front of Discord and    *)
(* for a cache in front of a cache: for any screens, TTL and call time, a  *)
(* setup is seen by whoever asks after it, Discord is asked once per TTL,  *)
(* where reads do not fail the reads implement BoundedRead, and the types  *)
(* are kept.                                                               *)
(***************************************************************************)
EXTENDS GuildReadCache, TLAPS

-----------------------------------------------------------------------------
(* The parameters: one cache or two (Depth), a TTL of at least a tick, and *)
(* values that stand for nothing at all.                                   *)
Entries == [value : Nat, at : Nat]
Flights == [phase : Phases, value : Nat \cup {NoAnswer}, began : Nat]

Parameters ==
    /\ Depth \in {1, 2} /\ Ttl \in Nat \ {0} /\ Call \in Nat
    /\ NoEntry \notin Entries /\ NoFlight \notin Flights
    /\ NoAnswer \notin Nat /\ Failed \notin Nat

-----------------------------------------------------------------------------
(* The inductive invariants.                                               *)

Loading(l) == flight[l] # NoFlight
HasRead(l) == Loading(l) /\ flight[l].phase = "read"

ReadInv ==
    /\ now \in Nat /\ version \in Nat /\ acked \in 0 .. version
    /\ replacedAt \in [0 .. version - 1 -> Nat]
    /\ entry \in [Layers -> Entries \cup {NoEntry}]
    /\ flight \in [Layers -> Flights \cup {NoFlight}]
    /\ waiting \in [Screens -> 0 .. Depth]
    /\ answer \in [Screens -> Nat \cup {NoAnswer, Failed}]
    /\ floor \in [Screens -> Nat]
    /\ \A l \in Layers :
          /\ entry[l] # NoEntry => entry[l].value <= version
          /\ HasRead(l) => flight[l].value \in 0 .. version
          /\ Loading(l) /\ flight[l].phase = "below" => l # Depth
    /\ lastLoad # Never => entry[Depth] # NoEntry /\ entry[Depth].at = lastLoad

(* As long as no invalidation met a running load, whatever is cached or on *)
(* its way is at least as new as the last setup.                           *)
SeenInv ==
    /\ writer # "apply"
    /\ \A s \in Screens : floor[s] <= acked
    /\ ~overtaken =>
          /\ \A l \in Layers : entry[l] # NoEntry => entry[l].value >= acked
          /\ \A l \in Layers : HasRead(l) => flight[l].value >= acked
          /\ EditsSeenUnlessOvertaken

(* v was the list at Discord at most d before t.                           *)
CurrentAt(v, t, d) == v = version \/ t <= replacedAt[v] + d

(* What a layer holds may be older than the layer below is, by one TTL.    *)
Lag(l) == IF l = Depth THEN Call ELSE Call + (Ttl - 1)

RecentInv ==
    /\ \A l \in Layers : entry[l] # NoEntry => /\ entry[l].at <= now
                                               /\ CurrentAt(entry[l].value, entry[l].at, Lag(l))
    /\ \A l \in Layers : Loading(l) => flight[l].phase # "failed"
    /\ Loading(Depth) => flight[Depth].began <= now /\ now <= flight[Depth].began + Call
    /\ HasRead(Depth) => CurrentAt(flight[Depth].value, flight[Depth].began, 0)
    /\ \A l \in Layers : l # Depth /\ HasRead(l) => CurrentAt(flight[l].value, now, Lag(l))

-----------------------------------------------------------------------------
(* What the steps do to the loads.                                         *)

LEMMA LayersAre ==
    ASSUME Parameters
    PROVE  Depth \in Layers /\ Depth \in Nat /\ Layers = 1 .. Depth /\ Layers \subseteq {1, 2}
BY DEF Parameters, Layers

LEMMA FlyIs ==
    ASSUME now \in Nat, NEW phase \in Phases, NEW value \in Nat \cup {NoAnswer}
    PROVE  /\ Fly(phase, value) \in Flights /\ Fly(phase, value).phase = phase
           /\ Fly(phase, value).value = value /\ Fly(phase, value).began = now
BY DEF Fly, Flights

(* A load begins: at Discord, or above from what the layer below has.      *)
Begins(k) ==
    /\ ~Loading(k) /\ flight'[k] \in Flights /\ flight'[k].began = now
    /\ \/ k = Depth /\ ~Fresh(Depth) /\ flight'[k].phase = "asked"
       \/ k # Depth /\ flight'[k].phase = "below"
       \/ k # Depth /\ Fresh(Depth) /\ flight'[k].phase = "read" /\ flight'[k].value = entry[Depth].value

LEMMA JoinBegins ==
    ASSUME Parameters, ReadInv, NEW s \in Screens, NEW l \in Layers, Join(s, l)
    PROVE  /\ flight' \in [Layers -> Flights \cup {NoFlight}]
           /\ \A k \in Layers : flight'[k] = flight[k] \/ Begins(k)
<1>1. CASE flight[l] # NoFlight
  BY <1>1 DEF Join, ReadInv
<1>2. CASE flight[l] = NoFlight
  <2>1. flight' = Loads(l) /\ ~Fresh(l)
    BY <1>2 DEF Join
  <2>2. flight \in [Layers -> Flights \cup {NoFlight}] /\ now \in Nat /\ Depth \in Layers
    BY LayersAre DEF ReadInv
  <2>3. /\ Fly("asked", NoAnswer) \in Flights /\ Fly("asked", NoAnswer).phase = "asked"
        /\ Fly("asked", NoAnswer).began = now
        /\ Fly("below", NoAnswer) \in Flights /\ Fly("below", NoAnswer).phase = "below"
        /\ Fly("below", NoAnswer).began = now
    BY <2>2, FlyIs DEF Phases
  <2>4. CASE l = Depth
    <3>1. flight' = [flight EXCEPT ![l] = Fly("asked", NoAnswer)]
      BY <2>1, <2>4 DEF Loads
    <3>2. QED
      BY <1>2, <2>1, <2>2, <2>3, <2>4, <3>1 DEF Begins, Loading
  <2>5. CASE l # Depth /\ Fresh(Depth)
    <3>1. flight' = [flight EXCEPT ![l] = Fly("read", entry[Depth].value)]
      BY <2>1, <2>5 DEF Loads
    <3>2. entry[Depth].value \in Nat
      BY <2>2, <2>5 DEF Fresh, ReadInv, Entries
    <3>3. /\ Fly("read", entry[Depth].value) \in Flights
          /\ Fly("read", entry[Depth].value).phase = "read"
          /\ Fly("read", entry[Depth].value).value = entry[Depth].value
          /\ Fly("read", entry[Depth].value).began = now
      BY <2>2, <3>2, FlyIs DEF Phases
    <3>4. QED
      BY <1>2, <2>2, <2>5, <3>1, <3>3 DEF Begins, Loading
  <2>6. CASE l # Depth /\ ~Fresh(Depth)
    <3>1. flight' = [flight EXCEPT ![l] = Fly("below", NoAnswer),
                                   ![Depth] = IF @ = NoFlight THEN Fly("asked", NoAnswer) ELSE @]
      BY <2>1, <2>6 DEF Loads
    <3>2. /\ flight' \in [Layers -> Flights \cup {NoFlight}] /\ flight'[l] = Fly("below", NoAnswer)
          /\ flight'[Depth] = IF flight[Depth] = NoFlight THEN Fly("asked", NoAnswer) ELSE flight[Depth]
          /\ \A k \in Layers \ {l, Depth} : flight'[k] = flight[k]
      BY <2>2, <2>3, <2>6, <3>1
    <3>3. QED
      BY <1>2, <2>3, <2>6, <3>2 DEF Begins, Loading
  <2>7. QED
    BY <2>4, <2>5, <2>6
<1>3. QED
  BY <1>1, <1>2

(* The layer above goes on with what the layer below settled on.           *)
GoesOn(k, outcome) ==
    /\ k # Depth /\ Loading(k) /\ flight'[k] \in Flights
    /\ IF outcome = Failed THEN flight'[k].phase = "failed"
       ELSE flight'[k].phase = "read" /\ flight'[k].value = outcome

LEMMA SettleGoesOn ==
    ASSUME Parameters, ReadInv, NEW l \in Layers, NEW outcome \in Nat \cup {Failed}, Settle(l, outcome)
    PROVE  /\ flight' \in [Layers -> Flights \cup {NoFlight}] /\ flight'[l] = NoFlight
           /\ \A k \in Layers \ {l} : flight'[k] = flight[k] \/ GoesOn(k, outcome)
<1> DEFINE above(k) == [flight[k] EXCEPT !.phase = IF outcome = Failed THEN "failed" ELSE "read",
                                         !.value = IF outcome = Failed THEN NoAnswer ELSE outcome]
           next(k) == IF k = l THEN NoFlight
                      ELSE IF k = l - 1 /\ flight[k] # NoFlight /\ flight[k].phase = "below" THEN above(k)
                      ELSE flight[k]
<1>1. flight' = [k \in Layers |-> next(k)]
  BY DEF Settle
<1>2. ASSUME NEW k \in Layers, flight[k] # NoFlight
      PROVE  /\ above(k) \in Flights
             /\ IF outcome = Failed THEN above(k).phase = "failed"
                ELSE above(k).phase = "read" /\ above(k).value = outcome
  <2>1. PICK x \in Flights : x = flight[k]
    BY <1>2 DEF ReadInv
  <2>2. PICK p \in Phases : p = IF outcome = Failed THEN "failed" ELSE "read"
    BY DEF Phases
  <2>3. PICK v \in Nat \cup {NoAnswer} : v = IF outcome = Failed THEN NoAnswer ELSE outcome
    OBVIOUS
  <2>4. above(k) = [x EXCEPT !.phase = p, !.value = v]
    BY <2>1, <2>2, <2>3
  <2> HIDE DEF above
  <2>5. above(k) = [phase |-> p, value |-> v, began |-> x.began]
    BY <2>1, <2>4 DEF Flights
  <2>6. above(k) \in Flights /\ above(k).phase = p /\ above(k).value = v
    BY <2>1, <2>5 DEF Flights
  <2>7. QED
    BY <2>2, <2>3, <2>6
<1> HIDE DEF above
<1>3. ASSUME NEW k \in Layers
      PROVE  /\ next(k) \in Flights \cup {NoFlight}
             /\ k # l => \/ next(k) = flight[k]
                         \/ /\ k = l - 1 /\ flight[k] # NoFlight /\ next(k) = above(k)
  BY <1>2 DEF ReadInv
<1>4. ASSUME NEW k \in Layers \ {l}
      PROVE  flight'[k] = flight[k] \/ GoesOn(k, outcome)
  <2>1. flight'[k] = next(k)
    BY <1>1
  <2>2. CASE next(k) = flight[k]
    BY <2>1, <2>2
  <2>3. CASE k = l - 1 /\ flight[k] # NoFlight /\ next(k) = above(k)
    <3>1. k # Depth
      BY <2>3, LayersAre
    <3>2. QED
      BY <1>2, <2>1, <2>3, <3>1 DEF GoesOn, Loading
  <2>4. QED
    BY <1>3, <2>2, <2>3
<1>5. flight' \in [Layers -> Flights \cup {NoFlight}]
  BY <1>1, <1>3
<1>6. flight'[l] = NoFlight
  BY <1>1
<1>7. QED
  BY <1>4, <1>5, <1>6

(* Discord's answer, or its failure.                                       *)
LEMMA AnswersIs ==
    ASSUME Parameters, ReadInv, DiscordAnswers
    PROVE  /\ Loading(Depth) /\ flight' \in [Layers -> Flights \cup {NoFlight}]
           /\ flight'[Depth] \in Flights /\ flight'[Depth].phase = "read"
           /\ flight'[Depth].value = version /\ flight'[Depth].began = flight[Depth].began
           /\ \A k \in Layers \ {Depth} : flight'[k] = flight[k]
<1>1. Depth \in Layers
  BY LayersAre
<1>2. flight[Depth] # NoFlight
  BY DEF DiscordAnswers
<1>3. PICK x \in Flights : x = flight[Depth]
  BY <1>1, <1>2 DEF ReadInv
<1> DEFINE y == [x EXCEPT !.phase = "read", !.value = version]
<1>4. flight' = [flight EXCEPT ![Depth] = y]
  BY <1>1, <1>3 DEF DiscordAnswers, ReadInv
<1>0. y = [x EXCEPT !.phase = "read", !.value = version]
  OBVIOUS
<1> HIDE DEF y
<1>5. y = [phase |-> "read", value |-> version, began |-> x.began]
  BY <1>3, <1>0 DEF Flights
<1>6. y \in Flights /\ y.phase = "read" /\ y.value = version /\ y.began = x.began
  BY <1>3, <1>5 DEF Flights, Phases, ReadInv
<1>7. QED
  BY <1>1, <1>2, <1>3, <1>4, <1>6 DEF Loading, ReadInv

LEMMA FailsIs ==
    ASSUME Parameters, ReadInv, DiscordFails
    PROVE  /\ Loading(Depth) /\ flight' \in [Layers -> Flights \cup {NoFlight}]
           /\ flight'[Depth] \in Flights /\ flight'[Depth].phase = "failed"
           /\ flight'[Depth].began = flight[Depth].began
           /\ \A k \in Layers \ {Depth} : flight'[k] = flight[k]
<1>1. Depth \in Layers
  BY LayersAre
<1>2. flight[Depth] # NoFlight
  BY DEF DiscordFails
<1>3. PICK x \in Flights : x = flight[Depth]
  BY <1>1, <1>2 DEF ReadInv
<1> DEFINE y == [x EXCEPT !.phase = "failed"]
<1>4. flight' = [flight EXCEPT ![Depth] = y]
  BY <1>1, <1>3 DEF DiscordFails, ReadInv
<1>5. y = [phase |-> "failed", value |-> x.value, began |-> x.began]
  BY <1>3 DEF Flights
<1> HIDE DEF y
<1>6. y \in Flights /\ y.phase = "failed" /\ y.began = x.began
  BY <1>3, <1>5 DEF Flights, Phases
<1>7. QED
  BY <1>1, <1>2, <1>3, <1>4, <1>6 DEF Loading, ReadInv

-----------------------------------------------------------------------------
(* The types and the age of what is cached.                                *)

LEMMA InitRead == ASSUME Parameters, Init PROVE ReadInv
<1>1. replacedAt \in [0 .. version - 1 -> Nat]
  BY DEF Init
<1>2. /\ entry = [l \in Layers |-> NoEntry] /\ flight = [l \in Layers |-> NoFlight]
      /\ waiting = [s \in Screens |-> 0] /\ answer = [s \in Screens |-> NoAnswer]
      /\ floor = [s \in Screens |-> 0] /\ now = 0 /\ version = 0 /\ acked = 0 /\ lastLoad = Never
  BY DEF Init
<1>3. \A l \in Layers : entry[l] = NoEntry /\ ~Loading(l)
  BY <1>2 DEF Loading
<1>4. QED
  BY <1>1, <1>2, <1>3, LayersAre DEF ReadInv, HasRead

(* What the loads must keep for ReadInv.                                   *)
LoadsRight ==
    /\ flight \in [Layers -> Flights \cup {NoFlight}]
    /\ \A l \in Layers :
          /\ HasRead(l) => flight[l].value \in 0 .. version
          /\ Loading(l) /\ flight[l].phase = "below" => l # Depth

LEMMA SettleKeepsLoads ==
    ASSUME Parameters, ReadInv, NEW l \in Layers, NEW outcome \in (0 .. version) \cup {Failed},
           Settle(l, outcome)
    PROVE  LoadsRight'
<1>1. outcome \in Nat \cup {Failed}
  BY DEF ReadInv
<1>2. /\ flight' \in [Layers -> Flights \cup {NoFlight}] /\ flight'[l] = NoFlight
      /\ \A k \in Layers \ {l} : flight'[k] = flight[k] \/ GoesOn(k, outcome)
  BY <1>1, SettleGoesOn
<1>3. version' = version
  BY DEF Settle, list
<1>4. ASSUME NEW k \in Layers
      PROVE  /\ HasRead(k)' => flight'[k].value \in 0 .. version'
             /\ Loading(k)' /\ flight'[k].phase = "below" => k # Depth
  <2>1. CASE k = l
    BY <1>2, <2>1 DEF Loading, HasRead
  <2>2. CASE k # l /\ flight'[k] = flight[k]
    BY <1>3, <2>2 DEF ReadInv, Loading, HasRead
  <2>3. CASE k # l /\ GoesOn(k, outcome)
    BY <1>3, <2>3 DEF GoesOn, Loading, HasRead
  <2>4. QED
    BY <1>2, <2>1, <2>2, <2>3
<1>5. QED
  BY <1>2, <1>4 DEF LoadsRight

LEMMA SettleAnswers ==
    ASSUME Parameters, ReadInv, NEW l \in Layers, NEW outcome \in (0 .. version) \cup {Failed},
           Settle(l, outcome)
    PROVE  /\ waiting' \in [Screens -> 0 .. Depth]
           /\ answer' \in [Screens -> Nat \cup {NoAnswer, Failed}]
           /\ \A s \in Screens : \/ waiting[s] = l /\ waiting'[s] = 0 /\ answer'[s] = outcome
                                 \/ waiting[s] # l /\ waiting'[s] = waiting[s] /\ answer'[s] = answer[s]
           /\ UNCHANGED <<now, version, replacedAt, writer, acked, overtaken, floor>>
<1>1. /\ answer' = [s \in Screens |-> IF waiting[s] = l THEN outcome ELSE answer[s]]
      /\ waiting' = [s \in Screens |-> IF waiting[s] = l THEN 0 ELSE waiting[s]]
      /\ UNCHANGED <<now, version, replacedAt, writer, acked, overtaken, floor>>
  BY DEF Settle, list, handler
<1>2. Depth \in Nat /\ version \in Nat
  BY LayersAre DEF ReadInv
<1>3. QED
  BY <1>1, <1>2 DEF ReadInv

LEMMA AskKeepsRead ==
    ASSUME Parameters, ReadInv, NEW s \in Screens, Ask(s)
    PROVE  ReadInv'
<1>1. ASSUME NEW l \in Layers, Hit(s, l)
      PROVE  ReadInv'
  <2>1. entry[l].value \in Nat
    BY <1>1 DEF Hit, Fresh, ReadInv, Entries
  <2>2. answer' \in [Screens -> Nat \cup {NoAnswer, Failed}] /\ floor' \in [Screens -> Nat]
    BY <1>1, <2>1 DEF Hit, ReadInv
  <2>3. UNCHANGED <<now, version, replacedAt, entry, flight, waiting, lastLoad, acked>>
    BY <1>1 DEF Hit, list, handler
  <2>4. QED
    BY <2>2, <2>3 DEF ReadInv, Loading, HasRead
<1>2. ASSUME NEW l \in Layers, Join(s, l)
      PROVE  ReadInv'
  <2>1. /\ flight' \in [Layers -> Flights \cup {NoFlight}]
        /\ \A k \in Layers : flight'[k] = flight[k] \/ Begins(k)
    BY <1>2, JoinBegins
  <2>2. UNCHANGED <<now, version, replacedAt, entry, answer, lastLoad, acked>>
    BY <1>2 DEF Join, list, handler
  <2>3. waiting' \in [Screens -> 0 .. Depth] /\ floor' \in [Screens -> Nat]
    BY <1>2, LayersAre DEF Join, ReadInv
  <2>4. ASSUME NEW k \in Layers
        PROVE  /\ HasRead(k)' => flight'[k].value \in 0 .. version'
               /\ Loading(k)' /\ flight'[k].phase = "below" => k # Depth
    <3>1. CASE flight'[k] = flight[k]
      BY <2>2, <3>1 DEF ReadInv, Loading, HasRead
    <3>2. CASE Begins(k)
      <4>1. Fresh(Depth) => entry[Depth].value \in 0 .. version
        BY LayersAre DEF Fresh, ReadInv, Entries
      <4>2. QED
        BY <2>2, <3>2, <4>1 DEF Begins, HasRead
    <3>3. QED
      BY <2>1, <3>1, <3>2
  <2>5. QED
    BY <2>1, <2>2, <2>3, <2>4 DEF ReadInv
<1>3. QED
  BY <1>1, <1>2 DEF Ask

LEMMA DiscordKeepsRead ==
    ASSUME Parameters, ReadInv, Discord
    PROVE  ReadInv'
<1>1. UNCHANGED <<now, version, replacedAt, entry, waiting, answer, lastLoad, acked, floor>>
  BY DEF Discord, DiscordAnswers, DiscordFails, list, handler
<1>2. CASE DiscordAnswers
  <2>1. LoadsRight'
    BY <1>1, <1>2, AnswersIs DEF LoadsRight, ReadInv, Loading, HasRead
  <2>2. QED
    BY <1>1, <2>1 DEF ReadInv, LoadsRight
<1>3. CASE DiscordFails
  <2>1. LoadsRight'
    BY <1>1, <1>3, FailsIs DEF LoadsRight, ReadInv, Loading, HasRead
  <2>2. QED
    BY <1>1, <2>1 DEF ReadInv, LoadsRight
<1>4. QED
  BY <1>2, <1>3 DEF Discord

LEMMA EndKeepsRead ==
    ASSUME Parameters, ReadInv, NEW l \in Layers, Ends(l)
    PROVE  ReadInv'
<1>1. CASE LoadReturns(l)
  <2>1. flight[l].value \in 0 .. version /\ Settle(l, flight[l].value)
    BY <1>1 DEF LoadReturns, ReadInv, Loading, HasRead
  <2>2. LoadsRight'
    BY <2>1, SettleKeepsLoads
  <2>3. /\ waiting' \in [Screens -> 0 .. Depth] /\ answer' \in [Screens -> Nat \cup {NoAnswer, Failed}]
        /\ UNCHANGED <<now, version, replacedAt, acked, floor>>
    BY <2>1, SettleAnswers
  <2>4. /\ entry' = [entry EXCEPT ![l] = [value |-> flight[l].value, at |-> now]]
        /\ lastLoad' = IF l = Depth THEN now ELSE lastLoad
    BY <1>1 DEF LoadReturns
  <2>5. [value |-> flight[l].value, at |-> now] \in Entries
    BY <2>1 DEF Entries, ReadInv
  <2>6. /\ entry' \in [Layers -> Entries \cup {NoEntry}]
        /\ entry'[l].value = flight[l].value /\ entry'[l].at = now /\ entry'[l] # NoEntry
        /\ \A k \in Layers \ {l} : entry'[k] = entry[k]
    BY <2>4, <2>5 DEF ReadInv, Parameters
  <2>7. \A k \in Layers : entry'[k] # NoEntry => entry'[k].value <= version'
    <3>1. flight[l].value <= version /\ version' = version
      BY <2>1, <2>3 DEF ReadInv
    <3>2. QED
      BY <2>6, <3>1 DEF ReadInv
  <2>8. lastLoad' # Never => entry'[Depth] # NoEntry /\ entry'[Depth].at = lastLoad'
    BY <2>4, <2>6, LayersAre DEF ReadInv
  <2>9. QED
    BY <2>2, <2>3, <2>6, <2>7, <2>8 DEF ReadInv, LoadsRight
<1>2. CASE LoadThrows(l)
  <2>1. PICK outcome \in (0 .. version) \cup {Failed} : Settle(l, outcome)
    <3>1. entry[l] # NoEntry => entry[l].value \in 0 .. version
      BY DEF ReadInv, Entries
    <3>2. QED
      BY <1>2, <3>1 DEF LoadThrows
  <2>2. LoadsRight'
    BY <2>1, SettleKeepsLoads
  <2>3. /\ waiting' \in [Screens -> 0 .. Depth] /\ answer' \in [Screens -> Nat \cup {NoAnswer, Failed}]
        /\ UNCHANGED <<now, version, replacedAt, acked, floor>>
    BY <2>1, SettleAnswers
  <2>4. UNCHANGED <<entry, lastLoad>>
    BY <1>2 DEF LoadThrows
  <2>5. QED
    BY <2>2, <2>3, <2>4 DEF ReadInv, LoadsRight
<1>3. QED
  BY <1>1, <1>2 DEF Ends

(* A change of the list.                                                   *)
LEMMA ChangeIs ==
    ASSUME ReadInv, ChangeList
    PROVE  /\ version' = version + 1 /\ version' \in Nat
           /\ replacedAt' \in [0 .. version' - 1 -> Nat]
           /\ replacedAt'[version] = now
           /\ \A v \in 0 .. version - 1 : replacedAt'[v] = replacedAt[v]
<1>1. version' = version + 1 /\ version \in Nat /\ now \in Nat
  BY DEF ChangeList, ReadInv
<1>2. replacedAt' = [v \in 0 .. version |-> IF v = version THEN now ELSE replacedAt[v]]
  BY DEF ChangeList, Versions
<1>3. 0 .. version' - 1 = 0 .. version
  BY <1>1
<1>4. \A v \in 0 .. version : v # version => replacedAt[v] \in Nat
  BY <1>1 DEF ReadInv
<1>5. replacedAt' \in [0 .. version -> Nat]
  BY <1>1, <1>2, <1>4
<1>6. QED
  BY <1>1, <1>2, <1>3, <1>5

LEMMA WritingKeepsRead ==
    ASSUME Parameters, ReadInv, Writing
    PROVE  ReadInv'
<1>1. UNCHANGED <<now, flight, waiting, answer, floor>>
  BY DEF Writing, SetupWrites, SetupInvalidates, SaveInvalidates, SaveApplies, EditedInDiscord,
         caches, handler
<1>2. CASE ChangeList /\ UNCHANGED <<entry, lastLoad>> /\ acked' \in {acked, version'}
  <2>1. LoadsRight' /\ acked' \in 0 .. version'
    BY <1>1, <1>2, ChangeIs DEF ReadInv, LoadsRight, Loading, HasRead
  <2>2. \A l \in Layers : entry'[l] # NoEntry => entry'[l].value <= version'
    BY <1>2, ChangeIs DEF ReadInv, Entries
  <2>3. QED
    BY <1>1, <1>2, <2>1, <2>2, ChangeIs DEF ReadInv, LoadsRight
<1>3. CASE DropEntries /\ UNCHANGED <<version, replacedAt>> /\ acked' \in {acked, version}
  <2>1. entry' = [l \in Layers |-> NoEntry] /\ lastLoad' = Never
    BY <1>3 DEF DropEntries
  <2>2. acked' \in 0 .. version'
    BY <1>3 DEF ReadInv
  <2>3. QED
    BY <1>1, <1>3, <2>1, <2>2 DEF ReadInv, Loading, HasRead
<1>4. QED
  BY <1>2, <1>3 DEF Writing, SetupWrites, SetupInvalidates, SaveInvalidates, SaveApplies,
                    EditedInDiscord, caches, handler, list

LEMMA NextRead ==
    ASSUME Parameters, ReadInv, [Next]_vars
    PROVE  ReadInv'
<1>1. CASE Tick
  <2>1. now' \in Nat /\ UNCHANGED <<version, replacedAt, entry, flight, waiting, answer, lastLoad, acked, floor>>
    BY <1>1 DEF Tick, ReadInv, list, caches, handler
  <2>2. QED
    BY <2>1 DEF ReadInv, Loading, HasRead
<1>2. CASE UNCHANGED vars
  BY <1>2 DEF vars, ReadInv, Loading, HasRead
<1>3. QED
  BY <1>1, <1>2, AskKeepsRead, DiscordKeepsRead, EndKeepsRead, WritingKeepsRead DEF Next

-----------------------------------------------------------------------------
(* A setup is seen by whoever asks after it.                               *)

LEMMA InitSeen == ASSUME Parameters, Init PROVE SeenInv
<1>1. \A l \in Layers : entry[l] = NoEntry /\ ~Loading(l)
  BY DEF Init, Loading
<1>2. \A s \in Screens : floor[s] = 0 /\ answer[s] = NoAnswer
  BY DEF Init
<1>3. EditsSeenUnlessOvertaken
  BY <1>2 DEF EditsSeenUnlessOvertaken, Versions, Parameters, Init
<1>4. QED
  BY <1>1, <1>2, <1>3 DEF SeenInv, HasRead, Init

(* Nothing a screen can see changes but what it is given.                  *)
LEMMA SeenWhenNew ==
    ASSUME ReadInv, SeenInv, ~overtaken, acked' = acked, version' >= version, version' \in Nat,
           NEW outcome, outcome \in Nat => outcome >= acked,
           \A s \in Screens :
              \/ waiting'[s] # 0
              \/ /\ waiting'[s] = 0 /\ waiting[s] = 0
                 /\ answer'[s] = answer[s] /\ floor'[s] = floor[s]
              \/ answer'[s] = outcome /\ floor'[s] <= acked /\ floor'[s] \in Nat
    PROVE  EditsSeenUnlessOvertaken'
<1> SUFFICES ASSUME NEW s \in Screens, waiting'[s] = 0, answer'[s] \in 0 .. version'
             PROVE  answer'[s] >= floor'[s]
  BY DEF EditsSeenUnlessOvertaken, Versions
<1>1. CASE answer'[s] = answer[s] /\ floor'[s] = floor[s] /\ waiting[s] = 0
  <2>1. answer[s] \in Nat
    BY <1>1
  <2>2. CASE answer[s] <= version
    BY <1>1, <2>1, <2>2 DEF ReadInv, SeenInv, EditsSeenUnlessOvertaken, Versions
  <2>3. CASE answer[s] > version
    BY <1>1, <2>1, <2>3 DEF ReadInv, SeenInv
  <2>4. QED
    BY <2>1, <2>2, <2>3 DEF ReadInv
<1>2. CASE answer'[s] = outcome /\ floor'[s] <= acked /\ floor'[s] \in Nat
  BY <1>2 DEF ReadInv
<1>3. QED
  BY <1>1, <1>2

LEMMA AskKeepsSeen ==
    ASSUME Parameters, ReadInv, SeenInv, NEW s \in Screens, Ask(s)
    PROVE  SeenInv'
<1>1. /\ UNCHANGED <<version, entry, writer, acked, overtaken>>
      /\ floor' = [floor EXCEPT ![s] = acked]
  BY DEF Ask, Hit, Join, list, handler
<1>2. /\ \A t \in Screens : floor'[t] <= acked' /\ floor'[t] \in Nat
      /\ \A t \in Screens \ {s} : floor'[t] = floor[t]
      /\ floor'[s] = acked
  BY <1>1 DEF SeenInv, ReadInv
<1>3. ASSUME NEW l \in Layers, Hit(s, l), ~overtaken
      PROVE  SeenInv'
  <2>1. entry[l].value >= acked
    BY <1>3 DEF Hit, Fresh, SeenInv
  <2>2. UNCHANGED <<flight, waiting>> /\ waiting[s] = 0 /\ answer' = [answer EXCEPT ![s] = entry[l].value]
    BY <1>3 DEF Hit
  <2>3. \A t \in Screens \ {s} : answer'[t] = answer[t]
    BY <2>2 DEF ReadInv
  <2>4. answer'[s] = entry[l].value
    BY <2>2 DEF ReadInv
  <2>5. EditsSeenUnlessOvertaken'
    <3>1. PICK outcome : outcome = entry[l].value
      OBVIOUS
    <3>2. \A t \in Screens :
              \/ waiting'[t] # 0
              \/ /\ waiting'[t] = 0 /\ waiting[t] = 0
                 /\ answer'[t] = answer[t] /\ floor'[t] = floor[t]
              \/ answer'[t] = outcome /\ floor'[t] <= acked /\ floor'[t] \in Nat
      BY <1>1, <1>2, <2>2, <2>3, <2>4, <3>1
    <3>3. acked' = acked /\ version' >= version /\ version' \in Nat
      BY <1>1 DEF ReadInv
    <3>4. QED
      BY <1>3, <2>1, <3>1, <3>2, <3>3, SeenWhenNew
  <2>6. QED
    BY <1>1, <1>2, <2>2, <2>5 DEF SeenInv, Loading, HasRead
<1>4. ASSUME NEW l \in Layers, Join(s, l), ~overtaken
      PROVE  SeenInv'
  <2>1. \A k \in Layers : flight'[k] = flight[k] \/ Begins(k)
    BY <1>4, JoinBegins
  <2>2. ASSUME NEW k \in Layers, HasRead(k)'
        PROVE  flight'[k].value >= acked'
    <3>1. CASE flight'[k] = flight[k]
      BY <1>1, <1>4, <2>2, <3>1 DEF SeenInv, Loading, HasRead
    <3>2. CASE Begins(k)
      <4>1. Fresh(Depth) /\ flight'[k].value = entry[Depth].value
        BY <2>2, <3>2 DEF Begins, HasRead
      <4>2. QED
        BY <1>1, <1>4, <4>1, LayersAre DEF SeenInv, Fresh
    <3>3. QED
      BY <2>1, <3>1, <3>2
  <2>3. EditsSeenUnlessOvertaken'
    <3>1. PICK outcome : outcome = acked
      OBVIOUS
    <3>2. waiting'[s] # 0 /\ answer' = answer /\ \A t \in Screens \ {s} : waiting'[t] = waiting[t]
      BY <1>4, LayersAre DEF Join, ReadInv
    <3>3. \A t \in Screens :
              \/ waiting'[t] # 0
              \/ /\ waiting'[t] = 0 /\ waiting[t] = 0
                 /\ answer'[t] = answer[t] /\ floor'[t] = floor[t]
              \/ answer'[t] = outcome /\ floor'[t] <= acked /\ floor'[t] \in Nat
      BY <1>2, <3>2
    <3>4. acked' = acked /\ version' >= version /\ version' \in Nat /\ outcome \in Nat /\ outcome >= acked
      BY <1>1, <3>1 DEF ReadInv
    <3>5. QED
      BY <1>4, <3>3, <3>4, SeenWhenNew
  <2>4. QED
    BY <1>1, <1>2, <2>2, <2>3 DEF SeenInv, Loading, HasRead
<1>5. CASE overtaken
  BY <1>1, <1>2, <1>5 DEF SeenInv
<1>6. QED
  BY <1>3, <1>4, <1>5 DEF Ask

LEMMA DiscordKeepsSeen ==
    ASSUME Parameters, ReadInv, SeenInv, Discord
    PROVE  SeenInv'
<1>1. UNCHANGED <<version, entry, waiting, answer, writer, acked, overtaken, floor>>
  BY DEF Discord, DiscordAnswers, DiscordFails, list, handler
<1>2. EditsSeenUnlessOvertaken' <=> EditsSeenUnlessOvertaken
  BY <1>1 DEF EditsSeenUnlessOvertaken, Versions
<1>3. ASSUME NEW k \in Layers, HasRead(k)', ~overtaken
      PROVE  flight'[k].value >= acked
  <2>1. CASE flight'[k] = flight[k]
    BY <1>3, <2>1 DEF SeenInv, Loading, HasRead
  <2>2. CASE k = Depth /\ DiscordAnswers
    BY <2>2, AnswersIs DEF ReadInv
  <2>3. CASE k = Depth /\ DiscordFails
    BY <1>3, <2>3, FailsIs DEF HasRead
  <2>4. QED
    BY <2>1, <2>2, <2>3, AnswersIs, FailsIs DEF Discord
<1>4. QED
  BY <1>1, <1>2, <1>3 DEF SeenInv

LEMMA SettleKeepsSeen ==
    ASSUME Parameters, ReadInv, SeenInv, NEW l \in Layers, NEW outcome \in (0 .. version) \cup {Failed},
           Settle(l, outcome), ~overtaken => (outcome \in Nat => outcome >= acked),
           ~overtaken => \A k \in Layers : entry'[k] # NoEntry => entry'[k].value >= acked
    PROVE  SeenInv'
<1>1. /\ \A s \in Screens : \/ waiting[s] = l /\ waiting'[s] = 0 /\ answer'[s] = outcome
                            \/ waiting[s] # l /\ waiting'[s] = waiting[s] /\ answer'[s] = answer[s]
      /\ UNCHANGED <<version, writer, acked, overtaken, floor>>
  BY SettleAnswers
<1>2. outcome \in Nat \cup {Failed}
  BY DEF ReadInv
<1>3. flight'[l] = NoFlight /\ \A k \in Layers \ {l} : flight'[k] = flight[k] \/ GoesOn(k, outcome)
  BY <1>2, SettleGoesOn
<1>4. ASSUME NEW k \in Layers, HasRead(k)', ~overtaken
      PROVE  flight'[k].value >= acked
  <2>1. CASE flight'[k] = flight[k]
    BY <1>4, <2>1 DEF SeenInv, Loading, HasRead
  <2>2. CASE k # l /\ GoesOn(k, outcome)
    <3>1. outcome # Failed /\ flight'[k].value = outcome
      BY <1>4, <2>2 DEF GoesOn, HasRead
    <3>2. QED
      BY <1>2, <1>4, <3>1
  <2>3. QED
    BY <1>3, <1>4, <2>1, <2>2 DEF HasRead, Loading
<1>5. ASSUME ~overtaken
      PROVE  EditsSeenUnlessOvertaken'
  <2>1. \A s \in Screens :
              \/ waiting'[s] # 0
              \/ /\ waiting'[s] = 0 /\ waiting[s] = 0
                 /\ answer'[s] = answer[s] /\ floor'[s] = floor[s]
              \/ answer'[s] = outcome /\ floor'[s] <= acked /\ floor'[s] \in Nat
    BY <1>1 DEF SeenInv, ReadInv
  <2>2. acked' = acked /\ version' >= version /\ version' \in Nat
    BY <1>1 DEF ReadInv
  <2>3. QED
    BY <1>5, <2>1, <2>2, SeenWhenNew
<1>6. QED
  BY <1>1, <1>4, <1>5 DEF SeenInv

LEMMA EndKeepsSeen ==
    ASSUME Parameters, ReadInv, SeenInv, NEW l \in Layers, Ends(l)
    PROVE  SeenInv'
<1>1. CASE LoadReturns(l)
  <2>1. /\ flight[l].value \in 0 .. version /\ Settle(l, flight[l].value)
        /\ ~overtaken => flight[l].value >= acked
    BY <1>1 DEF LoadReturns, ReadInv, SeenInv, Loading, HasRead
  <2>2. entry' = [entry EXCEPT ![l] = [value |-> flight[l].value, at |-> now]]
    BY <1>1 DEF LoadReturns
  <2>3. entry'[l].value = flight[l].value /\ \A k \in Layers \ {l} : entry'[k] = entry[k]
    BY <2>2 DEF ReadInv
  <2>4. ~overtaken => \A k \in Layers : entry'[k] # NoEntry => entry'[k].value >= acked
    BY <2>1, <2>3 DEF SeenInv
  <2>5. QED
    BY <2>1, <2>4, SettleKeepsSeen
<1>2. CASE LoadThrows(l)
  <2>1. PICK outcome \in (0 .. version) \cup {Failed} :
           Settle(l, outcome) /\ (~overtaken => (outcome \in Nat => outcome >= acked))
    <3>1. entry[l] # NoEntry => /\ entry[l].value \in 0 .. version
                                /\ ~overtaken => entry[l].value >= acked
      BY DEF ReadInv, SeenInv, Entries
    <3>2. QED
      BY <1>2, <3>1 DEF LoadThrows, Parameters
  <2>2. entry' = entry
    BY <1>2 DEF LoadThrows
  <2>3. QED
    BY <2>1, <2>2, SettleKeepsSeen DEF SeenInv
<1>3. QED
  BY <1>1, <1>2 DEF Ends

LEMMA WritingKeepsSeen ==
    ASSUME Parameters, "save" \notin Writers, ReadInv, SeenInv, Writing
    PROVE  SeenInv'
<1>1. UNCHANGED <<flight, waiting, answer, floor>>
  BY DEF Writing, SetupWrites, SetupInvalidates, SaveInvalidates, SaveApplies, EditedInDiscord,
         caches, handler
<1>2. CASE ChangeList /\ UNCHANGED <<entry, acked, overtaken>> /\ writer' # "apply"
  <2>1. ~overtaken => EditsSeenUnlessOvertaken'
    <3>1. SUFFICES ASSUME ~overtaken
                   PROVE  EditsSeenUnlessOvertaken'
      OBVIOUS
    <3>2. acked' = acked /\ version' >= version /\ version' \in Nat /\ acked \in Nat
      BY <1>2, ChangeIs DEF ReadInv
    <3>3. PICK outcome : outcome = acked
      OBVIOUS
    <3>4. \A s \in Screens : waiting'[s] = waiting[s] /\ answer'[s] = answer[s] /\ floor'[s] = floor[s]
      BY <1>1
    <3>5. QED
      BY <3>1, <3>2, <3>3, <3>4, SeenWhenNew
  <2>2. QED
    BY <1>1, <1>2, <2>1 DEF SeenInv, Loading, HasRead
<1>3. CASE SetupInvalidates
  <2>1. /\ writer' = "idle" /\ acked' = version /\ version' = version
        /\ overtaken' = (overtaken \/ \E l \in Layers : flight[l] # NoFlight)
        /\ entry' = [l \in Layers |-> NoEntry]
    BY <1>3 DEF SetupInvalidates, DropEntries, list
  <2>2. \A s \in Screens : floor'[s] <= acked'
    BY <1>1, <2>1 DEF SeenInv, ReadInv
  <2>3. ~overtaken' => ~overtaken /\ \A l \in Layers : ~Loading(l)
    BY <2>1 DEF Loading
  <2>4. ~overtaken' => (EditsSeenUnlessOvertaken' <=> EditsSeenUnlessOvertaken)
    BY <1>1, <2>1, <2>3 DEF EditsSeenUnlessOvertaken, Versions
  <2>5. QED
    BY <1>1, <2>1, <2>2, <2>3, <2>4 DEF SeenInv, Loading, HasRead
<1>4. QED
  BY <1>2, <1>3 DEF Writing, SetupWrites, SaveInvalidates, SaveApplies, EditedInDiscord, SeenInv,
                    caches, handler

LEMMA NextSeen ==
    ASSUME Parameters, "save" \notin Writers, ReadInv, SeenInv, [Next]_vars
    PROVE  SeenInv'
<1>1. CASE Tick \/ UNCHANGED vars
  <2>1. UNCHANGED <<version, entry, flight, waiting, answer, writer, acked, floor, overtaken>>
    BY <1>1 DEF Tick, vars, list, caches, handler
  <2>2. EditsSeenUnlessOvertaken' <=> EditsSeenUnlessOvertaken
    BY <2>1 DEF EditsSeenUnlessOvertaken, Versions
  <2>3. QED
    BY <2>1, <2>2 DEF SeenInv, Loading, HasRead
<1>2. QED
  BY <1>1, AskKeepsSeen, DiscordKeepsSeen, EndKeepsSeen, WritingKeepsSeen DEF Next

-----------------------------------------------------------------------------
(* Where reads do not fail, what is cached was Discord's lately.           *)

LEMMA LagIs ==
    ASSUME Parameters, NEW l \in Layers
    PROVE  Lag(l) \in Nat /\ Lag(l) + (Ttl - 1) <= Call + Depth * (Ttl - 1)
<1>1. Call \in Nat /\ Ttl \in Nat /\ Ttl >= 1 /\ l \in 1 .. Depth
  BY DEF Parameters, Layers
<1>2. CASE Depth = 1
  BY <1>1, <1>2 DEF Lag
<1>3. CASE Depth = 2
  <2>1. Depth * (Ttl - 1) = (Ttl - 1) + (Ttl - 1)
    BY <1>1, <1>3
  <2>2. Lag(l) \in {Call, Call + (Ttl - 1)}
    BY DEF Lag
  <2>3. QED
    BY <1>1, <2>1, <2>2
<1>4. QED
  BY <1>2, <1>3 DEF Parameters

LEMMA InitRecent == ASSUME Parameters, Init PROVE RecentInv
<1>1. \A l \in Layers : entry[l] = NoEntry /\ ~Loading(l)
  BY DEF Init, Loading
<1>2. QED
  BY <1>1, LayersAre DEF RecentInv, HasRead

(* What a layer has read when it writes its entry.                         *)
LEMMA ReadIsRecent ==
    ASSUME Parameters, ReadInv, RecentInv, NEW l \in Layers, HasRead(l)
    PROVE  flight[l].value \in 0 .. version /\ CurrentAt(flight[l].value, now, Lag(l))
<1>1. flight[l].value \in 0 .. version
  BY DEF ReadInv
<1>2. CASE l # Depth
  BY <1>1, <1>2 DEF RecentInv
<1>3. CASE l = Depth
  <2>1. flight[l] \in Flights /\ flight[l].began \in Nat
    BY DEF HasRead, Loading, ReadInv, Flights
  <2>2. CurrentAt(flight[l].value, flight[l].began, 0) /\ now <= flight[l].began + Call
    BY <1>3 DEF RecentInv, HasRead
  <2>3. CASE flight[l].value = version
    BY <1>1, <2>3 DEF CurrentAt
  <2>4. CASE flight[l].value # version
    <3>1. replacedAt[flight[l].value] \in Nat
      BY <1>1, <2>4 DEF ReadInv
    <3>2. now <= replacedAt[flight[l].value] + Call
      BY <2>1, <2>2, <2>4, <3>1 DEF CurrentAt, ReadInv, Parameters
    <3>3. QED
      BY <1>1, <1>3, <3>2 DEF CurrentAt, Lag
  <2>5. QED
    BY <2>3, <2>4
<1>4. QED
  BY <1>2, <1>3

(* What a layer still has inside its TTL.                                  *)
LEMMA FreshIsRecent ==
    ASSUME Parameters, ReadInv, RecentInv, NEW l \in Layers, Fresh(l)
    PROVE  entry[l].value \in 0 .. version /\ CurrentAt(entry[l].value, now, Lag(l) + (Ttl - 1))
<1>1. entry[l] \in Entries /\ entry[l].value \in 0 .. version /\ entry[l].at \in Nat
  BY DEF Fresh, ReadInv, Entries
<1>2. CurrentAt(entry[l].value, entry[l].at, Lag(l)) /\ now - entry[l].at < Ttl
  BY DEF Fresh, RecentInv
<1>3. CASE entry[l].value = version
  BY <1>1, <1>3 DEF CurrentAt
<1>4. CASE entry[l].value # version
  <2>1. replacedAt[entry[l].value] \in Nat /\ now \in Nat /\ Ttl \in Nat /\ Lag(l) \in Nat
    BY <1>1, <1>4, LagIs DEF ReadInv, Parameters
  <2>2. entry[l].at <= replacedAt[entry[l].value] + Lag(l)
    BY <1>2, <1>4 DEF CurrentAt
  <2>3. now <= replacedAt[entry[l].value] + (Lag(l) + (Ttl - 1))
    BY <1>1, <1>2, <2>1, <2>2
  <2>4. QED
    BY <1>1, <2>3 DEF CurrentAt
<1>5. QED
  BY <1>3, <1>4

LEMMA JoinKeepsRecent ==
    ASSUME Parameters, ReadInv, RecentInv, NEW s \in Screens, NEW l \in Layers, Join(s, l)
    PROVE  RecentInv'
<1>1. /\ UNCHANGED <<now, version, replacedAt, entry>>
      /\ \A k \in Layers : flight'[k] = flight[k] \/ Begins(k)
  BY JoinBegins DEF Join, list
<1>2. ASSUME NEW k \in Layers, flight'[k] = flight[k]
      PROVE  (Loading(k)' <=> Loading(k)) /\ (HasRead(k)' <=> HasRead(k))
  BY <1>2 DEF Loading, HasRead
<1>3. now \in Nat /\ Call \in Nat /\ Depth \in Layers
  BY LayersAre DEF ReadInv, Parameters
<1>4. ASSUME NEW k \in Layers, k # Depth, HasRead(k)'
      PROVE  CurrentAt(flight[k].value, now, Lag(k))'
  <2>1. CASE flight'[k] = flight[k]
    BY <1>1, <1>2, <1>4, <2>1 DEF RecentInv, CurrentAt
  <2>2. CASE Begins(k)
    <3>1. Fresh(Depth) /\ flight'[k].value = entry[Depth].value
      BY <1>4, <2>2 DEF Begins, HasRead
    <3>2. CurrentAt(entry[Depth].value, now, Lag(Depth) + (Ttl - 1))
      BY <1>3, <3>1, FreshIsRecent
    <3>3. Lag(Depth) + (Ttl - 1) = Lag(k)
      BY <1>4 DEF Lag
    <3>4. QED
      BY <1>1, <3>1, <3>2, <3>3 DEF CurrentAt
  <2>3. QED
    BY <1>1, <2>1, <2>2
<1>5. ASSUME NEW k \in Layers, Loading(k)'
      PROVE  flight'[k].phase # "failed"
  BY <1>1, <1>2, <1>5 DEF RecentInv, Begins
<1>6. Loading(Depth)' => flight'[Depth].began <= now' /\ now' <= flight'[Depth].began + Call
  BY <1>1, <1>2, <1>3 DEF RecentInv, Begins
<1>7. HasRead(Depth)' => CurrentAt(flight[Depth].value, flight[Depth].began, 0)'
  BY <1>1, <1>2, <1>3 DEF RecentInv, Begins, HasRead, CurrentAt
<1>8. \A k \in Layers : entry'[k] # NoEntry => /\ entry'[k].at <= now'
                                               /\ CurrentAt(entry[k].value, entry[k].at, Lag(k))'
  BY <1>1 DEF RecentInv, CurrentAt
<1>9. QED
  BY <1>4, <1>5, <1>6, <1>7, <1>8 DEF RecentInv

LEMMA DiscordKeepsRecent ==
    ASSUME Parameters, CanFail = FALSE, ReadInv, RecentInv, Discord
    PROVE  RecentInv'
<1>1. DiscordAnswers /\ UNCHANGED <<now, version, replacedAt, entry>>
  BY DEF Discord, DiscordAnswers, DiscordFails, list
<1>2. /\ Loading(Depth) /\ flight'[Depth] \in Flights /\ flight'[Depth].phase = "read"
      /\ flight'[Depth].value = version /\ flight'[Depth].began = flight[Depth].began
      /\ \A k \in Layers \ {Depth} : flight'[k] = flight[k]
  BY <1>1, AnswersIs
<1>3. \A k \in Layers \ {Depth} : (Loading(k)' <=> Loading(k)) /\ (HasRead(k)' <=> HasRead(k))
  BY <1>2 DEF Loading, HasRead
<1>4. \A k \in Layers : entry'[k] # NoEntry => /\ entry'[k].at <= now'
                                               /\ CurrentAt(entry[k].value, entry[k].at, Lag(k))'
  BY <1>1 DEF RecentInv, CurrentAt
<1>5. flight'[Depth].began <= now' /\ now' <= flight'[Depth].began + Call
  BY <1>1, <1>2 DEF RecentInv
<1>6. CurrentAt(flight[Depth].value, flight[Depth].began, 0)'
  BY <1>1, <1>2 DEF CurrentAt
<1>7. \A k \in Layers : Loading(k)' => flight'[k].phase # "failed"
  BY <1>2, <1>3 DEF RecentInv
<1>8. \A k \in Layers : k # Depth /\ HasRead(k)' => CurrentAt(flight[k].value, now, Lag(k))'
  BY <1>1, <1>2, <1>3 DEF RecentInv, CurrentAt
<1>9. QED
  BY <1>4, <1>5, <1>6, <1>7, <1>8 DEF RecentInv

LEMMA EndKeepsRecent ==
    ASSUME Parameters, ReadInv, RecentInv, NEW l \in Layers, Ends(l)
    PROVE  RecentInv'
<1>1. LoadReturns(l)
  BY DEF Ends, LoadThrows, RecentInv, Loading
<1>2. HasRead(l) /\ Settle(l, flight[l].value)
  BY <1>1 DEF LoadReturns, HasRead, Loading
<1>3. PICK outcome \in 0 .. version : outcome = flight[l].value /\ CurrentAt(outcome, now, Lag(l))
  BY <1>2, ReadIsRecent
<1>4. /\ outcome \in Nat \cup {Failed} /\ outcome # Failed /\ Settle(l, outcome)
      /\ outcome \in (0 .. version) \cup {Failed}
  BY <1>2, <1>3 DEF Parameters, ReadInv
<1>5. /\ flight'[l] = NoFlight /\ \A k \in Layers \ {l} : flight'[k] = flight[k] \/ GoesOn(k, outcome)
      /\ UNCHANGED <<now, version, replacedAt>>
  BY <1>4, SettleGoesOn, SettleAnswers
<1>6. /\ entry'[l].value = outcome /\ entry'[l].at = now
      /\ \A k \in Layers \ {l} : entry'[k] = entry[k]
  BY <1>1, <1>3 DEF LoadReturns, ReadInv
<1>7. now \in Nat /\ Depth \in Layers
  BY LayersAre DEF ReadInv
<1>8. ASSUME NEW k \in Layers, entry'[k] # NoEntry
      PROVE  entry'[k].at <= now' /\ CurrentAt(entry[k].value, entry[k].at, Lag(k))'
  <2>1. CASE k = l
    BY <1>3, <1>5, <1>6, <1>7, <2>1 DEF CurrentAt
  <2>2. CASE k # l
    BY <1>5, <1>6, <1>8, <2>2 DEF RecentInv, CurrentAt
  <2>3. QED
    BY <2>1, <2>2
<1>9. ASSUME NEW k \in Layers, Loading(k)'
      PROVE  flight'[k].phase # "failed"
  BY <1>4, <1>5, <1>9 DEF RecentInv, Loading, GoesOn
<1>10. ASSUME Loading(Depth)'
       PROVE  flight'[Depth] = flight[Depth] /\ Loading(Depth)
  BY <1>5, <1>7, <1>10 DEF Loading, GoesOn
<1>11. ASSUME NEW k \in Layers, k # Depth, HasRead(k)'
       PROVE  CurrentAt(flight[k].value, now, Lag(k))'
  <2>1. CASE flight'[k] = flight[k]
    BY <1>5, <1>11, <2>1 DEF RecentInv, CurrentAt, HasRead, Loading
  <2>2. CASE k # l /\ GoesOn(k, outcome)
    <3>1. l = Depth
      BY <1>11, <2>2, LayersAre
    <3>2. flight'[k].value = outcome
      BY <1>4, <2>2 DEF GoesOn
    <3>3. CASE outcome = version
      BY <1>5, <3>2, <3>3 DEF CurrentAt
    <3>4. CASE outcome # version
      <4>1. replacedAt[outcome] \in Nat
        BY <3>4 DEF ReadInv
      <4>2. now <= replacedAt[outcome] + Lag(Depth)
        BY <1>3, <3>1, <3>4 DEF CurrentAt
      <4>3. now <= replacedAt[outcome] + Lag(k)
        BY <1>7, <1>11, <4>1, <4>2 DEF Lag, Parameters
      <4>4. QED
        BY <1>5, <3>2, <4>3 DEF CurrentAt, Lag
    <3>5. QED
      BY <3>3, <3>4
  <2>3. QED
    BY <1>5, <1>11, <2>1, <2>2 DEF HasRead, Loading
<1>12. Loading(Depth)' => flight'[Depth].began <= now' /\ now' <= flight'[Depth].began + Call
  BY <1>5, <1>10 DEF RecentInv
<1>13. HasRead(Depth)' => CurrentAt(flight[Depth].value, flight[Depth].began, 0)'
  BY <1>5, <1>10 DEF RecentInv, HasRead, CurrentAt
<1>14. QED
  BY <1>8, <1>9, <1>11, <1>12, <1>13 DEF RecentInv

(* A version is current until the change, and was a moment ago after it.   *)
LEMMA ChangeKeepsCurrent ==
    ASSUME ReadInv, ChangeList, NEW v \in 0 .. version, NEW t \in Nat, NEW d \in Nat, t <= now,
           CurrentAt(v, t, d)
    PROVE  v = version' \/ t <= replacedAt'[v] + d
<1>1. /\ replacedAt'[version] = now /\ now \in Nat
      /\ \A w \in 0 .. version - 1 : replacedAt'[w] = replacedAt[w]
  BY ChangeIs DEF ReadInv
<1>2. CASE v = version
  BY <1>1, <1>2
<1>3. CASE v # version
  BY <1>1, <1>3 DEF CurrentAt, ReadInv
<1>4. QED
  BY <1>2, <1>3

LEMMA WritingKeepsRecent ==
    ASSUME Parameters, ReadInv, RecentInv, Writing
    PROVE  RecentInv'
<1>1. UNCHANGED <<now, flight>>
  BY DEF Writing, SetupWrites, SetupInvalidates, SaveInvalidates, SaveApplies, EditedInDiscord, caches
<1>2. \A k \in Layers : (Loading(k)' <=> Loading(k)) /\ (HasRead(k)' <=> HasRead(k))
  BY <1>1 DEF Loading, HasRead
<1>3. Depth \in Layers /\ now \in Nat
  BY LayersAre DEF ReadInv
<1>4. Loading(Depth)' <=> Loading(Depth)
  BY <1>2, <1>3
<1>5. HasRead(Depth)' <=> HasRead(Depth)
  BY <1>2, <1>3
<1>6. CASE ChangeList /\ entry' = entry
  <2>1. ASSUME NEW k \in Layers, entry[k] # NoEntry
        PROVE  CurrentAt(entry[k].value, entry[k].at, Lag(k))'
    <3>1. /\ entry[k].value \in 0 .. version /\ entry[k].at \in Nat /\ entry[k].at <= now
          /\ CurrentAt(entry[k].value, entry[k].at, Lag(k)) /\ Lag(k) \in Nat
      BY <2>1, LagIs DEF ReadInv, Entries, RecentInv
    <3>2. QED
      BY <1>6, <3>1, ChangeKeepsCurrent DEF CurrentAt, Lag
  <2>2. ASSUME HasRead(Depth)
        PROVE  CurrentAt(flight[Depth].value, flight[Depth].began, 0)'
    <3>1. /\ flight[Depth].value \in 0 .. version /\ flight[Depth].began \in Nat
          /\ flight[Depth].began <= now /\ CurrentAt(flight[Depth].value, flight[Depth].began, 0)
      BY <1>3, <2>2 DEF ReadInv, Flights, RecentInv, HasRead, Loading
    <3>2. QED
      BY <1>1, <1>6, <3>1, ChangeKeepsCurrent DEF CurrentAt
  <2>3. ASSUME NEW k \in Layers, k # Depth, HasRead(k)
        PROVE  CurrentAt(flight[k].value, now, Lag(k))'
    <3>1. /\ flight[k].value \in 0 .. version /\ Lag(k) \in Nat
          /\ CurrentAt(flight[k].value, now, Lag(k))
      BY <2>3, LagIs DEF ReadInv, RecentInv
    <3>2. QED
      BY <1>1, <1>3, <1>6, <3>1, ChangeKeepsCurrent DEF CurrentAt, Lag
  <2>4. QED
    BY <1>1, <1>2, <1>4, <1>5, <1>6, <2>1, <2>2, <2>3 DEF RecentInv
<1>7. CASE DropEntries /\ UNCHANGED <<version, replacedAt>>
  <2>1. \A k \in Layers : entry'[k] = NoEntry
    BY <1>7 DEF DropEntries
  <2>2. QED
    BY <1>1, <1>2, <1>4, <1>5, <1>7, <2>1 DEF RecentInv, CurrentAt
<1>8. QED
  BY <1>6, <1>7 DEF Writing, SetupWrites, SetupInvalidates, SaveInvalidates, SaveApplies,
                    EditedInDiscord, caches, list

LEMMA TickKeepsRecent ==
    ASSUME Parameters, ReadInv, RecentInv, Tick
    PROVE  RecentInv'
<1>1. /\ now' = now + 1 /\ UNCHANGED <<version, replacedAt, entry, flight>>
      /\ Loading(Depth) => now < flight[Depth].began + Call
      /\ \A k \in Layers : Loading(k) => k = Depth \/ flight[k].phase = "below"
  BY DEF Tick, list, caches, Loading
<1>2. \A k \in Layers : (Loading(k)' <=> Loading(k)) /\ (HasRead(k)' <=> HasRead(k))
  BY <1>1 DEF Loading, HasRead
<1>3. Depth \in Layers /\ now \in Nat
  BY LayersAre DEF ReadInv
<1>4. \A k \in Layers : entry[k] # NoEntry => entry[k].at \in Nat
  BY DEF ReadInv, Entries
<1>5. Loading(Depth) => flight[Depth].began \in Nat
  BY <1>3 DEF ReadInv, Flights, Loading
<1>6. \A k \in Layers : entry'[k] # NoEntry => /\ entry'[k].at <= now'
                                               /\ CurrentAt(entry[k].value, entry[k].at, Lag(k))'
  BY <1>1, <1>3, <1>4 DEF RecentInv, CurrentAt
<1>7. Loading(Depth)' => flight'[Depth].began <= now' /\ now' <= flight'[Depth].began + Call
  BY <1>1, <1>2, <1>3, <1>5 DEF RecentInv, Parameters
<1>8. HasRead(Depth)' => CurrentAt(flight[Depth].value, flight[Depth].began, 0)'
  BY <1>1, <1>2, <1>3 DEF RecentInv, CurrentAt
<1>9. \A k \in Layers : k # Depth => ~HasRead(k)'
  BY <1>1, <1>2 DEF HasRead
<1>10. QED
  BY <1>1, <1>2, <1>6, <1>7, <1>8, <1>9 DEF RecentInv

LEMMA NextRecent ==
    ASSUME Parameters, CanFail = FALSE, ReadInv, RecentInv, [Next]_vars
    PROVE  RecentInv'
<1>1. ASSUME UNCHANGED <<now, version, replacedAt, entry, flight>>
      PROVE  RecentInv'
  BY <1>1 DEF RecentInv, Loading, HasRead, CurrentAt
<1>2. ASSUME NEW s \in Screens, Ask(s)
      PROVE  RecentInv'
  BY <1>1, <1>2, JoinKeepsRecent DEF Ask, Hit, list
<1>3. QED
  BY <1>1, <1>2, DiscordKeepsRecent, EndKeepsRecent, WritingKeepsRecent, TickKeepsRecent DEF Next, vars

-----------------------------------------------------------------------------
(* A screen is given what was current lately.                              *)

LEMMA RecentIsAllowed ==
    ASSUME Parameters, ReadInv, NEW l \in Layers, NEW v \in 0 .. version,
           CurrentAt(v, now, Lag(l)) \/ CurrentAt(v, now, Lag(l) + (Ttl - 1))
    PROVE  v \in Bounded!CurrentLately
<1> DEFINE bound == Call + Depth * (Ttl - 1)
<1>1. /\ Lag(l) \in Nat /\ Ttl - 1 \in Nat /\ Lag(l) + (Ttl - 1) <= bound
  BY LagIs DEF Parameters
<1>2. bound \in Nat
  BY DEF Parameters
<1> HIDE DEF bound
<1>3. v # version => now <= replacedAt[v] + bound
  <2>1. SUFFICES ASSUME v # version
                 PROVE  now <= replacedAt[v] + bound
    OBVIOUS
  <2>2. replacedAt[v] \in Nat /\ now \in Nat
    BY <2>1 DEF ReadInv
  <2>3. now <= replacedAt[v] + Lag(l) \/ now <= replacedAt[v] + (Lag(l) + (Ttl - 1))
    BY <2>1 DEF CurrentAt
  <2>4. QED
    BY <1>1, <1>2, <2>2, <2>3
<1>4. QED
  BY <1>3 DEF Bounded!CurrentLately, Bounded!Versions, bound

LEMMA HitAnswers ==
    ASSUME Parameters, ReadInv, RecentInv, NEW s \in Screens, NEW l \in Layers, Hit(s, l)
    PROVE  Bounded!Answer
<1>1. Fresh(l) /\ UNCHANGED <<now, version, replacedAt>>
  BY DEF Hit, list
<1>2. entry[l].value \in 0 .. version /\ CurrentAt(entry[l].value, now, Lag(l) + (Ttl - 1))
  BY <1>1, FreshIsRecent
<1>3. PICK a \in Bounded!CurrentLately : a = entry[l].value
  BY <1>2, RecentIsAllowed
<1>4. answer' = [x \in Screens |-> IF x \in {s} THEN a ELSE answer[x]]
  BY <1>3 DEF Hit, ReadInv
<1>5. {s} \in SUBSET Screens /\ a \in Bounded!CurrentLately \cup {Failed}
  OBVIOUS
<1>6. QED
  BY <1>1, <1>4, <1>5 DEF Bounded!Answer

LEMMA EndAnswers ==
    ASSUME Parameters, ReadInv, RecentInv, NEW l \in Layers, Ends(l)
    PROVE  Bounded!Answer
<1>1. LoadReturns(l)
  BY DEF Ends, LoadThrows, RecentInv, Loading
<1>2. HasRead(l) /\ Settle(l, flight[l].value)
  BY <1>1 DEF LoadReturns, HasRead, Loading
<1>3. flight[l].value \in 0 .. version /\ CurrentAt(flight[l].value, now, Lag(l))
  BY <1>2, ReadIsRecent
<1>4. PICK a \in Bounded!CurrentLately : a = flight[l].value
  BY <1>3, RecentIsAllowed
<1>5. PICK given \in SUBSET Screens : given = {s \in Screens : waiting[s] = l}
  OBVIOUS
<1>6. /\ answer' = [x \in Screens |-> IF x \in given THEN a ELSE answer[x]]
      /\ UNCHANGED <<now, version, replacedAt>>
  BY <1>2, <1>4, <1>5 DEF Settle, list
<1>7. a \in Bounded!CurrentLately \cup {Failed}
  OBVIOUS
<1>8. QED
  BY <1>6, <1>7 DEF Bounded!Answer

LEMMA NextAnswers ==
    ASSUME Parameters, CanFail = FALSE, ReadInv, RecentInv, [Next]_vars
    PROVE  [Bounded!Next]_Bounded!vars
<1>1. ASSUME NEW s \in Screens, NEW l \in Layers, Join(s, l)
      PROVE  UNCHANGED Bounded!vars
  BY <1>1 DEF Join, list, Bounded!vars
<1>2. CASE Discord \/ UNCHANGED vars
  BY <1>2 DEF Discord, DiscordAnswers, DiscordFails, list, vars, Bounded!vars
<1>3. CASE Writing
  <2>1. CASE ChangeList /\ UNCHANGED <<now, answer>>
    BY <2>1 DEF ChangeList, Versions, Bounded!Next, Bounded!Change, Bounded!Versions
  <2>2. CASE UNCHANGED <<now, version, replacedAt, answer>>
    BY <2>2 DEF Bounded!vars
  <2>3. QED
    BY <1>3, <2>1, <2>2 DEF Writing, SetupWrites, SetupInvalidates, SaveInvalidates, SaveApplies,
                            EditedInDiscord, caches, list
<1>4. CASE Tick
  BY <1>4 DEF Tick, list, caches, Bounded!Next, Bounded!Tick
<1>5. QED
  BY <1>1, <1>2, <1>3, <1>4, HitAnswers, EndAnswers DEF Next, Ask, Bounded!Next

-----------------------------------------------------------------------------
(* Discord is asked again only once the TTL has passed.                    *)

LEMMA OneRequest ==
    ASSUME Parameters, ReadInv, [Next]_vars, flight[Depth] = NoFlight, flight'[Depth] # NoFlight
    PROVE  lastLoad = Never \/ now - lastLoad >= Ttl
<1>1. Depth \in Layers
  BY LayersAre
<1>2. ASSUME NEW s \in Screens, NEW l \in Layers, Join(s, l)
      PROVE  ~Fresh(Depth)
  BY <1>1, <1>2, JoinBegins DEF Begins
<1>3. ASSUME NEW l \in Layers, Ends(l)
      PROVE  FALSE
  <2>1. PICK outcome \in Nat \cup {Failed} : Settle(l, outcome)
    <3>1. CASE LoadReturns(l)
      <4>1. flight[l].value \in Nat
        BY <3>1 DEF LoadReturns, ReadInv, HasRead, Loading
      <4>2. QED
        BY <3>1, <4>1 DEF LoadReturns
    <3>2. CASE LoadThrows(l) /\ entry[l] # NoEntry
      <4>1. entry[l].value \in Nat
        BY <3>2 DEF ReadInv, Entries
      <4>2. QED
        BY <3>2, <4>1 DEF LoadThrows
    <3>3. CASE LoadThrows(l) /\ entry[l] = NoEntry
      BY <3>3 DEF LoadThrows
    <3>4. QED
      BY <1>3, <3>1, <3>2, <3>3 DEF Ends
  <2>2. flight'[l] = NoFlight /\ \A k \in Layers \ {l} : flight'[k] = flight[k] \/ GoesOn(k, outcome)
    BY <2>1, SettleGoesOn
  <2>3. QED
    BY <1>1, <2>2 DEF GoesOn
<1>4. ~Discord
  BY AnswersIs, FailsIs DEF Discord, Loading
<1>5. ~Writing /\ ~Tick /\ ~UNCHANGED vars
  BY DEF Writing, SetupWrites, SetupInvalidates, SaveInvalidates, SaveApplies, EditedInDiscord,
         Tick, caches, vars
<1>6. ~Fresh(Depth)
  <2>1. ASSUME NEW s \in Screens, NEW l \in Layers, Hit(s, l)
        PROVE  FALSE
    BY <2>1 DEF Hit
  <2>2. QED
    BY <1>2, <1>3, <1>4, <1>5, <2>1 DEF Next, Ask
<1>7. QED
  BY <1>1, <1>6 DEF Fresh, ReadInv, Entries, Parameters

-----------------------------------------------------------------------------
(* The types, in full: nobody awaits a load that is not running, and what  *)
(* is cached, given or on its way is a version the list has had.           *)

Bounds == MaxTime \in Nat /\ MaxVersion \in Nat

TypesInv ==
    /\ ReadInv
    /\ now <= MaxTime /\ version <= MaxVersion
    /\ \A v \in 0 .. version - 1 : replacedAt[v] <= MaxTime
    /\ \A l \in Layers : entry[l] # NoEntry => entry[l].at <= now
    /\ \A l \in Layers : Loading(l) => flight[l].value \in Versions \cup {NoAnswer}
    /\ \A s \in Screens : waiting[s] # 0 => flight[waiting[s]] # NoFlight
    /\ \A s \in Screens : answer[s] \in Versions \cup {NoAnswer, Failed} /\ floor[s] \in Versions
    /\ writer \in {"idle", "invalidate", "apply"} /\ overtaken \in BOOLEAN
    /\ lastLoad \in {Never} \cup 0 .. now

LEMMA TypesAre == ASSUME Parameters, TypesInv PROVE TypeOK
<1>1. /\ now \in 0 .. MaxTime /\ version \in 0 .. MaxVersion /\ acked \in Versions
      /\ replacedAt \in [0 .. version - 1 -> 0 .. MaxTime]
  BY DEF TypesInv, ReadInv, Versions
<1>2. ASSUME NEW l \in Layers
      PROVE  entry[l] = NoEntry \/ (entry[l].value \in Versions /\ entry[l].at \in 0 .. now)
  BY DEF TypesInv, ReadInv, Entries, Versions
<1>3. ASSUME NEW l \in Layers, flight[l] # NoFlight
      PROVE  /\ flight[l].phase \in Phases /\ flight[l].value \in Versions \cup {NoAnswer}
             /\ flight[l].phase = "below" => l < Depth
  <2>1. flight[l] \in Flights /\ flight[l].value \in Versions \cup {NoAnswer}
        /\ (flight[l].phase = "below" => l # Depth)
    BY <1>3 DEF TypesInv, ReadInv, Loading
  <2>2. QED
    BY <2>1, LayersAre DEF Flights
<1>4. /\ waiting \in [Screens -> 0 .. Depth]
      /\ \A s \in Screens : waiting[s] # 0 => flight[waiting[s]] # NoFlight
      /\ answer \in [Screens -> Versions \cup {NoAnswer, Failed}] /\ floor \in [Screens -> Versions]
  BY DEF TypesInv, ReadInv, Loading
<1>5. QED
  BY <1>1, <1>2, <1>3, <1>4 DEF TypesInv, TypeOK

LEMMA InitTypes == ASSUME Parameters, Bounds, Init PROVE TypesInv
<1>1. ReadInv
  BY InitRead
<1>2. /\ \A l \in Layers : entry[l] = NoEntry /\ ~Loading(l)
      /\ \A s \in Screens : waiting[s] = 0 /\ answer[s] = NoAnswer /\ floor[s] = 0
      /\ now = 0 /\ version = 0 /\ lastLoad = Never /\ writer = "idle" /\ overtaken = FALSE
  BY DEF Init, Loading
<1>3. Versions = 0 .. 0 /\ 0 .. version - 1 = {}
  BY <1>2 DEF Versions
<1>4. now <= MaxTime /\ version <= MaxVersion
  BY DEF Init, Bounds
<1>5. writer \in {"idle", "invalidate", "apply"} /\ overtaken \in BOOLEAN
  BY DEF Init
<1>6. \A v \in 0 .. version - 1 : replacedAt[v] <= MaxTime
  BY <1>3
<1>7. 0 \in Versions
  BY <1>3
<1>8. \A s \in Screens : /\ waiting[s] # 0 => flight[waiting[s]] # NoFlight
                        /\ answer[s] \in Versions \cup {NoAnswer, Failed} /\ floor[s] \in Versions
  BY <1>2, <1>7
<1>9. QED
  BY <1>1, <1>2, <1>4, <1>5, <1>6, <1>8 DEF TypesInv

LEMMA AskKeepsTypes ==
    ASSUME Parameters, Bounds, TypesInv, NEW s \in Screens, Ask(s)
    PROVE  TypesInv'
<1>1. ReadInv'
  BY AskKeepsRead DEF TypesInv
<1>2. acked \in Versions /\ Depth \in Layers
  BY LayersAre DEF TypesInv, ReadInv, Versions
<1>3. ASSUME NEW l \in Layers, Hit(s, l) PROVE TypesInv'
  <2>1. entry[l].value \in Versions
    BY <1>3 DEF Hit, Fresh, TypesInv, ReadInv, Entries, Versions
  <2>2. UNCHANGED <<now, version, replacedAt, entry, flight, waiting, lastLoad, writer, acked, overtaken>>
    BY <1>3 DEF Hit, list, handler
  <2>3. \A t \in Screens : answer'[t] \in Versions \cup {NoAnswer, Failed} /\ floor'[t] \in Versions
    BY <1>2, <1>3, <2>1 DEF Hit, TypesInv, ReadInv
  <2>4. QED
    BY <1>1, <2>2, <2>3 DEF TypesInv, Loading, Versions
<1>4. ASSUME NEW l \in Layers, Join(s, l) PROVE TypesInv'
  <2>1. /\ UNCHANGED <<now, version, replacedAt, entry, answer, lastLoad, writer, acked, overtaken>>
        /\ waiting' = [waiting EXCEPT ![s] = l] /\ floor' = [floor EXCEPT ![s] = acked]
        /\ flight' = IF flight[l] # NoFlight THEN flight ELSE Loads(l)
    BY <1>4 DEF Join, list, handler
  <2>2. flight \in [Layers -> Flights \cup {NoFlight}] /\ now \in Nat
    BY DEF TypesInv, ReadInv
  <2>3. /\ Fly("asked", NoAnswer) \in Flights /\ Fly("asked", NoAnswer).value = NoAnswer
        /\ Fly("below", NoAnswer) \in Flights /\ Fly("below", NoAnswer).value = NoAnswer
    BY <2>2, FlyIs DEF Phases
  <2>4. Fresh(Depth) => entry[Depth].value \in Versions
    BY <1>2 DEF Fresh, TypesInv, ReadInv, Entries, Versions
  <2>5. Fresh(Depth) => /\ Fly("read", entry[Depth].value) \in Flights
                        /\ Fly("read", entry[Depth].value).value = entry[Depth].value
    <3>1. Fresh(Depth) => entry[Depth].value \in Nat
      BY <2>4 DEF Versions
    <3>2. QED
      BY <2>2, <3>1, FlyIs DEF Phases
  <2>6. NoFlight \notin Flights
    BY DEF Parameters
  <2>7. ASSUME flight[l] = NoFlight
        PROVE  /\ flight'[l] \in Flights /\ flight'[l].value \in Versions \cup {NoAnswer}
               /\ \A k \in Layers \ {l} : \/ flight'[k] = flight[k]
                                          \/ flight'[k] \in Flights /\ flight'[k].value = NoAnswer
    <3>1. CASE l = Depth
      BY <2>1, <2>2, <2>3, <2>7, <3>1 DEF Loads
    <3>2. CASE l # Depth /\ Fresh(Depth)
      BY <2>1, <2>2, <2>4, <2>5, <2>7, <3>2 DEF Loads
    <3>3. CASE l # Depth /\ ~Fresh(Depth)
      <4>1. flight' = [flight EXCEPT ![l] = Fly("below", NoAnswer),
                                     ![Depth] = IF @ = NoFlight THEN Fly("asked", NoAnswer) ELSE @]
        BY <2>1, <2>7, <3>3 DEF Loads
      <4>2. /\ flight'[l] = Fly("below", NoAnswer)
            /\ flight'[Depth] = IF flight[Depth] = NoFlight THEN Fly("asked", NoAnswer) ELSE flight[Depth]
            /\ \A k \in Layers \ {l, Depth} : flight'[k] = flight[k]
        BY <1>2, <2>2, <3>3, <4>1
      <4>3. QED
        BY <2>3, <4>2
    <3>4. QED
      BY <3>1, <3>2, <3>3
  <2>8. /\ Loading(l)' /\ (Loading(l)' => flight'[l].value \in Versions \cup {NoAnswer})
        /\ \A k \in Layers : Loading(k) => Loading(k)'
        /\ \A k \in Layers : Loading(k)' => flight'[k].value \in Versions \cup {NoAnswer}
    BY <2>1, <2>6, <2>7 DEF Loading, TypesInv
  <2>9. ASSUME NEW t \in Screens, waiting'[t] # 0 PROVE flight'[waiting'[t]] # NoFlight
    <3>1. CASE t = s
      BY <2>1, <2>8, <3>1 DEF TypesInv, ReadInv, Loading
    <3>2. CASE t # s
      <4>1. waiting'[t] = waiting[t] /\ waiting[t] \in Layers /\ flight[waiting[t]] # NoFlight
        BY <2>1, <2>9, <3>2, LayersAre DEF TypesInv, ReadInv
      <4>2. QED
        BY <2>8, <4>1 DEF Loading
    <3>3. QED
      BY <3>1, <3>2
  <2>10. \A t \in Screens : floor'[t] \in Versions
    BY <1>2, <2>1 DEF TypesInv, ReadInv
  <2>11. QED
    BY <1>1, <2>1, <2>8, <2>9, <2>10 DEF TypesInv, Versions
<1>5. QED
  BY <1>3, <1>4 DEF Ask

LEMMA DiscordKeepsTypes ==
    ASSUME Parameters, Bounds, TypesInv, Discord
    PROVE  TypesInv'
<1>1. ReadInv' /\ ReadInv
  BY DiscordKeepsRead DEF TypesInv
<1>2. UNCHANGED <<now, version, replacedAt, entry, waiting, answer, lastLoad, writer, acked, overtaken, floor>>
  BY DEF Discord, DiscordAnswers, DiscordFails, list, handler
<1>3. Depth \in Layers /\ version \in Versions /\ NoFlight \notin Flights
  BY <1>1, LayersAre DEF Versions, ReadInv, Parameters
<1>4. /\ Loading(Depth) /\ Loading(Depth)' /\ flight'[Depth].value \in Versions \cup {NoAnswer}
      /\ \A k \in Layers \ {Depth} : flight'[k] = flight[k]
  <2>1. CASE DiscordAnswers
    BY <1>1, <1>3, <2>1, AnswersIs DEF Loading
  <2>2. CASE DiscordFails
    <3>1. flight[Depth] \in Flights /\ Loading(Depth)
      BY <1>1, <1>3, <2>2, FailsIs DEF Loading, ReadInv
    <3>2. PICK x \in Flights : x = flight[Depth]
      BY <3>1
    <3> DEFINE y == [x EXCEPT !.phase = "failed"]
    <3>3. flight' = [flight EXCEPT ![Depth] = y]
      BY <1>1, <1>3, <2>2, <3>2 DEF DiscordFails, ReadInv
    <3>4. y.value = x.value
      BY DEF Flights
    <3> HIDE DEF y
    <3>5. flight'[Depth].value = flight[Depth].value
      BY <1>1, <1>3, <3>2, <3>3, <3>4 DEF ReadInv
    <3>6. QED
      BY <1>1, <1>3, <2>2, <3>1, <3>5, FailsIs DEF TypesInv, Loading
  <2>3. QED
    BY <2>1, <2>2 DEF Discord
<1>5. \A k \in Layers : /\ Loading(k) => Loading(k)'
                        /\ Loading(k)' => flight'[k].value \in Versions \cup {NoAnswer}
  BY <1>4 DEF Loading, TypesInv
<1>6. \A s \in Screens : waiting'[s] # 0 => flight'[waiting'[s]] # NoFlight
  BY <1>1, <1>2, <1>5, LayersAre DEF TypesInv, ReadInv, Loading
<1>7. QED
  BY <1>1, <1>2, <1>5, <1>6 DEF TypesInv, Versions

LEMMA EndKeepsTypes ==
    ASSUME Parameters, Bounds, TypesInv, NEW l \in Layers, Ends(l)
    PROVE  TypesInv'
<1>1. ReadInv' /\ ReadInv
  BY EndKeepsRead DEF TypesInv
<1>2. PICK outcome \in Versions \cup {Failed} : Settle(l, outcome)
  <2>1. HasRead(l) => flight[l].value \in Versions
    BY <1>1 DEF ReadInv, Versions
  <2>2. entry[l] # NoEntry => entry[l].value \in Versions
    BY <1>1 DEF ReadInv, Entries, Versions
  <2>3. QED
    BY <2>1, <2>2 DEF Ends, LoadReturns, LoadThrows, HasRead, Loading
<1>3. /\ \A s \in Screens : \/ waiting[s] = l /\ waiting'[s] = 0 /\ answer'[s] = outcome
                            \/ waiting[s] # l /\ waiting'[s] = waiting[s] /\ answer'[s] = answer[s]
      /\ UNCHANGED <<now, version, replacedAt, writer, acked, overtaken, floor>>
  BY <1>1, <1>2, SettleAnswers DEF Versions
<1>4. outcome \in Nat \cup {Failed} /\ (outcome # Failed => outcome \in Versions)
  BY DEF Versions
<1>5. ASSUME NEW k \in Layers \ {l}
      PROVE  /\ Loading(k) => Loading(k)'
             /\ Loading(k)' => flight'[k].value \in Versions \cup {NoAnswer}
  <2>1. CASE flight'[k] = flight[k]
    BY <2>1 DEF Loading, TypesInv
  <2>2. CASE flight'[k] # flight[k]
    <3>1. /\ flight[k] # NoFlight /\ flight[k] \in Flights
          /\ flight'[k] = [flight[k] EXCEPT !.phase = IF outcome = Failed THEN "failed" ELSE "read",
                                            !.value = IF outcome = Failed THEN NoAnswer ELSE outcome]
      BY <1>1, <1>2, <2>2 DEF Settle, ReadInv
    <3>2. PICK v \in Versions \cup {NoAnswer} : v = IF outcome = Failed THEN NoAnswer ELSE outcome
      BY <1>4
    <3>3. PICK p \in {"failed", "read"} : p = IF outcome = Failed THEN "failed" ELSE "read"
      OBVIOUS
    <3>4. flight'[k] = [flight[k] EXCEPT !.phase = p, !.value = v]
      BY <3>1, <3>2, <3>3
    <3>5. flight'[k].value = v
      BY <3>1, <3>4 DEF Flights
    <3>6. flight'[k] # NoFlight
      BY <1>2, <1>4, <2>2, <1>1, SettleGoesOn DEF GoesOn, Parameters
    <3>7. QED
      BY <3>2, <3>5, <3>6 DEF Loading
  <2>3. QED
    BY <2>1, <2>2
<1>6. flight'[l] = NoFlight
  BY <1>1, <1>2, <1>4, SettleGoesOn
<1>7. \A k \in Layers : Loading(k)' => flight'[k].value \in Versions \cup {NoAnswer}
  BY <1>5, <1>6 DEF Loading
<1>8. \A s \in Screens : waiting'[s] # 0 => flight'[waiting'[s]] # NoFlight
  BY <1>1, <1>3, <1>5, LayersAre DEF TypesInv, ReadInv, Loading
<1>9. \A s \in Screens : answer'[s] \in Versions \cup {NoAnswer, Failed}
  BY <1>3 DEF TypesInv
<1>10. /\ \A k \in Layers : entry'[k] # NoEntry => entry'[k].at <= now
       /\ lastLoad' \in {Never} \cup 0 .. now
  <2>1. CASE LoadReturns(l)
    <3>1. /\ entry' = [entry EXCEPT ![l] = [value |-> flight[l].value, at |-> now]]
          /\ lastLoad' = IF l = Depth THEN now ELSE lastLoad
      BY <2>1 DEF LoadReturns
    <3>2. entry'[l].at = now /\ \A k \in Layers \ {l} : entry'[k] = entry[k]
      BY <1>1, <3>1 DEF ReadInv
    <3>3. now \in Nat
      BY <1>1 DEF ReadInv
    <3>4. QED
      BY <3>1, <3>2, <3>3 DEF TypesInv
  <2>2. CASE LoadThrows(l)
    BY <2>2 DEF LoadThrows, TypesInv
  <2>3. QED
    BY <2>1, <2>2 DEF Ends
<1>11. QED
  BY <1>1, <1>3, <1>7, <1>8, <1>9, <1>10 DEF TypesInv, Versions

LEMMA WritingKeepsTypes ==
    ASSUME Parameters, Bounds, TypesInv, Writing
    PROVE  TypesInv'
<1>1. ReadInv' /\ ReadInv
  BY WritingKeepsRead DEF TypesInv
<1>2. UNCHANGED <<now, flight, waiting, answer, floor>>
  BY DEF Writing, SetupWrites, SetupInvalidates, SaveInvalidates, SaveApplies, EditedInDiscord, list, caches, handler
<1>3. /\ writer' \in {"idle", "invalidate", "apply"}
  BY DEF Writing, SetupWrites, SetupInvalidates, SaveInvalidates, SaveApplies, EditedInDiscord, handler, TypesInv
<1>4. CASE ChangeList /\ UNCHANGED <<entry, lastLoad, overtaken>>
  <2>1. version < MaxVersion /\ version' = version + 1 /\ version \in Nat
    BY <1>1, <1>4 DEF ChangeList, ReadInv
  <2>2. /\ replacedAt'[version] = now /\ \A v \in 0 .. version - 1 : replacedAt'[v] = replacedAt[v]
    BY <1>1, <1>4, ChangeIs
  <2>3. \A v \in 0 .. version' - 1 : replacedAt'[v] <= MaxTime
    <3>1. \A v \in 0 .. version' - 1 : v = version \/ v \in 0 .. version - 1
      BY <2>1
    <3>2. QED
      BY <2>2, <3>1 DEF TypesInv
  <2>4. Versions \subseteq Versions'
    BY <2>1 DEF Versions
  <2>5. version' <= MaxVersion
    BY <2>1 DEF Bounds
  <2>6. QED
    BY <1>1, <1>2, <1>3, <1>4, <2>3, <2>4, <2>5 DEF TypesInv, Loading
<1>5. CASE DropEntries /\ UNCHANGED list
  <2>1. /\ \A l \in Layers : entry'[l] = NoEntry
        /\ lastLoad' = Never /\ overtaken' \in BOOLEAN /\ UNCHANGED <<version, replacedAt>>
    BY <1>5 DEF DropEntries, TypesInv, list
  <2>2. QED
    BY <1>1, <1>2, <1>3, <2>1 DEF TypesInv, Loading, Versions
<1>6. QED
  BY <1>4, <1>5 DEF Writing, SetupWrites, SetupInvalidates, SaveInvalidates, SaveApplies, EditedInDiscord, caches, handler

LEMMA NextTypes ==
    ASSUME Parameters, Bounds, TypesInv, [Next]_vars
    PROVE  TypesInv'
<1>1. CASE Tick
  <2>1. ReadInv' /\ ReadInv
    BY NextRead DEF TypesInv
  <2>2. /\ now' = now + 1 /\ now < MaxTime /\ now \in Nat
        /\ UNCHANGED <<version, replacedAt, entry, flight, waiting, answer, lastLoad, writer, acked, overtaken, floor>>
    BY <1>1, <2>1 DEF Tick, list, caches, handler, ReadInv
  <2>3. now' <= MaxTime
    BY <2>2 DEF Bounds
  <2>4. \A l \in Layers : entry[l] # NoEntry => entry[l].at <= now'
    BY <2>1, <2>2 DEF TypesInv, ReadInv, Entries
  <2>5. lastLoad \in {Never} \cup 0 .. now'
    BY <2>2 DEF TypesInv
  <2>6. QED
    BY <2>1, <2>2, <2>3, <2>4, <2>5 DEF TypesInv, Loading, Versions
<1>2. CASE UNCHANGED vars
  <2>1. ReadInv'
    BY NextRead DEF TypesInv
  <2>2. QED
    BY <1>2, <2>1 DEF vars, TypesInv, Loading, Versions
<1>3. QED
  BY <1>1, <1>2, AskKeepsTypes, DiscordKeepsTypes, EndKeepsTypes, WritingKeepsTypes DEF Next

-----------------------------------------------------------------------------

(* The dashboard's log setup and teardown write, then invalidate, then     *)
(* reply (server/index.ts): whoever asks after the reply is given what     *)
(* they wrote or later, from either layer, unless the invalidation met a   *)
(* load that was already running.  An appearance save, which invalidates   *)
(* first, is no such handler.                                              *)
THEOREM SetupsAreSeen ==
    ASSUME Parameters, "save" \notin Writers
    PROVE  Spec => []EditsSeenUnlessOvertaken
<1>1. Init => ReadInv /\ SeenInv
  BY InitRead, InitSeen
<1>2. ReadInv /\ SeenInv /\ [Next]_vars => (ReadInv /\ SeenInv)'
  BY NextRead, NextSeen
<1>3. ReadInv /\ SeenInv => EditsSeenUnlessOvertaken
  BY DEF SeenInv, EditsSeenUnlessOvertaken
<1>4. QED
  BY <1>1, <1>2, <1>3, PTL DEF Spec

(* A list that was loaded and not dropped since is not asked of Discord    *)
(* again within the TTL, however many screens ask on either layer.         *)
THEOREM DiscordIsAskedOncePerTtl ==
    ASSUME Parameters
    PROVE  Spec => OneRequestPerWindow
<1>1. Init => ReadInv
  BY InitRead
<1>2. ReadInv /\ [Next]_vars => ReadInv'
  BY NextRead
<1>3. ReadInv /\ [Next]_vars
        => [(flight[Depth] = NoFlight /\ flight'[Depth] # NoFlight)
              => (lastLoad = Never \/ now - lastLoad >= Ttl)]_vars
  BY OneRequest
<1>4. QED
  BY <1>1, <1>2, <1>3, PTL DEF Spec, OneRequestPerWindow

(* Where reads do not fail, the memoised reads, one layer or two, implement*)
(* BoundedRead: a screen is given no list replaced longer ago than one     *)
(* Discord call and one TTL for each layer (cache.ts, TtlCache).           *)
THEOREM ReadsAreBounded ==
    ASSUME Parameters, CanFail = FALSE
    PROVE  Spec => AnswersAreRecent
<1>1. Init => ReadInv /\ RecentInv
  BY InitRead, InitRecent
<1>2. ReadInv /\ RecentInv /\ [Next]_vars => (ReadInv /\ RecentInv)'
  BY NextRead, NextRecent
<1>3. Init => Bounded!Init
  BY DEF Init, Bounded!Init
<1>4. ReadInv /\ RecentInv /\ [Next]_vars => [Bounded!Next]_Bounded!vars
  BY NextAnswers
<1>5. QED
  BY <1>1, <1>2, <1>3, <1>4, PTL DEF Spec, AnswersAreRecent, Bounded!Spec

(* The types, for every bound of time and versions: whoever waits, waits   *)
(* for a load that runs, and nothing is cached, on its way or given that   *)
(* the list never was (cache.ts, TtlCache).                                *)
THEOREM ReadsAreTyped ==
    ASSUME Parameters, Bounds
    PROVE  Spec => []TypeOK
<1>1. Init => TypesInv
  BY InitTypes
<1>2. TypesInv /\ [Next]_vars => TypesInv'
  BY NextTypes
<1>3. TypesInv => TypeOK
  BY TypesAre
<1>4. QED
  BY <1>1, <1>2, <1>3, PTL DEF Spec
=============================================================================
