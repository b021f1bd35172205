---------------------------- MODULE EventsProofs ----------------------------
(***************************************************************************)
(* Theorems about MCEvents: the bot's configuration cache implements       *)
(* BoundedRead; what AntiNukeProofs and GuildReadCacheProofs prove of      *)
(* their components holds of them as MCEvents composes them; a member's    *)
(* last voice event survives the debounce table; the invite tracker        *)
(* attributes a use to one join; an inviter's score adds up; and every     *)
(* part keeps its types.                                                   *)
(***************************************************************************)
EXTENDS MCEvents, Sequences, FiniteSetTheorems, TLAPS

-----------------------------------------------------------------------------
(* The configuration cache, for every number of callers, TTL and query     *)
(* latency.                                                                *)

(* v was current at time t or later.                                       *)
CurrentSince(v, t) == v = version \/ t <= replacedAt[v]

(* The cached row was current at most one query before it was stored.      *)
EntryRecent ==
    entry # NoEntry =>
        /\ entry.expiresAt <= now + Ttl
        /\ CurrentSince(entry.value, entry.expiresAt - Ttl - Latency)

(* A load is younger than the longest query, and read a row that was       *)
(* current after the load began.                                           *)
LoadsRecent ==
    \A c \in loading :
        /\ began[c] <= now /\ now <= began[c] + Latency
        /\ seen[c] # NoAnswer => CurrentSince(seen[c], began[c])

RecentInv == TypeOK /\ EntryRecent /\ LoadsRecent

LEMMA InitRecentInv == Init => RecentInv
<1> SUFFICES ASSUME Init PROVE RecentInv
  OBVIOUS
<1>1. replacedAt \in [0 .. version - 1 -> Nat]
  <2>1. version = 0 /\ 0 .. version - 1 = {}
    BY DEF Init
  <2>2. QED
    BY <2>1 DEF Init
<1>2. TypeOK
  BY <1>1 DEF Init, TypeOK, Versions, Answers
<1>3. QED
  BY <1>2 DEF Init, RecentInv, EntryRecent, LoadsRecent

(* Saving gives the row a new version and dates the old one.               *)
LEMMA SaveRecentInv == RecentInv /\ Save => RecentInv'
<1> SUFFICES ASSUME RecentInv, Save PROVE RecentInv'
  OBVIOUS
<1>1. /\ now \in Nat /\ version \in Nat /\ version' = version + 1
      /\ replacedAt \in [0 .. version - 1 -> Nat]
      /\ UNCHANGED <<now, entry, loading, began, seen, answer>>
  BY DEF RecentInv, TypeOK, Save, load
<1>2. /\ replacedAt' \in [0 .. version' - 1 -> Nat]
      /\ replacedAt'[version] = now
      /\ \A v \in 0 .. version - 1 : replacedAt'[v] = replacedAt[v]
  BY <1>1 DEF Save, Versions
<1>3. Versions \subseteq Versions'
  BY <1>1 DEF Versions
<1>4. TypeOK'
  BY <1>1, <1>2, <1>3 DEF RecentInv, TypeOK, Entries, Answers
<1>5. ASSUME NEW v \in Versions, NEW t \in Int, CurrentSince(v, t), t <= now
      PROVE  CurrentSince(v, t)'
  BY <1>1, <1>2, <1>5 DEF CurrentSince, Versions
<1>6. EntryRecent'
  <2> SUFFICES ASSUME entry # NoEntry PROVE EntryRecent'
    BY <1>1 DEF EntryRecent
  <2>1. /\ entry.value \in Versions /\ entry.expiresAt \in Nat
        /\ entry.expiresAt <= now + Ttl
        /\ CurrentSince(entry.value, entry.expiresAt - Ttl - Latency)
    BY DEF RecentInv, TypeOK, Entries, EntryRecent
  <2>2. CurrentSince(entry.value, entry.expiresAt - Ttl - Latency)'
    BY <1>1, <1>5, <2>1, TtlAssumption
  <2>3. QED
    BY <1>1, <2>1, <2>2 DEF EntryRecent
<1>7. LoadsRecent'
  <2> SUFFICES ASSUME NEW c \in loading PROVE
        /\ began[c] <= now /\ now <= began[c] + Latency
        /\ seen[c] # NoAnswer => CurrentSince(seen[c], began[c])'
    BY <1>1 DEF LoadsRecent, CurrentSince
  <2>1. began[c] \in Nat /\ seen[c] \in Versions \cup {NoAnswer}
    BY DEF RecentInv, TypeOK
  <2>2. QED
    BY <1>1, <1>5, <2>1 DEF RecentInv, LoadsRecent
<1>8. QED
  BY <1>4, <1>6, <1>7 DEF RecentInv

LEMMA StepRecentInv ==
    ASSUME RecentInv, NEW c \in Callers, Step(c)
    PROVE  RecentInv'
<1>1. CASE Hit(c)
  <2>1. entry.value \in Versions
    BY <1>1 DEF RecentInv, TypeOK, Entries, Hit, Fresh
  <2>2. TypeOK'
    BY <1>1, <2>1 DEF RecentInv, TypeOK, Hit, row, load, Versions, Entries, Answers
  <2>3. QED
    BY <1>1, <2>2 DEF RecentInv, EntryRecent, LoadsRecent, CurrentSince, Hit, row, load
<1>2. CASE Miss(c)
  <2>1. TypeOK'
    BY <1>2 DEF RecentInv, TypeOK, Miss, row, Versions, Entries, Answers
  <2>2. EntryRecent'
    BY <1>2 DEF RecentInv, EntryRecent, CurrentSince, Miss, row
  <2>3. LoadsRecent'
    BY <1>2, TtlAssumption DEF RecentInv, TypeOK, LoadsRecent, CurrentSince, Miss, row
  <2>4. QED
    BY <2>1, <2>2, <2>3 DEF RecentInv
<1>3. CASE Query(c)
  <2>1. version \in Versions
    BY DEF RecentInv, TypeOK, Versions
  <2>2. TypeOK'
    BY <1>3, <2>1 DEF RecentInv, TypeOK, Query, row, Versions, Entries, Answers
  <2>3. EntryRecent'
    BY <1>3 DEF RecentInv, EntryRecent, CurrentSince, Query, row
  <2>4. LoadsRecent'
    BY <1>3 DEF RecentInv, TypeOK, LoadsRecent, CurrentSince, Query, row
  <2>5. QED
    BY <2>2, <2>3, <2>4 DEF RecentInv
<1>4. CASE Loaded(c)
  <2>1. /\ seen[c] \in Versions /\ began[c] \in Nat /\ now \in Nat
        /\ now <= began[c] + Latency /\ CurrentSince(seen[c], began[c])
    BY <1>4 DEF RecentInv, TypeOK, LoadsRecent, Loaded
  <2>2. /\ entry' = [value |-> seen[c], expiresAt |-> now + Ttl]
        /\ UNCHANGED <<now, version, replacedAt, began, seen>>
        /\ loading' = loading \ {c}
        /\ answer' = [answer EXCEPT ![c] = seen[c]]
    BY <1>4 DEF Loaded, row
  <2>3. TypeOK'
    BY <2>1, <2>2, TtlAssumption DEF RecentInv, TypeOK, Versions, Entries, Answers
  <2>4. EntryRecent'
    <3>1. CurrentSince(seen[c], now + Ttl - Ttl - Latency)
      <4>1. seen[c] # version => replacedAt[seen[c]] \in Nat
        BY <2>1 DEF RecentInv, TypeOK, Versions
      <4>2. QED
        BY <2>1, <4>1, TtlAssumption DEF CurrentSince
    <3>2. QED
      BY <2>1, <2>2, <3>1, TtlAssumption DEF EntryRecent, CurrentSince
  <2>5. LoadsRecent'
    BY <2>2 DEF RecentInv, LoadsRecent, CurrentSince
  <2>6. QED
    BY <2>3, <2>4, <2>5 DEF RecentInv
<1>5. CASE LoadFails(c)
  <2>1. TypeOK'
    BY <1>5 DEF RecentInv, TypeOK, LoadFails, row, Versions, Entries, Answers
  <2>2. QED
    BY <1>5, <2>1 DEF RecentInv, EntryRecent, LoadsRecent, CurrentSince, LoadFails, row
<1>6. QED
  BY <1>1, <1>2, <1>3, <1>4, <1>5 DEF Step

LEMMA TickRecentInv == RecentInv /\ Tick => RecentInv'
<1> SUFFICES ASSUME RecentInv, Tick PROVE RecentInv'
  OBVIOUS
<1>1. TypeOK'
  BY DEF RecentInv, TypeOK, Tick, row, load, Versions, Entries, Answers
<1>2. EntryRecent'
  <2> SUFFICES ASSUME entry # NoEntry PROVE EntryRecent'
    BY DEF EntryRecent, Tick
  <2>1. entry.expiresAt \in Nat /\ now \in Nat
    BY DEF RecentInv, TypeOK, Entries
  <2>2. QED
    BY <2>1, TtlAssumption DEF RecentInv, EntryRecent, CurrentSince, Tick, row
<1>3. LoadsRecent'
  BY TtlAssumption DEF RecentInv, TypeOK, LoadsRecent, CurrentSince, Tick, row, load
<1>4. QED
  BY <1>1, <1>2, <1>3 DEF RecentInv

LEMMA NextRecentInv == RecentInv /\ [Next]_vars => RecentInv'
<1> SUFFICES ASSUME RecentInv, [Next]_vars PROVE RecentInv'
  OBVIOUS
<1>1. CASE Invalidate
  <2>1. TypeOK'
    BY <1>1 DEF RecentInv, TypeOK, Invalidate, row, load, Versions, Answers
  <2>2. QED
    BY <1>1, <2>1 DEF RecentInv, EntryRecent, LoadsRecent, CurrentSince, Invalidate, row, load
<1>2. CASE UNCHANGED vars
  BY <1>2 DEF RecentInv, TypeOK, EntryRecent, LoadsRecent, CurrentSince, vars,
              Versions, Entries, Answers
<1>3. QED
  BY <1>1, <1>2, StepRecentInv, SaveRecentInv, TickRecentInv DEF Next

-----------------------------------------------------------------------------

(* What was current at the beginning of the bound's window may be given.   *)
LEMMA RecentIsAllowed ==
    ASSUME TypeOK, NEW v \in Versions, NEW t \in Int,
           CurrentSince(v, t), now <= t + Ttl + Latency - 1
    PROVE  v \in Bounded!CurrentLately
<1>1. v # version => replacedAt[v] \in Nat /\ t <= replacedAt[v]
  BY DEF TypeOK, Versions, CurrentSince
<1>2. now \in Nat /\ Ttl \in Nat /\ Latency \in Nat
  BY TtlAssumption DEF TypeOK
<1>3. v = version \/ now <= replacedAt[v] + (Ttl + Latency - 1)
  BY <1>1, <1>2
<1>4. QED
  BY <1>3 DEF Bounded!CurrentLately, Bounded!Versions, Versions

LEMMA HitAnswers ==
    ASSUME RecentInv, NEW c \in Callers, Hit(c)
    PROVE  Bounded!Answer
<1>1. /\ entry.value \in Versions /\ entry.expiresAt \in Nat /\ now \in Nat
      /\ CurrentSince(entry.value, entry.expiresAt - Ttl - Latency)
      /\ entry.expiresAt > now
  BY DEF RecentInv, TypeOK, EntryRecent, Entries, Hit, Fresh
<1>2. entry.value \in Bounded!CurrentLately
  <2> DEFINE t == entry.expiresAt - Ttl - Latency
  <2>1. t \in Int /\ now <= t + Ttl + Latency - 1
    BY <1>1, TtlAssumption
  <2>2. QED
    BY <1>1, <2>1, RecentIsAllowed DEF RecentInv
<1>3. answer' = [x \in Callers |-> IF x \in {c} THEN entry.value ELSE answer[x]]
  BY DEF Hit, RecentInv, TypeOK
<1>4. QED
  BY <1>2, <1>3 DEF Bounded!Answer, Hit, row

LEMMA LoadedAnswers ==
    ASSUME RecentInv, NEW c \in Callers, Loaded(c)
    PROVE  Bounded!Answer
<1>1. /\ seen[c] \in Versions /\ began[c] \in Nat /\ now \in Nat
      /\ now <= began[c] + Latency /\ CurrentSince(seen[c], began[c])
  BY DEF RecentInv, TypeOK, LoadsRecent, Loaded
<1>2. seen[c] \in Bounded!CurrentLately
  <2>1. now <= began[c] + Ttl + Latency - 1
    BY <1>1, TtlAssumption
  <2>2. QED
    BY <1>1, <2>1, RecentIsAllowed DEF RecentInv
<1>3. answer' = [x \in Callers |-> IF x \in {c} THEN seen[c] ELSE answer[x]]
  BY DEF Loaded, RecentInv, TypeOK
<1>4. UNCHANGED <<now, version, replacedAt>>
  BY DEF Loaded, row
<1>5. {c} \in SUBSET Callers /\ seen[c] \in Bounded!CurrentLately \cup {Failed}
  BY <1>2
<1>6. QED
  BY <1>3, <1>4, <1>5 DEF Bounded!Answer

LEMMA FailureAnswers ==
    ASSUME RecentInv, NEW c \in Callers, LoadFails(c)
    PROVE  Bounded!Answer
<1>1. answer' = [x \in Callers |-> IF x \in {c} THEN Failed ELSE answer[x]]
  BY DEF LoadFails, RecentInv, TypeOK
<1>2. QED
  BY <1>1 DEF Bounded!Answer, LoadFails, row

LEMMA NextIsBounded ==
    RecentInv /\ [Next]_vars => [Bounded!Next]_Bounded!vars
<1> SUFFICES ASSUME RecentInv, [Next]_vars PROVE [Bounded!Next]_Bounded!vars
  OBVIOUS
<1>1. ASSUME NEW c \in Callers, Step(c) PROVE [Bounded!Next]_Bounded!vars
  <2>1. CASE Miss(c) \/ Query(c)
    BY <2>1 DEF Miss, Query, row, Bounded!vars
  <2>2. QED
    BY <1>1, <2>1, HitAnswers, LoadedAnswers, FailureAnswers DEF Step, Bounded!Next
<1>2. CASE Save
  BY <1>2 DEF Save, Versions, Bounded!Next, Bounded!Change, Bounded!Versions
<1>3. CASE Tick
  BY <1>3 DEF Tick, row, Bounded!Next, Bounded!Tick
<1>4. CASE Invalidate \/ UNCHANGED vars
  BY <1>4 DEF Invalidate, row, vars, Bounded!vars
<1>5. QED
  BY <1>1, <1>2, <1>3, <1>4 DEF Next

(* However many handlers load the settings at once, and whatever order     *)
(* their queries finish in, none is given a row that was replaced longer   *)
(* ago than the TTL and one query.                                         *)
THEOREM CacheIsBounded == Spec => AnswersAreRecent
<1>1. Init => Bounded!Init
  BY DEF Init, Bounded!Init
<1>2. Init => RecentInv
  BY InitRecentInv
<1>3. RecentInv /\ [Next]_vars => RecentInv'
  BY NextRecentInv
<1>4. RecentInv /\ [Next]_vars => [Bounded!Next]_Bounded!vars
  BY NextIsBounded
<1>5. QED
  BY <1>1, <1>2, <1>3, <1>4, PTL DEF Spec, AnswersAreRecent, Bounded!Spec

(* The cache's variables keep their types.                                 *)
THEOREM CacheTypes == Spec => []TypeOK
<1>1. RecentInv => TypeOK
  BY DEF RecentInv
<1>2. QED
  BY <1>1, InitRecentInv, NextRecentInv, PTL DEF Spec

-----------------------------------------------------------------------------
(* The voice events of a member in the debounce table.                     *)

(* What arrived: events, in order.                                         *)
Arrived == {arrived[a] : a \in 1 .. Len(arrived)}

(* What the debounce table holds are events that arrived, each under its   *)
(* member's key; an event that was replaced had arrived too, and one of    *)
(* the same member that arrived later was not replaced.                    *)
Holds(e) == e.job \in Voice!Voice \cap accepted /\ WhoMoves[e.job] = e.key

TableInv ==
    /\ pending \in Seq(Voice!Entry) /\ arrived \in Seq(Jobs)
    /\ accepted \subseteq Arrived /\ superseded \subseteq accepted
    /\ \A i \in 1 .. Len(pending) : Holds(pending[i])
    /\ Voice!LastVoiceEventSurvives

(* Voice events have the priority of a level, and a key.                   *)
Debounces ==
    /\ Lowest \in Nat /\ Lowest >= 3 /\ DebounceDelay \in Nat /\ None \notin Nat
    /\ WhoMoves \in [Jobs -> Keys]

LEMMA EarlierThanTheNext ==
    ASSUME arrived \in Seq(Jobs), NEW j \in Jobs, arrived' = Append(arrived, j)
    PROVE  /\ arrived' \in Seq(Jobs) /\ Arrived' = Arrived \cup {j}
           /\ \A x \in Arrived : Voice!Earlier(x, j)'
           /\ \A x, y : Voice!Earlier(x, y) => Voice!Earlier(x, y)'
<1>1. /\ Len(arrived') = Len(arrived) + 1 /\ Len(arrived) \in Nat
      /\ \A a \in 1 .. Len(arrived) : arrived'[a] = arrived[a]
      /\ arrived'[Len(arrived')] = j /\ arrived' \in Seq(Jobs)
  OBVIOUS
<1>2. DOMAIN arrived = 1 .. Len(arrived) /\ DOMAIN arrived' = 1 .. Len(arrived')
  BY <1>1
<1>3. Arrived' = Arrived \cup {j}
  BY <1>1 DEF Arrived
<1>4. ASSUME NEW x \in Arrived PROVE Voice!Earlier(x, j)'
  <2>1. PICK a \in 1 .. Len(arrived) : arrived[a] = x
    BY DEF Arrived
  <2>2. a < Len(arrived') /\ a \in DOMAIN arrived' /\ Len(arrived') \in DOMAIN arrived'
        /\ arrived'[a] = x /\ arrived'[Len(arrived')] = j
    BY <1>1, <1>2, <2>1
  <2>3. QED
    BY <2>2 DEF Voice!Earlier
<1>5. ASSUME NEW x, NEW y, Voice!Earlier(x, y) PROVE Voice!Earlier(x, y)'
  <2>1. PICK a \in DOMAIN arrived, b \in DOMAIN arrived : a < b /\ arrived[a] = x /\ arrived[b] = y
    BY <1>5 DEF Voice!Earlier
  <2>2. a \in DOMAIN arrived' /\ b \in DOMAIN arrived' /\ arrived'[a] = x /\ arrived'[b] = y
    BY <1>1, <1>2, <2>1
  <2>3. QED
    BY <2>1, <2>2 DEF Voice!Earlier
<1>6. QED
  BY <1>1, <1>3, <1>4, <1>5

LEMMA RemoveAtElements ==
    ASSUME NEW S, NEW s \in Seq(S), NEW i \in 1 .. Len(s)
    PROVE  /\ Len(Voice!RemoveAt(s, i)) = Len(s) - 1
           /\ \A k \in 1 .. Len(s) - 1 :
                 Voice!RemoveAt(s, i)[k] = IF k < i THEN s[k] ELSE s[k + 1]
<1>1. /\ SubSeq(s, 1, i - 1) \in Seq(S) /\ Len(SubSeq(s, 1, i - 1)) = i - 1
      /\ \A k \in 1 .. i - 1 : SubSeq(s, 1, i - 1)[k] = s[k]
  OBVIOUS
<1>2. /\ SubSeq(s, i + 1, Len(s)) \in Seq(S) /\ Len(SubSeq(s, i + 1, Len(s))) = Len(s) - i
      /\ \A k \in 1 .. Len(s) - i : SubSeq(s, i + 1, Len(s))[k] = s[i + k]
  OBVIOUS
<1> DEFINE head == SubSeq(s, 1, i - 1)
           tail == SubSeq(s, i + 1, Len(s))
<1>3. Voice!RemoveAt(s, i) = head \o tail
  BY DEF Voice!RemoveAt
<1>4. Len(s) \in Nat /\ Len(head) = i - 1 /\ Len(tail) = Len(s) - i
  BY <1>1, <1>2
<1> HIDE DEF head, tail
<1>5. head \in Seq(S) /\ tail \in Seq(S)
  BY <1>1, <1>2 DEF head, tail
<1>6. /\ Len(head \o tail) = Len(s) - 1
      /\ \A k \in 1 .. Len(s) - 1 :
            (head \o tail)[k] = IF k <= i - 1 THEN head[k] ELSE tail[k - (i - 1)]
  BY <1>4, <1>5
<1>7. ASSUME NEW k \in 1 .. Len(s) - 1
      PROVE  (head \o tail)[k] = IF k < i THEN s[k] ELSE s[k + 1]
  <2>1. CASE k < i
    BY <1>1, <1>4, <1>6, <2>1 DEF head
  <2>2. CASE ~(k < i)
    <3>1. k - (i - 1) \in 1 .. Len(s) - i /\ i + (k - (i - 1)) = k + 1
      BY <1>4, <2>2
    <3>2. tail[k - (i - 1)] = s[k + 1]
      BY <1>2, <3>1 DEF tail
    <3>3. QED
      BY <1>4, <1>6, <2>2, <3>2
  <2>3. QED
    BY <2>1, <2>2
<1>8. QED
  BY <1>3, <1>6, <1>7

LEMMA RemoveAtHolds ==
    ASSUME NEW S, NEW s \in Seq(S), NEW i \in 1 .. Len(s)
    PROVE  /\ Voice!RemoveAt(s, i) \in Seq(S)
           /\ \A a \in 1 .. Len(Voice!RemoveAt(s, i)) : \E b \in 1 .. Len(s) : Voice!RemoveAt(s, i)[a] = s[b]
<1>1. Voice!RemoveAt(s, i) \in Seq(S)
  <2>1. SubSeq(s, 1, i - 1) \in Seq(S) /\ SubSeq(s, i + 1, Len(s)) \in Seq(S)
    OBVIOUS
  <2>2. QED
    BY <2>1 DEF Voice!RemoveAt
<1>2. Len(Voice!RemoveAt(s, i)) = Len(s) - 1 /\ Len(s) \in Nat
  BY RemoveAtElements
<1>3. ASSUME NEW a \in 1 .. Len(Voice!RemoveAt(s, i))
      PROVE  \E b \in 1 .. Len(s) : Voice!RemoveAt(s, i)[a] = s[b]
  <2>1. Voice!RemoveAt(s, i)[a] = IF a < i THEN s[a] ELSE s[a + 1]
    BY <1>2, <1>3, RemoveAtElements
  <2>2. a \in 1 .. Len(s) /\ a + 1 \in 1 .. Len(s)
    BY <1>2, <1>3
  <2>3. QED
    BY <2>1, <2>2
<1>4. QED
  BY <1>1, <1>3

LEMMA InitTable == Voice!DInit => TableInv
BY DEF Voice!DInit, Voice!Init, TableInv, Arrived, Voice!LastVoiceEventSurvives

LEMMA DebounceTable ==
    ASSUME Debounces, TableInv, NEW j \in Voice!Voice, Voice!Debounce(3, WhoMoves[j], j), arrived' = Append(arrived, j)
    PROVE  TableInv'
<1> DEFINE held == [key |-> WhoMoves[j], job |-> j, priority |-> 3, due |-> DebounceDelay]
<1>1. j \in Jobs /\ j \notin accepted /\ accepted' = accepted \cup {j} /\ WhoMoves[j] \in Keys
  BY DEF Voice!Voice, Voice!Debounce, Debounces
<1>2. /\ arrived' \in Seq(Jobs) /\ Arrived' = Arrived \cup {j}
      /\ \A x \in Arrived : Voice!Earlier(x, j)'
      /\ \A x, y : Voice!Earlier(x, y) => Voice!Earlier(x, y)'
  BY <1>1, EarlierThanTheNext DEF TableInv
<1>3. held \in Voice!Entry /\ held.job = j /\ held.key = WhoMoves[j]
  BY <1>1 DEF Voice!Entry, Debounces, Voice!Levels
<1> HIDE DEF held
<1>4. \A x \in accepted : Voice!Earlier(x, j)'
  BY <1>2 DEF TableInv
<1>5. CASE pending' = Append(pending, held) /\ superseded' = superseded
  <2>1. pending' \in Seq(Voice!Entry) /\ \A i \in 1 .. Len(pending') : Holds(pending'[i]) \/ pending'[i] = held
    BY <1>3, <1>5 DEF TableInv
  <2>2. \A i \in 1 .. Len(pending') : Holds(pending[i])'
    BY <1>1, <1>3, <2>1 DEF Holds
  <2>3. Voice!LastVoiceEventSurvives'
    BY <1>1, <1>2, <1>5 DEF Voice!LastVoiceEventSurvives, TableInv
  <2>4. QED
    BY <1>1, <1>2, <1>5, <2>1, <2>2, <2>3 DEF TableInv
<1>6. ASSUME NEW i \in Voice!Indices(WhoMoves[j]), pending' = [pending EXCEPT ![i] = held],
             superseded' = superseded \cup {pending[i].job}
      PROVE  TableInv'
  <2>0. i \in 1 .. Len(pending) /\ pending[i].key = WhoMoves[j] /\ Holds(pending[i])
    BY <1>6 DEF Voice!Indices, TableInv
  <2>1. PICK old \in Voice!Voice \cap accepted : old = pending[i].job /\ WhoMoves[old] = WhoMoves[j]
    BY <2>0 DEF Holds
  <2>2. /\ pending' \in Seq(Voice!Entry) /\ Len(pending') = Len(pending)
        /\ \A k \in 1 .. Len(pending) : pending'[k] = pending[k] \/ pending'[k] = held
    BY <1>3, <1>6, <2>0 DEF TableInv
  <2>3. \A k \in 1 .. Len(pending') : Holds(pending[k])'
    BY <1>1, <1>3, <2>2 DEF Holds, TableInv
  <2>4. superseded' \subseteq accepted' /\ j \in accepted' \ superseded'
    BY <1>1, <1>6, <2>1 DEF TableInv
  <2>5. ASSUME NEW x \in Voice!Voice \cap accepted', x \in superseded'
        PROVE  \E y \in accepted' \ superseded' : Voice!SameMember(y, x) /\ Voice!Earlier(x, y)'
    <3>1. x \in accepted /\ Voice!Earlier(x, j)'
      BY <1>1, <1>4, <2>4, <2>5
    <3>2. CASE x = old
      BY <2>1, <2>4, <3>1, <3>2 DEF Voice!SameMember
    <3>3. CASE x \in superseded
      <4>1. PICK y \in accepted \ superseded : Voice!SameMember(y, x) /\ Voice!Earlier(x, y)
        BY <2>5, <3>1, <3>3 DEF TableInv, Voice!LastVoiceEventSurvives
      <4>2. CASE y = old
        BY <2>1, <2>4, <3>1, <4>1, <4>2 DEF Voice!SameMember
      <4>3. CASE y # old
        BY <1>1, <1>2, <1>6, <2>1, <4>1, <4>3
      <4>4. QED
        BY <4>2, <4>3
    <3>4. QED
      BY <1>6, <2>1, <2>5, <3>2, <3>3
  <2>6. Voice!LastVoiceEventSurvives'
    BY <2>5 DEF Voice!LastVoiceEventSurvives, Voice!SameMember
  <2>7. QED
    BY <1>1, <1>2, <2>2, <2>3, <2>4, <2>6 DEF TableInv
<1>7. QED
  BY <1>5, <1>6 DEF Voice!Debounce, held

LEMMA EnqueueTable ==
    ASSUME TableInv, NEW j \in Jobs, NEW p, Voice!Enqueue(p, j), arrived' = Append(arrived, j)
    PROVE  TableInv'
<1>1. accepted' = accepted \cup {j} /\ pending' = pending /\ superseded' = superseded
  BY DEF Voice!Enqueue, Voice!history
<1>2. /\ arrived' \in Seq(Jobs) /\ Arrived' = Arrived \cup {j}
      /\ \A x, y : Voice!Earlier(x, y) => Voice!Earlier(x, y)'
  BY EarlierThanTheNext DEF TableInv
<1>3. Voice!LastVoiceEventSurvives'
  BY <1>1, <1>2 DEF Voice!LastVoiceEventSurvives, TableInv
<1>4. QED
  BY <1>1, <1>2, <1>3 DEF TableInv, Holds

(* A step that neither accepts nor replaces, and leaves in the table only  *)
(* what was there.                                                         *)
LEMMA NothingNew ==
    ASSUME TableInv, UNCHANGED <<accepted, superseded, arrived>>, pending' \in Seq(Voice!Entry),
           \A a \in 1 .. Len(pending') : \E b \in 1 .. Len(pending) :
               pending'[a].job = pending[b].job /\ pending'[a].key = pending[b].key
    PROVE  TableInv'
BY DEF TableInv, Holds, Arrived, Voice!LastVoiceEventSurvives, Voice!Earlier

LEMMA InternalTable ==
    ASSUME Debounces, TableInv, Voice!Internal, UNCHANGED arrived
    PROVE  TableInv'
<1>1. CASE UNCHANGED <<pending, accepted, superseded>>
  BY <1>1, NothingNew DEF TableInv
<1>2. ASSUME NEW i \in DOMAIN pending, Voice!DebounceFire(i) PROVE TableInv'
  <2>1. pending' = Voice!RemoveAt(pending, i) /\ UNCHANGED <<accepted, superseded>>
    BY <1>2 DEF Voice!DebounceFire, Voice!history
  <2>2. pending \in Seq(Voice!Entry) /\ i \in 1 .. Len(pending)
    BY <1>2 DEF TableInv
  <2>3. /\ pending' \in Seq(Voice!Entry)
        /\ \A a \in 1 .. Len(pending') : \E b \in 1 .. Len(pending) : pending'[a] = pending[b]
    BY <2>1, <2>2, RemoveAtHolds
  <2>4. QED
    BY <2>1, <2>3, NothingNew
<1>3. CASE Voice!Tick
  <2>1. UNCHANGED <<accepted, superseded>>
        /\ pending' = [i \in DOMAIN pending |-> [pending[i] EXCEPT !.due = Voice!Older(@)]]
    BY <1>3 DEF Voice!Tick, Voice!history
  <2>2. ASSUME NEW i \in 1 .. Len(pending)
        PROVE  /\ pending'[i] \in Voice!Entry
               /\ pending'[i].job = pending[i].job /\ pending'[i].key = pending[i].key
    <3>1. pending[i] \in Voice!Entry /\ pending'[i] = [pending[i] EXCEPT !.due = Voice!Older(pending[i].due)]
      BY <2>1 DEF TableInv
    <3>2. Voice!Older(pending[i].due) \in 0 .. DebounceDelay
      BY <3>1 DEF Voice!Entry, Voice!Older, Debounces
    <3>3. QED
      BY <3>1, <3>2 DEF Voice!Entry
  <2>3. pending' \in Seq(Voice!Entry) /\ Len(pending') = Len(pending)
    <3>1. Len(pending) \in Nat /\ DOMAIN pending = 1 .. Len(pending)
      BY DEF TableInv
    <3>2. pending' \in [1 .. Len(pending) -> Voice!Entry]
      BY <2>1, <2>2, <3>1
    <3>3. QED
      BY <3>1, <3>2
  <2>4. QED
    BY <2>1, <2>2, <2>3, NothingNew
<1>4. CASE Voice!FlushStart
  <2>1. pending' = <<>> /\ UNCHANGED <<accepted, superseded>>
    BY <1>4 DEF Voice!FlushStart
  <2>2. QED
    BY <2>1, NothingNew
<1>5. CASE Voice!DrainMicrotask \/ Voice!RetryFire \/ Voice!JobFinish \/ Voice!FlushResume \/ Voice!FlushWake \/ Voice!Exit
  BY <1>1, <1>5 DEF Voice!DrainMicrotask, Voice!RetryFire, Voice!JobFinish, Voice!FlushResume, Voice!FlushWake, Voice!Exit, Voice!history
<1>6. QED
  BY <1>2, <1>3, <1>4, <1>5 DEF Voice!Internal, Voice!Timers, Voice!Shutdown

LEMMA NextTable ==
    Debounces /\ TableInv /\ [Voice!DNext]_Voice!dvars => TableInv'
<1> SUFFICES ASSUME Debounces, TableInv, [Voice!DNext]_Voice!dvars
             PROVE  TableInv'
  OBVIOUS
<1>1. ASSUME NEW j \in Jobs, Voice!DispatchEvent(j) PROVE TableInv'
  BY <1>1, DebounceTable, EnqueueTable DEF Voice!DispatchEvent
<1>2. CASE UNCHANGED Voice!dvars
  BY <1>2, NothingNew DEF Voice!dvars, Voice!vars, TableInv
<1>3. QED
  BY <1>1, <1>2, InternalTable DEF Voice!DNext

-----------------------------------------------------------------------------
(* The uses of an invite and the joins attributed to it.                   *)

(* The uses of some of the codes.                                          *)
Counts == UNION {[D -> Nat] : D \in SUBSET Codes}

(* What the tracker is told never exceeds what happened; while it was told *)
(* nothing older than it knew, its snapshot is the newest it was told, and *)
(* every join attributed to a code is one of the uses it was told of.      *)
UsesInv ==
    /\ uses \in Counts /\ creating \subseteq Codes
    /\ snapshot # NoSnapshot => snapshot \in Counts
    /\ joined \in [Codes -> Nat] /\ credited \in [Codes -> Nat] /\ newest \in [Codes -> Nat]
    /\ turned \in BOOLEAN
    /\ \A c \in DOMAIN uses : uses[c] = joined[c]
    /\ \A c \in Codes : newest[c] <= joined[c]
    /\ ~turned => /\ \A c \in Links!Held : snapshot[c] = newest[c]
                  /\ \A c \in Codes : credited[c] <= newest[c]

(* An answer on its way tells of no more uses than there were joins.       *)
Told(step) ==
    step.at = "observing" =>
        /\ step.seen \in Counts
        /\ \A c \in DOMAIN step.seen : step.seen[c] <= joined[c]


LEMMA CountsAre ==
    ASSUME NEW f \in Counts
    PROVE  DOMAIN f \in SUBSET Codes /\ f \in [DOMAIN f -> Nat] /\ \A c \in DOMAIN f : f[c] \in Nat
<1>1. PICK D \in SUBSET Codes : f \in [D -> Nat]
  BY DEF Counts
<1>2. QED
  BY <1>1

LEMMA CountsFrom ==
    ASSUME NEW D \in SUBSET Codes, NEW f, f = [c \in D |-> f[c]], \A c \in D : f[c] \in Nat
    PROVE  f \in Counts /\ DOMAIN f = D
<1>1. f \in [D -> Nat]
  OBVIOUS
<1>2. QED
  BY <1>1 DEF Counts

(* The fields of a handler's record, whatever they hold.                   *)
Framed(step) == DOMAIN step = {"at", "who", "seen", "code", "counts", "net"}

LEMMA FramedIdle == Framed(Links!Idle) /\ Links!Idle.at = "idle"
BY DEF Framed, Links!Idle

LEMMA FramedAt ==
    ASSUME NEW s, Framed(s), NEW a
    PROVE  Framed([s EXCEPT !.at = a]) /\ [s EXCEPT !.at = a].at = a
BY DEF Framed

LEMMA FramedWho ==
    ASSUME NEW s, Framed(s), NEW a, NEW b
    PROVE  Framed([s EXCEPT !.at = a, !.who = b]) /\ [s EXCEPT !.at = a, !.who = b].at = a
BY DEF Framed

ToldInv == DOMAIN call = Handlers /\ \A h \in Handlers : Framed(call[h]) /\ Told(call[h])

(* A handler goes on to another place than the one where an answer is on   *)
(* its way; joins are only ever added.                                     *)
LEMMA GoesOn ==
    ASSUME UsesInv, ToldInv, NEW h \in Handlers, NEW step, Links!Goes(h, step), Framed(step),
           step.at # "observing", joined' \in [Codes -> Nat], \A c \in Codes : joined[c] <= joined'[c]
    PROVE  ToldInv'
<1>1. DOMAIN call' = Handlers /\ call'[h] = step /\ \A g \in Handlers \ {h} : call'[g] = call[g]
  BY DEF Links!Goes, ToldInv
<1>2. ASSUME NEW g \in Handlers
      PROVE  Framed(call'[g]) /\ Told(call[g])'
  <2>1. CASE g = h
    BY <1>1, <2>1 DEF Told
  <2>2. CASE g # h
    <3>1. Framed(call[g]) /\ Told(call[g]) /\ call'[g] = call[g]
      BY <1>1, <2>2 DEF ToldInv
    <3>2. ASSUME call[g].at = "observing", NEW c \in DOMAIN call[g].seen
          PROVE  call[g].seen[c] <= joined'[c]
      <4>1. c \in Codes /\ call[g].seen[c] \in Nat /\ call[g].seen[c] <= joined[c]
        BY <3>1, <3>2, CountsAre DEF Told
      <4>2. QED
        BY <4>1 DEF UsesInv
    <3>3. QED
      BY <3>1, <3>2 DEF Told
  <2>3. QED
    BY <2>1, <2>2
<1>3. QED
  BY <1>1, <1>2 DEF ToldInv, Framed

LEMMA HandlerGoesOn ==
    ASSUME UsesInv, ToldInv, NEW h \in Handlers, UNCHANGED joined,
           \/ Links!Observe(h) \/ Links!Probe(h) \/ Links!ReadJoiner(h) \/ Links!Record(h) \/ Links!Score(h)
           \/ Links!ReadLeaver(h) \/ Links!Deduct(h) \/ Links!Mark(h) \/ Links!Grant(h)
    PROVE  ToldInv'
<1>0. joined' \in [Codes -> Nat] /\ \A c \in Codes : joined[c] <= joined'[c]
  BY DEF UsesInv
<1>1. Framed(call[h]) /\ (Links!Goes(h, [Links!Idle EXCEPT !.at = "done"]) => ToldInv')
  <2>1. Framed(call[h])
    BY DEF ToldInv
  <2>2. Framed([Links!Idle EXCEPT !.at = "done"]) /\ [Links!Idle EXCEPT !.at = "done"].at = "done"
    BY FramedIdle, FramedAt
  <2>3. QED
    BY <1>0, <2>1, <2>2, GoesOn
<1>3. ASSUME NEW step, Links!Goes(h, step), Framed(step), step.at # "observing" PROVE ToldInv'
  BY <1>0, <1>3, GoesOn
<1>4. CASE Links!Observe(h)
  <2>1. PICK c : Links!Goes(h, [call[h] EXCEPT !.at = IF c = NoCode THEN "probing" ELSE "reading",
                                         !.code = c, !.seen = NoSnapshot])
    BY <1>4 DEF Links!Observe
  <2>2. PICK a \in {"probing", "reading"} : a = IF c = NoCode THEN "probing" ELSE "reading"
    OBVIOUS
  <2>3. Links!Goes(h, [call[h] EXCEPT !.at = a, !.code = c, !.seen = NoSnapshot])
    BY <2>1, <2>2
  <2>4. /\ Framed([call[h] EXCEPT !.at = a, !.code = c, !.seen = NoSnapshot])
        /\ [call[h] EXCEPT !.at = a, !.code = c, !.seen = NoSnapshot].at = a
    BY <1>1 DEF Framed
  <2>5. QED
    BY <1>3, <2>2, <2>3, <2>4
<1>5. CASE Links!Probe(h)
  BY <1>1, <1>3, <1>5, FramedAt DEF Links!Probe, Links!Ends
<1>6. CASE Links!ReadJoiner(h)
  <2>1. \/ Links!Ends(h)
        \/ \E b : Links!Goes(h, [call[h] EXCEPT !.at = "recording", !.code = NoCode, !.counts = b])
    BY <1>6 DEF Links!ReadJoiner
  <2>2. ASSUME NEW b
        PROVE  /\ Framed([call[h] EXCEPT !.at = "recording", !.code = NoCode, !.counts = b])
               /\ [call[h] EXCEPT !.at = "recording", !.code = NoCode, !.counts = b].at = "recording"
    BY <1>1 DEF Framed
  <2>3. QED
    BY <1>1, <1>3, <2>1, <2>2 DEF Links!Ends
<1>7. CASE Links!Record(h)
  <2>1. Links!Goes(h, [call[h] EXCEPT !.at = "scoring"]) \/ Links!Ends(h)
    BY <1>7 DEF Links!Record
  <2>2. QED
    BY <1>1, <1>3, <2>1, FramedAt DEF Links!Ends
<1>8. CASE Links!Score(h)
  <2>1. Links!Goes(h, [call[h] EXCEPT !.at = "granting", !.net = Links!Net + 1]) \/ Links!Goes(h, [call[h] EXCEPT !.at = "granting"])
    BY <1>8 DEF Links!Score
  <2>2. /\ Framed([call[h] EXCEPT !.at = "granting", !.net = Links!Net + 1])
        /\ [call[h] EXCEPT !.at = "granting", !.net = Links!Net + 1].at = "granting"
    BY <1>1 DEF Framed
  <2>3. QED
    BY <1>1, <1>3, <2>1, <2>2, FramedAt
<1>9. CASE Links!ReadLeaver(h)
  <2>1. Links!Ends(h) \/ Links!Goes(h, [call[h] EXCEPT !.at = "deducting"]) \/ Links!Goes(h, [call[h] EXCEPT !.at = "marking"])
    BY <1>9 DEF Links!ReadLeaver
  <2>2. QED
    BY <1>1, <1>3, <2>1, FramedAt DEF Links!Ends
<1>10. CASE Links!Deduct(h)
  <2>1. \/ Links!Goes(h, [call[h] EXCEPT !.at = "marking", !.counts = TRUE, !.net = Links!Net - 1])
        \/ Links!Goes(h, [call[h] EXCEPT !.at = "marking"])
    BY <1>10 DEF Links!Deduct
  <2>2. /\ Framed([call[h] EXCEPT !.at = "marking", !.counts = TRUE, !.net = Links!Net - 1])
        /\ [call[h] EXCEPT !.at = "marking", !.counts = TRUE, !.net = Links!Net - 1].at = "marking"
    BY <1>1 DEF Framed
  <2>3. QED
    BY <1>1, <1>3, <2>1, <2>2, FramedAt
<1>11. CASE Links!Mark(h)
  <2>1. Links!Goes(h, [call[h] EXCEPT !.at = "granting"]) \/ Links!Ends(h)
    BY <1>11 DEF Links!Mark, Links!Reconciles
  <2>2. QED
    BY <1>1, <1>3, <2>1, FramedAt DEF Links!Ends
<1>12. CASE Links!Grant(h)
  BY <1>1, <1>12 DEF Links!Grant, Links!Ends
<1>13. QED
  BY <1>4, <1>5, <1>6, <1>7, <1>8, <1>9, <1>10, <1>11, <1>12

LEMMA InitUses == ASSUME Early \subseteq Codes, Links!Init PROVE UsesInv /\ ToldInv
<1>1. UsesInv
  <2>1. uses \in Counts
    BY CountsFrom DEF Links!Init
  <2>2. Links!Held = {} /\ DOMAIN uses = Early
    BY DEF Links!Init, Links!Held
  <2>3. \A c \in DOMAIN uses : uses[c] = joined[c]
    BY <2>2 DEF Links!Init
  <2>4. \A c \in Codes : newest[c] <= joined[c] /\ credited[c] <= newest[c]
    BY DEF Links!Init
  <2>5. /\ joined \in [Codes -> Nat] /\ credited \in [Codes -> Nat] /\ newest \in [Codes -> Nat]
        /\ turned \in BOOLEAN /\ snapshot = NoSnapshot /\ creating = {}
    BY DEF Links!Init
  <2>6. QED
    BY <2>1, <2>2, <2>3, <2>4, <2>5 DEF UsesInv
<1>2. ToldInv
  BY FramedIdle DEF Links!Init, ToldInv, Told
<1>3. QED
  BY <1>1, <1>2

LEMMA JoinKeeps ==
    ASSUME UsesInv, ToldInv, NEW h \in Handlers, NEW m, NEW way \in Codes \cup {NoCode},
           NoCode \notin Codes, Links!Join(h, m, way)
    PROVE  UsesInv' /\ ToldInv'
<1>1. joined' \in [Codes -> Nat] /\ \A c \in Codes : joined'[c] = joined[c] + (IF c = way THEN 1 ELSE 0)
  BY DEF Links!Join, UsesInv
<1>2. DOMAIN uses \in SUBSET Codes /\ \A c \in DOMAIN uses : uses[c] \in Nat
  BY CountsAre DEF UsesInv
<1>3. DOMAIN uses' = DOMAIN uses /\ uses' = [c \in DOMAIN uses' |-> uses'[c]]
      /\ \A c \in DOMAIN uses' : uses'[c] = uses[c] + (IF c = way THEN 1 ELSE 0)
  BY <1>2, CountsAre DEF Links!Join, Links!Bumped, UsesInv
<1>4. uses' \in Counts
  BY <1>2, <1>3, CountsFrom
<1>5. \A c \in Codes : joined[c] <= joined'[c]
  BY <1>1 DEF UsesInv
<1>6. UsesInv'
  BY <1>1, <1>2, <1>3, <1>4, <1>5 DEF UsesInv, Links!Join, Links!record, Links!Held
<1>7. Framed([Links!Idle EXCEPT !.at = "fetching", !.who = m]) /\ [Links!Idle EXCEPT !.at = "fetching", !.who = m].at = "fetching"
  BY FramedIdle, FramedWho
<1>8. ToldInv'
  BY <1>1, <1>5, <1>7, GoesOn DEF Links!Join, Links!Begins
<1>9. QED
  BY <1>6, <1>8

LEMMA LeaveKeeps ==
    ASSUME UsesInv, ToldInv, NEW h \in Handlers, NEW m, Links!Leave(h, m)
    PROVE  UsesInv' /\ ToldInv'
<1>1. UsesInv'
  BY DEF UsesInv, Links!Leave, Links!tracker, Links!Held
<1>2. Framed([Links!Idle EXCEPT !.at = "leaving", !.who = m]) /\ [Links!Idle EXCEPT !.at = "leaving", !.who = m].at = "leaving"
  BY FramedIdle, FramedWho
<1>3. joined' \in [Codes -> Nat] /\ \A c \in Codes : joined[c] <= joined'[c]
  BY DEF UsesInv, Links!Leave, Links!tracker
<1>4. ToldInv'
  BY <1>2, <1>3, GoesOn DEF Links!Leave, Links!Begins
<1>5. QED
  BY <1>1, <1>4

LEMMA InvitesKeep ==
    ASSUME UsesInv, ToldInv, NEW c \in Codes, Links!InviteCreate(c) \/ Links!Remember(c) \/ Links!Forget(c)
    PROVE  UsesInv' /\ ToldInv'
<1>1. ToldInv'
  BY DEF ToldInv, Told, Framed, Links!InviteCreate, Links!Remember, Links!Forget
<1>2. DOMAIN uses \in SUBSET Codes /\ \A d \in DOMAIN uses : uses[d] \in Nat
  BY CountsAre DEF UsesInv
<1>3. snapshot # NoSnapshot => DOMAIN snapshot \in SUBSET Codes /\ \A d \in DOMAIN snapshot : snapshot[d] \in Nat
  BY CountsAre DEF UsesInv
<1>4. CASE Links!InviteCreate(c)
  <2>1. uses' \in Counts /\ DOMAIN uses' = DOMAIN uses \cup {c}
    <3>1. uses' = [d \in DOMAIN uses \cup {c} |-> IF d = c THEN 0 ELSE uses[d]]
      BY <1>4 DEF Links!InviteCreate
    <3>2. QED
      BY <1>2, <3>1, CountsFrom
  <2>2. \A d \in DOMAIN uses' : uses'[d] = joined[d]
    BY <1>2, <1>4, <2>1 DEF Links!InviteCreate, UsesInv
  <2>3. QED
    BY <1>1, <1>4, <2>1, <2>2 DEF Links!InviteCreate, UsesInv, Links!Held
<1>5. CASE Links!Remember(c)
  <2>1. snapshot' = [d \in Links!Held \cup {c} |-> IF d = c THEN 0 ELSE snapshot[d]] /\ Links!Held \in SUBSET Codes
    BY <1>3, <1>5 DEF Links!Remember, Links!Held
  <2>2. snapshot' \in Counts /\ DOMAIN snapshot' = Links!Held \cup {c}
    BY <1>3, <2>1, CountsFrom DEF Links!Held
  <2>3. ASSUME ~turned' PROVE \A d \in Links!Held' : snapshot'[d] = newest[d]
    <3>1. ~turned /\ newest[c] = 0 /\ newest' = newest
      <4>1. turned' = (turned \/ newest[c] > 0) /\ newest' = newest
        BY <1>5 DEF Links!Remember
      <4>2. ~turned /\ ~(newest[c] > 0)
        BY <2>3, <4>1
      <4>3. newest[c] \in Nat
        BY DEF UsesInv
      <4>4. QED
        BY <4>1, <4>2, <4>3
    <3>2. Links!Held' \subseteq Links!Held \cup {c}
      BY <2>2 DEF Links!Held
    <3>3. \A d \in Links!Held : snapshot[d] = newest[d]
      BY <3>1 DEF UsesInv
    <3>4. QED
      BY <2>1, <3>1, <3>2, <3>3
  <2>4. QED
    BY <1>1, <1>5, <2>2, <2>3 DEF Links!Remember, UsesInv, Links!discord
<1>6. CASE Links!Forget(c)
  <2>1. uses' \in Counts /\ DOMAIN uses' = DOMAIN uses \ {c} /\ \A d \in DOMAIN uses' : uses'[d] = uses[d]
    BY <1>2, <1>6, CountsFrom DEF Links!Forget
  <2>2. snapshot' # NoSnapshot =>
           /\ snapshot # NoSnapshot /\ snapshot' = [d \in DOMAIN snapshot \ {c} |-> snapshot[d]]
    BY <1>6 DEF Links!Forget, Links!Held
  <2>3. snapshot' # NoSnapshot =>
           /\ snapshot' \in Counts
           /\ \A d \in DOMAIN snapshot' : d \in DOMAIN snapshot /\ snapshot'[d] = snapshot[d]
    BY <1>3, <2>2, CountsFrom
  <2>4. \A d \in Links!Held' : d \in Links!Held /\ snapshot'[d] = snapshot[d]
    BY <2>2, <2>3 DEF Links!Held
  <2>5. QED
    BY <1>1, <1>6, <2>1, <2>3, <2>4 DEF Links!Forget, UsesInv
<1>7. QED
  BY <1>4, <1>5, <1>6

LEMMA FetchedKeeps ==
    ASSUME UsesInv, ToldInv, NEW h \in Handlers, Links!Fetched(h)
    PROVE  UsesInv' /\ ToldInv'
<1>1. UsesInv'
  BY DEF UsesInv, Links!Fetched, Links!discord, Links!tracker, Links!Held
<1>2. joined' = joined /\ joined' \in [Codes -> Nat] /\ \A c \in Codes : joined[c] <= joined'[c]
  BY DEF UsesInv, Links!Fetched, Links!tracker
<1>3. CASE Links!Ends(h)
  <2>1. Framed([Links!Idle EXCEPT !.at = "done"]) /\ [Links!Idle EXCEPT !.at = "done"].at = "done"
    BY FramedIdle, FramedAt
  <2>2. QED
    BY <1>1, <1>2, <1>3, <2>1, GoesOn DEF Links!Ends
<1>4. CASE Links!Goes(h, [call[h] EXCEPT !.at = "observing", !.seen = uses])
  <2>0. PICK step : step = [call[h] EXCEPT !.at = "observing", !.seen = uses]
    OBVIOUS
  <2>1. Framed(step) /\ step.at = "observing" /\ step.seen = uses
    BY <2>0 DEF ToldInv, Framed
  <2>2. Links!Goes(h, step)
    BY <1>4, <2>0
  <2>3. DOMAIN call' = Handlers /\ call'[h] = step /\ \A g \in Handlers \ {h} : call'[g] = call[g]
    BY <2>2 DEF Links!Goes, ToldInv
  <2>4. Told(step)'
    <3>1. \A c \in DOMAIN uses : uses[c] <= joined[c]
      BY CountsAre DEF UsesInv
    <3>2. uses \in Counts
      BY DEF UsesInv
    <3>3. QED
      BY <1>2, <2>1, <3>1, <3>2 DEF Told
  <2>5. ASSUME NEW g \in Handlers PROVE Framed(call'[g]) /\ Told(call[g])'
    <3>1. CASE g = h
      BY <2>1, <2>3, <2>4, <3>1 DEF Told
    <3>2. CASE g # h
      BY <1>2, <2>3, <2>5, <3>2 DEF ToldInv, Told
    <3>3. QED
      BY <3>1, <3>2
  <2>6. QED
    BY <1>1, <2>3, <2>5 DEF ToldInv, Framed
<1>5. QED
  BY <1>3, <1>4 DEF Links!Fetched

LEMMA ObserveKeeps ==
    ASSUME UsesInv, ToldInv, NoCode \notin Codes, NEW h \in Handlers, Links!Observe(h)
    PROVE  UsesInv' /\ ToldInv'
<1>1. ToldInv'
  BY HandlerGoesOn DEF Links!Observe
<1>2. PICK ans : ans = call[h].seen
  OBVIOUS
<1>3. ans \in Counts /\ \A c \in DOMAIN ans : ans[c] <= joined[c]
  BY <1>2 DEF Links!Observe, Links!At, ToldInv, Told
<1>4. DOMAIN ans \in SUBSET Codes /\ \A c \in DOMAIN ans : ans[c] \in Nat
  BY <1>3, CountsAre
<1>5. /\ snapshot' = ans /\ uses' = uses /\ joined' = joined /\ creating' = creating
      /\ newest' = [c \in Codes |-> IF c \in DOMAIN ans /\ ans[c] > newest[c] THEN ans[c] ELSE newest[c]]
      /\ turned' = (turned \/ \E c \in DOMAIN ans : ans[c] < newest[c])
  BY <1>2 DEF Links!Observe, Links!discord
<1>6. PICK used \in Links!UsedInvite(ans) : credited' = [d \in Codes |-> credited[d] + (IF d = used THEN 1 ELSE 0)]
  BY <1>2 DEF Links!Observe
<1>7. newest' \in [Codes -> Nat] /\ credited' \in [Codes -> Nat]
  BY <1>4, <1>5, <1>6 DEF UsesInv
<1>8. \A c \in Codes : newest'[c] <= joined[c] /\ newest[c] <= newest'[c]
  BY <1>3, <1>4, <1>5 DEF UsesInv
<1>9. ASSUME ~turned'
      PROVE  /\ \A c \in Links!Held' : snapshot'[c] = newest'[c]
             /\ \A c \in Codes : credited'[c] <= newest'[c]
  <2>1. ~turned /\ \A c \in DOMAIN ans : ~(ans[c] < newest[c])
    BY <1>5, <1>9
  <2>2. \A c \in DOMAIN ans : c \in Codes /\ newest'[c] = ans[c]
    BY <1>4, <1>5, <2>1 DEF UsesInv
  <2>3. Links!Held' \subseteq DOMAIN ans
    BY <1>5 DEF Links!Held
  <2>4. ASSUME NEW c \in Codes PROVE credited'[c] <= newest'[c]
    <3>1. credited[c] <= newest[c] /\ credited[c] \in Nat /\ newest[c] \in Nat
      BY <2>1 DEF UsesInv
    <3>2. CASE c # used
      BY <1>6, <1>7, <1>8, <3>1, <3>2
    <3>3. CASE c = used
      <4>1. c \in Links!Held \cap DOMAIN ans /\ Links!Rise(c, ans) > 0
        BY <1>6, <3>3 DEF Links!UsedInvite
      <4>2. ans[c] - newest[c] > 0
        BY <2>1, <4>1 DEF UsesInv, Links!Rise
      <4>3. newest'[c] = ans[c] /\ ans[c] \in Nat
        BY <1>4, <2>2, <4>1
      <4>4. credited'[c] = credited[c] + 1
        BY <1>6, <3>3
      <4>5. QED
        BY <3>1, <4>2, <4>3, <4>4
    <3>4. QED
      BY <3>2, <3>3
  <2>5. QED
    BY <1>5, <2>2, <2>3, <2>4
<1>10. turned' \in BOOLEAN
  BY <1>5
<1>11. UsesInv'
  BY <1>3, <1>5, <1>7, <1>8, <1>9, <1>10 DEF UsesInv
<1>12. QED
  BY <1>1, <1>11

LEMMA OthersKeep ==
    ASSUME UsesInv, ToldInv, NEW h \in Handlers,
           \/ Links!Probe(h) \/ Links!ReadJoiner(h) \/ Links!Record(h) \/ Links!Score(h)
           \/ Links!ReadLeaver(h) \/ Links!Deduct(h) \/ Links!Mark(h) \/ Links!Grant(h)
    PROVE  UsesInv' /\ ToldInv'
<1>1. UNCHANGED <<Links!discord, Links!tracker>>
  BY DEF Links!Probe, Links!ReadJoiner, Links!Record, Links!Score, Links!ReadLeaver, Links!Deduct, Links!Mark, Links!Grant
<1>2. ToldInv'
  BY <1>1, HandlerGoesOn DEF Links!tracker
<1>3. UsesInv'
  BY <1>1 DEF UsesInv, Links!discord, Links!tracker, Links!Held
<1>4. QED
  BY <1>2, <1>3

LEMMA RestartKeeps ==
    ASSUME UsesInv, ToldInv, Links!Restart
    PROVE  UsesInv' /\ ToldInv'
<1>1. UsesInv'
  BY DEF Links!Restart, UsesInv, Links!discord, Links!Held
<1>2. Framed([Links!Idle EXCEPT !.at = "done"]) /\ [Links!Idle EXCEPT !.at = "done"].at = "done"
  BY FramedIdle, FramedAt
<1>3. PICK done : done = [Links!Idle EXCEPT !.at = "done"]
  OBVIOUS
<1>4. \A h \in Handlers : call'[h] = done \/ call'[h] = call[h]
  BY <1>3 DEF Links!Restart
<1>5. DOMAIN call' = Handlers /\ joined' = joined
  BY DEF Links!Restart
<1>6. ASSUME NEW h \in Handlers PROVE Framed(call'[h]) /\ Told(call[h])'
  <2>1. CASE call'[h] = done
    BY <1>2, <1>3, <2>1 DEF Told
  <2>2. CASE call'[h] = call[h]
    BY <1>5, <2>2 DEF ToldInv, Told
  <2>3. QED
    BY <1>4, <2>1, <2>2
<1>7. QED
  BY <1>1, <1>5, <1>6 DEF ToldInv, Framed

LEMMA NextUses ==
    NoCode \notin Codes /\ UsesInv /\ ToldInv /\ [Links!Next]_Links!vars => UsesInv' /\ ToldInv'
<1> SUFFICES ASSUME NoCode \notin Codes, UsesInv, ToldInv, [Links!Next]_Links!vars
             PROVE  UsesInv' /\ ToldInv'
  OBVIOUS
<1>1. ASSUME NEW h \in Handlers, Links!Handles(h) PROVE UsesInv' /\ ToldInv'
  BY <1>1, FetchedKeeps, ObserveKeeps, OthersKeep DEF Links!Handles
<1>2. ASSUME NEW h \in Handlers, NEW m \in Guests, NEW way \in Codes \cup {NoCode},
             Links!Leave(h, m) \/ Links!Join(h, m, way)
      PROVE  UsesInv' /\ ToldInv'
  BY <1>2, LeaveKeeps, JoinKeeps
<1>3. CASE UNCHANGED Links!vars
  BY <1>3 DEF Links!vars, Links!discord, Links!tracker, UsesInv, ToldInv, Told, Framed, Links!Held
<1>4. QED
  BY <1>1, <1>2, <1>3, InvitesKeep, RestartKeeps DEF Links!Next

-----------------------------------------------------------------------------
(* The score of an inviter.                                                *)

(* A handler at work: asking who invited the joiner, recording and scoring *)
(* the join, or at what a leave undoes.                                    *)
Asking  == {"fetching", "observing", "probing", "reading"}
Undoing == {"leaving", "deducting", "marking"}
Working == Asking \cup Undoing \cup {"recording", "scoring"}

Busy(m)    == {h \in Handlers : call[h].at \in Working /\ call[h].who = m}
Sole(m, h) == Busy(m) = {h}
Known(m)   == referral[m] = "counted"

(* Points to come: a score that is due, and a join that may yet find no    *)
(* row.  Points to go: a leave that read a counted row.                    *)
Adds(h)  == \/ call[h].at = "scoring"
            \/ call[h].at = "recording" /\ call[h].counts
            \/ call[h].at \in Asking /\ referral[call[h].who] = NoRow
Scores(h) == call[h].at = "scoring"
Takes(h)  == call[h].at = "deducting"

(* A member who is counted, or will be when their only handler is done.    *)
Covers(m, h) ==
    \/ call[h].at = "scoring" /\ m \in here /\ Known(m)
    \/ call[h].at \in Asking /\ m \in here /\ referral[m] = NoRow
    \/ call[h].at = "recording" /\ call[h].counts /\ m \in here
    \/ call[h].at = "leaving" /\ m \notin here /\ Known(m)

Backed(m) ==
    \/ Busy(m) = {} /\ m \in here /\ Known(m)
    \/ \E h \in Handlers : Sole(m, h) /\ Covers(m, h)

(* A leave that may find a counted row, and a row that stays counted.      *)
Weighs(h) == call[h].at = "leaving" /\
                 (Known(call[h].who) \/ call[h].who \in here \/ ~Sole(call[h].who, h))
Stays(m)  == Known(m) /\ \A h \in Busy(m) : call[h].at \notin Undoing

Adding   == {h \in Handlers : Adds(h)}
Scoring  == {h \in Handlers : Scores(h)}
Taking   == {h \in Handlers : Takes(h)}
Weighing == {h \in Handlers : Weighs(h)}
Backing  == {m \in Guests : Backed(m)}
Staying  == {m \in Guests : Stays(m)}

LinkConstants == IsFiniteSet(Handlers) /\ IsFiniteSet(Guests) /\ NoRow \notin {"counted", "uncounted"}

LinkTypes ==
    /\ DOMAIN call = Handlers /\ here \subseteq Guests
    /\ \A h \in Handlers : Framed(call[h]) /\ (call[h].at \notin {"idle", "done"} => call[h].who \in Guests)
    /\ referral \in [Guests -> {NoRow, "counted", "uncounted"}]
    /\ regular \in Int /\ leaves \in Int /\ mishaps \in Int /\ overlaps \in Int

NotTooMuch   == Links!Net + Cardinality(Adding) - Cardinality(Taking) - Cardinality(Backing) <= mishaps + overlaps
NotTooLittle == Links!Net + Cardinality(Scoring) - Cardinality(Taking) - Cardinality(Weighing) - Cardinality(Staying)
                    >= -(mishaps + overlaps)

ScoreInv == LinkTypes /\ NotTooMuch /\ NotTooLittle

-----------------------------------------------------------------------------
(* Counting.                                                               *)

One(b) == IF b THEN 1 ELSE 0

LEMMA CountOne ==
    ASSUME NEW S, NEW T, NEW x, IsFiniteSet(S), IsFiniteSet(T), T \ {x} \subseteq S
    PROVE  Cardinality(T) - One(x \in T) <= Cardinality(S) - One(x \in S)
<1>1. /\ Cardinality(T \ {x}) = Cardinality(T) - One(x \in T) /\ Cardinality(S \ {x}) = Cardinality(S) - One(x \in S)
      /\ IsFiniteSet(S \ {x})
  <2>1. /\ Cardinality(T) \in Nat /\ Cardinality(S) \in Nat
        /\ Cardinality(T \ {x}) = IF x \in T THEN Cardinality(T) - 1 ELSE Cardinality(T)
        /\ Cardinality(S \ {x}) = IF x \in S THEN Cardinality(S) - 1 ELSE Cardinality(S)
        /\ IsFiniteSet(S \ {x})
    BY FS_CardinalityType, FS_RemoveElement
  <2>2. QED
    BY <2>1 DEF One
<1>2. T \ {x} \in SUBSET (S \ {x})
  OBVIOUS
<1>3. Cardinality(T \ {x}) <= Cardinality(S \ {x})
  BY <1>1, <1>2, FS_Subset
<1>4. QED
  BY <1>1, <1>3

LEMMA Finite ==
    ASSUME LinkConstants
    PROVE  /\ IsFiniteSet(Adding) /\ IsFiniteSet(Scoring) /\ IsFiniteSet(Taking) /\ IsFiniteSet(Weighing)
           /\ IsFiniteSet(Backing) /\ IsFiniteSet(Staying)
           /\ IsFiniteSet(Adding') /\ IsFiniteSet(Scoring') /\ IsFiniteSet(Taking') /\ IsFiniteSet(Weighing')
           /\ IsFiniteSet(Backing') /\ IsFiniteSet(Staying')
<1>1. /\ Adding \in SUBSET Handlers /\ Scoring \in SUBSET Handlers /\ Taking \in SUBSET Handlers /\ Weighing \in SUBSET Handlers
      /\ Backing \in SUBSET Guests /\ Staying \in SUBSET Guests
  BY DEF Adding, Scoring, Taking, Weighing, Backing, Staying
<1>2. /\ Adding' \in SUBSET Handlers /\ Scoring' \in SUBSET Handlers /\ Taking' \in SUBSET Handlers /\ Weighing' \in SUBSET Handlers
      /\ Backing' \in SUBSET Guests /\ Staying' \in SUBSET Guests
  BY DEF Adding, Scoring, Taking, Weighing, Backing, Staying
<1>3. QED
  BY <1>1, <1>2, FS_Subset DEF LinkConstants

LEMMA Numbers ==
    ASSUME LinkConstants
    PROVE  /\ Cardinality(Adding) \in Nat /\ Cardinality(Scoring) \in Nat /\ Cardinality(Taking) \in Nat
           /\ Cardinality(Weighing) \in Nat /\ Cardinality(Backing) \in Nat /\ Cardinality(Staying) \in Nat
           /\ Cardinality(Adding') \in Nat /\ Cardinality(Scoring') \in Nat /\ Cardinality(Taking') \in Nat
           /\ Cardinality(Weighing') \in Nat /\ Cardinality(Backing') \in Nat /\ Cardinality(Staying') \in Nat
BY Finite, FS_CardinalityType

LEMMA BackedBy ==
    /\ \A m : \A h \in Busy(m) : Backed(m) <=> Sole(m, h) /\ Covers(m, h)
    /\ \A m : Busy(m) = {} => (Backed(m) <=> m \in here /\ Known(m))
    /\ \A m : \A h \in Busy(m)' : Backed(m)' <=> Sole(m, h)' /\ Covers(m, h)'
    /\ \A m : Busy(m)' = {} => (Backed(m)' <=> m \in here' /\ Known(m)')
BY DEF Backed, Sole, Busy

-----------------------------------------------------------------------------
(* A handler moves on.                                                     *)

Moves(h, m) ==
    /\ m = call[h].who /\ m \in Guests /\ call[h].at \notin {"idle", "done"}
    /\ DOMAIN call' = Handlers /\ \A g \in Handlers \ {h} : call'[g] = call[g]
    /\ Framed(call'[h]) /\ (call'[h].at # "done" => call'[h].who = m)
    /\ call'[h].at \in Working => call[h].at \in Working
    /\ UNCHANGED <<here, overlaps>>
    /\ referral' \in [Guests -> {NoRow, "counted", "uncounted"}] /\ \A k \in Guests \ {m} : referral'[k] = referral[k]
    /\ referral'[m] = NoRow => referral[m] = NoRow
    /\ Known(m)' => Known(m) \/ call[h].at = "recording"
    /\ regular' \in Int /\ leaves' \in Int /\ mishaps' \in Int

LEMMA BusyMoves ==
    ASSUME NEW h \in Handlers, NEW m, Moves(h, m)
    PROVE  /\ \A k \in Guests \ {m} : Busy(k)' = Busy(k) /\ h \notin Busy(k)
           /\ Busy(m)' \ {h} = Busy(m) \ {h} /\ (h \in Busy(m)' => h \in Busy(m))
           /\ h \in Busy(m) <=> call[h].at \in Working
           /\ h \in Busy(m)' <=> call'[h].at \in Working
<1>1. "done" \notin Working
  BY DEF Working, Asking, Undoing
<1>2. QED
  BY <1>1 DEF Moves, Busy

LEMMA SetsMove ==
    ASSUME LinkTypes, NEW h \in Handlers, NEW m, Moves(h, m)
    PROVE  /\ Adding' \ {h} \subseteq Adding /\ Scoring \ {h} \subseteq Scoring'
           /\ Taking' \ {h} \subseteq Taking /\ Taking \ {h} \subseteq Taking'
           /\ Weighing' \ {h} \subseteq Weighing
           /\ Backing \ {m} \subseteq Backing' /\ Staying' \ {m} \subseteq Staying
<1>1. \A g \in Handlers \ {h} : call'[g] = call[g]
  BY DEF Moves
<1>2. /\ Scoring \ {h} \subseteq Scoring' /\ Taking' \ {h} \subseteq Taking /\ Taking \ {h} \subseteq Taking'
  BY <1>1 DEF Scoring, Scores, Taking, Takes
<1>3. ASSUME NEW g \in Handlers \ {h}, Adds(g)' PROVE Adds(g)
  <2>1. call'[g] = call[g]
    BY <1>1
  <2>2. CASE call[g].at \in Asking
    <3>1. call[g].who \in Guests
      BY <2>2 DEF LinkTypes, Asking
    <3>2. referral'[call[g].who] = NoRow => referral[call[g].who] = NoRow
      BY <3>1 DEF Moves
    <3>3. QED
      BY <1>3, <2>1, <3>2 DEF Adds
  <2>3. CASE call[g].at \notin Asking
    BY <1>3, <2>1, <2>3 DEF Adds
  <2>4. QED
    BY <2>2, <2>3
<1>4. ASSUME NEW g \in Handlers \ {h}, Weighs(g)' PROVE Weighs(g)
  <2>1. call'[g] = call[g] /\ call[g].at = "leaving" /\ here' = here
    BY <1>1, <1>4 DEF Weighs, Moves
  <2>2. PICK k : k = call[g].who
    OBVIOUS
  <2>3. k \in Guests /\ g \in Busy(k)
    BY <2>1, <2>2 DEF LinkTypes, Busy, Working, Undoing
  <2>4. CASE k # m
    <3>1. Busy(k)' = Busy(k) /\ referral'[k] = referral[k]
      BY <2>3, <2>4, BusyMoves DEF Moves
    <3>2. QED
      BY <1>4, <2>1, <2>2, <3>1 DEF Weighs, Known, Sole
  <2>5. CASE k = m
    <3>1. Sole(m, g) => Sole(m, g)' /\ call[h].at \notin Working
      BY <1>4, BusyMoves, <2>3, <2>5 DEF Sole
    <3>2. Sole(m, g) => (Known(m)' => Known(m))
      BY <3>1 DEF Moves, Working
    <3>3. QED
      BY <1>4, <2>1, <2>2, <2>5, <3>1, <3>2 DEF Weighs
  <2>6. QED
    BY <2>4, <2>5
<1>5. ASSUME NEW k \in Guests \ {m}
      PROVE  (Backed(k)' <=> Backed(k)) /\ (Stays(k)' <=> Stays(k))
  <2>1. Busy(k)' = Busy(k) /\ h \notin Busy(k) /\ referral'[k] = referral[k] /\ here' = here
    BY BusyMoves DEF Moves
  <2>2. \A g \in Busy(k) : g \in Handlers /\ call'[g] = call[g]
    BY <1>1, <2>1 DEF Busy
  <2>3. Stays(k)' <=> Stays(k)
    BY <2>1, <2>2 DEF Stays, Known
  <2>4. CASE Busy(k) = {}
    <3>1. (Backed(k) <=> k \in here /\ Known(k)) /\ (Backed(k)' <=> k \in here' /\ Known(k)')
      BY <2>1, <2>4, BackedBy
    <3>2. QED
      BY <2>1, <2>3, <3>1 DEF Known
  <2>5. CASE Busy(k) # {}
    <3>1. PICK g \in Busy(k) : TRUE
      BY <2>5
    <3>2. /\ Backed(k) <=> Sole(k, g) /\ Covers(k, g)
          /\ Backed(k)' <=> Sole(k, g)' /\ Covers(k, g)'
      BY <2>1, <3>1, BackedBy
    <3>3. (Sole(k, g)' <=> Sole(k, g)) /\ (Covers(k, g)' <=> Covers(k, g))
      BY <2>1, <2>2, <3>1 DEF Sole, Covers, Known
    <3>4. QED
      BY <2>3, <3>2, <3>3
  <2>6. QED
    BY <2>3, <2>4, <2>5
<1>6. Adding' \ {h} \subseteq Adding /\ Weighing' \ {h} \subseteq Weighing
  BY <1>3, <1>4 DEF Adding, Weighing
<1>7. Backing \ {m} \subseteq Backing' /\ Staying' \ {m} \subseteq Staying
  BY <1>5 DEF Backing, Staying
<1>8. QED
  BY <1>2, <1>6, <1>7

(* What the step does to the score it must be allowed to do.               *)
UpOne(h, m)   == One(Adds(h)) - One(Takes(h)) - One(Backed(m))
DownOne(h, m) == One(Scores(h)) - One(Takes(h)) - One(Weighs(h)) - One(Stays(m))

LEMMA MoveKeeps ==
    ASSUME LinkConstants, ScoreInv, NEW h \in Handlers, NEW m, Moves(h, m),
           Links!Net' + UpOne(h, m)' + mishaps <= Links!Net + UpOne(h, m) + mishaps',
           Links!Net' + DownOne(h, m)' + mishaps' >= Links!Net + DownOne(h, m) + mishaps
    PROVE  ScoreInv'
<1>1. LinkTypes'
  <2>1. \A g \in Handlers : Framed(call'[g]) /\ (call'[g].at \notin {"idle", "done"} => call'[g].who \in Guests)
    BY DEF ScoreInv, LinkTypes, Moves
  <2>2. QED
    BY <2>1 DEF ScoreInv, LinkTypes, Moves
<1>2. /\ (h \in Adding <=> Adds(h)) /\ (h \in Scoring <=> Scores(h)) /\ (h \in Taking <=> Takes(h))
      /\ (h \in Weighing <=> Weighs(h)) /\ (m \in Backing <=> Backed(m)) /\ (m \in Staying <=> Stays(m))
      /\ (h \in Adding' <=> Adds(h)') /\ (h \in Scoring' <=> Scores(h)') /\ (h \in Taking' <=> Takes(h)')
      /\ (h \in Weighing' <=> Weighs(h)') /\ (m \in Backing' <=> Backed(m)') /\ (m \in Staying' <=> Stays(m)')
  BY DEF Adding, Scoring, Taking, Weighing, Backing, Staying, Moves
<1>3. /\ Cardinality(Adding') - One(Adds(h)') <= Cardinality(Adding) - One(Adds(h))
      /\ Cardinality(Taking') - One(Takes(h)') <= Cardinality(Taking) - One(Takes(h))
      /\ Cardinality(Taking) - One(Takes(h)) <= Cardinality(Taking') - One(Takes(h)')
      /\ Cardinality(Backing) - One(Backed(m)) <= Cardinality(Backing') - One(Backed(m)')
  <2>1. /\ Cardinality(Adding') - One(h \in Adding') <= Cardinality(Adding) - One(h \in Adding)
        /\ Cardinality(Taking') - One(h \in Taking') <= Cardinality(Taking) - One(h \in Taking)
        /\ Cardinality(Taking) - One(h \in Taking) <= Cardinality(Taking') - One(h \in Taking')
        /\ Cardinality(Backing) - One(m \in Backing) <= Cardinality(Backing') - One(m \in Backing')
    BY SetsMove, Finite, CountOne DEF ScoreInv
  <2>2. QED
    BY <1>2, <2>1 DEF One
<1>4. /\ Cardinality(Scoring) - One(Scores(h)) <= Cardinality(Scoring') - One(Scores(h)')
      /\ Cardinality(Weighing') - One(Weighs(h)') <= Cardinality(Weighing) - One(Weighs(h))
      /\ Cardinality(Staying') - One(Stays(m)') <= Cardinality(Staying) - One(Stays(m))
  <2>1. /\ Cardinality(Scoring) - One(h \in Scoring) <= Cardinality(Scoring') - One(h \in Scoring')
        /\ Cardinality(Weighing') - One(h \in Weighing') <= Cardinality(Weighing) - One(h \in Weighing)
        /\ Cardinality(Staying') - One(m \in Staying') <= Cardinality(Staying) - One(m \in Staying)
    BY SetsMove, Finite, CountOne DEF ScoreInv
  <2>2. QED
    BY <1>2, <2>1 DEF One
<1>5. Links!Net \in Int /\ Links!Net' \in Int /\ mishaps \in Int /\ mishaps' \in Int /\ overlaps \in Int /\ overlaps' = overlaps
  BY DEF Links!Net, ScoreInv, LinkTypes, Moves
<1>6. /\ One(Adds(h)) \in Int /\ One(Takes(h)) \in Int /\ One(Backed(m)) \in Int /\ One(Adds(h)') \in Int
      /\ One(Takes(h)') \in Int /\ One(Backed(m)') \in Int /\ One(Scores(h)) \in Int /\ One(Scores(h)') \in Int
      /\ One(Weighs(h)) \in Int /\ One(Weighs(h)') \in Int /\ One(Stays(m)) \in Int /\ One(Stays(m)') \in Int
  BY DEF One
<1>7. NotTooMuch'
  <2>1. Links!Net' + One(Adds(h)') - One(Takes(h)') - One(Backed(m)') + mishaps
            <= Links!Net + One(Adds(h)) - One(Takes(h)) - One(Backed(m)) + mishaps'
    BY <1>5, <1>6 DEF UpOne, One
  <2>2. Links!Net + Cardinality(Adding) - Cardinality(Taking) - Cardinality(Backing) <= mishaps + overlaps
    BY DEF ScoreInv, NotTooMuch
  <2>3. Links!Net' + Cardinality(Adding') - Cardinality(Taking') - Cardinality(Backing') <= mishaps' + overlaps'
    BY <1>3, <1>5, <1>6, <2>1, <2>2, Numbers
  <2>4. QED
    BY <2>3 DEF NotTooMuch
<1>8. NotTooLittle'
  <2>1. Links!Net' + One(Scores(h)') - One(Takes(h)') - One(Weighs(h)') - One(Stays(m)') + mishaps'
            >= Links!Net + One(Scores(h)) - One(Takes(h)) - One(Weighs(h)) - One(Stays(m)) + mishaps
    BY <1>5, <1>6 DEF DownOne, One
  <2>2. Links!Net + Cardinality(Scoring) - Cardinality(Taking) - Cardinality(Weighing) - Cardinality(Staying)
            >= -(mishaps + overlaps)
    BY DEF ScoreInv, NotTooLittle
  <2>3. Links!Net' + Cardinality(Scoring') - Cardinality(Taking') - Cardinality(Weighing') - Cardinality(Staying')
            >= -(mishaps' + overlaps')
    BY <1>3, <1>4, <1>5, <1>6, <2>1, <2>2, Numbers
  <2>4. QED
    BY <2>3 DEF NotTooLittle
<1>9. QED
  BY <1>1, <1>7, <1>8 DEF ScoreInv

-----------------------------------------------------------------------------
(* The steps of a handler.                                                 *)

LEMMA AtWhere ==
    ASSUME NEW s, Framed(s), NEW a
    PROVE  /\ Framed([s EXCEPT !.at = a]) /\ [s EXCEPT !.at = a].at = a
           /\ [s EXCEPT !.at = a].who = s.who /\ [s EXCEPT !.at = a].counts = s.counts
BY DEF Framed

(* What the places of a handler make of the four marks.                    *)
LEMMA PlacesAre ==
    /\ \A h : call[h].at \in Asking => ~Scores(h) /\ ~Takes(h) /\ ~Weighs(h) /\ (Adds(h) <=> referral[call[h].who] = NoRow)
    /\ \A h : call[h].at = "recording" => ~Scores(h) /\ ~Takes(h) /\ ~Weighs(h) /\ (Adds(h) <=> call[h].counts)
    /\ \A h : call[h].at = "scoring" => Scores(h) /\ ~Takes(h) /\ ~Weighs(h) /\ Adds(h)
    /\ \A h : call[h].at = "leaving" => ~Scores(h) /\ ~Takes(h) /\ ~Adds(h) /\ (Known(call[h].who) => Weighs(h))
    /\ \A h : call[h].at = "deducting" => ~Scores(h) /\ Takes(h) /\ ~Weighs(h) /\ ~Adds(h)
    /\ \A h : call[h].at \in {"marking", "granting", "done"} => ~Scores(h) /\ ~Takes(h) /\ ~Weighs(h) /\ ~Adds(h)
BY DEF Asking, Scores, Takes, Weighs, Adds

LEMMA PlacesWillBe ==
    /\ \A h : call'[h].at \in Asking => ~Scores(h)' /\ ~Takes(h)' /\ ~Weighs(h)' /\ (Adds(h)' <=> referral'[call'[h].who] = NoRow)
    /\ \A h : call'[h].at = "recording" => ~Scores(h)' /\ ~Takes(h)' /\ ~Weighs(h)' /\ (Adds(h)' <=> call'[h].counts)
    /\ \A h : call'[h].at = "scoring" => Scores(h)' /\ ~Takes(h)' /\ ~Weighs(h)' /\ Adds(h)'
    /\ \A h : call'[h].at = "deducting" => ~Scores(h)' /\ Takes(h)' /\ ~Weighs(h)' /\ ~Adds(h)'
    /\ \A h : call'[h].at \in {"marking", "granting", "done"} => ~Scores(h)' /\ ~Takes(h)' /\ ~Weighs(h)' /\ ~Adds(h)'
BY DEF Asking, Scores, Takes, Weighs, Adds

(* A handler at work goes on at work, or it is done.                       *)
LEMMA GoesOnAt ==
    ASSUME LinkTypes, NEW h \in Handlers, NEW m, Moves(h, m), call[h].at \in Working, call'[h].at \in Working
    PROVE  /\ Sole(m, h)' <=> Sole(m, h)
           /\ Backed(m) <=> Sole(m, h) /\ Covers(m, h)
           /\ Backed(m)' <=> Sole(m, h)' /\ Covers(m, h)'
           /\ (call[h].at \in Undoing <=> call'[h].at \in Undoing) => (Stays(m)' => Stays(m) \/ (Known(m)' /\ ~Known(m)))
           /\ call'[h].at \in Undoing => ~Stays(m)'
<1>1. h \in Busy(m) /\ h \in Busy(m)' /\ Busy(m)' = Busy(m)
  BY BusyMoves
<1>2. \A g \in Busy(m) \ {h} : call'[g] = call[g]
  BY DEF Busy, Moves
<1>3. Sole(m, h)' <=> Sole(m, h)
  BY <1>1 DEF Sole
<1>4. (Backed(m) <=> Sole(m, h) /\ Covers(m, h)) /\ (Backed(m)' <=> Sole(m, h)' /\ Covers(m, h)')
  BY <1>1, BackedBy
<1>5. (call[h].at \in Undoing <=> call'[h].at \in Undoing) => (Stays(m)' => Stays(m) \/ (Known(m)' /\ ~Known(m)))
  BY <1>1, <1>2 DEF Stays
<1>6. call'[h].at \in Undoing => ~Stays(m)'
  BY <1>1 DEF Stays
<1>7. QED
  BY <1>3, <1>4, <1>5, <1>6

LEMMA IsDone ==
    ASSUME LinkTypes, NEW h \in Handlers, NEW m, Moves(h, m), call[h].at \in Working, call'[h].at \notin Working
    PROVE  /\ Backed(m) <=> Sole(m, h) /\ Covers(m, h)
           /\ Sole(m, h) => (Backed(m)' <=> m \in here' /\ Known(m)')
           /\ call[h].at \notin Undoing => (Stays(m)' => Stays(m) \/ (Known(m)' /\ ~Known(m)))
           /\ Stays(m)' => Known(m)'
<1>1. h \in Busy(m) /\ h \notin Busy(m)' /\ Busy(m)' = Busy(m) \ {h}
  BY BusyMoves
<1>2. \A g \in Busy(m) \ {h} : call'[g] = call[g]
  BY DEF Busy, Moves
<1>3. Backed(m) <=> Sole(m, h) /\ Covers(m, h)
  BY <1>1, BackedBy
<1>4. Sole(m, h) => (Backed(m)' <=> m \in here' /\ Known(m)')
  <2>1. Sole(m, h) => Busy(m)' = {}
    BY <1>1 DEF Sole
  <2>2. QED
    BY <2>1, BackedBy
<1>5. (call[h].at \notin Undoing => (Stays(m)' => Stays(m) \/ (Known(m)' /\ ~Known(m)))) /\ (Stays(m)' => Known(m)')
  BY <1>1, <1>2 DEF Stays
<1>6. QED
  BY <1>3, <1>4, <1>5

(* From what an action says to a move.                                     *)
LEMMA GoesMoves ==
    ASSUME LinkTypes, NEW h \in Handlers, NEW m, m = call[h].who, call[h].at \notin {"idle", "done"},
           NEW step, Links!Goes(h, step), Framed(step), step.at # "done" => step.who = m,
           step.at \in Working => call[h].at \in Working, UNCHANGED <<here, overlaps>>,
           referral' \in [Guests -> {NoRow, "counted", "uncounted"}], \A k \in Guests \ {m} : referral'[k] = referral[k],
           referral'[m] = NoRow => referral[m] = NoRow, Known(m)' => Known(m) \/ call[h].at = "recording",
           regular' \in Int, leaves' \in Int, mishaps' \in Int
    PROVE  Moves(h, m) /\ call'[h] = step
<1>1. m \in Guests
  BY DEF LinkTypes
<1>2. DOMAIN call' = Handlers /\ call'[h] = step /\ \A g \in Handlers \ {h} : call'[g] = call[g]
  BY DEF Links!Goes, LinkTypes
<1>3. QED
  BY <1>1, <1>2 DEF Moves

(* The row is left alone.                                                  *)
LEMMA GoesQuietly ==
    ASSUME LinkTypes, NEW h \in Handlers, NEW m, m = call[h].who, call[h].at \notin {"idle", "done"},
           NEW step, Links!Goes(h, step), Framed(step), step.at # "done" => step.who = m,
           step.at \in Working => call[h].at \in Working, UNCHANGED <<here, overlaps, referral>>,
           regular' \in Int, leaves' \in Int, mishaps' \in Int
    PROVE  Moves(h, m) /\ call'[h] = step /\ (Known(m)' <=> Known(m))
<1>1. /\ referral' \in [Guests -> {NoRow, "counted", "uncounted"}] /\ \A k \in Guests \ {m} : referral'[k] = referral[k]
      /\ referral'[m] = NoRow => referral[m] = NoRow
      /\ Known(m)' <=> Known(m)
  BY DEF LinkTypes, Known
<1>2. QED
  BY <1>1, GoesMoves

LEMMA DoneIs == Framed([Links!Idle EXCEPT !.at = "done"]) /\ [Links!Idle EXCEPT !.at = "done"].at = "done"
BY DEF Framed, Links!Idle

LEMMA Tallies ==
    ASSUME LinkTypes
    PROVE  /\ Links!Fine => mishaps' = mishaps /\ mishaps' \in Int
           /\ Links!Mishap => mishaps' = mishaps + 1 /\ mishaps' \in Int
           /\ regular \in Int /\ leaves \in Int /\ mishaps \in Int
BY DEF LinkTypes, Links!Fine, Links!Mishap

LEMMA Ones ==
    ASSUME NEW h, NEW m
    PROVE
    /\ (Adds(h) /\ One(Adds(h)) = 1) \/ (~Adds(h) /\ One(Adds(h)) = 0)
    /\ (Scores(h) /\ One(Scores(h)) = 1) \/ (~Scores(h) /\ One(Scores(h)) = 0)
    /\ (Takes(h) /\ One(Takes(h)) = 1) \/ (~Takes(h) /\ One(Takes(h)) = 0)
    /\ (Weighs(h) /\ One(Weighs(h)) = 1) \/ (~Weighs(h) /\ One(Weighs(h)) = 0)
    /\ (Backed(m) /\ One(Backed(m)) = 1) \/ (~Backed(m) /\ One(Backed(m)) = 0)
    /\ (Stays(m) /\ One(Stays(m)) = 1) \/ (~Stays(m) /\ One(Stays(m)) = 0)
    /\ (Adds(h)' /\ One(Adds(h)') = 1) \/ (~Adds(h)' /\ One(Adds(h)') = 0)
    /\ (Scores(h)' /\ One(Scores(h)') = 1) \/ (~Scores(h)' /\ One(Scores(h)') = 0)
    /\ (Takes(h)' /\ One(Takes(h)') = 1) \/ (~Takes(h)' /\ One(Takes(h)') = 0)
    /\ (Weighs(h)' /\ One(Weighs(h)') = 1) \/ (~Weighs(h)' /\ One(Weighs(h)') = 0)
    /\ (Backed(m)' /\ One(Backed(m)') = 1) \/ (~Backed(m)' /\ One(Backed(m)') = 0)
    /\ (Stays(m)' /\ One(Stays(m)') = 1) \/ (~Stays(m)' /\ One(Stays(m)') = 0)
BY DEF One

(* A handler that asks stays at it, or gives up.                           *)
LEMMA AskingKeeps ==
    ASSUME LinkConstants, ScoreInv, NEW h \in Handlers, NEW m, Moves(h, m), call[h].at \in Asking,
           UNCHANGED <<referral, regular, leaves>>, mishaps' >= mishaps,
           call'[h].at \in Asking \/ call'[h].at = "done"
    PROVE  ScoreInv'
<1>1. Links!Net' = Links!Net /\ Links!Net \in Int /\ mishaps \in Int /\ mishaps' \in Int /\ (Known(m)' <=> Known(m)) /\ here' = here
  BY DEF Links!Net, ScoreInv, LinkTypes, Moves, Known
<1>2. ~Scores(h) /\ ~Takes(h) /\ ~Weighs(h)
  BY PlacesAre
<1>3. (Adds(h) <=> referral[m] = NoRow) /\ (Covers(m, h) => Adds(h))
  BY PlacesAre DEF Moves, Covers, Asking
<1>4. CASE call'[h].at \in Asking
  <2>1. ~Scores(h)' /\ ~Takes(h)' /\ ~Weighs(h)' /\ (Adds(h)' <=> Adds(h))
    <3>1. call'[h].who = m
      BY <1>4 DEF Moves, Asking
    <3>2. QED
      BY <1>3, <1>4, <3>1, PlacesWillBe
  <2>2. call[h].at \in Working /\ call'[h].at \in Working /\ call[h].at \notin Undoing /\ call'[h].at \notin Undoing
    BY <1>4 DEF Working, Asking, Undoing
  <2>3. Covers(m, h)' <=> Covers(m, h)
    BY <1>1, <1>4 DEF Covers, Asking
  <2>4. (Backed(m)' <=> Backed(m)) /\ (Stays(m)' => Stays(m))
    BY <1>1, <2>2, <2>3, GoesOnAt DEF ScoreInv
  <2>5. /\ Links!Net' + UpOne(h, m)' + mishaps <= Links!Net + UpOne(h, m) + mishaps'
        /\ Links!Net' + DownOne(h, m)' + mishaps' >= Links!Net + DownOne(h, m) + mishaps
    BY <1>1, <1>2, <2>1, <2>4, Ones DEF UpOne, DownOne
  <2>6. QED
    BY <2>5, MoveKeeps
<1>5. CASE call'[h].at = "done"
  <2>1. ~Scores(h)' /\ ~Takes(h)' /\ ~Weighs(h)' /\ ~Adds(h)'
    BY <1>5, PlacesWillBe
  <2>2. call[h].at \in Working /\ call'[h].at \notin Working /\ call[h].at \notin Undoing
    BY <1>5 DEF Working, Asking, Undoing
  <2>3. (Backed(m) => Adds(h)) /\ (Stays(m)' => Stays(m))
    BY <1>1, <1>3, <2>2, IsDone DEF ScoreInv
  <2>4. /\ Links!Net' + UpOne(h, m)' + mishaps <= Links!Net + UpOne(h, m) + mishaps'
        /\ Links!Net' + DownOne(h, m)' + mishaps' >= Links!Net + DownOne(h, m) + mishaps
    BY <1>1, <1>2, <2>1, <2>3, Ones DEF UpOne, DownOne
  <2>5. QED
    BY <2>4, MoveKeeps
<1>6. QED
  BY <1>4, <1>5

LEMMA StepAsk ==
    ASSUME LinkConstants, ScoreInv, NEW h \in Handlers, Links!Fetched(h) \/ Links!Observe(h) \/ Links!Probe(h)
    PROVE  ScoreInv'
<1>1. PICK m : m = call[h].who
  OBVIOUS
<1>2. /\ call[h].at \in Asking /\ UNCHANGED <<here, overlaps, referral, regular, leaves>> /\ (Links!Fine \/ Links!Mishap)
      /\ \/ Links!Ends(h)
         \/ \E a \in Asking : \E c, e : Links!Goes(h, [call[h] EXCEPT !.at = a, !.code = c, !.seen = e])
         \/ \E a \in Asking : \E e : Links!Goes(h, [call[h] EXCEPT !.at = a, !.seen = e])
         \/ \E a \in Asking : Links!Goes(h, [call[h] EXCEPT !.at = a])
  <2>1. CASE Links!Fetched(h)
    BY <2>1 DEF Links!Fetched, Links!At, Asking, Links!discord, Links!record, Links!stats
  <2>2. CASE Links!Observe(h)
    <3>1. PICK c : Links!Goes(h, [call[h] EXCEPT !.at = IF c = NoCode THEN "probing" ELSE "reading",
                                           !.code = c, !.seen = NoSnapshot])
      BY <2>2 DEF Links!Observe
    <3>2. PICK a \in Asking : a = IF c = NoCode THEN "probing" ELSE "reading"
      BY DEF Asking
    <3>3. Links!Goes(h, [call[h] EXCEPT !.at = a, !.code = c, !.seen = NoSnapshot])
      BY <3>1, <3>2
    <3>4. QED
      BY <2>2, <3>3 DEF Links!Observe, Links!At, Asking, Links!discord, Links!record, Links!stats, Links!trouble, Links!Fine
  <2>3. CASE Links!Probe(h)
    BY <2>3 DEF Links!Probe, Links!At, Asking, Links!discord, Links!record, Links!stats
  <2>4. QED
    BY <2>1, <2>2, <2>3
<1>3. /\ call[h].at \notin {"idle", "done"} /\ Framed(call[h]) /\ call[h].at \in Working
      /\ mishaps' \in Int /\ mishaps' >= mishaps /\ regular' \in Int /\ leaves' \in Int
  <2>1. call[h].at \notin {"idle", "done"} /\ call[h].at \in Working
    BY <1>2 DEF Asking, Working
  <2>2. Framed(call[h]) /\ mishaps \in Int
    BY DEF ScoreInv, LinkTypes
  <2>3. mishaps' \in Int /\ mishaps' >= mishaps
    <3>1. mishaps' = mishaps \/ mishaps' = mishaps + 1
      BY <1>2 DEF Links!Fine, Links!Mishap
    <3>2. QED
      BY <2>2, <3>1
  <2>4. regular' \in Int /\ leaves' \in Int
    BY <1>2 DEF ScoreInv, LinkTypes
  <2>5. QED
    BY <2>1, <2>2, <2>3, <2>4
<1>4. ASSUME NEW step, Links!Goes(h, step), Framed(step), (step.at \in Asking /\ step.who = m) \/ step.at = "done"
      PROVE  ScoreInv'
  <2>1. Moves(h, m) /\ call'[h] = step
    BY <1>1, <1>2, <1>3, <1>4, GoesQuietly DEF ScoreInv
  <2>2. QED
    BY <1>2, <1>3, <1>4, <2>1, AskingKeeps
<1>5. CASE Links!Ends(h)
  BY <1>4, <1>5, DoneIs DEF Links!Ends
<1>6. ASSUME NEW a \in Asking, NEW c, NEW e, Links!Goes(h, [call[h] EXCEPT !.at = a, !.code = c, !.seen = e])
      PROVE  ScoreInv'
  <2>1. PICK step : step = [call[h] EXCEPT !.at = a, !.code = c, !.seen = e]
    OBVIOUS
  <2>2. Framed(step) /\ step.at = a /\ step.who = m
    BY <1>1, <1>3, <2>1 DEF Framed
  <2>3. QED
    BY <1>4, <1>6, <2>1, <2>2
<1>7. ASSUME NEW a \in Asking, NEW e, Links!Goes(h, [call[h] EXCEPT !.at = a, !.seen = e])
      PROVE  ScoreInv'
  <2>1. PICK step : step = [call[h] EXCEPT !.at = a, !.seen = e]
    OBVIOUS
  <2>2. Framed(step) /\ step.at = a /\ step.who = m
    BY <1>1, <1>3, <2>1 DEF Framed
  <2>3. QED
    BY <1>4, <1>7, <2>1, <2>2
<1>8. ASSUME NEW a \in Asking, Links!Goes(h, [call[h] EXCEPT !.at = a])
      PROVE  ScoreInv'
  <2>1. PICK step : step = [call[h] EXCEPT !.at = a]
    OBVIOUS
  <2>2. Framed(step) /\ step.at = a /\ step.who = m
    BY <1>1, <1>3, <2>1 DEF Framed
  <2>3. QED
    BY <1>4, <1>8, <2>1, <2>2
<1>9. QED
  BY <1>2, <1>5, <1>6, <1>7, <1>8

(* What is read of the joiner: only without a row does the join count.     *)
LEMMA StepReadJoiner == ASSUME LinkConstants, ScoreInv, NEW h \in Handlers, Links!ReadJoiner(h) PROVE ScoreInv'
<1>1. PICK m : m = call[h].who
  OBVIOUS
<1>2. call[h].at = "reading" /\ call[h].at \in Asking /\ UNCHANGED <<here, overlaps, referral, regular, leaves>>
  BY DEF Links!ReadJoiner, Links!At, Asking, Links!discord, Links!record, Links!stats
<1>3. /\ call[h].at \in Working /\ call[h].at \notin Undoing /\ call[h].at \notin {"idle", "done"}
      /\ Framed(call[h]) /\ m \in Guests /\ referral[m] \in {NoRow, "counted", "uncounted"}
      /\ mishaps \in Int /\ regular' \in Int /\ leaves' \in Int
  BY <1>1, <1>2 DEF Working, Undoing, ScoreInv, LinkTypes
<1>4. CASE m \notin here
  <2>1. Links!Ends(h) /\ Links!Fine
    BY <1>1, <1>4 DEF Links!ReadJoiner
  <2>2. mishaps' = mishaps /\ mishaps' \in Int /\ mishaps' >= mishaps
    BY <1>3, <2>1 DEF Links!Fine
  <2>3. Moves(h, m) /\ call'[h].at = "done"
    BY <1>1, <1>2, <1>3, <2>1, <2>2, DoneIs, GoesQuietly DEF ScoreInv, Links!Ends, Working, Asking, Undoing
  <2>4. QED
    BY <1>2, <2>2, <2>3, AskingKeeps
<1>5. CASE m \in here
  <2>1. PICK k \in BOOLEAN :
          /\ Links!Goes(h, [call[h] EXCEPT !.at = "recording", !.code = NoCode, !.counts = k])
          /\ (Links!Fine /\ (k => referral[m] = NoRow)) \/ Links!Mishap
    <3>1. PICK young \in BOOLEAN, previous \in {referral[m], NoRow} :
            /\ Links!Goes(h, [call[h] EXCEPT !.at = "recording", !.code = NoCode,
                          !.counts = (Links!ClassifyInviteJoin(m, call[h].code, previous, young) = "regular")])
            /\ IF previous = referral[m] THEN Links!Fine ELSE Links!Mishap
      BY <1>1, <1>5 DEF Links!ReadJoiner
    <3>2. PICK k \in BOOLEAN : k = (Links!ClassifyInviteJoin(m, call[h].code, previous, young) = "regular")
      OBVIOUS
    <3>3. k => previous = NoRow
      BY <3>2 DEF Links!ClassifyInviteJoin
    <3>4. Links!Goes(h, [call[h] EXCEPT !.at = "recording", !.code = NoCode, !.counts = k])
      BY <3>1, <3>2
    <3>5. QED
      BY <3>1, <3>3, <3>4
  <2>2. PICK step : step = [call[h] EXCEPT !.at = "recording", !.code = NoCode, !.counts = k]
    OBVIOUS
  <2>3. Framed(step) /\ step.at = "recording" /\ step.who = m /\ step.counts = k
    BY <1>1, <1>3, <2>2 DEF Framed
  <2>4. mishaps' \in Int /\ ((mishaps' = mishaps /\ (k => referral[m] = NoRow)) \/ mishaps' = mishaps + 1)
    BY <1>3, <2>1 DEF Links!Fine, Links!Mishap
  <2>5. Moves(h, m) /\ call'[h] = step /\ (Known(m)' <=> Known(m))
    <3>1. Links!Goes(h, step)
      BY <2>1, <2>2
    <3>2. QED
      BY <1>1, <1>2, <1>3, <2>3, <2>4, <3>1, GoesQuietly DEF ScoreInv
  <2>6. ~Scores(h) /\ ~Takes(h) /\ ~Weighs(h)
    BY <1>2, PlacesAre
  <2>7. Adds(h) <=> referral[m] = NoRow
    BY <1>1, <1>2, PlacesAre
  <2>8. ~Scores(h)' /\ ~Takes(h)' /\ ~Weighs(h)' /\ (Adds(h)' <=> k)
    BY <2>3, <2>5, PlacesWillBe
  <2>9. call'[h].at \in Working /\ call'[h].at \notin Undoing
    BY <2>3, <2>5 DEF Working, Undoing
  <2>10. (Covers(m, h) <=> referral[m] = NoRow) /\ (Covers(m, h)' <=> k)
    BY <1>2, <1>5, <2>3, <2>5 DEF Covers, Asking
  <2>11. /\ Backed(m) <=> Sole(m, h) /\ referral[m] = NoRow
         /\ Backed(m)' <=> Sole(m, h) /\ k
         /\ Stays(m)' => Stays(m)
    BY <1>3, <2>5, <2>9, <2>10, GoesOnAt DEF ScoreInv
  <2>12. Links!Net' = Links!Net /\ Links!Net \in Int
    BY <1>2 DEF Links!Net, ScoreInv, LinkTypes
  <2>13. \/ mishaps' = mishaps + 1
         \/ mishaps' = mishaps /\ (Adds(h)' /\ Adds(h) /\ (Backed(m)' <=> Backed(m)))
         \/ mishaps' = mishaps /\ (~Adds(h)' /\ ~Backed(m)')
    BY <2>4, <2>7, <2>8, <2>11
  <2>14. Backed(m) => Adds(h)
    BY <2>7, <2>11
  <2>15. Stays(m)' => Stays(m)
    BY <2>11
  <2>16. ~Scores(h)' /\ ~Takes(h)' /\ ~Weighs(h)'
    BY <2>8
  <2>17. /\ Links!Net' + UpOne(h, m)' + mishaps <= Links!Net + UpOne(h, m) + mishaps'
         /\ Links!Net' + DownOne(h, m)' + mishaps' >= Links!Net + DownOne(h, m) + mishaps
    BY <1>3, <2>6, <2>12, <2>13, <2>14, <2>15, <2>16, Ones DEF UpOne, DownOne
  <2>18. QED
    BY <2>5, <2>17, MoveKeeps
<1>6. QED
  BY <1>4, <1>5

(* What the record keeps of the joiner.  The rows of others are theirs.    *)
LEMMA RowSet ==
    ASSUME LinkTypes, NEW m \in Guests, NEW v \in {"counted", "uncounted"}, referral' = [referral EXCEPT ![m] = v]
    PROVE  /\ referral' \in [Guests -> {NoRow, "counted", "uncounted"}] /\ referral'[m] = v
           /\ \A k \in Guests \ {m} : referral'[k] = referral[k]
BY DEF LinkTypes

LEMMA StepRecord == ASSUME LinkConstants, ScoreInv, NEW h \in Handlers, Links!Record(h) PROVE ScoreInv'
<1>1. PICK m : m = call[h].who
  OBVIOUS
<1>2. /\ call[h].at = "recording" /\ UNCHANGED <<here, overlaps, regular, leaves>>
      /\ \/ referral' = [referral EXCEPT ![m] = Links!Flag(call[h].counts)] /\ Links!Fine
         \/ referral' = referral /\ Links!Mishap
      /\ IF call[h].counts THEN Links!Goes(h, [call[h] EXCEPT !.at = "scoring"]) ELSE Links!Ends(h)
  BY <1>1 DEF Links!Record, Links!At, Links!discord, Links!stats
<1>3. /\ call[h].at \in Working /\ call[h].at \notin Undoing /\ call[h].at \notin {"idle", "done"}
      /\ Framed(call[h]) /\ m \in Guests /\ mishaps \in Int /\ regular' \in Int /\ leaves' \in Int
  BY <1>1, <1>2 DEF Working, Undoing, ScoreInv, LinkTypes
<1>4. mishaps' \in Int /\ (mishaps' = mishaps \/ mishaps' = mishaps + 1)
  BY <1>2, <1>3 DEF Links!Fine, Links!Mishap
<1>5. /\ referral' \in [Guests -> {NoRow, "counted", "uncounted"}] /\ \A k \in Guests \ {m} : referral'[k] = referral[k]
      /\ referral'[m] = NoRow => referral[m] = NoRow
      /\ \/ mishaps' = mishaps /\ (Known(m)' <=> call[h].counts)
         \/ mishaps' = mishaps + 1 /\ (Known(m)' <=> Known(m))
  <2>1. Links!Flag(call[h].counts) \in {"counted", "uncounted"} /\ (Links!Flag(call[h].counts) = "counted" <=> call[h].counts)
    BY DEF Links!Flag
  <2>2. NoRow \notin {"counted", "uncounted"}
    BY DEF LinkConstants
  <2>3. CASE referral' = [referral EXCEPT ![m] = Links!Flag(call[h].counts)] /\ Links!Fine
    <3>1. /\ referral' \in [Guests -> {NoRow, "counted", "uncounted"}] /\ referral'[m] = Links!Flag(call[h].counts)
          /\ \A k \in Guests \ {m} : referral'[k] = referral[k]
      BY <1>3, <2>1, <2>3, RowSet DEF ScoreInv
    <3>2. QED
      BY <2>1, <2>2, <2>3, <3>1 DEF Known, Links!Fine
  <2>4. CASE referral' = referral /\ Links!Mishap
    BY <2>4 DEF Known, Links!Mishap, ScoreInv, LinkTypes
  <2>5. QED
    BY <1>2, <2>3, <2>4
<1>6. /\ ~Scores(h) /\ ~Takes(h) /\ ~Weighs(h) /\ (Adds(h) <=> call[h].counts)
  BY <1>2, PlacesAre
<1>7. Covers(m, h) <=> call[h].counts /\ m \in here
  BY <1>2 DEF Covers, Asking
<1>8. Links!Net' = Links!Net /\ Links!Net \in Int
  BY <1>2 DEF Links!Net, ScoreInv, LinkTypes
<1>9. CASE call[h].counts
  <2>1. PICK step : step = [call[h] EXCEPT !.at = "scoring"]
    OBVIOUS
  <2>2. Links!Goes(h, step) /\ Framed(step) /\ step.at = "scoring" /\ step.who = m
    BY <1>1, <1>2, <1>3, <1>9, <2>1, AtWhere
  <2>3. Moves(h, m) /\ call'[h].at = "scoring"
    BY <1>1, <1>2, <1>3, <1>4, <1>5, <2>2, GoesMoves DEF ScoreInv
  <2>4. call'[h].at \in Working /\ call'[h].at \notin Undoing
    BY <2>3 DEF Working, Undoing
  <2>5. Scores(h)' /\ ~Takes(h)' /\ ~Weighs(h)' /\ Adds(h)'
    BY <2>3, PlacesWillBe
  <2>6. Covers(m, h)' <=> m \in here /\ Known(m)'
    BY <1>2, <2>3 DEF Covers, Asking
  <2>7. (Backed(m) <=> Sole(m, h) /\ m \in here) /\ (Backed(m)' <=> Sole(m, h) /\ m \in here /\ Known(m)')
    BY <1>3, <1>7, <1>9, <2>3, <2>4, <2>6, GoesOnAt DEF ScoreInv
  <2>8. Adds(h) /\ ((mishaps' = mishaps /\ (Backed(m)' <=> Backed(m))) \/ mishaps' = mishaps + 1)
    BY <1>5, <1>6, <1>9, <2>7
  <2>9. ~Scores(h) /\ ~Takes(h) /\ ~Weighs(h)
    BY <1>6
  <2>10. /\ Links!Net' + UpOne(h, m)' + mishaps <= Links!Net + UpOne(h, m) + mishaps'
         /\ Links!Net' + DownOne(h, m)' + mishaps' >= Links!Net + DownOne(h, m) + mishaps
    <3>1. /\ One(Adds(h)) = 1 /\ One(Adds(h)') = 1 /\ One(Scores(h)) = 0 /\ One(Scores(h)') = 1
          /\ One(Takes(h)) = 0 /\ One(Takes(h)') = 0 /\ One(Weighs(h)) = 0 /\ One(Weighs(h)') = 0
          /\ One(Backed(m)) \in {0, 1} /\ One(Backed(m)') \in {0, 1} /\ One(Stays(m)) \in {0, 1} /\ One(Stays(m)') \in {0, 1}
          /\ (mishaps' = mishaps /\ One(Backed(m)') = One(Backed(m))) \/ mishaps' = mishaps + 1
      BY <2>5, <2>8, <2>9, Ones
    <3>2. mishaps \in Int /\ Links!Net' = Links!Net /\ Links!Net \in Int
      BY <1>3, <1>8
    <3>3. QED
      BY <3>1, <3>2 DEF UpOne, DownOne
  <2>11. QED
    BY <2>3, <2>10, MoveKeeps
<1>10. CASE ~call[h].counts
  <2>1. PICK step : step = [Links!Idle EXCEPT !.at = "done"]
    OBVIOUS
  <2>2. Links!Goes(h, step) /\ Framed(step) /\ step.at = "done"
    BY <1>2, <1>10, <2>1, DoneIs DEF Links!Ends
  <2>3. Moves(h, m) /\ call'[h].at = "done"
    BY <1>1, <1>2, <1>3, <1>4, <1>5, <2>2, GoesMoves DEF ScoreInv
  <2>4. call'[h].at \notin Working
    BY <2>3 DEF Working, Undoing, Asking
  <2>5. ~Scores(h)' /\ ~Takes(h)' /\ ~Weighs(h)' /\ ~Adds(h)'
    BY <2>3, PlacesWillBe
  <2>6. Known(m)' => Known(m)
    BY <1>5, <1>10
  <2>7. ~Backed(m) /\ (Stays(m)' => Stays(m))
    BY <1>3, <1>7, <1>10, <2>3, <2>4, <2>6, IsDone DEF ScoreInv
  <2>8. ~Scores(h) /\ ~Takes(h) /\ ~Weighs(h) /\ ~Adds(h)
    BY <1>6, <1>10
  <2>9. /\ Links!Net' + UpOne(h, m)' + mishaps <= Links!Net + UpOne(h, m) + mishaps'
        /\ Links!Net' + DownOne(h, m)' + mishaps' >= Links!Net + DownOne(h, m) + mishaps
    BY <1>3, <1>4, <1>8, <2>5, <2>7, <2>8, Ones DEF UpOne, DownOne
  <2>10. QED
    BY <2>3, <2>9, MoveKeeps
<1>11. QED
  BY <1>9, <1>10

LEMMA StepScore == ASSUME LinkConstants, ScoreInv, NEW h \in Handlers, Links!Score(h) PROVE ScoreInv'
<1>1. PICK m : m = call[h].who
  OBVIOUS
<1>2. /\ call[h].at = "scoring" /\ UNCHANGED <<here, overlaps, referral, leaves>>
      /\ \/ regular' = regular + 1 /\ Links!Goes(h, [call[h] EXCEPT !.at = "granting", !.net = Links!Net + 1]) /\ Links!Fine
         \/ regular' = regular /\ Links!Goes(h, [call[h] EXCEPT !.at = "granting"]) /\ Links!Mishap
  BY DEF Links!Score, Links!At, Links!discord
<1>3. /\ call[h].at \in Working /\ call[h].at \notin Undoing /\ call[h].at \notin {"idle", "done"}
      /\ Framed(call[h]) /\ m \in Guests /\ mishaps \in Int /\ regular \in Int /\ leaves \in Int
  BY <1>1, <1>2 DEF Working, Undoing, ScoreInv, LinkTypes
<1>4. mishaps' \in Int /\ regular' \in Int /\ leaves' \in Int /\ Links!Net \in Int
      /\ ((Links!Net' = Links!Net + 1 /\ mishaps' = mishaps) \/ (Links!Net' = Links!Net /\ mishaps' = mishaps + 1))
  BY <1>2, <1>3 DEF Links!Fine, Links!Mishap, Links!Net
<1>5. PICK step : Links!Goes(h, step) /\ Framed(step) /\ step.at = "granting" /\ step.who = m
  <2>1. PICK one : one = [call[h] EXCEPT !.at = "granting", !.net = Links!Net + 1]
    OBVIOUS
  <2>2. PICK stays : stays = [call[h] EXCEPT !.at = "granting"]
    OBVIOUS
  <2>3. /\ Framed(one) /\ one.at = "granting" /\ one.who = m
        /\ Framed(stays) /\ stays.at = "granting" /\ stays.who = m
    BY <1>1, <1>3, <2>1, <2>2 DEF Framed
  <2>4. Links!Goes(h, one) \/ Links!Goes(h, stays)
    BY <1>2, <2>1, <2>2
  <2>5. QED
    BY <2>3, <2>4
<1>6. step.at \notin Working /\ step.at # "done"
  BY <1>5 DEF Working, Undoing, Asking
<1>7. Moves(h, m) /\ call'[h] = step /\ (Known(m)' <=> Known(m))
  BY <1>1, <1>2, <1>3, <1>4, <1>5, <1>6, GoesQuietly DEF ScoreInv
<1>8. Scores(h) /\ ~Takes(h) /\ ~Weighs(h) /\ Adds(h)
  BY <1>2, PlacesAre
<1>9. ~Scores(h)' /\ ~Takes(h)' /\ ~Weighs(h)' /\ ~Adds(h)'
  BY <1>5, <1>7, PlacesWillBe
<1>10. (Backed(m) => Backed(m)') /\ (Stays(m)' => Stays(m))
  <2>1. Covers(m, h) => m \in here' /\ Known(m)'
    BY <1>2, <1>7 DEF Covers, Asking
  <2>2. QED
    BY <1>3, <1>5, <1>6, <1>7, <2>1, IsDone DEF ScoreInv
<1>11. /\ Links!Net' + UpOne(h, m)' + mishaps <= Links!Net + UpOne(h, m) + mishaps'
       /\ Links!Net' + DownOne(h, m)' + mishaps' >= Links!Net + DownOne(h, m) + mishaps
  <2>1. /\ One(Adds(h)) = 1 /\ One(Adds(h)') = 0 /\ One(Scores(h)) = 1 /\ One(Scores(h)') = 0
        /\ One(Takes(h)) = 0 /\ One(Takes(h)') = 0 /\ One(Weighs(h)) = 0 /\ One(Weighs(h)') = 0
        /\ One(Backed(m)) \in {0, 1} /\ One(Backed(m)') \in {0, 1} /\ One(Stays(m)) \in {0, 1} /\ One(Stays(m)') \in {0, 1}
    BY <1>8, <1>9, Ones
  <2>2. One(Backed(m)) <= One(Backed(m)')
    BY <1>10, Ones
  <2>3. One(Stays(m)') <= One(Stays(m))
    BY <1>10, Ones
  <2>4. mishaps \in Int
    BY <1>3
  <2>5. QED
    BY <1>4, <2>1, <2>2, <2>3, <2>4 DEF UpOne, DownOne
<1>12. QED
  BY <1>7, <1>11, MoveKeeps

-----------------------------------------------------------------------------
(* The steps of a leave.                                                   *)

(* A leave goes on, and nothing is backed by it but while it is to read.   *)
LEMMA UndoingIs ==
    ASSUME LinkTypes, NEW h \in Handlers, NEW m, Moves(h, m), call[h].at \in Undoing
    PROVE  /\ call[h].at \in Working
           /\ Backed(m) => call[h].at = "leaving" /\ Known(m)
           /\ ~Stays(m)
           /\ call'[h].at \in Undoing => ~Stays(m)'
           /\ call'[h].at \in {"deducting", "marking"} => ~Backed(m)'
           /\ call'[h].at \notin Working => (Stays(m)' => Known(m)')
<1>1. call[h].at \in Working
  BY DEF Working
<1>2. h \in Busy(m)
  BY <1>1, BusyMoves
<1>3. ~Stays(m)
  BY <1>2 DEF Stays
<1>4. Backed(m) => call[h].at = "leaving" /\ Known(m)
  <2>1. Covers(m, h) => call[h].at = "leaving" /\ Known(m)
    BY DEF Covers, Undoing, Asking
  <2>2. QED
    BY <1>2, <2>1, BackedBy
<1>5. ASSUME call'[h].at \in Undoing
      PROVE  ~Stays(m)' /\ (call'[h].at \in {"deducting", "marking"} => ~Backed(m)')
  <2>1. h \in Busy(m)'
    BY <1>5, BusyMoves DEF Working
  <2>2. call'[h].at \in {"deducting", "marking"} => ~Covers(m, h)'
    BY DEF Covers, Asking
  <2>3. QED
    BY <1>5, <2>1, <2>2, BackedBy DEF Stays
<1>6. call'[h].at \notin Working => (Stays(m)' => Known(m)')
  BY DEF Stays
<1>7. {"deducting", "marking"} \subseteq Undoing
  BY DEF Undoing
<1>8. QED
  BY <1>1, <1>3, <1>4, <1>5, <1>6, <1>7

LEMMA StepReadLeaver == ASSUME LinkConstants, ScoreInv, NEW h \in Handlers, Links!ReadLeaver(h) PROVE ScoreInv'
<1>1. PICK m : m = call[h].who
  OBVIOUS
<1>2. call[h].at = "leaving" /\ UNCHANGED <<here, overlaps, referral, regular, leaves>>
  BY DEF Links!ReadLeaver, Links!At, Links!discord, Links!record, Links!stats
<1>3. \/ referral[m] = NoRow /\ Links!Ends(h) /\ Links!Fine
      \/ Links!Ends(h) /\ Links!Mishap
      \/ referral[m] = "counted" /\ Links!Goes(h, [call[h] EXCEPT !.at = "deducting"]) /\ Links!Fine
      \/ referral[m] = "uncounted" /\ Links!Goes(h, [call[h] EXCEPT !.at = "marking"]) /\ Links!Fine
  BY <1>1 DEF Links!ReadLeaver
<1>4. /\ call[h].at \in Working /\ call[h].at \in Undoing /\ call[h].at \notin {"idle", "done"}
      /\ Framed(call[h]) /\ m \in Guests /\ mishaps \in Int /\ regular' \in Int /\ leaves' \in Int
  BY <1>1, <1>2 DEF Working, Undoing, ScoreInv, LinkTypes
<1>5. mishaps' \in Int /\ (Links!Fine => mishaps' = mishaps) /\ (Links!Mishap => mishaps' = mishaps + 1)
  BY <1>3, <1>4 DEF Links!Fine, Links!Mishap
<1>6. Links!Net' = Links!Net /\ Links!Net \in Int
  BY <1>2 DEF Links!Net, ScoreInv, LinkTypes
<1>7. ~Scores(h) /\ ~Takes(h) /\ ~Adds(h) /\ (Known(m) => Weighs(h))
  BY <1>1, <1>2, PlacesAre
<1>8. ASSUME NEW step, Links!Goes(h, step), Framed(step), step.who = m \/ step.at = "done"
      PROVE  Moves(h, m) /\ call'[h] = step /\ (Known(m)' <=> Known(m))
  BY <1>1, <1>2, <1>4, <1>5, <1>8, GoesQuietly DEF ScoreInv
<1>9. CASE Links!Ends(h)
  <2>1. Moves(h, m) /\ call'[h].at = "done" /\ (Known(m)' <=> Known(m))
    BY <1>8, <1>9, DoneIs DEF Links!Ends
  <2>2. call'[h].at \notin Working
    BY <2>1 DEF Working, Undoing, Asking
  <2>3. (Backed(m) => Known(m)) /\ ~Stays(m) /\ (Stays(m)' => Known(m))
    BY <1>4, <2>1, <2>2, UndoingIs DEF ScoreInv
  <2>4. ~Scores(h)' /\ ~Takes(h)' /\ ~Weighs(h)' /\ ~Adds(h)'
    BY <2>1, PlacesWillBe
  <2>5. (mishaps' = mishaps /\ ~Known(m)) \/ mishaps' = mishaps + 1
    <3>1. NoRow # "counted" /\ "deducting" # "done" /\ "marking" # "done"
      BY DEF LinkConstants
    <3>2. /\ [call[h] EXCEPT !.at = "deducting"].at = "deducting" /\ [call[h] EXCEPT !.at = "marking"].at = "marking"
      BY <1>4, AtWhere
    <3>3. call'[h].at = "done"
      BY <2>1
    <3>4. \A step : Links!Goes(h, step) => call'[h] = step
      BY DEF Links!Goes, ScoreInv, LinkTypes
    <3>5. (referral[m] = NoRow /\ Links!Fine) \/ Links!Mishap
      BY <1>3, <3>1, <3>2, <3>3, <3>4
    <3>6. QED
      BY <1>5, <3>1, <3>5 DEF Known
  <2>6. /\ One(Adds(h)) = 0 /\ One(Adds(h)') = 0 /\ One(Scores(h)) = 0 /\ One(Scores(h)') = 0
        /\ One(Takes(h)) = 0 /\ One(Takes(h)') = 0 /\ One(Weighs(h)) \in {0, 1} /\ One(Weighs(h)') = 0
        /\ One(Backed(m)) \in {0, 1} /\ One(Backed(m)') \in {0, 1} /\ One(Stays(m)) = 0 /\ One(Stays(m)') \in {0, 1}
        /\ (mishaps' = mishaps /\ One(Backed(m)) = 0 /\ One(Stays(m)') = 0) \/ mishaps' = mishaps + 1
    BY <1>7, <2>3, <2>4, <2>5, Ones
  <2>7. mishaps \in Int
    BY <1>4
  <2>8. /\ Links!Net' + UpOne(h, m)' + mishaps <= Links!Net + UpOne(h, m) + mishaps'
        /\ Links!Net' + DownOne(h, m)' + mishaps' >= Links!Net + DownOne(h, m) + mishaps
    BY <1>6, <2>6, <2>7 DEF UpOne, DownOne
  <2>9. QED
    BY <2>1, <2>8, MoveKeeps
<1>10. CASE referral[m] = "counted" /\ Links!Goes(h, [call[h] EXCEPT !.at = "deducting"]) /\ Links!Fine
  <2>1. PICK step : step = [call[h] EXCEPT !.at = "deducting"]
    OBVIOUS
  <2>2. Links!Goes(h, step) /\ Framed(step) /\ step.at = "deducting" /\ step.who = m
    BY <1>1, <1>4, <1>10, <2>1, AtWhere
  <2>3. Moves(h, m) /\ call'[h].at = "deducting"
    BY <1>8, <2>2
  <2>4. Known(m) /\ ~Stays(m) /\ ~Stays(m)' /\ ~Backed(m)'
    BY <1>4, <1>10, <2>3, UndoingIs DEF ScoreInv, Known, Undoing
  <2>5. ~Scores(h)' /\ Takes(h)' /\ ~Weighs(h)' /\ ~Adds(h)'
    BY <2>3, PlacesWillBe
  <2>6. /\ One(Adds(h)) = 0 /\ One(Adds(h)') = 0 /\ One(Scores(h)) = 0 /\ One(Scores(h)') = 0
        /\ One(Takes(h)) = 0 /\ One(Takes(h)') = 1 /\ One(Weighs(h)) = 1 /\ One(Weighs(h)') = 0
        /\ One(Backed(m)) \in {0, 1} /\ One(Backed(m)') = 0 /\ One(Stays(m)) = 0 /\ One(Stays(m)') = 0
    BY <1>7, <2>4, <2>5, Ones
  <2>7. mishaps \in Int /\ mishaps' = mishaps
    BY <1>4, <1>5, <1>10
  <2>8. /\ Links!Net' + UpOne(h, m)' + mishaps <= Links!Net + UpOne(h, m) + mishaps'
        /\ Links!Net' + DownOne(h, m)' + mishaps' >= Links!Net + DownOne(h, m) + mishaps
    BY <1>6, <2>6, <2>7 DEF UpOne, DownOne
  <2>9. QED
    BY <2>3, <2>8, MoveKeeps
<1>11. CASE referral[m] = "uncounted" /\ Links!Goes(h, [call[h] EXCEPT !.at = "marking"]) /\ Links!Fine
  <2>1. PICK step : step = [call[h] EXCEPT !.at = "marking"]
    OBVIOUS
  <2>2. Links!Goes(h, step) /\ Framed(step) /\ step.at = "marking" /\ step.who = m
    BY <1>1, <1>4, <1>11, <2>1, AtWhere
  <2>3. Moves(h, m) /\ call'[h].at = "marking"
    BY <1>8, <2>2
  <2>4. ~Backed(m) /\ ~Stays(m) /\ ~Stays(m)' /\ ~Backed(m)'
    BY <1>4, <1>11, <2>3, UndoingIs DEF ScoreInv, Known, Undoing
  <2>5. ~Scores(h)' /\ ~Takes(h)' /\ ~Weighs(h)' /\ ~Adds(h)'
    BY <2>3, PlacesWillBe
  <2>6. /\ One(Adds(h)) = 0 /\ One(Adds(h)') = 0 /\ One(Scores(h)) = 0 /\ One(Scores(h)') = 0
        /\ One(Takes(h)) = 0 /\ One(Takes(h)') = 0 /\ One(Weighs(h)) \in {0, 1} /\ One(Weighs(h)') = 0
        /\ One(Backed(m)) = 0 /\ One(Backed(m)') = 0 /\ One(Stays(m)) = 0 /\ One(Stays(m)') = 0
    BY <1>7, <2>4, <2>5, Ones
  <2>7. mishaps \in Int /\ mishaps' = mishaps
    BY <1>4, <1>5, <1>11
  <2>8. /\ Links!Net' + UpOne(h, m)' + mishaps <= Links!Net + UpOne(h, m) + mishaps'
        /\ Links!Net' + DownOne(h, m)' + mishaps' >= Links!Net + DownOne(h, m) + mishaps
    BY <1>6, <2>6, <2>7 DEF UpOne, DownOne
  <2>9. QED
    BY <2>3, <2>8, MoveKeeps
<1>12. QED
  BY <1>3, <1>9, <1>10, <1>11

LEMMA StepDeduct == ASSUME LinkConstants, ScoreInv, NEW h \in Handlers, Links!Deduct(h) PROVE ScoreInv'
<1>1. PICK m : m = call[h].who
  OBVIOUS
<1>2. /\ call[h].at = "deducting" /\ UNCHANGED <<here, overlaps, referral, regular>>
      /\ \/ leaves' = leaves + 1 /\ Links!Goes(h, [call[h] EXCEPT !.at = "marking", !.counts = TRUE, !.net = Links!Net - 1]) /\ Links!Fine
         \/ leaves' = leaves /\ Links!Goes(h, [call[h] EXCEPT !.at = "marking"]) /\ Links!Mishap
  BY DEF Links!Deduct, Links!At, Links!discord
<1>3. /\ call[h].at \in Working /\ call[h].at \in Undoing /\ call[h].at \notin {"idle", "done"}
      /\ Framed(call[h]) /\ m \in Guests /\ mishaps \in Int /\ regular \in Int /\ leaves \in Int
  BY <1>1, <1>2 DEF Working, Undoing, ScoreInv, LinkTypes
<1>4. /\ mishaps' \in Int /\ regular' \in Int /\ leaves' \in Int /\ Links!Net \in Int
      /\ (Links!Net' = Links!Net - 1 /\ mishaps' = mishaps) \/ (Links!Net' = Links!Net /\ mishaps' = mishaps + 1)
  BY <1>2, <1>3 DEF Links!Fine, Links!Mishap, Links!Net
<1>5. PICK step : Links!Goes(h, step) /\ Framed(step) /\ step.at = "marking" /\ step.who = m
  <2>1. PICK one : one = [call[h] EXCEPT !.at = "marking", !.counts = TRUE, !.net = Links!Net - 1]
    OBVIOUS
  <2>2. PICK stays : stays = [call[h] EXCEPT !.at = "marking"]
    OBVIOUS
  <2>3. /\ Framed(one) /\ one.at = "marking" /\ one.who = m
        /\ Framed(stays) /\ stays.at = "marking" /\ stays.who = m
    BY <1>1, <1>3, <2>1, <2>2 DEF Framed
  <2>4. Links!Goes(h, one) \/ Links!Goes(h, stays)
    BY <1>2, <2>1, <2>2
  <2>5. QED
    BY <2>3, <2>4
<1>6. Moves(h, m) /\ call'[h] = step
  BY <1>1, <1>2, <1>3, <1>4, <1>5, GoesQuietly DEF ScoreInv
<1>7. ~Backed(m) /\ ~Stays(m) /\ ~Stays(m)' /\ ~Backed(m)'
  BY <1>2, <1>3, <1>5, <1>6, UndoingIs DEF ScoreInv, Undoing
<1>8. ~Scores(h) /\ Takes(h) /\ ~Weighs(h) /\ ~Adds(h)
  BY <1>2, PlacesAre
<1>9. ~Scores(h)' /\ ~Takes(h)' /\ ~Weighs(h)' /\ ~Adds(h)'
  BY <1>5, <1>6, PlacesWillBe
<1>10. /\ One(Adds(h)) = 0 /\ One(Adds(h)') = 0 /\ One(Scores(h)) = 0 /\ One(Scores(h)') = 0
       /\ One(Takes(h)) = 1 /\ One(Takes(h)') = 0 /\ One(Weighs(h)) = 0 /\ One(Weighs(h)') = 0
       /\ One(Backed(m)) = 0 /\ One(Backed(m)') = 0 /\ One(Stays(m)) = 0 /\ One(Stays(m)') = 0
  BY <1>7, <1>8, <1>9, Ones
<1>11. mishaps \in Int
  BY <1>3
<1>12. /\ Links!Net' + UpOne(h, m)' + mishaps <= Links!Net + UpOne(h, m) + mishaps'
       /\ Links!Net' + DownOne(h, m)' + mishaps' >= Links!Net + DownOne(h, m) + mishaps
  BY <1>4, <1>10, <1>11 DEF UpOne, DownOne
<1>13. QED
  BY <1>6, <1>12, MoveKeeps

LEMMA StepMark == ASSUME LinkConstants, ScoreInv, NEW h \in Handlers, Links!Mark(h) PROVE ScoreInv'
<1>1. PICK m : m = call[h].who
  OBVIOUS
<1>2. /\ call[h].at = "marking" /\ UNCHANGED <<here, overlaps, regular, leaves>>
      /\ Links!Ends(h) \/ Links!Goes(h, [call[h] EXCEPT !.at = "granting"])
      /\ \/ referral' = [referral EXCEPT ![m] = IF @ = NoRow THEN NoRow ELSE "uncounted"] /\ Links!Fine
         \/ referral' = referral /\ Links!Mishap
  BY <1>1 DEF Links!Mark, Links!At, Links!Reconciles, Links!discord, Links!stats
<1>3. /\ call[h].at \in Working /\ call[h].at \in Undoing /\ call[h].at \notin {"idle", "done"}
      /\ Framed(call[h]) /\ m \in Guests /\ mishaps \in Int /\ regular' \in Int /\ leaves' \in Int
  BY <1>1, <1>2 DEF Working, Undoing, ScoreInv, LinkTypes
<1>4. /\ referral' \in [Guests -> {NoRow, "counted", "uncounted"}] /\ \A k \in Guests \ {m} : referral'[k] = referral[k]
      /\ (referral'[m] = NoRow => referral[m] = NoRow) /\ (Known(m)' => Known(m))
      /\ mishaps' \in Int /\ ((mishaps' = mishaps /\ ~Known(m)') \/ mishaps' = mishaps + 1)
  <2>1. referral \in [Guests -> {NoRow, "counted", "uncounted"}] /\ NoRow \notin {"counted", "uncounted"}
    BY DEF ScoreInv, LinkTypes, LinkConstants
  <2>2. CASE referral' = [referral EXCEPT ![m] = IF @ = NoRow THEN NoRow ELSE "uncounted"] /\ Links!Fine
    <3>1. referral'[m] = (IF referral[m] = NoRow THEN NoRow ELSE "uncounted") /\ referral'[m] # "counted"
      BY <1>3, <2>1, <2>2
    <3>2. QED
      BY <1>3, <2>1, <2>2, <3>1 DEF Known, Links!Fine
  <2>3. CASE referral' = referral /\ Links!Mishap
    BY <1>3, <2>1, <2>3 DEF Known, Links!Mishap
  <2>4. QED
    BY <1>2, <2>2, <2>3
<1>5. PICK step : Links!Goes(h, step) /\ Framed(step) /\ step.at \in {"granting", "done"} /\ (step.at # "done" => step.who = m)
  <2>1. CASE Links!Ends(h)
    BY <2>1, DoneIs DEF Links!Ends
  <2>2. CASE Links!Goes(h, [call[h] EXCEPT !.at = "granting"])
    <3>1. PICK stays : stays = [call[h] EXCEPT !.at = "granting"]
      OBVIOUS
    <3>2. Framed(stays) /\ stays.at = "granting" /\ stays.who = m
      BY <1>1, <1>3, <3>1 DEF Framed
    <3>3. QED
      BY <2>2, <3>1, <3>2
  <2>3. QED
    BY <1>2, <2>1, <2>2
<1>6. step.at \notin Working
  BY <1>5 DEF Working, Undoing, Asking
<1>7. Moves(h, m) /\ call'[h] = step
  BY <1>1, <1>2, <1>3, <1>4, <1>5, <1>6, GoesMoves DEF ScoreInv
<1>8. ~Backed(m) /\ ~Stays(m) /\ (Stays(m)' => Known(m)')
  BY <1>2, <1>3, <1>6, <1>7, UndoingIs DEF ScoreInv
<1>9. ~Scores(h) /\ ~Takes(h) /\ ~Weighs(h) /\ ~Adds(h)
  BY <1>2, PlacesAre
<1>10. ~Scores(h)' /\ ~Takes(h)' /\ ~Weighs(h)' /\ ~Adds(h)'
  BY <1>5, <1>7, PlacesWillBe
<1>11. /\ One(Adds(h)) = 0 /\ One(Adds(h)') = 0 /\ One(Scores(h)) = 0 /\ One(Scores(h)') = 0
       /\ One(Takes(h)) = 0 /\ One(Takes(h)') = 0 /\ One(Weighs(h)) = 0 /\ One(Weighs(h)') = 0
       /\ One(Backed(m)) = 0 /\ One(Backed(m)') \in {0, 1} /\ One(Stays(m)) = 0 /\ One(Stays(m)') \in {0, 1}
  BY <1>8, <1>9, <1>10, Ones
<1>12. (mishaps' = mishaps /\ One(Stays(m)') = 0) \/ mishaps' = mishaps + 1
  BY <1>4, <1>8, Ones
<1>13. mishaps \in Int /\ Links!Net' = Links!Net /\ Links!Net \in Int
  BY <1>2, <1>3 DEF Links!Net, ScoreInv, LinkTypes
<1>14. /\ Links!Net' + UpOne(h, m)' + mishaps <= Links!Net + UpOne(h, m) + mishaps'
       /\ Links!Net' + DownOne(h, m)' + mishaps' >= Links!Net + DownOne(h, m) + mishaps
  BY <1>11, <1>12, <1>13 DEF UpOne, DownOne
<1>15. QED
  BY <1>7, <1>14, MoveKeeps

LEMMA StepGrant == ASSUME LinkConstants, ScoreInv, NEW h \in Handlers, Links!Grant(h) PROVE ScoreInv'
<1>1. PICK m : m = call[h].who
  OBVIOUS
<1>2. /\ call[h].at = "granting" /\ UNCHANGED <<here, overlaps, referral, regular, leaves>> /\ Links!Ends(h) /\ (Links!Fine \/ Links!Mishap)
  BY DEF Links!Grant, Links!At, Links!discord, Links!stats
<1>3. /\ call[h].at \notin Working /\ call[h].at \notin {"idle", "done"}
      /\ m \in Guests /\ mishaps \in Int /\ regular' \in Int /\ leaves' \in Int
  BY <1>1, <1>2 DEF Working, Undoing, Asking, ScoreInv, LinkTypes
<1>4. mishaps' \in Int /\ mishaps' >= mishaps
  BY <1>2, <1>3 DEF Links!Fine, Links!Mishap
<1>5. "done" \notin Working
  BY DEF Working, Undoing, Asking
<1>6. Moves(h, m) /\ call'[h].at = "done" /\ (Known(m)' <=> Known(m))
  BY <1>1, <1>2, <1>3, <1>4, <1>5, DoneIs, GoesQuietly DEF ScoreInv, Links!Ends
<1>7. Busy(m)' = Busy(m) /\ h \notin Busy(m) /\ \A g \in Busy(m) : call'[g] = call[g]
  <2>1. Busy(m)' = Busy(m) /\ h \notin Busy(m)
    BY <1>3, <1>5, <1>6, BusyMoves
  <2>2. QED
    BY <1>6, <2>1 DEF Busy, Moves
<1>8. (Stays(m)' <=> Stays(m)) /\ (Backed(m)' <=> Backed(m))
  <2>1. Stays(m)' <=> Stays(m)
    BY <1>6, <1>7 DEF Stays
  <2>2. CASE Busy(m) = {}
    <3>1. (Backed(m) <=> m \in here /\ Known(m)) /\ (Backed(m)' <=> m \in here' /\ Known(m)')
      BY <1>7, <2>2, BackedBy
    <3>2. QED
      BY <1>2, <1>6, <2>1, <3>1
  <2>3. CASE Busy(m) # {}
    <3>1. PICK g \in Busy(m) : TRUE
      BY <2>3
    <3>2. (Backed(m) <=> Sole(m, g) /\ Covers(m, g)) /\ (Backed(m)' <=> Sole(m, g)' /\ Covers(m, g)')
      BY <1>7, <3>1, BackedBy
    <3>3. (Sole(m, g)' <=> Sole(m, g)) /\ (Covers(m, g)' <=> Covers(m, g))
      BY <1>2, <1>7, <3>1 DEF Sole, Covers, Known
    <3>4. QED
      BY <2>1, <3>2, <3>3
  <2>4. QED
    BY <2>2, <2>3
<1>9. ~Scores(h) /\ ~Takes(h) /\ ~Weighs(h) /\ ~Adds(h)
  BY <1>2, PlacesAre
<1>10. ~Scores(h)' /\ ~Takes(h)' /\ ~Weighs(h)' /\ ~Adds(h)'
  BY <1>6, PlacesWillBe
<1>11. /\ One(Adds(h)) = 0 /\ One(Adds(h)') = 0 /\ One(Scores(h)) = 0 /\ One(Scores(h)') = 0
       /\ One(Takes(h)) = 0 /\ One(Takes(h)') = 0 /\ One(Weighs(h)) = 0 /\ One(Weighs(h)') = 0
       /\ One(Backed(m)) \in {0, 1} /\ One(Backed(m)') = One(Backed(m))
       /\ One(Stays(m)) \in {0, 1} /\ One(Stays(m)') = One(Stays(m))
  BY <1>8, <1>9, <1>10, Ones
<1>12. mishaps \in Int /\ Links!Net' = Links!Net /\ Links!Net \in Int
  BY <1>2, <1>3 DEF Links!Net, ScoreInv, LinkTypes
<1>13. /\ Links!Net' + UpOne(h, m)' + mishaps <= Links!Net + UpOne(h, m) + mishaps'
       /\ Links!Net' + DownOne(h, m)' + mishaps' >= Links!Net + DownOne(h, m) + mishaps
  BY <1>4, <1>11, <1>12 DEF UpOne, DownOne
<1>14. QED
  BY <1>6, <1>13, MoveKeeps

-----------------------------------------------------------------------------
(* A member joins or leaves.                                               *)

Comes(h, m) ==
    /\ m \in Guests /\ call[h].at = "idle" /\ DOMAIN call' = Handlers /\ \A g \in Handlers \ {h} : call'[g] = call[g]
    /\ Framed(call'[h]) /\ call'[h].who = m /\ call'[h].at \in Working
    /\ UNCHANGED <<referral, regular, leaves, mishaps>> /\ here' \subseteq Guests
    /\ \A k \in Guests \ {m} : k \in here' <=> k \in here
    /\ overlaps' \in Int /\ overlaps' >= overlaps /\ (Busy(m) # {} => overlaps' >= overlaps + 1)

LEMMA SetsCome ==
    ASSUME LinkTypes, NEW h \in Handlers, NEW m, Comes(h, m)
    PROVE  /\ h \notin Busy(m) /\ Busy(m)' = Busy(m) \cup {h} /\ (Known(m)' <=> Known(m))
           /\ \A g \in Busy(m) : call'[g] = call[g]
           /\ ~Adds(h) /\ ~Scores(h) /\ ~Takes(h) /\ ~Weighs(h)
           /\ Adding' \ {h} \subseteq Adding /\ Scoring \ {h} \subseteq Scoring'
           /\ Taking' \ {h} \subseteq Taking /\ Taking \ {h} \subseteq Taking'
           /\ Backing \ {m} \subseteq Backing' /\ Staying' \ {m} \subseteq Staying
           /\ \A g \in Handlers \ {h} : call[g].who # m => (Weighs(g)' <=> Weighs(g))
<1>1. /\ \A g \in Handlers \ {h} : call'[g] = call[g]
      /\ referral' = referral
  BY DEF Comes
<1>2. "idle" \notin Working /\ "idle" \notin Asking
  BY DEF Working, Undoing, Asking
<1>3. /\ h \notin Busy(m) /\ Busy(m)' = Busy(m) \cup {h} /\ (Known(m)' <=> Known(m))
      /\ \A g \in Busy(m) : call'[g] = call[g]
  BY <1>1, <1>2 DEF Busy, Comes, Known
<1>4. \A k \in Guests \ {m} : Busy(k)' = Busy(k) /\ h \notin Busy(k) /\ \A g \in Busy(k) : call'[g] = call[g]
  BY <1>1, <1>2 DEF Busy, Comes
<1>5. ~Adds(h) /\ ~Scores(h) /\ ~Takes(h) /\ ~Weighs(h)
  BY <1>2 DEF Adds, Scores, Takes, Weighs, Comes
<1>6. /\ Adding' \ {h} \subseteq Adding /\ Scoring \ {h} \subseteq Scoring'
      /\ Taking' \ {h} \subseteq Taking /\ Taking \ {h} \subseteq Taking'
  BY <1>1 DEF Adding, Adds, Scoring, Scores, Taking, Takes
<1>7. ASSUME NEW k \in Guests \ {m}
      PROVE  (Backed(k)' <=> Backed(k)) /\ (Stays(k)' <=> Stays(k))
  <2>1. Busy(k)' = Busy(k) /\ h \notin Busy(k) /\ referral' = referral /\ (k \in here' <=> k \in here)
    BY <1>4 DEF Comes
  <2>2. Stays(k)' <=> Stays(k)
    BY <1>4, <2>1 DEF Stays, Known
  <2>3. CASE Busy(k) = {}
    <3>1. (Backed(k) <=> k \in here /\ Known(k)) /\ (Backed(k)' <=> k \in here' /\ Known(k)')
      BY <2>1, <2>3, BackedBy
    <3>2. QED
      BY <2>1, <2>2, <3>1 DEF Known
  <2>4. CASE Busy(k) # {}
    <3>1. PICK g \in Busy(k) : TRUE
      BY <2>4
    <3>2. /\ Backed(k) <=> Sole(k, g) /\ Covers(k, g)
          /\ Backed(k)' <=> Sole(k, g)' /\ Covers(k, g)'
      BY <2>1, <3>1, BackedBy
    <3>3. (Sole(k, g)' <=> Sole(k, g)) /\ (Covers(k, g)' <=> Covers(k, g))
      BY <1>4, <2>1, <3>1 DEF Sole, Covers, Known
    <3>4. QED
      BY <2>2, <3>2, <3>3
  <2>5. QED
    BY <2>2, <2>3, <2>4
<1>8. Backing \ {m} \subseteq Backing' /\ Staying' \ {m} \subseteq Staying
  BY <1>7 DEF Backing, Staying
<1>9. ASSUME NEW g \in Handlers \ {h}, call[g].who # m PROVE Weighs(g)' <=> Weighs(g)
  <2>1. CASE call[g].at = "leaving"
    <3>1. PICK k : k = call[g].who
      OBVIOUS
    <3>2. k \in Guests \ {m}
      BY <1>9, <2>1, <3>1 DEF LinkTypes
    <3>3. Busy(k)' = Busy(k) /\ referral' = referral /\ (k \in here' <=> k \in here) /\ call'[g] = call[g]
      BY <1>1, <1>4, <3>2 DEF Comes
    <3>4. QED
      BY <3>1, <3>3 DEF Weighs, Known, Sole
  <2>2. CASE call[g].at # "leaving"
    BY <1>1, <2>2 DEF Weighs
  <2>3. QED
    BY <2>1, <2>2
<1>10. QED
  BY <1>3, <1>5, <1>6, <1>8, <1>9

(* The leave that one overlap may weigh in, or the new one.                *)
LEMMA ComeKeeps ==
    ASSUME LinkConstants, ScoreInv, NEW h \in Handlers, NEW m, Comes(h, m), NEW g \in Handlers,
           Weighing' \ {g} \subseteq Weighing, ~Takes(h)', ~Scores(h)',
           One(Adds(h)') - One(Backed(m)') + overlaps <= overlaps' - One(Backed(m)),
           - One(g \in Weighing') - One(Stays(m)') + overlaps' >= overlaps - One(g \in Weighing) - One(Stays(m))
    PROVE  ScoreInv'
<1>1. LinkTypes'
  <2>1. \A x \in Handlers : Framed(call'[x]) /\ (call'[x].at \notin {"idle", "done"} => call'[x].who \in Guests)
    BY DEF ScoreInv, LinkTypes, Comes
  <2>2. QED
    BY <2>1 DEF ScoreInv, LinkTypes, Comes
<1>2. /\ (h \in Adding <=> Adds(h)) /\ (h \in Scoring <=> Scores(h)) /\ (h \in Taking <=> Takes(h))
      /\ (m \in Backing <=> Backed(m)) /\ (m \in Staying <=> Stays(m))
      /\ (h \in Adding' <=> Adds(h)') /\ (h \in Scoring' <=> Scores(h)') /\ (h \in Taking' <=> Takes(h)')
      /\ (m \in Backing' <=> Backed(m)') /\ (m \in Staying' <=> Stays(m)')
  BY DEF Adding, Scoring, Taking, Backing, Staying, Comes
<1>3. ~Adds(h) /\ ~Scores(h) /\ ~Takes(h)
  BY SetsCome DEF ScoreInv
<1>4. /\ Cardinality(Adding') - One(h \in Adding') <= Cardinality(Adding) - One(h \in Adding)
      /\ Cardinality(Taking') - One(h \in Taking') <= Cardinality(Taking) - One(h \in Taking)
      /\ Cardinality(Taking) - One(h \in Taking) <= Cardinality(Taking') - One(h \in Taking')
      /\ Cardinality(Backing) - One(m \in Backing) <= Cardinality(Backing') - One(m \in Backing')
      /\ Cardinality(Scoring) - One(h \in Scoring) <= Cardinality(Scoring') - One(h \in Scoring')
      /\ Cardinality(Weighing') - One(g \in Weighing') <= Cardinality(Weighing) - One(g \in Weighing)
      /\ Cardinality(Staying') - One(m \in Staying') <= Cardinality(Staying) - One(m \in Staying)
  BY SetsCome, Finite, CountOne DEF ScoreInv
<1>5. /\ Cardinality(Adding') - One(Adds(h)') <= Cardinality(Adding)
      /\ Cardinality(Taking') = Cardinality(Taking)
      /\ Cardinality(Backing) - One(Backed(m)) <= Cardinality(Backing') - One(Backed(m)')
      /\ Cardinality(Scoring) <= Cardinality(Scoring')
      /\ Cardinality(Staying') - One(Stays(m)') <= Cardinality(Staying) - One(Stays(m))
  <2>1. /\ One(h \in Adding') = One(Adds(h)') /\ One(h \in Adding) = 0 /\ One(h \in Taking') = 0 /\ One(h \in Taking) = 0
        /\ One(m \in Backing) = One(Backed(m)) /\ One(m \in Backing') = One(Backed(m)')
        /\ One(h \in Scoring) = 0 /\ One(h \in Scoring') = 0
        /\ One(m \in Staying) = One(Stays(m)) /\ One(m \in Staying') = One(Stays(m)')
    BY <1>2, <1>3 DEF One
  <2>2. QED
    BY <1>4, <2>1, Numbers
<1>6. /\ Links!Net \in Int /\ Links!Net' = Links!Net /\ mishaps \in Int /\ mishaps' = mishaps /\ overlaps \in Int /\ overlaps' \in Int
  BY DEF Links!Net, ScoreInv, LinkTypes, Comes
<1>7. /\ One(Adds(h)') \in Int /\ One(Backed(m)) \in Int /\ One(Backed(m)') \in Int
      /\ One(Stays(m)) \in Int /\ One(Stays(m)') \in Int /\ One(g \in Weighing) \in Int /\ One(g \in Weighing') \in Int
  BY DEF One
<1>8. NotTooMuch'
  <2>1. Links!Net + Cardinality(Adding) - Cardinality(Taking) - Cardinality(Backing) <= mishaps + overlaps
    BY DEF ScoreInv, NotTooMuch
  <2>2. Links!Net' + Cardinality(Adding') - Cardinality(Taking') - Cardinality(Backing') <= mishaps' + overlaps'
    BY <1>5, <1>6, <1>7, <2>1, Numbers
  <2>3. QED
    BY <2>2 DEF NotTooMuch
<1>9. NotTooLittle'
  <2>1. Links!Net + Cardinality(Scoring) - Cardinality(Taking) - Cardinality(Weighing) - Cardinality(Staying)
            >= -(mishaps + overlaps)
    BY DEF ScoreInv, NotTooLittle
  <2>2. Links!Net' + Cardinality(Scoring') - Cardinality(Taking') - Cardinality(Weighing') - Cardinality(Staying')
            >= -(mishaps' + overlaps')
    BY <1>4, <1>5, <1>6, <1>7, <2>1, Numbers
  <2>3. QED
    BY <2>2 DEF NotTooLittle
<1>10. QED
  BY <1>1, <1>8, <1>9 DEF ScoreInv

LEMMA OverlapsAre ==
    ASSUME LinkConstants, LinkTypes, NEW h \in Handlers, NEW m, NEW step, Links!Begins(h, m, step)
    PROVE  overlaps' \in Int /\ overlaps' >= overlaps /\ (Busy(m) # {} => overlaps' >= overlaps + 1)
<1>1. PICK S : S = {g \in Links!InFlight : call[g].who = m}
  OBVIOUS
<1>2. overlaps' = overlaps + Cardinality(S) /\ overlaps \in Int
  <2>1. overlaps' = overlaps + Links!Cardinality(S) /\ overlaps \in Int
    BY <1>1 DEF Links!Begins, LinkTypes
  <2>2. Links!Cardinality(S) = Cardinality(S)
    BY DEF Links!Cardinality, Cardinality
  <2>3. QED
    BY <2>1, <2>2
<1>3. IsFiniteSet(S)
  <2>1. S \in SUBSET Handlers
    BY <1>1 DEF Links!InFlight
  <2>2. QED
    BY <2>1, FS_Subset DEF LinkConstants
<1>4. Cardinality(S) \in Nat /\ (S # {} => Cardinality(S) >= 1)
  BY <1>3, FS_CardinalityType, FS_EmptySet
<1>5. Busy(m) \subseteq S
  BY <1>1 DEF Busy, Links!InFlight, Working, Asking, Undoing
<1>6. QED
  BY <1>2, <1>4, <1>5

LEMMA BeginsComes ==
    ASSUME LinkConstants, LinkTypes, NEW h \in Handlers, NEW m \in Guests, NEW a \in Working,
           Links!Begins(h, m, [Links!Idle EXCEPT !.at = a, !.who = m]),
           UNCHANGED <<referral, regular, leaves, mishaps>>, here' \subseteq Guests,
           \A k \in Guests \ {m} : k \in here' <=> k \in here
    PROVE  Comes(h, m) /\ call'[h].at = a
<1>1. PICK step : step = [Links!Idle EXCEPT !.at = a, !.who = m]
  OBVIOUS
<1>2. Framed(step) /\ step.at = a /\ step.who = m
  BY <1>1 DEF Framed, Links!Idle
<1>3. Links!Begins(h, m, step)
  BY <1>1
<1>4. call[h].at = "idle" /\ DOMAIN call' = Handlers /\ call'[h] = step /\ \A g \in Handlers \ {h} : call'[g] = call[g]
  BY <1>3 DEF Links!Begins, Links!At, Links!Goes, LinkTypes
<1>5. overlaps' \in Int /\ overlaps' >= overlaps /\ (Busy(m) # {} => overlaps' >= overlaps + 1)
  BY <1>3, OverlapsAre
<1>6. QED
  BY <1>2, <1>4, <1>5 DEF Comes

LEMMA StepJoin ==
    ASSUME LinkConstants, ScoreInv, NEW h \in Handlers, NEW m \in Guests, NEW way, Links!Join(h, m, way)
    PROVE  ScoreInv'
<1>1. /\ m \notin here /\ here' = here \cup {m} /\ UNCHANGED <<referral, regular, leaves, mishaps>>
      /\ Links!Begins(h, m, [Links!Idle EXCEPT !.at = "fetching", !.who = m])
  BY DEF Links!Join, Links!record, Links!stats
<1>2. "fetching" \in Working /\ "fetching" \in Asking /\ "fetching" # "leaving" /\ here' \subseteq Guests
  BY <1>1 DEF Working, Asking, ScoreInv, LinkTypes
<1>3. Comes(h, m) /\ call'[h].at = "fetching" /\ call'[h].who = m
  <2>1. Comes(h, m) /\ call'[h].at = "fetching"
    BY <1>1, <1>2, BeginsComes DEF ScoreInv
  <2>2. QED
    BY <2>1 DEF Comes
<1>4. ~Scores(h)' /\ ~Takes(h)' /\ ~Weighs(h)' /\ (Adds(h)' <=> referral'[m] = NoRow)
  BY <1>2, <1>3, PlacesWillBe
<1>5. /\ h \notin Busy(m) /\ Busy(m)' = Busy(m) \cup {h} /\ (Known(m)' <=> Known(m))
      /\ \A g \in Busy(m) : call'[g] = call[g]
      /\ \A g \in Handlers \ {h} : call[g].who # m => (Weighs(g)' <=> Weighs(g))
      /\ \A g \in Handlers \ {h} : call'[g] = call[g]
  BY <1>3, SetsCome DEF ScoreInv, Comes
<1>6. overlaps \in Int /\ overlaps' \in Int /\ overlaps' >= overlaps /\ (Busy(m) # {} => overlaps' >= overlaps + 1)
  BY <1>3 DEF Comes, ScoreInv, LinkTypes
<1>7. h \notin Weighing' /\ \A g \in Handlers \ {h} : call[g].who = m /\ g \in Weighing' => g \in Busy(m) /\ call[g].at = "leaving"
  BY <1>4, <1>5 DEF Weighing, Weighs, Busy, Working, Undoing
<1>8. CASE Busy(m) = {}
  <2>1. Weighing' \ {h} \subseteq Weighing
    BY <1>5, <1>7, <1>8 DEF Weighing
  <2>2. ~Backed(m) /\ (Backed(m)' <=> Adds(h)')
    <3>1. ~Backed(m)
      BY <1>1, <1>8, BackedBy
    <3>2. Sole(m, h)' /\ (Backed(m)' <=> Sole(m, h)' /\ Covers(m, h)')
      BY <1>5, <1>8, BackedBy DEF Sole
    <3>3. Covers(m, h)' <=> referral'[m] = NoRow
      BY <1>1, <1>2, <1>3 DEF Covers
    <3>4. QED
      BY <1>4, <3>1, <3>2, <3>3
  <2>3. Stays(m)' => Stays(m)
    BY <1>5, <1>8 DEF Stays
  <2>4. One(h \in Weighing') = 0 /\ One(h \in Weighing) \in {0, 1}
    BY <1>7 DEF One
  <2>5. /\ One(Backed(m)) = 0 /\ One(Backed(m)') = One(Adds(h)') /\ One(Adds(h)') \in {0, 1}
        /\ One(Stays(m)) \in {0, 1} /\ One(Stays(m)') \in {0, 1} /\ One(Stays(m)') <= One(Stays(m))
    BY <2>2, <2>3, Ones
  <2>6. ~(h \in Weighing)
    BY <1>3, SetsCome DEF Weighing, ScoreInv
  <2>7. One(h \in Weighing) = 0
    BY <2>6 DEF One
  <2>8. /\ One(Adds(h)') - One(Backed(m)') + overlaps <= overlaps' - One(Backed(m))
        /\ - One(h \in Weighing') - One(Stays(m)') + overlaps' >= overlaps - One(h \in Weighing) - One(Stays(m))
    BY <1>6, <2>4, <2>5, <2>7
  <2>9. QED
    BY <1>3, <1>4, <2>1, <2>8, ComeKeeps
<1>9. CASE Busy(m) # {}
  <2>1. PICK g \in Busy(m) : TRUE
    BY <1>9
  <2>2. g \in Handlers /\ g # h /\ g \in Busy(m)' /\ call'[g] = call[g] /\ call[g].who = m
    BY <1>5, <2>1 DEF Busy
  <2>3. Weighing' \ {g} \subseteq Weighing
    <3>1. ASSUME NEW x \in Weighing' \ {g} PROVE x \in Weighing
      <4>1. x \in Handlers \ {h}
        BY <1>7, <3>1 DEF Weighing
      <4>2. CASE call[x].who # m
        BY <1>5, <3>1, <4>1, <4>2 DEF Weighing
      <4>3. CASE call[x].who = m
        <5>1. x \in Busy(m) /\ call[x].at = "leaving" /\ ~Sole(m, x)
          BY <1>7, <2>1, <3>1, <4>1, <4>3 DEF Sole
        <5>2. QED
          BY <4>1, <4>3, <5>1 DEF Weighing, Weighs
      <4>4. QED
        BY <4>2, <4>3
    <3>2. QED
      BY <3>1
  <2>4. Backed(m) => ~Adds(h)'
    <3>1. Backed(m) => Covers(m, g)
      BY <2>1, BackedBy
    <3>2. Covers(m, g) => referral[m] = "counted"
      BY <1>1 DEF Covers, Known
    <3>3. NoRow # "counted" /\ referral' = referral
      BY <1>1 DEF LinkConstants
    <3>4. QED
      BY <1>4, <3>1, <3>2, <3>3
  <2>5. g \in Weighing' => ~Stays(m)'
    BY <2>2 DEF Weighing, Weighs, Stays, Undoing
  <2>6. /\ One(g \in Weighing) \in {0, 1} /\ One(g \in Weighing') \in {0, 1}
        /\ One(Stays(m)) \in {0, 1} /\ One(Stays(m)') \in {0, 1}
        /\ One(g \in Weighing') = 0 \/ One(Stays(m)') = 0
    BY <2>5 DEF One
  <2>7. /\ One(Backed(m)) \in {0, 1} /\ One(Backed(m)') \in {0, 1} /\ One(Adds(h)') \in {0, 1}
        /\ One(Backed(m)) = 0 \/ One(Adds(h)') = 0
    BY <2>4 DEF One
  <2>8. overlaps' >= overlaps + 1
    BY <1>6, <1>9
  <2>9. /\ One(Adds(h)') - One(Backed(m)') + overlaps <= overlaps' - One(Backed(m))
        /\ - One(g \in Weighing') - One(Stays(m)') + overlaps' >= overlaps - One(g \in Weighing) - One(Stays(m))
    BY <1>6, <2>6, <2>7, <2>8
  <2>10. QED
    BY <1>3, <1>4, <2>2, <2>3, <2>9, ComeKeeps
<1>10. QED
  BY <1>8, <1>9

LEMMA StepLeave ==
    ASSUME LinkConstants, ScoreInv, NEW h \in Handlers, NEW m \in Guests, Links!Leave(h, m)
    PROVE  ScoreInv'
<1>1. /\ m \in here /\ here' = here \ {m} /\ UNCHANGED <<referral, regular, leaves, mishaps>>
      /\ Links!Begins(h, m, [Links!Idle EXCEPT !.at = "leaving", !.who = m])
  BY DEF Links!Leave, Links!record, Links!stats
<1>2. "leaving" \in Working /\ "leaving" \in Undoing /\ here' \subseteq Guests
  BY <1>1 DEF Working, Undoing, ScoreInv, LinkTypes
<1>3. Comes(h, m) /\ call'[h].at = "leaving" /\ call'[h].who = m
  <2>1. Comes(h, m) /\ call'[h].at = "leaving"
    BY <1>1, <1>2, BeginsComes DEF ScoreInv
  <2>2. QED
    BY <2>1 DEF Comes
<1>4. ~Scores(h)' /\ ~Takes(h)' /\ ~Adds(h)'
  BY <1>3 DEF Scores, Takes, Adds, Asking
<1>5. /\ h \notin Busy(m) /\ Busy(m)' = Busy(m) \cup {h} /\ (Known(m)' <=> Known(m))
      /\ \A g \in Handlers \ {h} : call[g].who # m => (Weighs(g)' <=> Weighs(g))
      /\ \A g \in Handlers \ {h} : call'[g] = call[g]
      /\ h \notin Weighing
  BY <1>3, SetsCome DEF ScoreInv, Comes, Weighing
<1>6. overlaps \in Int /\ overlaps' \in Int /\ overlaps' >= overlaps /\ (Busy(m) # {} => overlaps' >= overlaps + 1)
  BY <1>3 DEF Comes, ScoreInv, LinkTypes
<1>7. Weighing' \ {h} \subseteq Weighing
  <2>1. ASSUME NEW x \in Weighing' \ {h} PROVE x \in Weighing
    <3>1. x \in Handlers \ {h} /\ call'[x] = call[x]
      BY <1>5, <2>1 DEF Weighing
    <3>2. CASE call[x].who # m
      BY <1>5, <2>1, <3>1, <3>2 DEF Weighing
    <3>3. CASE call[x].who = m
      BY <1>1, <2>1, <3>1, <3>3 DEF Weighing, Weighs
    <3>4. QED
      BY <3>2, <3>3
  <2>2. QED
    BY <2>1
<1>8. ~Stays(m)'
  BY <1>2, <1>3, <1>5 DEF Stays
<1>9. Busy(m) = {} => (Backed(m) <=> Backed(m)') /\ (h \in Weighing' => Stays(m))
  <2>1. HAVE Busy(m) = {}
  <2>2. Sole(m, h)' /\ (Backed(m)' <=> Covers(m, h)')
    BY <1>5, <2>1, BackedBy DEF Sole
  <2>3. Covers(m, h)' <=> Known(m)'
    BY <1>1, <1>3 DEF Covers, Asking
  <2>4. Backed(m) <=> Known(m)
    BY <1>1, <2>1, BackedBy
  <2>5. h \in Weighing' => Known(m)'
    BY <1>1, <1>3, <2>2 DEF Weighing, Weighs
  <2>6. QED
    BY <1>5, <2>1, <2>2, <2>3, <2>4, <2>5 DEF Stays
<1>10. /\ One(Adds(h)') = 0 /\ One(Stays(m)') = 0 /\ One(h \in Weighing) = 0
       /\ One(h \in Weighing') \in {0, 1} /\ One(Stays(m)) \in {0, 1}
       /\ One(Backed(m)) \in {0, 1} /\ One(Backed(m)') \in {0, 1}
       /\ Busy(m) = {} => One(Backed(m)) = One(Backed(m)') /\ One(h \in Weighing') <= One(Stays(m))
  BY <1>4, <1>5, <1>8, <1>9 DEF One
<1>11. /\ One(Adds(h)') - One(Backed(m)') + overlaps <= overlaps' - One(Backed(m))
       /\ - One(h \in Weighing') - One(Stays(m)') + overlaps' >= overlaps - One(h \in Weighing) - One(Stays(m))
  BY <1>6, <1>10
<1>12. QED
  BY <1>3, <1>4, <1>7, <1>11, ComeKeeps

-----------------------------------------------------------------------------
(* A restart: every handler under way is a mishap to charge.               *)

LEMMA Charged ==
    ASSUME NEW A, NEW B, NEW I, NEW T, IsFiniteSet(A), IsFiniteSet(B), IsFiniteSet(I), T \subseteq I,
           \A a \in A \ B : \E i \in I \ T : call[i].who = a
    PROVE  Cardinality(A) + Cardinality(T) <= Cardinality(B) + Cardinality(I)
<1>1. PICK f : f = [a \in A \ B |-> CHOOSE i \in I \ T : call[i].who = a]
  OBVIOUS
<1>2. f \in [A \ B -> I \ T] /\ \A a \in A \ B : call[f[a]].who = a
  BY <1>1
<1>3. f \in Injection(A \ B, I \ T)
  BY <1>2 DEF Injection, IsInjective
<1>4. IsFiniteSet(A \ B) /\ IsFiniteSet(I \ T) /\ IsFiniteSet(A \cap B)
  BY FS_Difference, FS_Intersection
<1>5. Cardinality(A \ B) <= Cardinality(I \ T)
  BY <1>3, <1>4, FS_Injection
<1>6. Cardinality(A \ B) = Cardinality(A) - Cardinality(A \cap B) /\ Cardinality(I \ T) = Cardinality(I) - Cardinality(T)
  <2>1. I \cap T = T
    OBVIOUS
  <2>2. QED
    BY <2>1, FS_Difference
<1>7. Cardinality(A \cap B) <= Cardinality(B)
  <2>1. A \cap B \in SUBSET B
    OBVIOUS
  <2>2. QED
    BY <2>1, FS_Subset
<1>8. /\ Cardinality(A) \in Nat /\ Cardinality(B) \in Nat /\ Cardinality(I) \in Nat /\ Cardinality(A \cap B) \in Nat
      /\ Cardinality(A \ B) \in Nat /\ Cardinality(I \ T) \in Nat
  BY <1>4, FS_CardinalityType
<1>9. IsFiniteSet(T)
  BY FS_Subset
<1>10. Cardinality(T) \in Nat
  BY <1>9, FS_CardinalityType
<1>11. QED
  BY <1>5, <1>6, <1>7, <1>8, <1>10

LEMMA StepRestart == ASSUME LinkConstants, ScoreInv, Links!Restart PROVE ScoreInv'
<1>1. /\ mishaps' = mishaps + Cardinality(Links!InFlight) /\ UNCHANGED <<here, referral, regular, leaves, overlaps>>
      /\ call' = [h \in Handlers |-> IF h \in Links!InFlight THEN [Links!Idle EXCEPT !.at = "done"] ELSE call[h]]
  <2>1. Links!Cardinality(Links!InFlight) = Cardinality(Links!InFlight)
    BY DEF Links!Cardinality, Cardinality
  <2>2. QED
    BY <2>1 DEF Links!Restart, Links!discord, Links!record, Links!stats
<1>2. /\ IsFiniteSet(Links!InFlight) /\ Cardinality(Links!InFlight) \in Nat
      /\ Taking \in SUBSET Links!InFlight /\ Scoring \in SUBSET Links!InFlight
  <2>1. Links!InFlight \in SUBSET Handlers
    BY DEF Links!InFlight
  <2>2. IsFiniteSet(Links!InFlight)
    BY <2>1, FS_Subset DEF LinkConstants
  <2>3. QED
    BY <2>2, FS_CardinalityType DEF Links!InFlight, Taking, Takes, Scoring, Scores
<1>3. \A h \in Handlers : Framed(call'[h]) /\ call'[h].at \in {"idle", "done"}
  <2>1. PICK done : done = [Links!Idle EXCEPT !.at = "done"]
    OBVIOUS
  <2>2. Framed(done) /\ done.at = "done"
    BY <2>1, DoneIs
  <2>3. \A h \in Handlers : call'[h] = done \/ (call'[h] = call[h] /\ call[h].at \in {"idle", "done"})
    BY <1>1, <2>1 DEF Links!InFlight
  <2>4. QED
    BY <2>2, <2>3 DEF ScoreInv, LinkTypes
<1>4. LinkTypes'
  <2>1. DOMAIN call' = Handlers /\ mishaps' \in Int
    BY <1>1, <1>2 DEF ScoreInv, LinkTypes
  <2>2. QED
    BY <1>1, <1>3, <2>1 DEF ScoreInv, LinkTypes
<1>5. /\ Adding' = {} /\ Scoring' = {} /\ Taking' = {} /\ Weighing' = {} /\ \A m : Busy(m)' = {}
  BY <1>3 DEF Adding, Adds, Scoring, Scores, Taking, Takes, Weighing, Weighs, Busy, Working, Asking, Undoing
<1>6. /\ Cardinality(Adding') = 0 /\ Cardinality(Scoring') = 0 /\ Cardinality(Taking') = 0 /\ Cardinality(Weighing') = 0
  <2>1. Cardinality({}) = 0
    BY FS_EmptySet
  <2>2. QED
    BY <1>5, <2>1
<1>7. Links!Net' = Links!Net /\ Links!Net \in Int /\ mishaps \in Int /\ overlaps \in Int /\ overlaps' = overlaps
  BY <1>1 DEF Links!Net, ScoreInv, LinkTypes
<1>8. Cardinality(Backing) + Cardinality(Taking) <= Cardinality(Backing') + Cardinality(Links!InFlight)
  <2>1. ASSUME NEW m \in Backing \ Backing' PROVE \E h \in Links!InFlight \ Taking : call[h].who = m
    <3>1. m \in Guests /\ Backed(m) /\ ~(m \in here /\ Known(m))
      <4>1. m \in Guests /\ Backed(m) /\ ~Backed(m)'
        BY <2>1 DEF Backing
      <4>2. Backed(m)' <=> m \in here' /\ Known(m)'
        BY <1>5, BackedBy
      <4>3. QED
        BY <1>1, <4>1, <4>2 DEF Known
    <3>2. PICK h \in Busy(m) : Covers(m, h)
      BY <3>1, BackedBy
    <3>3. call[h].at # "deducting"
      BY <3>2 DEF Covers, Asking
    <3>4. h \in Links!InFlight /\ h \notin Taking /\ call[h].who = m
      BY <3>2, <3>3 DEF Busy, Links!InFlight, Taking, Takes, Working, Asking, Undoing
    <3>5. QED
      BY <3>4
  <2>2. QED
    BY <1>2, <2>1, Finite, Charged
<1>9. Cardinality(Staying') + Cardinality(Scoring) <= Cardinality(Staying) + Cardinality(Links!InFlight)
  <2>1. ASSUME NEW m \in Staying' \ Staying PROVE \E h \in Links!InFlight \ Scoring : call[h].who = m
    <3>1. PICK h \in Busy(m) : call[h].at \in Undoing
      <4>1. m \in Guests /\ Known(m)' /\ ~Stays(m)
        BY <2>1 DEF Staying, Stays
      <4>2. Known(m)
        BY <1>1, <4>1 DEF Known
      <4>3. QED
        BY <4>1, <4>2 DEF Stays
    <3>2. h \in Links!InFlight /\ h \notin Scoring /\ call[h].who = m
      BY <3>1 DEF Busy, Links!InFlight, Scoring, Scores, Undoing
    <3>3. QED
      BY <3>2
  <2>2. QED
    BY <1>2, <2>1, Finite, Charged
<1>10. NotTooMuch'
  <2>1. Links!Net + Cardinality(Adding) - Cardinality(Taking) - Cardinality(Backing) <= mishaps + overlaps
    BY DEF ScoreInv, NotTooMuch
  <2>2. Links!Net' + Cardinality(Adding') - Cardinality(Taking') - Cardinality(Backing') <= mishaps' + overlaps'
    BY <1>1, <1>2, <1>6, <1>7, <1>8, <2>1, Numbers
  <2>3. QED
    BY <2>2 DEF NotTooMuch
<1>11. NotTooLittle'
  <2>1. Links!Net + Cardinality(Scoring) - Cardinality(Taking) - Cardinality(Weighing) - Cardinality(Staying)
            >= -(mishaps + overlaps)
    BY DEF ScoreInv, NotTooLittle
  <2>2. Links!Net' + Cardinality(Scoring') - Cardinality(Taking') - Cardinality(Weighing') - Cardinality(Staying')
            >= -(mishaps' + overlaps')
    BY <1>1, <1>2, <1>6, <1>7, <1>9, <2>1, Numbers
  <2>3. QED
    BY <2>2 DEF NotTooLittle
<1>12. QED
  BY <1>4, <1>10, <1>11 DEF ScoreInv

-----------------------------------------------------------------------------
(* Every step.                                                             *)

LEMMA ScoreStands ==
    ASSUME ScoreInv, UNCHANGED <<call, here, referral, regular, leaves, mishaps, overlaps>>
    PROVE  ScoreInv'
<1>1. /\ \A m : (Busy(m)' = Busy(m) /\ (Known(m)' <=> Known(m)))
  BY DEF Busy, Known
<1>2. /\ Adding' = Adding /\ Scoring' = Scoring /\ Taking' = Taking /\ Weighing' = Weighing
  BY <1>1 DEF Adding, Adds, Scoring, Scores, Taking, Takes, Weighing, Weighs, Sole
<1>3. Staying' = Staying
  BY <1>1 DEF Staying, Stays
<1>4. Backing' = Backing
  <2>1. \A m, h : (Covers(m, h)' <=> Covers(m, h)) /\ (Sole(m, h)' <=> Sole(m, h))
    BY <1>1 DEF Covers, Sole
  <2>2. \A m : Backed(m)' <=> Backed(m)
    BY <1>1, <2>1 DEF Backed
  <2>3. QED
    BY <2>2 DEF Backing
<1>5. Links!Net' = Links!Net
  BY DEF Links!Net
<1>6. QED
  BY <1>2, <1>3, <1>4, <1>5 DEF ScoreInv, LinkTypes, NotTooMuch, NotTooLittle

LEMMA InitScore == ASSUME LinkConstants, Links!Init PROVE ScoreInv
<1>1. /\ call = [h \in Handlers |-> Links!Idle] /\ here = {} /\ referral = [m \in Guests |-> NoRow]
      /\ regular = 0 /\ leaves = 0 /\ mishaps = 0 /\ overlaps = 0
  BY DEF Links!Init
<1>2. Framed(Links!Idle) /\ Links!Idle.at = "idle"
  BY DEF Framed, Links!Idle
<1>3. LinkTypes
  BY <1>1, <1>2 DEF LinkTypes
<1>4. \A h \in Handlers : call[h].at = "idle"
  BY <1>1, <1>2
<1>5. /\ Adding = {} /\ Scoring = {} /\ Taking = {} /\ Weighing = {} /\ \A m : Busy(m) = {}
  BY <1>4 DEF Adding, Adds, Scoring, Scores, Taking, Takes, Weighing, Weighs, Busy, Working, Asking, Undoing
<1>6. Backing = {} /\ Staying = {}
  <2>1. \A m \in Guests : ~Known(m)
    BY <1>1 DEF Known, LinkConstants
  <2>2. QED
    BY <1>5, <2>1 DEF Backing, Backed, Sole, Staying, Stays
<1>7. Cardinality({}) = 0 /\ Links!Net = 0
  BY <1>1, FS_EmptySet DEF Links!Net
<1>8. QED
  BY <1>1, <1>3, <1>5, <1>6, <1>7 DEF ScoreInv, NotTooMuch, NotTooLittle

LEMMA NextScore == ASSUME LinkConstants, ScoreInv, [Links!Next]_Links!vars PROVE ScoreInv'
<1>1. ASSUME NEW h \in Handlers, Links!Handles(h) PROVE ScoreInv'
  BY <1>1, StepAsk, StepReadJoiner, StepRecord, StepScore, StepReadLeaver, StepDeduct, StepMark, StepGrant DEF Links!Handles
<1>2. ASSUME NEW h \in Handlers, NEW m \in Guests, Links!Leave(h, m) PROVE ScoreInv'
  BY <1>2, StepLeave
<1>3. ASSUME NEW h \in Handlers, NEW m \in Guests, NEW way, Links!Join(h, m, way) PROVE ScoreInv'
  BY <1>3, StepJoin
<1>4. ASSUME NEW c, Links!InviteCreate(c) \/ Links!Remember(c) \/ Links!Forget(c) PROVE ScoreInv'
  <2>1. UNCHANGED <<call, here, referral, regular, leaves, mishaps, overlaps>>
    BY <1>4 DEF Links!InviteCreate, Links!Remember, Links!Forget, Links!discord, Links!record, Links!stats, Links!trouble
  <2>2. QED
    BY <2>1, ScoreStands
<1>5. ASSUME UNCHANGED Links!vars PROVE ScoreInv'
  <2>1. UNCHANGED <<call, here, referral, regular, leaves, mishaps, overlaps>>
    BY <1>5 DEF Links!vars, Links!discord, Links!record, Links!stats, Links!trouble
  <2>2. QED
    BY <2>1, ScoreStands
<1>6. QED
  BY <1>1, <1>2, <1>3, <1>4, <1>5, StepRestart DEF Links!Next

LEMMA ScoreIs == ASSUME LinkConstants, ScoreInv PROVE Links!ScoreIsWhoStayed
<1>1. SUFFICES ASSUME Links!InFlight = {} PROVE Links!Size(Links!Drift) <= mishaps + overlaps
  BY DEF Links!ScoreIsWhoStayed
<1>2. \A h \in Handlers : call[h].at \in {"idle", "done"}
  BY <1>1 DEF Links!InFlight
<1>3. /\ Adding = {} /\ Scoring = {} /\ Taking = {} /\ Weighing = {} /\ \A m : Busy(m) = {}
  BY <1>2 DEF Adding, Adds, Scoring, Scores, Taking, Takes, Weighing, Weighs, Busy, Working, Asking, Undoing
<1>4. Backing = Links!Counted
  BY <1>3 DEF Backing, Backed, Sole, Links!Counted, Known, ScoreInv, LinkTypes
<1>5. Links!Counted \in SUBSET Staying
  BY <1>3 DEF Staying, Stays, Links!Counted, Known, ScoreInv, LinkTypes
<1>6. Cardinality(Links!Counted) <= Cardinality(Staying)
  BY <1>5, Finite, FS_Subset
<1>7. /\ Cardinality(Adding) = 0 /\ Cardinality(Scoring) = 0 /\ Cardinality(Taking) = 0 /\ Cardinality(Weighing) = 0
  <2>1. Cardinality({}) = 0
    BY FS_EmptySet
  <2>2. QED
    BY <1>3, <2>1
<1>8. /\ regular \in Int /\ leaves \in Int /\ mishaps \in Int /\ overlaps \in Int /\ Cardinality(Links!Counted) \in Nat
  BY <1>4, Numbers DEF ScoreInv, LinkTypes
<1>9. Links!Drift = Links!Net - Cardinality(Links!Counted)
  <2>1. Links!Cardinality(Links!Counted) = Cardinality(Links!Counted)
    BY DEF Links!Cardinality, Cardinality
  <2>2. QED
    BY <2>1 DEF Links!Drift, Links!Net
<1>10. Links!Drift <= mishaps + overlaps
  <2>1. Links!Net + Cardinality(Adding) - Cardinality(Taking) - Cardinality(Backing) <= mishaps + overlaps
    BY DEF ScoreInv, NotTooMuch
  <2>2. QED
    BY <1>4, <1>7, <1>8, <1>9, <2>1 DEF Links!Net
<1>11. Links!Drift >= -(mishaps + overlaps)
  <2>1. Links!Net + Cardinality(Scoring) - Cardinality(Taking) - Cardinality(Weighing) - Cardinality(Staying)
            >= -(mishaps + overlaps)
    BY DEF ScoreInv, NotTooLittle
  <2>2. QED
    BY <1>6, <1>7, <1>8, <1>9, <2>1, Numbers DEF Links!Net
<1>12. Links!Drift \in Int
  BY <1>8, <1>9 DEF Links!Net
<1>13. QED
  BY <1>8, <1>10, <1>11, <1>12 DEF Links!Size

-----------------------------------------------------------------------------
(* The types of the invites: who a handler is for, the code it read and    *)
(* whether its join counts; the counters never go below zero.              *)

FieldsOK(step) ==
    /\ step.who \in Guests \cup {Nobody} /\ step.code \in Codes \cup {NoCode}
    /\ step.counts \in BOOLEAN

CountersOK ==
    /\ referral \in [Guests -> {NoRow, "counted", "uncounted"}]
    /\ regular \in Nat /\ leaves \in Nat /\ holds \in BOOLEAN /\ here \subseteq Guests

FieldsInv == CountersOK /\ \A h \in Handlers : FieldsOK(call[h])

LEMMA FieldsOfIdle ==
    /\ FieldsOK([Links!Idle EXCEPT !.at = "done"])
    /\ \A m \in Guests, a \in {"fetching", "leaving"} : FieldsOK([Links!Idle EXCEPT !.at = a, !.who = m])
    /\ FieldsOK(Links!Idle)
BY DEF Links!Idle, FieldsOK

LEMMA FieldsStay ==
    ASSUME NEW s, Framed(s), FieldsOK(s), NEW a, NEW x
    PROVE  /\ FieldsOK([s EXCEPT !.at = a])
           /\ FieldsOK([s EXCEPT !.at = a, !.net = x])
           /\ FieldsOK([s EXCEPT !.at = a, !.seen = x])
           /\ FieldsOK([s EXCEPT !.at = a, !.counts = TRUE, !.net = x])
           /\ \A c \in Codes \cup {NoCode} : FieldsOK([s EXCEPT !.at = a, !.code = c, !.seen = x])
           /\ \A b \in BOOLEAN : FieldsOK([s EXCEPT !.at = a, !.code = NoCode, !.counts = b])
BY DEF Framed, FieldsOK

LEMMA GoesWithFields ==
    ASSUME ToldInv, FieldsInv, NEW h \in Handlers, NEW step, Links!Goes(h, step), FieldsOK(step)
    PROVE  \A g \in Handlers : FieldsOK(call'[g])
<1>1. call'[h] = step /\ \A g \in Handlers \ {h} : call'[g] = call[g]
  BY DEF Links!Goes, ToldInv
<1>2. QED
  BY <1>1 DEF FieldsInv

LEMMA HandlersKeepFields ==
    ASSUME UsesInv, ToldInv, FieldsInv, NEW h \in Handlers, Links!Handles(h)
    PROVE  \A g \in Handlers : FieldsOK(call'[g])
<1>1. Framed(call[h]) /\ FieldsOK(call[h])
  BY DEF ToldInv, FieldsInv
<1>2. CASE Links!Ends(h)
  BY <1>2, FieldsOfIdle, GoesWithFields DEF Links!Ends
<1>3. ASSUME NEW a, Links!Goes(h, [call[h] EXCEPT !.at = a]) PROVE \A g \in Handlers : FieldsOK(call'[g])
  BY <1>1, <1>3, FieldsStay, GoesWithFields
<1>4. CASE Links!Fetched(h)
  BY <1>1, <1>2, <1>4, FieldsStay, GoesWithFields DEF Links!Fetched
<1>5. CASE Links!Observe(h)
  <2>1. PICK ans : ans = call[h].seen
    OBVIOUS
  <2>2. ans \in Counts
    BY <1>5, <2>1 DEF Links!Observe, Links!At, ToldInv, Told
  <2>3. DOMAIN ans \subseteq Codes
    BY <2>2, CountsAre
  <2>4. PICK c \in Links!UsedInvite(ans) :
             Links!Goes(h, [call[h] EXCEPT !.at = IF c = NoCode THEN "probing" ELSE "reading",
                                           !.code = c, !.seen = NoSnapshot])
    BY <1>5, <2>1 DEF Links!Observe
  <2>5. c \in Codes \cup {NoCode}
    BY <2>3 DEF Links!UsedInvite
  <2>6. PICK a : a = IF c = NoCode THEN "probing" ELSE "reading"
    OBVIOUS
  <2>7. Links!Goes(h, [call[h] EXCEPT !.at = a, !.code = c, !.seen = NoSnapshot])
    BY <2>4, <2>6
  <2>8. FieldsOK([call[h] EXCEPT !.at = a, !.code = c, !.seen = NoSnapshot])
    BY <1>1, <2>5, FieldsStay
  <2>9. QED
    BY <2>7, <2>8, GoesWithFields
<1>6. CASE Links!Probe(h)
  BY <1>2, <1>3, <1>6 DEF Links!Probe
<1>7. CASE Links!ReadJoiner(h)
  <2>1. CASE Links!Ends(h)
    BY <1>2, <2>1
  <2>2. CASE ~Links!Ends(h)
    <3>1. \E b \in BOOLEAN : Links!Goes(h, [call[h] EXCEPT !.at = "recording", !.code = NoCode, !.counts = b])
      BY <1>7, <2>2 DEF Links!ReadJoiner
    <3>2. QED
      BY <1>1, <3>1, FieldsStay, GoesWithFields
  <2>3. QED
    BY <2>1, <2>2
<1>8. CASE Links!Record(h)
  BY <1>2, <1>3, <1>8 DEF Links!Record
<1>9. CASE Links!Score(h)
  BY <1>1, <1>3, <1>9, FieldsStay, GoesWithFields DEF Links!Score
<1>10. CASE Links!ReadLeaver(h)
  BY <1>2, <1>3, <1>10 DEF Links!ReadLeaver
<1>11. CASE Links!Deduct(h)
  <2>1. FieldsOK([call[h] EXCEPT !.at = "marking", !.counts = TRUE, !.net = Links!Net - 1])
    BY <1>1, FieldsStay
  <2>2. QED
    BY <1>3, <1>11, <2>1, GoesWithFields DEF Links!Deduct
<1>12. CASE Links!Mark(h)
  BY <1>2, <1>3, <1>12 DEF Links!Mark, Links!Reconciles
<1>13. CASE Links!Grant(h)
  BY <1>2, <1>13 DEF Links!Grant
<1>14. QED
  BY <1>4, <1>5, <1>6, <1>7, <1>8, <1>9, <1>10, <1>11, <1>12, <1>13 DEF Links!Handles

LEMMA HandlersKeepCounters ==
    ASSUME FieldsInv, NEW h \in Handlers, Links!Handles(h)
    PROVE  CountersOK'
<1>1. CASE UNCHANGED <<referral, regular, leaves, holds, here>>
  BY <1>1 DEF FieldsInv, CountersOK
<1>2. CASE Links!Fetched(h) \/ Links!Observe(h) \/ Links!Probe(h) \/ Links!ReadJoiner(h) \/ Links!ReadLeaver(h)
  BY <1>1, <1>2 DEF Links!Fetched, Links!Observe, Links!Probe, Links!ReadJoiner, Links!ReadLeaver,
                    Links!record, Links!stats, Links!discord
<1>3. CASE Links!Record(h)
  BY <1>3 DEF Links!Record, Links!Flag, Links!stats, Links!discord, FieldsInv, CountersOK
<1>4. CASE Links!Score(h)
  BY <1>4 DEF Links!Score, Links!discord, FieldsInv, CountersOK
<1>5. CASE Links!Deduct(h)
  BY <1>5 DEF Links!Deduct, Links!discord, FieldsInv, CountersOK
<1>6. CASE Links!Mark(h)
  BY <1>6 DEF Links!Mark, Links!stats, Links!discord, FieldsInv, CountersOK
<1>7. CASE Links!Grant(h)
  <2>1. holds' = holds \/ holds' = (call[h].net >= Milestone)
    BY <1>7 DEF Links!Grant
  <2>2. holds' \in BOOLEAN
    <3>1. CASE holds' = holds
      BY <3>1 DEF FieldsInv, CountersOK
    <3>2. CASE holds' = (call[h].net >= Milestone)
      <4>1. CASE call[h].net >= Milestone
        BY <3>2, <4>1
      <4>2. CASE ~(call[h].net >= Milestone)
        BY <3>2, <4>2
      <4>3. QED
        BY <4>1, <4>2
    <3>3. QED
      BY <2>1, <3>1, <3>2
  <2>3. UNCHANGED <<referral, regular, leaves, here>>
    BY <1>7 DEF Links!Grant, Links!stats, Links!discord
  <2>4. QED
    BY <2>2, <2>3 DEF FieldsInv, CountersOK
<1>8. QED
  BY <1>2, <1>3, <1>4, <1>5, <1>6, <1>7 DEF Links!Handles

LEMMA NextFields ==
    ASSUME UsesInv, ToldInv, FieldsInv, [Links!Next]_Links!vars
    PROVE  FieldsInv'
<1>1. ASSUME NEW h \in Handlers, Links!Handles(h) PROVE FieldsInv'
  BY <1>1, HandlersKeepFields, HandlersKeepCounters DEF FieldsInv
<1>2. ASSUME NEW h \in Handlers, NEW m \in Guests, NEW way \in Codes \cup {NoCode}, Links!Leave(h, m) \/ Links!Join(h, m, way)
      PROVE  FieldsInv'
  <2>1. CountersOK'
    BY <1>2 DEF Links!Leave, Links!Join, Links!record, Links!stats, FieldsInv, CountersOK
  <2>2. PICK a \in {"fetching", "leaving"} : Links!Goes(h, [Links!Idle EXCEPT !.at = a, !.who = m])
    BY <1>2 DEF Links!Leave, Links!Join, Links!Begins
  <2>3. \A g \in Handlers : FieldsOK(call'[g])
    BY <2>2, FieldsOfIdle, GoesWithFields
  <2>4. QED
    BY <2>1, <2>3 DEF FieldsInv
<1>3. ASSUME NEW c \in Codes, Links!InviteCreate(c) \/ Links!Remember(c) \/ Links!Forget(c)
      PROVE  FieldsInv'
  BY <1>3 DEF Links!InviteCreate, Links!Remember, Links!Forget, Links!record, Links!stats, Links!discord,
              FieldsInv, CountersOK
<1>4. CASE Links!Restart
  <2>1. \A h \in Handlers : call'[h] = [Links!Idle EXCEPT !.at = "done"] \/ call'[h] = call[h]
    BY <1>4 DEF Links!Restart
  <2>2. \A h \in Handlers : FieldsOK(call'[h])
    BY <2>1, FieldsOfIdle DEF FieldsInv
  <2>3. QED
    BY <1>4, <2>2 DEF Links!Restart, Links!record, Links!stats, Links!discord, FieldsInv, CountersOK
<1>5. CASE UNCHANGED Links!vars
  BY <1>5 DEF Links!vars, Links!record, Links!stats, Links!discord, FieldsInv, CountersOK
<1>6. QED
  BY <1>1, <1>2, <1>3, <1>4, <1>5 DEF Links!Next

LEMMA InitFields == Links!Init => FieldsInv
<1> SUFFICES ASSUME Links!Init PROVE FieldsInv
  OBVIOUS
<1>1. CountersOK
  BY DEF Links!Init, CountersOK
<1>2. \A h \in Handlers : call[h] = Links!Idle
  BY DEF Links!Init
<1>3. QED
  BY <1>1, <1>2, FieldsOfIdle DEF FieldsInv

LEMMA LinksAreTyped == UsesInv /\ FieldsInv => Links!TypeOK
<1> SUFFICES ASSUME UsesInv, FieldsInv PROVE Links!TypeOK
  OBVIOUS
<1>1. DOMAIN uses \subseteq Codes /\ (snapshot # NoSnapshot => DOMAIN snapshot \subseteq Codes)
  BY CountsAre DEF UsesInv
<1>2. QED
  BY <1>1 DEF UsesInv, FieldsInv, CountersOK, FieldsOK, Links!TypeOK

-----------------------------------------------------------------------------
(* The parameters of the pipeline and of the anti-nuke engine.             *)

DispatchConstants ==
    /\ None \notin Jobs /\ None \notin Nat
    /\ Lowest \in Nat \ 0 .. 2 /\ Ceiling \in Nat \ {0} /\ Window \in Nat \ {0} /\ MinRetry \in Nat \ {0}
    /\ DebounceDelay \in Nat /\ FlushBudget \in Nat /\ {m1, m2} \subseteq Keys

EngineConstants ==
    /\ MaxProbes \in Nat /\ MaxRestarts \in Nat /\ MaxToggles \in Nat
    /\ CreateWindow \in Int /\ DeleteWindow \in Int /\ ChannelWindow \in Int /\ PruneWindow \in Int
    /\ RoleLimit \in Nat /\ ChannelLimit \in Nat
    /\ None \notin Nat /\ None \notin [actor : Actors, protection : {RoleCreate, RoleDelete, ChannelDelete}]

LEMMA EngineIs == EngineConstants => Nuke!NukeConstants
BY DEF EngineConstants, Nuke!NukeConstants, Nuke!Budgets, WindowOn, LimitIn

LEMMA DispatchedIsSubmitted ==
    ASSUME DispatchConstants, [Voice!DNext]_Voice!dvars
    PROVE  [Voice!Next]_Voice!vars
<1>1. {1, 2, 3} \subseteq Voice!Levels
  BY DEF DispatchConstants, Voice!Levels
<1>2. ASSUME NEW j \in Jobs, Voice!DispatchEvent(j) PROVE Voice!Submit
  <2>1. CASE Voice!Debounce(3, WhoMoves[j], j)
    <3>1. WhoMoves[j] \in Keys
      BY DEF DispatchConstants, WhoMoves
    <3>2. QED
      BY <1>1, <2>1, <3>1 DEF Voice!Submit
  <2>2. CASE Voice!Enqueue(Voice!PriorityOf(VoiceOrReaction[j]), j)
    <3>1. VoiceOrReaction[j] \in {"reaction", "voiceChurn"}
      BY DEF VoiceOrReaction
    <3>2. Voice!PriorityOf(VoiceOrReaction[j]) = 3
      BY <3>1 DEF Voice!PriorityOf
    <3>3. QED
      BY <1>1, <2>2, <3>2 DEF Voice!Submit
  <2>3. QED
    BY <1>2, <2>1, <2>2 DEF Voice!DispatchEvent
<1>3. QED
  BY <1>2 DEF Voice!DNext, Voice!Next, Voice!Internal, Voice!dvars, Voice!vars

LEMMA VoiceIsTyped ==
    ASSUME DispatchConstants
    PROVE  /\ Voice!DInit => Voice!WakeInv
           /\ Voice!WakeInv /\ [Voice!DNext]_Voice!dvars => Voice!WakeInv'
<1>1. Voice!Init => Voice!WakeInv
  BY Voice!InitWakeInv DEF DispatchConstants
<1>2. Voice!WakeInv /\ [Voice!Next]_Voice!vars => Voice!WakeInv'
  BY Voice!NextWakeInv DEF DispatchConstants
<1>3. QED
  BY <1>1, <1>2, DispatchedIsSubmitted DEF Voice!DInit


-----------------------------------------------------------------------------
(* The composition: a step of MCEvents is a step of the part in its scene  *)
(* and leaves the other parts as they are.                                 *)

parts == <<scene, config, lists, voice, nuke, links>>

LEMMA NukeSteps == [EventsNext]_parts => [Nuke!Next]_Nuke!vars
BY DEF EventsNext, parts, nuke, Nuke!vars

LEMMA ListsSteps == [EventsNext]_parts => [Lists!Next]_Lists!vars
BY DEF EventsNext, parts, lists, Lists!vars

LEMMA VoiceSteps == [EventsNext]_parts => [Voice!DNext]_Voice!dvars
BY DEF EventsNext, parts, voice, Voice!dvars, Voice!vars

LEMMA LinksSteps == [EventsNext]_parts => [Links!Next]_Links!vars
BY DEF EventsNext, parts, links, Links!vars, Links!discord, Links!tracker, Links!record,
       Links!stats, Links!trouble

(* The owner is told exactly once of an incident (anti-nuke.ts, record and *)
(* trip), however the observations of one actor meet.                      *)
THEOREM IncidentsAreReportedOnce ==
    ASSUME None \notin [actor : Actors \ {Self}, protection : {RoleCreate, RoleDelete, ChannelDelete}]
    PROVE  EventsSpec => []OneReportPerIncident
<1>1. EventsInit => Nuke!Init
  BY DEF EventsInit
<1>2. Nuke!Spec => []Nuke!OneReportPerIncident
  BY Nuke!OneMessagePerIncident
<1>3. Nuke!OneReportPerIncident => OneReportPerIncident
  BY DEF OneReportPerIncident
<1>4. QED
  BY <1>1, <1>2, <1>3, NukeSteps, PTL DEF EventsSpec, parts, Nuke!Spec

(* Whoever asks the dashboard after a log setup replied is given what it   *)
(* wrote or later, unless its invalidation met a running load.             *)
THEOREM LogSetupsAreSeen ==
    ASSUME Lists!Parameters, "save" \notin Writers
    PROVE  EventsSpec => []EditsSeenUnlessOvertaken
<1>1. EventsInit => Lists!ReadInv /\ Lists!SeenInv
  BY Lists!InitRead, Lists!InitSeen DEF EventsInit
<1>2. Lists!ReadInv /\ Lists!SeenInv /\ [Lists!Next]_Lists!vars => (Lists!ReadInv /\ Lists!SeenInv)'
  BY Lists!NextRead, Lists!NextSeen
<1>3. Lists!SeenInv => EditsSeenUnlessOvertaken
  BY DEF Lists!SeenInv, EditsSeenUnlessOvertaken, Lists!EditsSeenUnlessOvertaken
<1>4. QED
  BY <1>1, <1>2, <1>3, ListsSteps, PTL DEF EventsSpec, parts

(* A list the dashboard loaded and did not drop is not asked of Discord    *)
(* again within its TTL (cache.ts, resolve).                               *)
THEOREM DiscordIsSparedOfBursts ==
    ASSUME Lists!Parameters
    PROVE  EventsSpec => OneRequestPerWindow
<1>1. EventsInit => Lists!ReadInv
  BY Lists!InitRead DEF EventsInit
<1>2. Lists!ReadInv /\ [Lists!Next]_Lists!vars => Lists!ReadInv'
  BY Lists!NextRead
<1>3. Lists!ReadInv /\ [Lists!Next]_Lists!vars
        => [(flight[Depth] = NoFlight /\ flight'[Depth] # NoFlight)
              => (lastLoad = Lists!Never \/ clock - lastLoad >= Ttl)]_Lists!vars
  BY Lists!OneRequest
<1>4. QED
  BY <1>1, <1>2, <1>3, ListsSteps, PTL
     DEF EventsSpec, parts, OneRequestPerWindow, Lists!OneRequestPerWindow

(* However a member's voice events meet in the debounce table, and whatever*)
(* the flush makes of it: of the events coalesced away each has a later one*)
(* of that member that was not (events/dispatch.ts, event-pipeline.ts).    *)
THEOREM SettledVoiceIsLogged ==
    ASSUME Debounces
    PROVE  EventsSpec => []LastVoiceEventSurvives
<1>1. EventsInit => TableInv
  BY InitTable DEF EventsInit
<1>2. TableInv /\ [Voice!DNext]_Voice!dvars => TableInv'
  BY NextTable
<1>3. TableInv => LastVoiceEventSurvives
  BY DEF TableInv, LastVoiceEventSurvives
<1>4. QED
  BY <1>1, <1>2, <1>3, VoiceSteps, PTL DEF EventsSpec, parts

(* However joins, leaves, refusals, restarts and answers on their way mix: *)
(* no code is credited with more joins than came through it, unless the    *)
(* tracker was told something older than it knew (invite-tracker.ts).      *)
THEOREM NoUseIsSpentTwice ==
    ASSUME NoCode \notin Codes, Early \subseteq Codes
    PROVE  EventsSpec => []UsesAreAttributedOnce
<1>1. EventsInit => UsesInv /\ ToldInv
  BY InitUses DEF EventsInit
<1>2. UsesInv /\ ToldInv /\ [Links!Next]_Links!vars => UsesInv' /\ ToldInv'
  BY NextUses
<1>3. UsesInv => UsesAreAttributedOnce
  <2>1. SUFFICES ASSUME UsesInv, ~turned, NEW c \in Codes
                 PROVE  credited[c] <= joined[c]
    BY DEF UsesAreAttributedOnce, Links!UsesAreAttributedOnce
  <2>2. credited[c] <= newest[c] /\ newest[c] <= joined[c]
    BY <2>1 DEF UsesInv
  <2>3. credited[c] \in Nat /\ newest[c] \in Nat /\ joined[c] \in Nat
    BY <2>1 DEF UsesInv
  <2>4. QED
    BY <2>2, <2>3
<1>4. QED
  BY <1>1, <1>2, <1>3, LinksSteps, PTL DEF EventsSpec, parts

(* Whatever joins, leaves, refused calls and restarts: with no handler     *)
(* under way the inviter's score is the number of members in the guild who *)
(* are counted for them, give or take one point for each refused call,     *)
(* each handler a restart cut off and each overlap of two handlers of one  *)
(* member (bot/index.ts, the join and leave handlers).                     *)
THEOREM ScoresAddUp == ASSUME LinkConstants PROVE EventsSpec => []ScoreIsWhoStayed
<1>1. EventsInit => ScoreInv
  BY InitScore DEF EventsInit
<1>2. ScoreInv /\ [Links!Next]_Links!vars => ScoreInv'
  BY NextScore
<1>3. ScoreInv => ScoreIsWhoStayed
  BY ScoreIs DEF ScoreIsWhoStayed
<1>4. QED
  BY <1>1, <1>2, <1>3, LinksSteps, PTL DEF EventsSpec, parts

(* An actor of whom more destructive events were counted on a budget than  *)
(* its limit allows, closer together than every window that trims it, is   *)
(* latched, whatever the windows are and whatever toggles, restarts and    *)
(* prunes come between (anti-nuke.ts, record and prune).                   *)
THEOREM BurstsLatch == ASSUME EngineConstants PROVE EventsSpec => []CloseBurstsAreCaught
<1>1. EventsInit => Nuke!Init
  BY DEF EventsInit
<1>2. Nuke!Spec => [](Nuke!TypeOK /\ Nuke!CloseBurstsAreCaught)
  BY EngineIs, Nuke!BurstsLatch
<1>3. Nuke!CloseBurstsAreCaught => CloseBurstsAreCaught
  BY DEF CloseBurstsAreCaught
<1>4. QED
  BY <1>1, <1>2, <1>3, NukeSteps, PTL DEF EventsSpec, parts, Nuke!Spec

(* Every variable of every scene keeps its type, whatever the bounds.      *)
THEOREM EventsAreTyped ==
    ASSUME EngineConstants, DispatchConstants, Lists!Parameters, Lists!Bounds,
           NoCode \notin Codes, Early \subseteq Codes
    PROVE  EventsSpec => []TypesOK
<1>1. EventsInit => Init /\ Nuke!Init /\ Lists!TypesInv /\ Voice!WakeInv /\ UsesInv /\ ToldInv /\ FieldsInv
  BY Lists!InitTypes, VoiceIsTyped, InitUses, InitFields DEF EventsInit
<1>2. Nuke!Spec => [](Nuke!TypeOK /\ Nuke!CloseBurstsAreCaught)
  BY EngineIs, Nuke!BurstsLatch
<1>3. Lists!TypesInv /\ [Lists!Next]_Lists!vars => Lists!TypesInv'
  BY Lists!NextTypes
<1>4. Voice!WakeInv /\ [Voice!DNext]_Voice!dvars => Voice!WakeInv'
  BY VoiceIsTyped
<1>5. UsesInv /\ ToldInv /\ FieldsInv /\ [Links!Next]_Links!vars => UsesInv' /\ ToldInv' /\ FieldsInv'
  BY NextUses, NextFields
<1>6. RecentInv /\ [Next]_vars => RecentInv'
  BY NextRecentInv
<1>7. [EventsNext]_parts => [Next]_vars /\ scene' = scene
  BY DEF EventsNext, parts, config
<1>8. Init => RecentInv
  BY InitRecentInv
<1>9. EventsInit => scene \in {"config", "lists", "voice", "nuke", "links"}
  BY DEF EventsInit
<1>10. (/\ scene \in {"config", "lists", "voice", "nuke", "links"}
        /\ Nuke!TypeOK /\ Lists!TypesInv /\ Voice!WakeInv /\ UsesInv /\ FieldsInv /\ RecentInv)
         => TypesOK
  <2>1. Lists!TypesInv => Lists!TypeOK
    BY Lists!TypesAre
  <2>2. Voice!WakeInv => Voice!TypeOK
    BY DEF Voice!WakeInv
  <2>3. RecentInv => TypeOK
    BY DEF RecentInv
  <2>4. ASSUME scene \in {"config", "lists", "voice", "nuke", "links"},
               TypeOK, Lists!TypeOK, Voice!TypeOK, Nuke!TypeOK, Links!TypeOK
        PROVE  TypesOK
    BY <2>4 DEF TypesOK
  <2>5. UsesInv /\ FieldsInv => Links!TypeOK
    BY LinksAreTyped
  <2>6. QED
    BY <2>1, <2>2, <2>3, <2>4, <2>5
<1>11. scene \in {"config", "lists", "voice", "nuke", "links"} /\ scene' = scene
         => (scene \in {"config", "lists", "voice", "nuke", "links"})'
  OBVIOUS
<1>12. QED
  BY <1>1, <1>2, <1>3, <1>4, <1>5, <1>6, <1>7, <1>8, <1>9, <1>10, <1>11,
     NukeSteps, ListsSteps, VoiceSteps, LinksSteps, PTL DEF EventsSpec, parts, Nuke!Spec
=============================================================================
