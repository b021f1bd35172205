----------------------------- MODULE MessageLog -----------------------------
(***************************************************************************)
(* What the log says of messages that changed or went: the short memory of *)
(* one channel (bot/logging/message-cache.ts) and the message handlers of  *)
(* bot/lib/discord.ts.  Discord sends a text when it is written; later it  *)
(* sends the new one at most, and the old one when discord.js still has it.*)
(***************************************************************************)
EXTENDS Naturals, FiniteSets

CONSTANTS
    Messages,        \* bound: the messages of the channel, as they are sent
    Texts,
    Cap,             \* entries a channel keeps (200)
    Ttl,             \* how long an entry is kept (half an hour)
    MaxTime,         \* bound: ticks
    MaxEdits         \* bound: edits

VARIABLES
    now, edits,
    live,            \* the messages that exist
    wrote,           \* when and by whom: a bot's are left out
    texts,           \* every text each message had
    files,           \* the messages with attachments
    bucket,          \* the cache's entries: the oldest is that of the first message
    reported         \* old texts in the last entries: of which message, how old the memory

vars == <<now, edits, live, wrote, texts, files, bucket, reported>>

NotSent == [at |-> 0, bot |-> FALSE]

TypeOK ==
    /\ now \in 0 .. MaxTime /\ edits \in 0 .. MaxEdits
    /\ live \subseteq Messages
    /\ texts \in [Messages -> SUBSET Texts] /\ files \subseteq Messages
    /\ bucket \subseteq [id : Messages, content : Texts, named : BOOLEAN, cachedAt : 0 .. MaxTime]
    /\ reported \subseteq [of : Messages, content : Texts, age : 0 .. MaxTime, named : BOOLEAN]

Init ==
    /\ now = 0 /\ edits = 0
    /\ live = {}
    /\ wrote = [m \in Messages |-> NotSent]
    /\ texts = [m \in Messages |-> {}]
    /\ files = {} /\ bucket = {} /\ reported = {}

Old(entry) == now - entry.cachedAt > Ttl

Tick == now < MaxTime /\ now' = now + 1 /\ reported' = {} /\ UNCHANGED <<edits, live, wrote, texts, files, bucket>>

-----------------------------------------------------------------------------
(* The cache.                                                              *)

(* Mutant: the newest entries make room, not the oldest.                   *)
EvictNewest(entries) ==
    LET young == {x \in entries : ~Old(x)}
    IN  {x \in young : Cardinality({y \in young : y.id <= x.id}) <= Cap}

(* What is too old goes, then the oldest until the rest fits.              *)
Evict(entries) ==
    LET young == {x \in entries : ~Old(x)}
    IN  {x \in young : Cardinality({y \in young : y.id >= x.id}) <= Cap}

Put(entry) == bucket' = Evict(bucket \cup {entry})

Find(m) == {x \in bucket : x.id = m}

(* Mutant: an entry is served whatever its age.                            *)
GetOld(m) == Find(m)

Get(m) == {x \in Find(m) : ~Old(x)}

(* An entry that was looked for and is too old is dropped.                 *)
Looked(m) == bucket' = {x \in bucket : x.id # m \/ ~Old(x)}

-----------------------------------------------------------------------------
(* The handlers.                                                           *)

MessageCreate(m, content, file, bot) ==
    /\ texts[m] = {} /\ \A k \in Messages : k < m => texts[k] # {}
    /\ live' = live \cup {m} /\ texts' = [texts EXCEPT ![m] = {content}]
    /\ wrote' = [wrote EXCEPT ![m] = [at |-> now, bot |-> bot]]
    /\ files' = IF file THEN files \cup {m} ELSE files
    /\ IF bot THEN UNCHANGED bucket
       ELSE Put([id |-> m, content |-> content, named |-> file, cachedAt |-> now])
    /\ reported' = {} /\ UNCHANGED <<now, edits>>

Report(m, memory, named) ==
    reported' = {[of |-> m, content |-> x.content, age |-> now - x.cachedAt, named |-> named] : x \in memory}

(* The old text is the cache's, else the one discord.js knows, else empty. *)
(* Nothing is logged when it is the new one, and the cache is not told the *)
(* new text.                                                               *)
MessageUpdate(m, content) ==
    /\ m \in live /\ edits < MaxEdits /\ edits' = edits + 1
    /\ texts' = [texts EXCEPT ![m] = @ \cup {content}]
    /\ LET memory == Get(m) IN Report(m, {x \in memory : x.content # content}, FALSE)
    /\ Looked(m)
    /\ UNCHANGED <<now, live, wrote, files>>

(* One entry, and another one with the names of the files it had.          *)
MessageDelete(m) ==
    /\ m \in live /\ live' = live \ {m}
    /\ LET memory == Get(m) IN Report(m, memory, \E x \in memory : x.named)
    /\ Looked(m)
    /\ UNCHANGED <<now, edits, wrote, texts, files>>

(* Many at once are counted, not read out.                                 *)
MessageBulkDelete(gone) ==
    /\ Cardinality(gone) > 1 /\ gone \subseteq live
    /\ live' = live \ gone /\ reported' = {}
    /\ UNCHANGED <<now, edits, wrote, texts, files, bucket>>

Next ==
    \/ Tick
    \/ \E m \in Messages :
          \/ MessageDelete(m)
          \/ \E content \in Texts : \/ MessageUpdate(m, content)
                                    \/ \E file, bot \in BOOLEAN : MessageCreate(m, content, file, bot)
    \/ \E gone \in SUBSET Messages : MessageBulkDelete(gone)

Spec == Init /\ [][Next]_vars

-----------------------------------------------------------------------------
(* Properties.                                                             *)

(* A text in an entry was a text of that very message, read no longer ago  *)
(* than the memory lasts, never a bot's; files are named only of a message *)
(* that had some.                                                          *)
TextsWereWritten ==
    \A r \in reported :
        /\ r.content \in texts[r.of] /\ r.age <= Ttl /\ ~wrote[r.of].bot
        /\ r.named => r.of \in files

(* The memory is bounded, and what it holds are the last messages of       *)
(* people: nothing newer than an entry was dropped.                        *)
LastOnesAreKept ==
    /\ Cardinality(bucket) <= Cap
    /\ \A m \in Messages : \A x \in bucket :
          (texts[m] # {} /\ ~wrote[m].bot /\ wrote[m].at > x.cachedAt /\ now - wrote[m].at <= Ttl) => Find(m) # {}

MessagesAreTrue == TextsWereWritten /\ LastOnesAreKept
=============================================================================
