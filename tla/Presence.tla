-------------------------------- MODULE Presence --------------------------------
(***************************************************************************)
(* The bot's status and activity: one row, one gateway connection.  The    *)
(* dashboard stores what the operator chose (PUT /api/bot/presence) and    *)
(* never applies it; the bot reads the row every fifteen seconds, works    *)
(* out what it means now and sends it, if it differs from what it sent     *)
(* last (runtime/presence-sync.ts).  run() does not exclude itself.        *)
(***************************************************************************)
EXTENDS Naturals, FiniteSets

CONSTANTS
    Absent,        \* nothing: no save, no presence sent or shown
    Idle, Reading, \* a run that is not under way, and one that reads the row
    Savers,        \* saves in flight at once
    Runs,          \* runs of the sync at once
    MaxTime,       \* bound: instants
    MaxSaves,      \* bound: saves
    MaxMishaps     \* bound: failed reads and writes, lost connections, restarts

VARIABLES
    now,
    row,           \* bot_identity
    saver,         \* what a save is about to store, or Absent
    sync,          \* what a run is about to send, or where it is
    sent,          \* `applied`: the presence the gateway took last
    ready,         \* client.isReady()
    shown,         \* what Discord shows
    saves, mishaps

vars == <<now, row, saver, sync, sent, ready, shown, saves, mishaps>>

-----------------------------------------------------------------------------
Statuses     == {"online", "dnd"}
Timed(s)     == s = "dnd"
Texts        == {"game", "default"}
Length       == [short |-> 1, long |-> 2]
IsDuration(d) == d \in DOMAIN Length \cup {"forever"}
Rows     == [status : Statuses, duration : DOMAIN Length \cup {"forever", "none"},
             expires : 0 .. MaxTime + 2, text : Texts]
Shows    == [status : Statuses, text : Texts]

(* 0 is no expiry: nothing expires at the first instant.                   *)
NoExpiry == 0
DefaultPresence == [status |-> "online", duration |-> "none", expires |-> NoExpiry, text |-> "default"]

(* durationToMs: forever has no length.                                    *)
DurationToMs(d) == IF d \in DOMAIN Length THEN Length[d] ELSE NoExpiry

(* normaliseStatusWindow: no window behind a status that cannot run out.   *)
NormaliseStatusWindow(status, d, expires) ==
    IF ~Timed(status) \/ ~IsDuration(d) THEN [duration |-> "none", expires |-> NoExpiry]
    ELSE [duration |-> d, expires |-> IF DurationToMs(d) = NoExpiry THEN NoExpiry ELSE expires]

NormaliseBotPresence(status, d, expires, text) ==
    LET w == NormaliseStatusWindow(status, d, expires)
    IN  [status |-> status, duration |-> w.duration, expires |-> w.expires, text |-> text]

IsStatusWindowExpired(r, t) == r.duration # "none" /\ r.expires # NoExpiry /\ r.expires <= t

(* Mutant: the stored status is what is sent.                              *)
StoredStatus(r, t) == r.status

(* effectiveBotStatus: a window that is over reads as online.              *)
EffectiveBotStatus(r, t) == IF IsStatusWindowExpired(r, t) THEN "online" ELSE r.status

Desired(r, t) == [status |-> EffectiveBotStatus(r, t), text |-> r.text]

TypeOK ==
    /\ now \in 1 .. MaxTime
    /\ row \in Rows
    /\ saver \in [Savers -> Rows \cup {Absent}]
    /\ sync \in [Runs -> Shows \cup {Idle, Reading}]
    /\ sent \in Shows \cup {Absent} /\ shown \in Shows \cup {Absent}
    /\ ready \in BOOLEAN /\ saves \in 0 .. MaxSaves /\ mishaps \in 0 .. MaxMishaps

Init ==
    /\ now = 1 /\ row = DefaultPresence
    /\ saver = [s \in Savers |-> Absent]
    /\ sync = [k \in Runs |-> Idle]
    /\ sent = Absent /\ ready = FALSE /\ shown = Absent
    /\ saves = 0 /\ mishaps = 0

Mishap == mishaps < MaxMishaps /\ mishaps' = mishaps + 1

-----------------------------------------------------------------------------
(* The dashboard.                                                          *)

(* statusExpiryFor: a window that is still open keeps its end.             *)
StatusExpiryFor(status, d, previousExpiry, t) ==
    CASE ~Timed(status) \/ ~IsDuration(d)                   -> NoExpiry
      [] DurationToMs(d) = NoExpiry                         -> NoExpiry
      [] previousExpiry # NoExpiry /\ previousExpiry > t    -> previousExpiry
      [] OTHER                                              -> t + DurationToMs(d)

(* What the body leaves out keeps its stored value; an empty text is the   *)
(* default one.                                                            *)
Merge(previous, body, t) ==
    LET status == IF body.status = "kept" THEN previous.status ELSE body.status
        d      == IF body.duration = "kept" THEN previous.duration ELSE body.duration
        text   == IF body.text = "kept" THEN previous.text ELSE body.text
    IN  NormaliseBotPresence(status, d, StatusExpiryFor(status, d, previous.expires, t), text)

(* The screen sends the draft: a duration goes with a status, and one that *)
(* has no window is sent without.                                          *)
Bodies == [status : Statuses \cup {"kept"}, duration : DOMAIN Length \cup {"forever", "none", "kept"},
           text : Texts \cup {"kept"}]

PutReads(s, body) ==
    /\ saver[s] = Absent /\ saves < MaxSaves
    /\ saves' = saves + 1
    /\ saver' = [saver EXCEPT ![s] = Merge(row, body, now)]
    /\ UNCHANGED <<now, row, sync, sent, ready, shown, mishaps>>

(* saveBotPresence: the single row is upserted whole.                      *)
PutStores(s) ==
    /\ saver[s] # Absent
    /\ row' = saver[s]
    /\ saver' = [saver EXCEPT ![s] = Absent]
    /\ UNCHANGED <<now, sync, sent, ready, shown, saves, mishaps>>

PutFails(s) ==
    /\ saver[s] # Absent /\ Mishap
    /\ saver' = [saver EXCEPT ![s] = Absent]
    /\ UNCHANGED <<now, row, sync, sent, ready, shown, saves>>

-----------------------------------------------------------------------------
(* The bot: a run reads the row, compares and sends.                       *)

Starts(k) ==
    /\ sync[k] = Idle
    /\ sync' = [sync EXCEPT ![k] = Reading]
    /\ UNCHANGED <<now, row, saver, sent, ready, shown, saves, mishaps>>

(* The answer to loadBotIdentity, and what it means at this instant: the   *)
(* comparison and the send follow without a wait; applyBotPresence refuses *)
(* while the gateway is not ready.  The row may have been read before the  *)
(* last save; that is the choice of when the answer was taken.             *)
Reads(k) ==
    /\ sync[k] = Reading
    /\ sync' = [sync EXCEPT ![k] = Desired(row, now)]
    /\ UNCHANGED <<now, row, saver, sent, ready, shown, saves, mishaps>>

ReadFails(k) ==
    /\ sync[k] = Reading /\ Mishap
    /\ sync' = [sync EXCEPT ![k] = Idle]
    /\ UNCHANGED <<now, row, saver, sent, ready, shown, saves>>

(* Mutant: what the gateway refused is remembered as sent.                 *)
SendsAndRemembers(k) ==
    /\ sync[k] \in Shows
    /\ sent' = sync[k]
    /\ shown' = IF sync[k] # sent /\ ready THEN sync[k] ELSE shown
    /\ sync' = [sync EXCEPT ![k] = Idle]
    /\ UNCHANGED <<now, row, saver, ready, saves, mishaps>>

Sends(k) ==
    /\ sync[k] \in Shows
    /\ IF sync[k] # sent /\ ready
       THEN sent' = sync[k] /\ shown' = sync[k]
       ELSE UNCHANGED <<sent, shown>>
    /\ sync' = [sync EXCEPT ![k] = Idle]
    /\ UNCHANGED <<now, row, saver, ready, saves, mishaps>>

(* ClientReady, which is followed by a run.                                *)
Connects ==
    /\ ~ready /\ ready' = TRUE
    /\ UNCHANGED <<now, row, saver, sync, sent, shown, saves, mishaps>>

(* The connection is lost; Discord keeps showing what a session sent that  *)
(* is resumed.                                                             *)
Drops ==
    /\ ready /\ Mishap /\ ready' = FALSE
    /\ UNCHANGED <<now, row, saver, sync, sent, shown, saves>>

Restarts ==
    /\ Mishap
    /\ ready' = FALSE /\ sent' = Absent /\ shown' = Absent
    /\ sync' = [k \in Runs |-> Idle]
    /\ UNCHANGED <<now, row, saver, saves>>

Tick ==
    /\ now < MaxTime /\ now' = now + 1
    /\ UNCHANGED <<row, saver, sync, sent, ready, shown, saves, mishaps>>

Next ==
    \/ \E s \in Savers : (\E body \in Bodies : PutReads(s, body)) \/ PutStores(s) \/ PutFails(s)
    \/ \E k \in Runs : Starts(k) \/ Reads(k) \/ ReadFails(k) \/ Sends(k)
    \/ Connects \/ Drops \/ Restarts \/ Tick

(* The bot logs in after a start, its timer fires every fifteen seconds    *)
(* and the database answers; a save under way comes to an end.             *)
Spec ==
    /\ Init /\ [][Next]_vars
    /\ WF_vars(Connects) /\ WF_vars(\E k \in Runs : Starts(k))
    /\ \A k \in Runs : WF_vars(Reads(k)) /\ WF_vars(Sends(k))
    /\ \A s \in Savers : WF_vars(PutStores(s))

-----------------------------------------------------------------------------
(* Whatever runs overlap, fail or are cut off by a restart, in the end the *)
(* bot shows what the row asks for at that time, a window that has closed  *)
(* included ("only remember a presence the gateway actually took, so a     *)
(* failed call is retried", presence-sync.ts).                             *)
PresenceSettles == <>[](shown = Desired(row, now))
=============================================================================
