---------------------------- MODULE MCStartsAndReads ---------------------------
(***************************************************************************)
(* Three protocols of the processes with their surroundings, one scene at  *)
(* a time: starts of the bot over the lock file (InstanceLock, extended    *)
(* here), the dashboard's screens over the role list (GuildReadCache), and *)
(* the bot's presence (Presence).  They share no state; those that are not *)
(* in the scene stand still, and are owed no fairness.                     *)
(***************************************************************************)
EXTENDS InstanceLock, TLC

CONSTANTS
    Screens, Depth, Ttl, Call, Writers, CanFail,
    MaxTime, MaxVersion, NoEntry, NoFlight, NoAnswer, Failed,
    Absent, Idle, Reading, Savers, Runs, MaxInstants, MaxSaves, MaxMishaps

VARIABLES
    scene,
    now, version, replacedAt, entry, flight, waiting, answer, writer, acked, floor, overtaken, lastLoad,
    instant, row, saver, sync, sent, ready, shown, saves, mishaps

Roles == INSTANCE GuildReadCache
Shows == INSTANCE Presence WITH now <- instant, MaxTime <- MaxInstants

lock  == vars
reads == <<now, version, replacedAt, entry, flight, waiting, answer, writer, acked, floor, overtaken, lastLoad>>
shows == <<instant, row, saver, sync, sent, ready, shown, saves, mishaps>>
all   == <<scene, lock, reads, shows>>

-----------------------------------------------------------------------------
StartsAndReadsInit ==
    /\ scene \in {"lock", "reads", "shows"}
    /\ Init /\ Roles!Init /\ Shows!Init
    /\ scene = "lock" \/ file = NoFile

Lock(A)  == scene = "lock" /\ A /\ UNCHANGED <<scene, reads, shows>>
Reads(A) == scene = "reads" /\ A /\ UNCHANGED <<scene, lock, shows>>
Show(A)  == scene = "shows" /\ A /\ UNCHANGED <<scene, lock, reads>>

StartsAndReadsNext == Lock(Next) \/ Reads(Roles!Next) \/ Show(Shows!Next)

(* The fairness of each part, within its scene.                            *)
StartsAndReadsSpec ==
    /\ StartsAndReadsInit /\ [][StartsAndReadsNext]_all
    /\ \A p \in Procs : WF_all(Lock(Acquire(p))) /\ WF_all(Lock(ReleaseUnlink(p)))
    /\ WF_all(Reads(Roles!Discord))
    /\ \A l \in 1 .. Depth : WF_all(Reads(Roles!Ends(l)))
    /\ WF_all(Show(Shows!Connects)) /\ WF_all(Show(\E k \in Runs : Shows!Starts(k)))
    /\ \A k \in Runs : WF_all(Show(Shows!Reads(k))) /\ WF_all(Show(Shows!Sends(k)))
    /\ \A s \in Savers : WF_all(Show(Shows!PutStores(s)))

-----------------------------------------------------------------------------
(* Whoever asks is answered, as GuildReadCache states it.                  *)
EveryAskAnswered == Roles!EveryAskAnswered

(* In the end the bot shows what its row asks for, as Presence states it.  *)
PresenceSettles == <>[](scene = "shows" => shown = Shows!Desired(row, instant))
=============================================================================
