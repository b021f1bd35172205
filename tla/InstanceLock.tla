----------------------------- MODULE InstanceLock ----------------------------
(***************************************************************************)
(* The single-instance lock of the bot                                     *)
(* (apps/bot/src/runtime/supervisor.ts): a file created with open("wx"),   *)
(* filled by a second system call, reclaimed when its owner is dead and    *)
(* removed by its owner on shutdown.  Each system call is a step, since    *)
(* starters are separate processes.  A process is one start of the bot;    *)
(* its pid and startedAt are its identity.                                 *)
(***************************************************************************)
EXTENDS Integers, FiniteSets

CONSTANTS
    Procs,          \* starts of the bot
    Ancestor,       \* a bot that died before the first of them
    NoFile,
    MaxAttempts,    \* MAX_ATTEMPTS
    Grace,          \* WRITE_GRACE_MS / RETRY_DELAY_MS: retries an empty file is waited for
    MaxStarting,    \* bound: starters acquiring at the same time
    MaxReclaiming,  \* bound: of these, while the file may be stale
    MaxCrashes,     \* bound: processes that die without releasing
    StaleAtBoot     \* whether the ancestor may have left its file behind

ASSUME AncestorAssumption == Ancestor \notin Procs
ASSUME NoFileAssumption   == NoFile \notin [by : Procs \cup {Ancestor}, written : BOOLEAN]
ASSUME GraceAssumption    == Grace \in Nat \ {0} /\ MaxAttempts \in Nat /\ Grace < MaxAttempts
ASSUME BoundsAssumption   == /\ MaxStarting \in Nat /\ MaxReclaiming \in Nat
                             /\ MaxCrashes \in Nat /\ StaleAtBoot \in BOOLEAN

VARIABLES
    file,        \* the lock file: who created it, and whether the record is in it
    emptyFor,    \* how long it has been empty, in retries, up to Grace
    pc,          \* where each process stands
    seen,        \* the snapshot each process decided on
    attempts,    \* turns of the acquisition loop
    crashes

vars == <<file, emptyFor, pc, seen, attempts, crashes>>

Files   == [by : Procs \cup {Ancestor}, written : BOOLEAN]
Trying  == {"open", "write", "read", "sleep", "confirm", "unlink"}
Owning  == {"owner", "release"}
Ended   == {"refused", "gaveUp", "gone"}

TypeOK ==
    /\ file \in Files \cup {NoFile}
    /\ emptyFor \in 0 .. Grace
    /\ pc \in [Procs -> {"off"} \cup Trying \cup Owning \cup Ended]
    /\ seen \in [Procs -> Files \cup {NoFile}]
    /\ attempts \in [Procs -> 0 .. MaxAttempts]
    /\ \A p \in Procs : pc[p] \in {"off"} \cup Trying => attempts[p] < MaxAttempts
    /\ crashes \in 0 .. MaxCrashes

(* An ancestor may have crashed before or after it wrote its record.       *)
Init ==
    /\ \/ file = NoFile
       \/ StaleAtBoot /\ \E w \in BOOLEAN : file = [by |-> Ancestor, written |-> w]
    /\ emptyFor = 0
    /\ pc = [p \in Procs |-> "off"]
    /\ seen = [p \in Procs |-> NoFile]
    /\ attempts = [p \in Procs |-> 0]
    /\ crashes = 0

Starting == {p \in Procs : pc[p] \in Trying}

Record(p) == [by |-> p, written |-> TRUE]

(* Mutant: a process the prober may not signal (EPERM) reads as dead.      *)
IsLiveOwnerSignallable(q) == q \in Procs /\ pc[q] \in Trying

(* isLiveOwner: the pid is alive, is a Node process, and did not start     *)
(* after the record was written; a recycled pid fails the last test.       *)
IsLiveOwner(q) == q \in Procs /\ pc[q] \in Trying \cup Owning

MayBeStale == file # NoFile /\ ~IsLiveOwner(file.by)

Start(p) ==
    /\ pc[p] = "off"
    /\ Cardinality(Starting) < IF MayBeStale THEN MaxReclaiming ELSE MaxStarting
    /\ pc' = [pc EXCEPT ![p] = "open"]
    /\ UNCHANGED <<file, emptyFor, seen, attempts, crashes>>

(* The next turn of the loop, or the error behind it.                      *)
NextAttempt(p) ==
    /\ attempts' = [attempts EXCEPT ![p] = @ + 1]
    /\ pc' = [pc EXCEPT ![p] = IF attempts[p] + 1 < MaxAttempts THEN "open" ELSE "gaveUp"]

(* openSync(path, "wx") creates the file or fails with EEXIST.             *)
Open(p) ==
    /\ pc[p] = "open"
    /\ \/ /\ file = NoFile
          /\ file' = [by |-> p, written |-> FALSE]
          /\ emptyFor' = 0
          /\ pc' = [pc EXCEPT ![p] = "write"]
       \/ /\ file # NoFile
          /\ pc' = [pc EXCEPT ![p] = "read"]
          /\ UNCHANGED <<file, emptyFor>>
    /\ UNCHANGED <<seen, attempts, crashes>>

(* The record goes to the inode p created, which another starter may have  *)
(* unlinked meanwhile; p becomes an owner either way.                      *)
Write(p) ==
    /\ pc[p] = "write"
    /\ file' = IF file = [by |-> p, written |-> FALSE] THEN Record(p) ELSE file
    /\ pc' = [pc EXCEPT ![p] = "owner"]
    /\ UNCHANGED <<emptyFor, seen, attempts, crashes>>

(* Mutant: an empty file is taken for stale at once.                       *)
BeingWrittenNever == FALSE

(* Mutant: an empty file is waited for whatever its age.                   *)
BeingWrittenForever == ~file.written

BeingWritten == ~file.written /\ emptyFor < Grace

(* readSnapshot and the decision on it.                                    *)
Read(p) ==
    /\ pc[p] = "read"
    /\ \/ /\ file = NoFile
          /\ NextAttempt(p)
          /\ UNCHANGED seen
       \/ /\ file # NoFile
          /\ \/ /\ file.written /\ IsLiveOwner(file.by)
                /\ pc' = [pc EXCEPT ![p] = "refused"]
                /\ UNCHANGED seen
             \/ /\ BeingWritten
                /\ pc' = [pc EXCEPT ![p] = "sleep"]
                /\ UNCHANGED seen
             \/ /\ ~(file.written /\ IsLiveOwner(file.by))
                /\ ~BeingWritten
                /\ seen' = [seen EXCEPT ![p] = file]
                /\ pc' = [pc EXCEPT ![p] = "confirm"]
          /\ UNCHANGED attempts
    /\ UNCHANGED <<file, emptyFor, crashes>>

(* A starter that is still alive writes its record within the grace.       *)
WriterIsBusy == file # NoFile /\ file.by \in Procs /\ pc[file.by] = "write"

Sleep(p) ==
    /\ pc[p] = "sleep"
    /\ ~WriterIsBusy
    /\ emptyFor' = IF file # NoFile /\ ~file.written /\ emptyFor < Grace
                   THEN emptyFor + 1 ELSE emptyFor
    /\ NextAttempt(p)
    /\ UNCHANGED <<file, seen, crashes>>

(* The second readSnapshot: content and mtime must be those seen before.   *)
Confirm(p) ==
    /\ pc[p] = "confirm"
    /\ \/ /\ file = seen[p]
          /\ pc' = [pc EXCEPT ![p] = "unlink"]
          /\ UNCHANGED attempts
       \/ /\ file # seen[p]
          /\ NextAttempt(p)
    /\ UNCHANGED <<file, emptyFor, seen, crashes>>

(* Mutant: the stale file stays and the turn is not counted.               *)
UnlinkNothing(p) ==
    /\ pc[p] = "unlink"
    /\ pc' = [pc EXCEPT ![p] = "open"]
    /\ UNCHANGED <<file, emptyFor, seen, attempts, crashes>>

(* unlinkSync removes whatever has that path by now.                       *)
Unlink(p) ==
    /\ pc[p] = "unlink"
    /\ file' = NoFile
    /\ NextAttempt(p)
    /\ UNCHANGED <<emptyFor, seen, crashes>>

(* releaseOwnedLock: read the record, remove the file if it is one's own.  *)
Release(p) ==
    /\ pc[p] = "owner"
    /\ pc' = [pc EXCEPT ![p] = IF file = Record(p) THEN "release" ELSE "gone"]
    /\ UNCHANGED <<file, emptyFor, seen, attempts, crashes>>

ReleaseUnlink(p) ==
    /\ pc[p] = "release"
    /\ file' = NoFile
    /\ pc' = [pc EXCEPT ![p] = "gone"]
    /\ UNCHANGED <<emptyFor, seen, attempts, crashes>>

Crash(p) ==
    /\ pc[p] \in Trying \cup Owning
    /\ crashes < MaxCrashes
    /\ Cardinality(Starting \ {p}) <= MaxReclaiming
    /\ crashes' = crashes + 1
    /\ pc' = [pc EXCEPT ![p] = "gone"]
    /\ UNCHANGED <<file, emptyFor, seen, attempts>>

Acquire(p) ==
    Open(p) \/ Write(p) \/ Read(p) \/ Sleep(p) \/ Confirm(p) \/ Unlink(p)

Next == \E p \in Procs :
            Start(p) \/ Acquire(p) \/ Release(p) \/ ReleaseUnlink(p) \/ Crash(p)

(* A process that is starting or releasing is scheduled by the system.     *)
Fairness == \A p \in Procs : WF_vars(Acquire(p)) /\ WF_vars(ReleaseUnlink(p))

Spec == Init /\ [][Next]_vars /\ Fairness

-----------------------------------------------------------------------------
(* Properties                                                              *)

(* "the supervisor refuses to start a second copy": two processes never    *)
(* share the token.                                                        *)
AtMostOneOwner == Cardinality({p \in Procs : pc[p] \in Owning}) <= 1

(* The lock of a running owner is on disk under its name, so a later       *)
(* starter is refused: nobody else's cleanup or late write took it.        *)
OwnerHoldsTheFile == \A p \in Procs : pc[p] \in Owning => file = Record(p)

(* While its owner is alive a record is only removed by that owner.        *)
LiveRecordUntouched ==
    [][\A q \in Procs :
          (file = Record(q) /\ pc[q] \in Owning /\ file' # file) => pc[q] = "release"]_vars

(* The file a crash leaves, empty or written, never makes a start exhaust  *)
(* its attempts: the empty file is waited out within them.                 *)
NeverWedged == \A p \in Procs : pc[p] # "gaveUp"

(* Every start comes to an end: the process owns the lock, was refused or  *)
(* died.                                                                   *)
EveryStartDecides == \A p \in Procs : pc[p] \in Trying ~> pc[p] \notin Trying
=============================================================================
