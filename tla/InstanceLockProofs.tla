-------------------------- MODULE InstanceLockProofs -------------------------
(* Proofs about InstanceLock, for any number of simultaneous starters: the *)
(* record of an owner stays, and nobody runs out of attempts.              *)
EXTENDS InstanceLock, FiniteSetTheorems, TLAPS

(* Without a crash, before or during the run, the file belongs to whoever  *)
(* is writing it or owns the lock, and nobody finds it stale.              *)
FileOfItsOwner ==
    /\ file # NoFile => /\ file.by \in Procs
                        /\ pc[file.by] \in IF file.written THEN Owning ELSE {"write"}
    /\ \A p \in Procs : pc[p] = "write" => file = [by |-> p, written |-> FALSE]
    /\ \A p \in Procs : pc[p] \in Owning => file = Record(p)
    /\ \A p \in Procs : pc[p] \notin {"confirm", "unlink"}
    /\ file # NoFile /\ ~file.written => emptyFor = 0

NoCrashInv == TypeOK /\ FileOfItsOwner /\ crashes = 0

LEMMA InitNoCrashInv == Init /\ ~StaleAtBoot => NoCrashInv
BY GraceAssumption, BoundsAssumption
DEF Init, NoCrashInv, TypeOK, FileOfItsOwner, Owning, Trying, Ended

LEMMA OpenNoCrashInv ==
    ASSUME NoCrashInv, NEW p \in Procs, Open(p)
    PROVE  NoCrashInv'
<1> DEFINE created == [by |-> p, written |-> FALSE]
<1>1. created \in Files /\ created # NoFile
  <2>1. created \in [by : Procs \cup {Ancestor}, written : BOOLEAN]
    OBVIOUS
  <2>2. QED
    BY <2>1, NoFileAssumption DEF Files
<1>2. CASE file = NoFile
  <2>1. file' = created /\ emptyFor' = 0 /\ pc' = [pc EXCEPT ![p] = "write"]
    BY <1>2 DEF Open
  <2>2. TypeOK'
    BY <1>1, <2>1, GraceAssumption DEF NoCrashInv, TypeOK, Open, Trying
  <2>3. \A q \in Procs : pc[q] \notin Owning \cup {"write"}
    <3>1. \A q \in Procs : /\ Record(q) \in [by : Procs \cup {Ancestor}, written : BOOLEAN]
                            /\ [by |-> q, written |-> FALSE]
                                  \in [by : Procs \cup {Ancestor}, written : BOOLEAN]
      BY DEF Record
    <3>2. QED
      BY <1>2, <3>1, NoFileAssumption DEF NoCrashInv, FileOfItsOwner
  <2>4. FileOfItsOwner'
    BY <2>1, <2>3 DEF NoCrashInv, TypeOK, FileOfItsOwner, Owning
  <2>5. QED
    BY <2>2, <2>4 DEF NoCrashInv, Open
<1>3. CASE file # NoFile
  <2>1. /\ pc[p] = "open" /\ pc' = [pc EXCEPT ![p] = "read"]
        /\ UNCHANGED <<file, emptyFor, seen, attempts, crashes>>
    BY <1>3 DEF Open
  <2>2. TypeOK'
    BY <2>1 DEF NoCrashInv, TypeOK, Trying
  <2>3. FileOfItsOwner'
    BY <2>1 DEF NoCrashInv, TypeOK, FileOfItsOwner, Owning, Record
  <2>4. QED
    BY <2>1, <2>2, <2>3 DEF NoCrashInv
<1>4. QED
  BY <1>2, <1>3

LEMMA WriteNoCrashInv ==
    ASSUME NoCrashInv, NEW p \in Procs, Write(p)
    PROVE  NoCrashInv'
<1>1. file = [by |-> p, written |-> FALSE]
  BY DEF NoCrashInv, FileOfItsOwner, Write
<1>2. file' = Record(p) /\ pc' = [pc EXCEPT ![p] = "owner"]
  BY <1>1 DEF Write
<1>3. Record(p) \in Files /\ Record(p) # NoFile
  <2>1. Record(p) \in [by : Procs \cup {Ancestor}, written : BOOLEAN]
    BY DEF Record
  <2>2. QED
    BY <2>1, NoFileAssumption DEF Files
<1>4. TypeOK'
  BY <1>2, <1>3 DEF NoCrashInv, TypeOK, Write, Owning, Trying
<1>5. \A q \in Procs : q # p => pc[q] \notin Owning \cup {"write"}
  BY <1>1 DEF NoCrashInv, FileOfItsOwner, Record
<1>6. Record(p).by = p /\ Record(p).written
  BY DEF Record
<1>7. FileOfItsOwner'
  BY <1>2, <1>3, <1>5, <1>6 DEF NoCrashInv, TypeOK, FileOfItsOwner, Owning
<1>8. QED
  BY <1>4, <1>7 DEF NoCrashInv, Write

(* A file that is there is live or being written.                          *)
LEMMA ReadNoCrashInv ==
    ASSUME NoCrashInv, NEW p \in Procs, Read(p)
    PROVE  NoCrashInv'
<1>1. file # NoFile => (file.written /\ IsLiveOwner(file.by)) \/ BeingWritten
  BY GraceAssumption
  DEF NoCrashInv, FileOfItsOwner, IsLiveOwner, BeingWritten, TypeOK, Files
<1>2. /\ \/ pc' = [pc EXCEPT ![p] = "refused"] /\ UNCHANGED attempts
         \/ pc' = [pc EXCEPT ![p] = "sleep"] /\ UNCHANGED attempts
         \/ NextAttempt(p)
      /\ UNCHANGED <<file, emptyFor, seen, crashes>>
      /\ pc[p] = "read"
  BY <1>1 DEF Read
<1>3. TypeOK'
  BY <1>2, GraceAssumption DEF NoCrashInv, TypeOK, NextAttempt, Trying, Ended
<1>4. FileOfItsOwner'
  BY <1>2 DEF NoCrashInv, TypeOK, FileOfItsOwner, NextAttempt, Owning, Record
<1>5. QED
  BY <1>2, <1>3, <1>4 DEF NoCrashInv

LEMMA SleepNoCrashInv ==
    ASSUME NoCrashInv, NEW p \in Procs, Sleep(p)
    PROVE  NoCrashInv'
<1>1. ~(file # NoFile /\ ~file.written)
  BY DEF NoCrashInv, FileOfItsOwner, Sleep, WriterIsBusy
<1>2. emptyFor' = emptyFor
  BY <1>1 DEF Sleep
<1>3. TypeOK'
  BY <1>2, GraceAssumption DEF NoCrashInv, TypeOK, Sleep, NextAttempt, Trying, Ended
<1>4. FileOfItsOwner'
  BY <1>2 DEF NoCrashInv, TypeOK, FileOfItsOwner, Sleep, NextAttempt, Owning, Record
<1>5. QED
  BY <1>3, <1>4 DEF NoCrashInv, Sleep

LEMMA ReleaseNoCrashInv ==
    ASSUME NoCrashInv, NEW p \in Procs, Release(p)
    PROVE  NoCrashInv'
<1>1. pc' = [pc EXCEPT ![p] = "release"]
  BY DEF NoCrashInv, FileOfItsOwner, Release, Owning
<1>2. TypeOK'
  BY <1>1 DEF NoCrashInv, TypeOK, Release, Owning, Trying
<1>3. FileOfItsOwner'
  BY <1>1 DEF NoCrashInv, TypeOK, FileOfItsOwner, Release, Owning, Record
<1>4. QED
  BY <1>2, <1>3 DEF NoCrashInv, Release

LEMMA ReleaseUnlinkNoCrashInv ==
    ASSUME NoCrashInv, NEW p \in Procs, ReleaseUnlink(p)
    PROVE  NoCrashInv'
<1>1. file = Record(p)
  BY DEF NoCrashInv, FileOfItsOwner, ReleaseUnlink, Owning
<1>2. \A q \in Procs : q # p => pc[q] \notin Owning \cup {"write"}
  BY <1>1 DEF NoCrashInv, FileOfItsOwner, Record
<1>3. TypeOK'
  BY DEF NoCrashInv, TypeOK, ReleaseUnlink, Ended, Trying
<1>4. FileOfItsOwner'
  BY <1>2 DEF NoCrashInv, TypeOK, FileOfItsOwner, ReleaseUnlink, Owning, Record
<1>5. QED
  BY <1>3, <1>4 DEF NoCrashInv, ReleaseUnlink

LEMMA StartNoCrashInv ==
    ASSUME NoCrashInv, NEW p \in Procs, Start(p)
    PROVE  NoCrashInv'
<1>1. TypeOK'
  BY DEF NoCrashInv, TypeOK, Start, Trying
<1>2. FileOfItsOwner'
  BY DEF NoCrashInv, TypeOK, FileOfItsOwner, Start, Owning, Record
<1>3. QED
  BY <1>1, <1>2 DEF NoCrashInv, Start

LEMMA NextNoCrashInv == MaxCrashes = 0 /\ NoCrashInv /\ [Next]_vars => NoCrashInv'
<1> SUFFICES ASSUME MaxCrashes = 0, NoCrashInv, [Next]_vars PROVE NoCrashInv'
  OBVIOUS
<1>1. CASE UNCHANGED vars
  BY <1>1 DEF NoCrashInv, TypeOK, FileOfItsOwner, vars
<1>2. ASSUME NEW p \in Procs, Acquire(p) PROVE NoCrashInv'
  <2>1. ~Confirm(p) /\ ~Unlink(p)
    BY DEF NoCrashInv, FileOfItsOwner, Confirm, Unlink
  <2>2. QED
    BY <1>2, <2>1, OpenNoCrashInv, WriteNoCrashInv, ReadNoCrashInv, SleepNoCrashInv DEF Acquire
<1>3. \A p \in Procs : ~Crash(p)
  BY DEF NoCrashInv, Crash
<1>4. QED
  BY <1>1, <1>2, <1>3, StartNoCrashInv, ReleaseNoCrashInv, ReleaseUnlinkNoCrashInv DEF Next

(* Where no process dies without releasing, any number of starters may     *)
(* race: an owner's record stays on disk until that owner removes it.      *)
THEOREM OwnerKeepsItsRecord ==
    ASSUME MaxCrashes = 0, ~StaleAtBoot
    PROVE  Spec => []OwnerHoldsTheFile
<1>1. NoCrashInv => OwnerHoldsTheFile
  BY DEF NoCrashInv, FileOfItsOwner, OwnerHoldsTheFile
<1>2. Init => NoCrashInv
  BY InitNoCrashInv
<1>3. NoCrashInv /\ [Next]_vars => NoCrashInv'
  BY NextNoCrashInv
<1>4. QED
  BY <1>1, <1>2, <1>3, PTL DEF Spec

-----------------------------------------------------------------------------
(* Crashes, where starters reclaim one at a time                           *)

(* A file that is not stale is being written or is owned, and whoever made *)
(* it has been started.                                                    *)
FileHasAMaker ==
    /\ file # NoFile /\ IsLiveOwner(file.by)
          => pc[file.by] \in IF file.written THEN Owning ELSE {"write"}
    /\ file # NoFile /\ file.by \in Procs => pc[file.by] # "off"
    /\ \A p \in Procs : pc[p] = "write" => file = [by |-> p, written |-> FALSE]
    /\ \A p \in Procs : pc[p] \in Owning => file = Record(p)

(* A file was waited for only if nobody is writing it.                     *)
WaitedInVain ==
    file # NoFile /\ ~file.written /\ emptyFor > 0 => ~IsLiveOwner(file.by)

(* Whoever is about to remove a stale file is alone with it, so the file   *)
(* it removes is the one it has read.                                      *)
AloneWithStale ==
    /\ MayBeStale => \A p, q \in Starting : p = q
    /\ \A p \in Procs : pc[p] \in {"confirm", "unlink"} => MayBeStale /\ seen[p] = file

ReclaimInv ==
    TypeOK /\ IsFiniteSet(Starting) /\ FileHasAMaker /\ WaitedInVain /\ AloneWithStale

(* One process moves, and the others stand where they stood.               *)
LEMMA OneMoves ==
    ASSUME TypeOK, IsFiniteSet(Starting), NEW p \in Procs, NEW to,
           pc' = [pc EXCEPT ![p] = to]
    PROVE  /\ pc'[p] = to /\ \A q \in Procs \ {p} : pc'[q] = pc[q]
           /\ Starting' = IF to \in Trying THEN Starting \cup {p} ELSE Starting \ {p}
           /\ IsFiniteSet(Starting')
           /\ \A q \in Procs \ {p} : IsLiveOwner(q)' <=> IsLiveOwner(q)
           /\ IsLiveOwner(p)' <=> to \in Trying \cup Owning
<1>1. pc'[p] = to /\ \A q \in Procs \ {p} : pc'[q] = pc[q]
  BY DEF TypeOK
<1>2. Starting' = IF to \in Trying THEN Starting \cup {p} ELSE Starting \ {p}
  BY <1>1 DEF Starting
<1>3. IsFiniteSet(Starting')
  BY <1>2, FS_AddElement, FS_RemoveElement
<1>4. QED
  BY <1>1, <1>2, <1>3 DEF IsLiveOwner

(* The records a process makes are files, and no file is absent.           *)
LEMMA FilesAreThere ==
    /\ NoFile \notin Files
    /\ \A p \in Procs : /\ [by |-> p, written |-> FALSE] \in Files
                         /\ Record(p) \in Files
                         /\ Record(p).by = p /\ Record(p).written
<1>1. \A p \in Procs : /\ [by |-> p, written |-> FALSE] \in Files
                       /\ Record(p) \in Files
  BY DEF Files, Record
<1>2. NoFile \notin Files
  BY NoFileAssumption DEF Files
<1>3. QED
  BY <1>1, <1>2 DEF Record

LEMMA StepsApart == Trying \cap Owning = {}
BY DEF Trying, Owning

(* A process that moves on while it tries, has not made the file that      *)
(* stands, and leaves the file alone.                                      *)
LEMMA TryingOn ==
    ASSUME ReclaimInv, NEW p \in Procs, NEW to,
           pc[p] \in Trying, pc[p] # "write",
           to \in {"open", "read", "sleep", "refused", "gaveUp"},
           pc' = [pc EXCEPT ![p] = to],
           file' = file, UNCHANGED seen,
           file # NoFile /\ ~file.written /\ emptyFor' > 0 => ~IsLiveOwner(file.by)
    PROVE  IsFiniteSet(Starting') /\ FileHasAMaker' /\ WaitedInVain' /\ AloneWithStale'
<1>1. /\ pc'[p] = to /\ \A q \in Procs \ {p} : pc'[q] = pc[q]
      /\ Starting' = IF to \in Trying THEN Starting \cup {p} ELSE Starting \ {p}
      /\ IsFiniteSet(Starting')
      /\ \A q \in Procs \ {p} : IsLiveOwner(q)' <=> IsLiveOwner(q)
  BY OneMoves DEF ReclaimInv
<1>2. p \in Starting /\ Starting' \subseteq Starting
  BY <1>1 DEF Starting
<1>3. IsLiveOwner(p)
  BY DEF IsLiveOwner
<1>4. file # NoFile => file.by # p
  BY <1>3, StepsApart DEF ReclaimInv, FileHasAMaker
<1>5. to \notin Owning \cup {"write", "off", "confirm", "unlink"}
  BY DEF Owning
<1>6. file # NoFile => (IsLiveOwner(file.by)' <=> IsLiveOwner(file.by))
  BY <1>1, <1>4 DEF IsLiveOwner
<1>7. MayBeStale' <=> MayBeStale
  BY <1>6 DEF MayBeStale
<1>8. FileHasAMaker'
  BY <1>1, <1>4, <1>5, <1>6 DEF ReclaimInv, FileHasAMaker, IsLiveOwner, Record
<1>9. WaitedInVain'
  BY <1>6 DEF WaitedInVain
<1>10. AloneWithStale'
  BY <1>1, <1>2, <1>5, <1>7 DEF ReclaimInv, AloneWithStale
<1>11. QED
  BY <1>1, <1>8, <1>9, <1>10

LEMMA NextAttemptMoves ==
    ASSUME TypeOK, NEW p \in Procs, pc[p] \in Trying, NextAttempt(p)
    PROVE  /\ \E to \in {"open", "gaveUp"} : pc' = [pc EXCEPT ![p] = to]
           /\ attempts' \in [Procs -> 0 .. MaxAttempts]
           /\ \A q \in Procs : pc'[q] \in {"off"} \cup Trying => attempts'[q] < MaxAttempts
           /\ pc' \in [Procs -> {"off"} \cup Trying \cup Owning \cup Ended]
<1>1. attempts[p] \in 0 .. MaxAttempts /\ attempts[p] < MaxAttempts
  BY DEF TypeOK
<1>2. attempts[p] + 1 \in 0 .. MaxAttempts
  BY <1>1, GraceAssumption
<1>3. attempts' = [attempts EXCEPT ![p] = attempts[p] + 1]
  BY DEF NextAttempt
<1>4. QED
  BY <1>1, <1>2, <1>3 DEF NextAttempt, TypeOK, Trying, Ended

LEMMA InitReclaimInv == Init => ReclaimInv
<1> SUFFICES ASSUME Init PROVE ReclaimInv
  OBVIOUS
<1>1. TypeOK
  <2>1. \A w \in BOOLEAN : [by |-> Ancestor, written |-> w] \in Files
    BY DEF Files
  <2>2. file \in Files \cup {NoFile}
    BY <2>1 DEF Init
  <2>3. QED
    BY <2>2, GraceAssumption, BoundsAssumption DEF Init, TypeOK
<1>2. Starting = {}
  BY DEF Init, Starting, Trying
<1>3. FileHasAMaker
  BY AncestorAssumption DEF Init, FileHasAMaker, IsLiveOwner, Owning
<1>4. WaitedInVain
  BY DEF Init, WaitedInVain
<1>5. AloneWithStale
  BY <1>2 DEF Init, AloneWithStale
<1>6. QED
  BY <1>1, <1>2, <1>3, <1>4, <1>5, FS_EmptySet DEF ReclaimInv

LEMMA StartReclaimInv ==
    ASSUME MaxReclaiming <= 1, ReclaimInv, NEW p \in Procs, Start(p)
    PROVE  ReclaimInv'
<1>1. /\ pc[p] = "off" /\ pc' = [pc EXCEPT ![p] = "open"]
      /\ Cardinality(Starting) < IF MayBeStale THEN MaxReclaiming ELSE MaxStarting
      /\ UNCHANGED <<file, emptyFor, seen, attempts, crashes>>
  BY DEF Start
<1>2. /\ pc'[p] = "open" /\ \A q \in Procs \ {p} : pc'[q] = pc[q]
      /\ Starting' = Starting \cup {p} /\ IsFiniteSet(Starting')
      /\ \A q \in Procs \ {p} : IsLiveOwner(q)' <=> IsLiveOwner(q)
  BY <1>1, OneMoves DEF ReclaimInv, Trying
<1>3. TypeOK'
  BY <1>1 DEF ReclaimInv, TypeOK, Trying
<1>4. file # NoFile => file.by # p
  BY <1>1 DEF ReclaimInv, FileHasAMaker
<1>5. file # NoFile => (IsLiveOwner(file.by)' <=> IsLiveOwner(file.by))
  BY <1>1, <1>2, <1>4 DEF IsLiveOwner
<1>6. MayBeStale' <=> MayBeStale
  BY <1>1, <1>5 DEF MayBeStale
<1>7. FileHasAMaker'
  BY <1>1, <1>2, <1>4, <1>5 DEF ReclaimInv, FileHasAMaker, Owning, Record
<1>8. WaitedInVain'
  BY <1>1, <1>5 DEF ReclaimInv, WaitedInVain
<1>9. MayBeStale => Starting = {}
  <2>1. MayBeStale => Cardinality(Starting) < 1
    BY <1>1, FS_CardinalityType, BoundsAssumption DEF ReclaimInv
  <2>2. QED
    BY <2>1, FS_CardinalityType, FS_EmptySet DEF ReclaimInv
<1>10. AloneWithStale'
  BY <1>1, <1>2, <1>6, <1>9 DEF ReclaimInv, AloneWithStale
<1>11. QED
  BY <1>2, <1>3, <1>7, <1>8, <1>10 DEF ReclaimInv

LEMMA OpenReclaimInv ==
    ASSUME ReclaimInv, NEW p \in Procs, Open(p)
    PROVE  ReclaimInv'
<1> DEFINE created == [by |-> p, written |-> FALSE]
<1>1. CASE file = NoFile
  <2>1. /\ file' = created /\ emptyFor' = 0 /\ pc[p] = "open"
        /\ pc' = [pc EXCEPT ![p] = "write"] /\ UNCHANGED <<seen, attempts, crashes>>
    BY <1>1 DEF Open
  <2>2. created \in Files /\ created # NoFile /\ created.by = p /\ ~created.written
    BY FilesAreThere
  <2>3. /\ pc'[p] = "write" /\ \A q \in Procs \ {p} : pc'[q] = pc[q]
        /\ IsFiniteSet(Starting') /\ IsLiveOwner(p)'
    BY <2>1, OneMoves DEF ReclaimInv, Trying
  <2>4. \A q \in Procs : pc[q] \notin Owning \cup {"write", "confirm", "unlink"}
    BY <1>1, FilesAreThere DEF ReclaimInv, FileHasAMaker, AloneWithStale, MayBeStale
  <2>5. TypeOK'
    BY <2>1, <2>2, GraceAssumption DEF ReclaimInv, TypeOK, Trying
  <2>6. FileHasAMaker'
    <3>1. file'.by = p /\ ~file'.written
      BY <2>1, <2>2
    <3>2. \A q \in Procs \ {p} : pc'[q] \notin Owning \cup {"write"}
      BY <2>3, <2>4
    <3>3. \A q \in Procs : pc'[q] \in Owning \cup {"write"} => pc'[q] = "write" /\ q = p
      BY <2>3, <3>2
    <3>4. pc'[file'.by] \in {"write"} /\ pc'[file'.by] # "off"
      BY <2>3, <3>1
    <3>5. \A q \in Procs : pc'[q] = "write" => file' = [by |-> q, written |-> FALSE]
      BY <2>1, <3>3
    <3>6. \A q \in Procs : pc'[q] \notin Owning
      BY <3>3 DEF Owning
    <3>7. QED
      BY <3>1, <3>4, <3>5, <3>6 DEF FileHasAMaker
  <2>7. WaitedInVain'
    BY <2>1 DEF WaitedInVain
  <2>8. AloneWithStale'
    BY <2>1, <2>2, <2>3, <2>4 DEF AloneWithStale, MayBeStale
  <2>9. QED
    BY <2>3, <2>5, <2>6, <2>7, <2>8 DEF ReclaimInv
<1>2. CASE file # NoFile
  <2>1. /\ pc[p] = "open" /\ pc' = [pc EXCEPT ![p] = "read"]
        /\ UNCHANGED <<file, emptyFor, seen, attempts, crashes>>
    BY <1>2 DEF Open
  <2>2. TypeOK'
    BY <2>1 DEF ReclaimInv, TypeOK, Trying
  <2>3. pc[p] \in Trying /\ pc[p] # "write"
    BY <2>1 DEF Trying
  <2>4. file # NoFile /\ ~file.written /\ emptyFor' > 0 => ~IsLiveOwner(file.by)
    BY <2>1 DEF ReclaimInv, WaitedInVain
  <2>5. QED
    BY <2>1, <2>2, <2>3, <2>4, TryingOn DEF ReclaimInv
<1>3. QED
  BY <1>1, <1>2

LEMMA WriteReclaimInv ==
    ASSUME ReclaimInv, NEW p \in Procs, Write(p)
    PROVE  ReclaimInv'
<1>1. file = [by |-> p, written |-> FALSE] /\ pc[p] = "write"
  BY DEF ReclaimInv, FileHasAMaker, Write
<1>2. /\ file' = Record(p) /\ pc' = [pc EXCEPT ![p] = "owner"]
      /\ UNCHANGED <<emptyFor, seen, attempts, crashes>>
  BY <1>1 DEF Write
<1>3. /\ pc'[p] = "owner" /\ \A q \in Procs \ {p} : pc'[q] = pc[q]
      /\ IsFiniteSet(Starting') /\ IsLiveOwner(p)'
  BY <1>2, OneMoves DEF ReclaimInv, Owning
<1>4. Record(p) \in Files /\ Record(p) # NoFile /\ Record(p).by = p /\ Record(p).written
  BY FilesAreThere
<1>5. TypeOK'
  BY <1>2, <1>4 DEF ReclaimInv, TypeOK, Owning, Trying
<1>6. ~MayBeStale
  BY <1>1 DEF MayBeStale, IsLiveOwner, Trying
<1>7. \A q \in Procs : /\ pc[q] \notin {"confirm", "unlink"}
                       /\ q # p => pc[q] \notin Owning \cup {"write"}
  BY <1>1, <1>6 DEF ReclaimInv, FileHasAMaker, AloneWithStale, Record
<1>8. FileHasAMaker'
  BY <1>2, <1>3, <1>4, <1>7 DEF FileHasAMaker, Owning
<1>9. WaitedInVain'
  BY <1>2, <1>4 DEF WaitedInVain
<1>10. AloneWithStale'
  BY <1>2, <1>3, <1>4, <1>7 DEF AloneWithStale, MayBeStale
<1>11. QED
  BY <1>3, <1>5, <1>8, <1>9, <1>10 DEF ReclaimInv

(* Only a file whose maker is dead is taken for stale.                     *)
LEMMA ReadReclaimInv ==
    ASSUME ReclaimInv, NEW p \in Procs, Read(p)
    PROVE  ReclaimInv'
<1>1. pc[p] = "read" /\ pc[p] \in Trying /\ UNCHANGED <<file, emptyFor, crashes>>
  BY DEF Read, Trying
<1>2. file # NoFile /\ ~file.written /\ emptyFor' > 0 => ~IsLiveOwner(file.by)
  BY <1>1 DEF ReclaimInv, WaitedInVain
<1>3. CASE NextAttempt(p) /\ UNCHANGED seen
  <2>1. TypeOK'
    BY <1>1, <1>3, NextAttemptMoves DEF ReclaimInv, TypeOK
  <2>2. QED
    BY <1>1, <1>2, <1>3, <2>1, NextAttemptMoves, TryingOn DEF ReclaimInv
<1>4. ASSUME NEW to \in {"refused", "sleep"},
             pc' = [pc EXCEPT ![p] = to], UNCHANGED <<seen, attempts>>
      PROVE  ReclaimInv'
  <2>1. TypeOK'
    BY <1>1, <1>4 DEF ReclaimInv, TypeOK, Trying, Ended
  <2>2. QED
    BY <1>1, <1>2, <1>4, <2>1, TryingOn DEF ReclaimInv
<1>5. CASE /\ file # NoFile
           /\ ~(file.written /\ IsLiveOwner(file.by))
           /\ ~BeingWritten
           /\ seen' = [seen EXCEPT ![p] = file]
           /\ pc' = [pc EXCEPT ![p] = "confirm"]
           /\ UNCHANGED attempts
  <2>1. MayBeStale
    BY <1>5, GraceAssumption DEF ReclaimInv, TypeOK, WaitedInVain, BeingWritten, MayBeStale
  <2>2. /\ pc'[p] = "confirm" /\ \A q \in Procs \ {p} : pc'[q] = pc[q]
        /\ Starting' = Starting \cup {p} /\ IsFiniteSet(Starting')
        /\ \A q \in Procs \ {p} : IsLiveOwner(q)' <=> IsLiveOwner(q)
        /\ IsLiveOwner(p)'
    BY <1>5, OneMoves DEF ReclaimInv, Trying
  <2>3. p \in Starting
    BY <1>1 DEF Starting
  <2>4. file.by # p
    BY <1>1, <1>5, <2>1 DEF MayBeStale, IsLiveOwner
  <2>5. IsLiveOwner(file.by)' <=> IsLiveOwner(file.by)
    BY <1>1, <2>2, <2>4 DEF IsLiveOwner
  <2>6. seen'[p] = file /\ \A q \in Procs \ {p} : seen'[q] = seen[q]
    BY <1>5 DEF ReclaimInv, TypeOK
  <2>7. TypeOK'
    BY <1>1, <1>5 DEF ReclaimInv, TypeOK, Trying
  <2>8. FileHasAMaker'
    <3>1. \A q \in Procs : pc'[q] \in Owning \cup {"write"} => pc'[q] = pc[q]
      BY <2>2 DEF Owning
    <3>2. file.by \in Procs => pc'[file.by] = pc[file.by]
      BY <2>2, <2>4
    <3>3. QED
      BY <1>1, <2>1, <2>5, <3>1, <3>2 DEF ReclaimInv, FileHasAMaker, MayBeStale, Record
  <2>9. WaitedInVain'
    BY <1>1, <2>5 DEF ReclaimInv, WaitedInVain
  <2>10. AloneWithStale'
    BY <1>1, <2>1, <2>2, <2>3, <2>5, <2>6 DEF ReclaimInv, AloneWithStale, MayBeStale
  <2>11. QED
    BY <2>2, <2>7, <2>8, <2>9, <2>10 DEF ReclaimInv
<1>6. QED
  BY <1>3, <1>4, <1>5 DEF Read

LEMMA SleepReclaimInv ==
    ASSUME ReclaimInv, NEW p \in Procs, Sleep(p)
    PROVE  ReclaimInv'
<1>1. /\ pc[p] = "sleep" /\ pc[p] \in Trying /\ ~WriterIsBusy /\ NextAttempt(p)
      /\ emptyFor' = IF file # NoFile /\ ~file.written /\ emptyFor < Grace
                     THEN emptyFor + 1 ELSE emptyFor
      /\ UNCHANGED <<file, seen, crashes>>
  BY DEF Sleep, Trying
<1>2. file # NoFile /\ ~file.written => ~IsLiveOwner(file.by)
  BY <1>1 DEF WriterIsBusy, ReclaimInv, FileHasAMaker, IsLiveOwner
<1>3. emptyFor' \in 0 .. Grace
  BY <1>1, GraceAssumption DEF ReclaimInv, TypeOK
<1>4. TypeOK'
  BY <1>1, <1>3, NextAttemptMoves DEF ReclaimInv, TypeOK
<1>5. QED
  BY <1>1, <1>2, <1>4, NextAttemptMoves, TryingOn DEF ReclaimInv

(* The file is still the one that was read.                                *)
LEMMA ConfirmReclaimInv ==
    ASSUME ReclaimInv, NEW p \in Procs, Confirm(p)
    PROVE  ReclaimInv'
<1>1. /\ pc[p] = "confirm" /\ file = seen[p] /\ MayBeStale
      /\ pc' = [pc EXCEPT ![p] = "unlink"]
      /\ UNCHANGED <<file, emptyFor, seen, attempts, crashes>>
  BY DEF ReclaimInv, AloneWithStale, Confirm
<1>2. /\ pc'[p] = "unlink" /\ \A q \in Procs \ {p} : pc'[q] = pc[q]
      /\ Starting' = Starting \cup {p} /\ IsFiniteSet(Starting')
      /\ \A q \in Procs \ {p} : IsLiveOwner(q)' <=> IsLiveOwner(q)
  BY <1>1, OneMoves DEF ReclaimInv, Trying
<1>3. p \in Starting /\ file.by # p
  BY <1>1 DEF Starting, MayBeStale, IsLiveOwner, Trying
<1>4. IsLiveOwner(file.by)' <=> IsLiveOwner(file.by)
  BY <1>1, <1>2, <1>3 DEF IsLiveOwner
<1>5. TypeOK'
  BY <1>1 DEF ReclaimInv, TypeOK, Trying
<1>6. FileHasAMaker'
  BY <1>1, <1>2, <1>3, <1>4 DEF ReclaimInv, FileHasAMaker, Owning, Record
<1>7. WaitedInVain'
  BY <1>1, <1>4 DEF ReclaimInv, WaitedInVain
<1>8. AloneWithStale'
  BY <1>1, <1>2, <1>3, <1>4 DEF ReclaimInv, AloneWithStale, MayBeStale
<1>9. QED
  BY <1>2, <1>5, <1>6, <1>7, <1>8 DEF ReclaimInv

(* The path may hold nobody's live record.                                 *)
LEMMA UnlinkReclaimInv ==
    ASSUME ReclaimInv, NEW p \in Procs, Unlink(p)
    PROVE  ReclaimInv'
<1>1. /\ pc[p] = "unlink" /\ pc[p] \in Trying /\ MayBeStale /\ NextAttempt(p)
      /\ file' = NoFile /\ UNCHANGED <<emptyFor, seen, crashes>>
  BY DEF ReclaimInv, AloneWithStale, Unlink, Trying
<1>2. PICK to \in {"open", "gaveUp"} : pc' = [pc EXCEPT ![p] = to]
  BY <1>1, NextAttemptMoves DEF ReclaimInv
<1>3. /\ pc'[p] = to /\ \A q \in Procs \ {p} : pc'[q] = pc[q]
      /\ IsFiniteSet(Starting')
  BY <1>2, OneMoves DEF ReclaimInv
<1>4. \A q \in Procs : pc[q] \notin Owning \cup {"write"}
  <2>1. \A q \in Procs : pc[q] \in Owning \cup {"write"} => file.by = q /\ IsLiveOwner(q)
    BY DEF ReclaimInv, FileHasAMaker, Record, IsLiveOwner, Trying
  <2>2. QED
    BY <1>1, <2>1 DEF MayBeStale
<1>5. \A q \in Procs \ {p} : pc[q] \notin {"confirm", "unlink"}
  BY <1>1 DEF ReclaimInv, AloneWithStale, Starting, Trying
<1>6. TypeOK'
  BY <1>1, NextAttemptMoves DEF ReclaimInv, TypeOK
<1>7. FileHasAMaker'
  BY <1>1, <1>2, <1>3, <1>4 DEF FileHasAMaker, Owning
<1>8. WaitedInVain' /\ AloneWithStale'
  BY <1>1, <1>2, <1>3, <1>5 DEF WaitedInVain, AloneWithStale, MayBeStale
<1>9. QED
  BY <1>3, <1>6, <1>7, <1>8 DEF ReclaimInv

LEMMA ReleaseReclaimInv ==
    ASSUME ReclaimInv, NEW p \in Procs, Release(p)
    PROVE  ReclaimInv'
<1>1. /\ pc[p] = "owner" /\ file = Record(p) /\ pc' = [pc EXCEPT ![p] = "release"]
      /\ UNCHANGED <<file, emptyFor, seen, attempts, crashes>>
  BY DEF ReclaimInv, FileHasAMaker, Release, Owning
<1>2. /\ pc'[p] = "release" /\ \A q \in Procs \ {p} : pc'[q] = pc[q]
      /\ IsFiniteSet(Starting') /\ IsLiveOwner(p)'
  BY <1>1, OneMoves DEF ReclaimInv, Owning
<1>3. ~MayBeStale /\ ~MayBeStale'
  BY <1>1, <1>2, FilesAreThere DEF MayBeStale, IsLiveOwner, Owning
<1>4. TypeOK'
  BY <1>1 DEF ReclaimInv, TypeOK, Owning, Trying
<1>5. FileHasAMaker'
  BY <1>1, <1>2, FilesAreThere DEF ReclaimInv, FileHasAMaker, Owning, Record
<1>6. WaitedInVain'
  BY <1>1, FilesAreThere DEF WaitedInVain
<1>7. AloneWithStale'
  BY <1>2, <1>3 DEF ReclaimInv, AloneWithStale
<1>8. QED
  BY <1>2, <1>4, <1>5, <1>6, <1>7 DEF ReclaimInv

LEMMA ReleaseUnlinkReclaimInv ==
    ASSUME ReclaimInv, NEW p \in Procs, ReleaseUnlink(p)
    PROVE  ReclaimInv'
<1>1. /\ pc[p] = "release" /\ file = Record(p) /\ pc' = [pc EXCEPT ![p] = "gone"]
      /\ file' = NoFile /\ UNCHANGED <<emptyFor, seen, attempts, crashes>>
  BY DEF ReclaimInv, FileHasAMaker, ReleaseUnlink, Owning
<1>2. /\ pc'[p] = "gone" /\ \A q \in Procs \ {p} : pc'[q] = pc[q] /\ IsFiniteSet(Starting')
  BY <1>1, OneMoves DEF ReclaimInv
<1>3. IsFiniteSet(Starting')
  BY <1>1, OneMoves DEF ReclaimInv
<1>4. ~MayBeStale
  BY <1>1, FilesAreThere DEF MayBeStale, IsLiveOwner, Owning
<1>5. \A q \in Procs \ {p} : pc[q] \notin Owning \cup {"write", "confirm", "unlink"}
  BY <1>1, <1>4 DEF ReclaimInv, FileHasAMaker, AloneWithStale, Record
<1>6. TypeOK'
  BY <1>1 DEF ReclaimInv, TypeOK, Ended, Trying
<1>7. FileHasAMaker' /\ WaitedInVain' /\ AloneWithStale'
  BY <1>1, <1>2, <1>5 DEF FileHasAMaker, WaitedInVain, AloneWithStale, MayBeStale, Owning
<1>8. QED
  BY <1>3, <1>6, <1>7 DEF ReclaimInv

LEMMA CrashReclaimInv ==
    ASSUME MaxReclaiming <= 1, ReclaimInv, NEW p \in Procs, Crash(p)
    PROVE  ReclaimInv'
<1>1. /\ pc[p] \in Trying \cup Owning /\ pc' = [pc EXCEPT ![p] = "gone"]
      /\ crashes < MaxCrashes /\ crashes' = crashes + 1
      /\ Cardinality(Starting \ {p}) <= MaxReclaiming
      /\ UNCHANGED <<file, emptyFor, seen, attempts>>
  BY DEF Crash
<1>2. /\ pc'[p] = "gone" /\ \A q \in Procs \ {p} : pc'[q] = pc[q]
      /\ Starting' = Starting \ {p} /\ IsFiniteSet(Starting')
      /\ \A q \in Procs \ {p} : IsLiveOwner(q)' <=> IsLiveOwner(q)
      /\ ~IsLiveOwner(p)'
  BY <1>1, OneMoves DEF ReclaimInv, Trying, Owning
<1>3. crashes' \in 0 .. MaxCrashes
  BY <1>1, BoundsAssumption DEF ReclaimInv, TypeOK
<1>4. TypeOK'
  BY <1>1, <1>3 DEF ReclaimInv, TypeOK, Ended, Trying
<1>5. MayBeStale => MayBeStale'
  BY <1>1, <1>2 DEF MayBeStale, IsLiveOwner
<1>6. \A q, r \in Starting' : q = r
  <2>1. Cardinality(Starting') \in Nat /\ Cardinality(Starting') <= 1
    BY <1>1, <1>2, FS_CardinalityType, BoundsAssumption
  <2>2. Starting' = {} \/ \E q : Starting' = {q}
    <3>1. Cardinality(Starting') = 0 => Starting' = {}
      BY <1>2, FS_EmptySet
    <3>2. Cardinality(Starting') = 1 => \E q : Starting' = {q}
      BY <1>2, FS_Singleton
    <3>3. QED
      BY <2>1, <3>1, <3>2
  <2>3. QED
    BY <2>2
<1>7. FileHasAMaker'
  BY <1>1, <1>2 DEF ReclaimInv, FileHasAMaker, Owning, Record, IsLiveOwner
<1>8. WaitedInVain'
  BY <1>1, <1>2 DEF ReclaimInv, WaitedInVain, IsLiveOwner
<1>9. AloneWithStale'
  BY <1>1, <1>2, <1>5, <1>6 DEF ReclaimInv, AloneWithStale
<1>10. QED
  BY <1>2, <1>4, <1>7, <1>8, <1>9 DEF ReclaimInv

LEMMA NextReclaimInv == MaxReclaiming <= 1 /\ ReclaimInv /\ [Next]_vars => ReclaimInv'
<1> SUFFICES ASSUME MaxReclaiming <= 1, ReclaimInv, [Next]_vars PROVE ReclaimInv'
  OBVIOUS
<1>1. CASE UNCHANGED vars
  <2>1. Starting' = Starting /\ (MayBeStale' <=> MayBeStale)
    BY <1>1 DEF vars, Starting, MayBeStale, IsLiveOwner
  <2>2. QED
    BY <1>1, <2>1
    DEF vars, ReclaimInv, TypeOK, FileHasAMaker, WaitedInVain, AloneWithStale, IsLiveOwner
<1>2. ASSUME NEW p \in Procs, Acquire(p) PROVE ReclaimInv'
  BY <1>2, OpenReclaimInv, WriteReclaimInv, ReadReclaimInv, SleepReclaimInv, ConfirmReclaimInv,
     UnlinkReclaimInv DEF Acquire
<1>3. QED
  BY <1>1, <1>2, StartReclaimInv, ReleaseReclaimInv, ReleaseUnlinkReclaimInv, CrashReclaimInv
  DEF Next

LEMMA ReclaimInvariant == ASSUME MaxReclaiming <= 1 PROVE Spec => []ReclaimInv
<1>1. ReclaimInv /\ [Next]_vars => ReclaimInv'
  BY NextReclaimInv
<1>2. QED
  BY <1>1, InitReclaimInv, PTL DEF Spec

(* However often the bot dies, and in whatever state it leaves the file:   *)
(* as long as no two starters take the same file for stale at once, the    *)
(* record of every owner stays on disk.                                    *)
THEOREM ReclaimingSparesOwners ==
    ASSUME MaxReclaiming <= 1
    PROVE  Spec => []OwnerHoldsTheFile
<1>1. ReclaimInv => OwnerHoldsTheFile
  BY DEF ReclaimInv, FileHasAMaker, OwnerHoldsTheFile
<1>2. QED
  BY <1>1, ReclaimInvariant, PTL

(* Under the same condition nobody but the owner removes a live record,    *)
(* though unlinkSync takes whatever the path holds by then.                *)
THEOREM OnlyItsOwnerRemovesARecord ==
    ASSUME MaxReclaiming <= 1
    PROVE  Spec => LiveRecordUntouched
<1> DEFINE Untouched == \A q \in Procs :
              (file = Record(q) /\ pc[q] \in Owning /\ file' # file) => pc[q] = "release"
<1>1. ReclaimInv /\ [Next]_vars => [Untouched]_vars
  <2> SUFFICES ASSUME ReclaimInv, Next, NEW q \in Procs,
                      file = Record(q), pc[q] \in Owning, file' # file
               PROVE  pc[q] = "release"
    OBVIOUS
  <2>1. file # NoFile /\ file.by = q /\ file.written /\ ~MayBeStale
    BY FilesAreThere DEF MayBeStale, IsLiveOwner
  <2>2. PICK p \in Procs : Acquire(p) \/ ReleaseUnlink(p)
    BY DEF Next, Start, Release, Crash
  <2>3. CASE Acquire(p)
    <3>1. ~Write(p)
      BY <2>1 DEF ReclaimInv, FileHasAMaker, Write
    <3>2. ~Unlink(p)
      BY <2>1 DEF ReclaimInv, AloneWithStale, Unlink
    <3>3. QED
      BY <2>1, <2>3, <3>1, <3>2 DEF Acquire, Open, Read, Sleep, Confirm
  <2>4. CASE ReleaseUnlink(p)
    <3>1. pc[p] = "release" /\ file = Record(p)
      BY <2>4 DEF ReleaseUnlink, ReclaimInv, FileHasAMaker, Owning
    <3>2. QED
      BY <2>1, <3>1, FilesAreThere
  <2>5. QED
    BY <2>2, <2>3, <2>4
<1>2. Spec => [][Untouched]_vars
  BY <1>1, ReclaimInvariant, PTL DEF Spec
<1>3. QED
  BY <1>2 DEF LiveRecordUntouched

-----------------------------------------------------------------------------
(* The attempts of a starter.                                              *)

(* A starter in its loop, and a process that will make no file any more.   *)
Looping == {"open", "read", "sleep", "confirm", "unlink"}
Past    == {q \in Procs : pc[q] \notin Looping \cup {"off"}}

(* Whose files may be gone.                                                *)
Gone == (Past \cup {Ancestor}) \ (IF file = NoFile THEN {} ELSE {file.by})
Budget == (Grace + 1) * Cardinality(Gone)

One(b) == IF b THEN 1 ELSE 0

(* What a starter has spent on the file that is there.                     *)
Spent(p) ==
    /\ file = NoFile => attempts[p] + One(pc[p] \in {"read", "sleep"}) <= Budget
    /\ file # NoFile /\ file.written => attempts[p] + One(pc[p] = "sleep") <= Budget + 1
    /\ file # NoFile /\ ~file.written => attempts[p] <= Budget + emptyFor

WedgeInv ==
    /\ file # NoFile => file.by \in Past \cup {Ancestor}
    /\ \A p \in Procs : pc[p] = "off" => attempts[p] = 0
    /\ \A p \in Procs : pc[p] \in Looping => Spent(p)
    /\ \A p \in Procs : pc[p] = "sleep" /\ file # NoFile /\ ~file.written => emptyFor < Grace
    /\ NeverWedged

LEMMA Times ==
    ASSUME NEW k \in Nat, NEW m \in Nat, NEW n \in Nat
    PROVE  /\ k * m \in Nat /\ k * (m + 1) = k * m + k
           /\ m <= n => k * m <= k * n
<1>1. k * m \in Nat /\ k * (m + 1) = k * m + k
  OBVIOUS
<1>2. ASSUME m <= n PROVE k * m <= k * n
  <2>1. PICK d \in Nat : n = m + d
    <3>1. n - m \in Nat /\ n = m + (n - m)
      BY <1>2
    <3>2. QED
      BY <3>1
  <2>2. k * n = k * m + k * d /\ k * d \in Nat /\ k * m \in Nat
    BY <2>1
  <2>3. QED
    BY <2>2
<1>3. QED
  BY <1>1, <1>2

LEMMA BudgetIs ==
    ASSUME IsFiniteSet(Procs)
    PROVE  /\ IsFiniteSet(Gone) /\ IsFiniteSet(Gone') /\ Budget \in Nat /\ Budget' \in Nat
           /\ Gone \subseteq Gone' => Budget' >= Budget
           /\ \A x \in Gone' : Gone \cup {x} \subseteq Gone' /\ x \notin Gone => Budget' >= Budget + Grace + 1
<1>1. IsFiniteSet(Procs \cup {Ancestor})
  BY FS_AddElement
<1>2. Gone \in SUBSET (Procs \cup {Ancestor}) /\ Gone' \in SUBSET (Procs \cup {Ancestor})
  BY DEF Gone, Past
<1>3. IsFiniteSet(Gone) /\ IsFiniteSet(Gone')
  BY <1>1, <1>2, FS_Subset
<1>4. Cardinality(Gone) \in Nat /\ Cardinality(Gone') \in Nat /\ Grace + 1 \in Nat
  BY <1>3, FS_CardinalityType, GraceAssumption
<1>5. Budget \in Nat /\ Budget' \in Nat
  BY <1>4, Times DEF Budget
<1>6. ASSUME Gone \subseteq Gone' PROVE Budget' >= Budget
  <2>1. Cardinality(Gone) <= Cardinality(Gone')
    BY <1>3, <1>6, FS_Subset
  <2>2. QED
    BY <1>4, <2>1, Times DEF Budget
<1>7. ASSUME NEW x \in Gone', Gone \cup {x} \subseteq Gone', x \notin Gone PROVE Budget' >= Budget + Grace + 1
  <2>1. Cardinality(Gone \cup {x}) = Cardinality(Gone) + 1
    BY <1>3, <1>7, FS_AddElement
  <2>2. Cardinality(Gone) + 1 <= Cardinality(Gone')
    BY <1>3, <1>7, <2>1, FS_Subset
  <2>3. (Grace + 1) * (Cardinality(Gone) + 1) <= (Grace + 1) * Cardinality(Gone')
    BY <1>4, <2>2, Times
  <2>4. (Grace + 1) * (Cardinality(Gone) + 1) = (Grace + 1) * Cardinality(Gone) + (Grace + 1)
    BY <1>4, Times
  <2>5. Budget' = (Grace + 1) * Cardinality(Gone') /\ Budget = (Grace + 1) * Cardinality(Gone)
    BY DEF Budget
  <2>6. Budget' >= Budget + (Grace + 1)
    BY <2>3, <2>4, <2>5
  <2>7. QED
    BY <1>5, <2>6, GraceAssumption
<1>8. QED
  BY <1>3, <1>5, <1>6, <1>7

(* The attempts suffice for every file there can be.                       *)
LEMMA BudgetSuffices ==
    ASSUME IsFiniteSet(Procs), Cardinality(Procs) * (Grace + 1) < MaxAttempts,
           NEW p \in Procs, p \notin Past
    PROVE  /\ Budget < MaxAttempts
           /\ file # NoFile /\ file.by \in Past \cup {Ancestor} => Budget + Grace + 1 < MaxAttempts
<1>1. PICK S : S = (Procs \ {p}) \cup {Ancestor}
  OBVIOUS
<1>2. IsFiniteSet(S) /\ Cardinality(S) = Cardinality(Procs)
  <2>1. IsFiniteSet(Procs \ {p}) /\ Cardinality(Procs \ {p}) = Cardinality(Procs) - 1 /\ Cardinality(Procs) \in Nat
    BY FS_RemoveElement, FS_CardinalityType
  <2>2. Ancestor \notin Procs \ {p}
    BY AncestorAssumption
  <2>3. IsFiniteSet(S) /\ Cardinality(S) = Cardinality(Procs \ {p}) + 1
    BY <1>1, <2>1, <2>2, FS_AddElement
  <2>4. QED
    BY <2>1, <2>3
<1>3. Gone \in SUBSET S
  BY <1>1 DEF Gone, Past
<1>4. Cardinality(Gone) <= Cardinality(Procs) /\ IsFiniteSet(Gone)
  BY <1>2, <1>3, FS_Subset
<1>5. Cardinality(Gone) \in Nat /\ Cardinality(Procs) \in Nat /\ Grace + 1 \in Nat
  BY <1>4, FS_CardinalityType, GraceAssumption
<1>6. (Grace + 1) * Cardinality(Procs) < MaxAttempts /\ (Grace + 1) * Cardinality(Procs) \in Nat /\ MaxAttempts \in Nat
  BY <1>5, Times, GraceAssumption
<1>7. Budget < MaxAttempts
  <2>1. Budget <= (Grace + 1) * Cardinality(Procs)
    BY <1>4, <1>5, Times DEF Budget
  <2>2. Budget \in Nat
    BY <1>5, Times DEF Budget
  <2>3. QED
    BY <1>6, <2>1, <2>2
<1>8. ASSUME file # NoFile, file.by \in Past \cup {Ancestor} PROVE Budget + Grace + 1 < MaxAttempts
  <2>1. file.by \in S /\ file.by \notin Gone
    BY <1>1, <1>8 DEF Gone, Past
  <2>2. Gone \cup {file.by} \in SUBSET S /\ Cardinality(Gone \cup {file.by}) = Cardinality(Gone) + 1
    BY <1>3, <1>4, <2>1, FS_AddElement
  <2>3. Cardinality(Gone) + 1 <= Cardinality(Procs)
    BY <1>2, <2>2, FS_Subset
  <2>4. (Grace + 1) * (Cardinality(Gone) + 1) <= (Grace + 1) * Cardinality(Procs)
    BY <1>5, <2>3, Times
  <2>5. (Grace + 1) * (Cardinality(Gone) + 1) = (Grace + 1) * Cardinality(Gone) + (Grace + 1)
    BY <1>5, Times
  <2>6. PICK x \in Nat : x = (Grace + 1) * (Cardinality(Gone) + 1)
    BY <1>5, Times
  <2>7. PICK y \in Nat : y = (Grace + 1) * Cardinality(Procs)
    BY <1>6
  <2>8. x < MaxAttempts
    <3>1. x <= y /\ y < MaxAttempts
      BY <1>6, <2>4, <2>6, <2>7
    <3>2. QED
      BY <1>6, <3>1
  <2>9. x = Budget + (Grace + 1) /\ Budget \in Nat
    BY <1>5, <2>5, <2>6, Times DEF Budget
  <2>10. QED
    BY <1>6, <2>8, <2>9, GraceAssumption
<1>9. QED
  BY <1>7, <1>8

LEMMA OnesAre ==
    ASSUME NEW s
    PROVE  /\ One(s \in {"read", "sleep"}) \in {0, 1} /\ One(s = "sleep") \in {0, 1}
           /\ s \notin {"read", "sleep"} => One(s \in {"read", "sleep"}) = 0
           /\ s # "sleep" => One(s = "sleep") = 0
BY DEF One

(* One process moves and the file stays.                                   *)
LEMMA Steady ==
    ASSUME IsFiniteSet(Procs), TypeOK, WedgeInv, NEW p \in Procs, NEW to,
           pc' = [pc EXCEPT ![p] = to], file' = file, emptyFor' \in Int, emptyFor' >= emptyFor,
           \A q \in Procs \ {p} : attempts'[q] = attempts[q],
           to \notin {"off", "gaveUp"}, pc[p] \in Looping \cup {"off"} \/ to \notin Looping,
           \A q \in Procs : pc'[q] = "sleep" /\ file # NoFile /\ ~file.written => emptyFor' < Grace,
           to \in Looping => /\ attempts'[p] \in Int
                             /\ file = NoFile => attempts'[p] + One(to \in {"read", "sleep"}) <= Budget
                             /\ file # NoFile /\ file.written => attempts'[p] + One(to = "sleep") <= Budget + 1
                             /\ file # NoFile /\ ~file.written => attempts'[p] <= Budget + emptyFor'
    PROVE  WedgeInv'
<1>1. pc'[p] = to /\ \A q \in Procs \ {p} : pc'[q] = pc[q]
  BY DEF TypeOK
<1>2. Past \subseteq Past'
  BY <1>1 DEF Past, Looping
<1>3. Gone \subseteq Gone'
  BY <1>2 DEF Gone
<1>4. Budget' >= Budget /\ Budget \in Nat /\ Budget' \in Nat
  BY <1>3, BudgetIs
<1>5. file' # NoFile => file'.by \in Past' \cup {Ancestor}
  BY <1>2 DEF WedgeInv
<1>6. ASSUME NEW q \in Procs, pc'[q] = "off" PROVE attempts'[q] = 0
  BY <1>1, <1>6 DEF WedgeInv
<1>7. ASSUME NEW q \in Procs, pc'[q] \in Looping PROVE Spent(q)'
  <2>1. CASE q = p
    <3>1. One(to \in {"read", "sleep"}) \in Int /\ One(to = "sleep") \in Int
      BY DEF One
    <3>2. /\ file' = NoFile => attempts'[p] + One(pc'[p] \in {"read", "sleep"}) <= Budget'
          /\ file' # NoFile /\ file'.written => attempts'[p] + One(pc'[p] = "sleep") <= Budget' + 1
          /\ file' # NoFile /\ ~file'.written => attempts'[p] <= Budget' + emptyFor'
      <4>1. to \in Looping /\ attempts'[p] \in Int
        BY <1>1, <1>7, <2>1
      <4>2. file = NoFile => attempts'[p] + One(to \in {"read", "sleep"}) <= Budget'
        BY <1>4, <3>1, <4>1
      <4>3. file # NoFile /\ file.written => attempts'[p] + One(to = "sleep") <= Budget' + 1
        BY <1>4, <3>1, <4>1
      <4>4. file # NoFile /\ ~file.written => attempts'[p] <= Budget' + emptyFor'
        BY <1>4, <4>1
      <4>5. QED
        BY <1>1, <4>2, <4>3, <4>4
    <3>3. QED
      BY <2>1, <3>2 DEF Spent
  <2>2. CASE q # p
    <3>1. pc'[q] = pc[q] /\ attempts'[q] = attempts[q] /\ attempts[q] \in Int /\ emptyFor \in Int
      BY <1>1, <2>2, GraceAssumption DEF TypeOK
    <3>2. PICK a, b : a = One(pc[q] \in {"read", "sleep"}) /\ b = One(pc[q] = "sleep")
      OBVIOUS
    <3>3. a \in Int /\ b \in Int
      BY <3>2 DEF One
    <3>4. /\ file = NoFile => attempts[q] + a <= Budget
          /\ file # NoFile /\ file.written => attempts[q] + b <= Budget + 1
          /\ file # NoFile /\ ~file.written => attempts[q] <= Budget + emptyFor
      BY <1>7, <3>1, <3>2 DEF WedgeInv, Spent
    <3>5. /\ file = NoFile => attempts[q] + a <= Budget'
          /\ file # NoFile /\ file.written => attempts[q] + b <= Budget' + 1
          /\ file # NoFile /\ ~file.written => attempts[q] <= Budget' + emptyFor'
      BY <1>4, <3>1, <3>3, <3>4
    <3>6. QED
      BY <3>1, <3>2, <3>5 DEF Spent
  <2>3. QED
    BY <2>1, <2>2
<1>8. NeverWedged'
  BY <1>1 DEF WedgeInv, NeverWedged
<1>9. QED
  BY <1>5, <1>6, <1>7, <1>8 DEF WedgeInv

(* The bound: attempts for every file there can be.                        *)
EnoughAttempts == IsFiniteSet(Procs) /\ Cardinality(Procs) * (Grace + 1) < MaxAttempts

LEMMA TurnsAgain ==
    ASSUME TypeOK, NEW p \in Procs, NextAttempt(p), attempts[p] + 1 < MaxAttempts
    PROVE  /\ pc' = [pc EXCEPT ![p] = "open"] /\ attempts'[p] = attempts[p] + 1 /\ attempts[p] \in Int
           /\ \A q \in Procs \ {p} : attempts'[q] = attempts[q]
BY GraceAssumption DEF TypeOK, NextAttempt

(* What a starter in its loop may still spend.                             *)
LEMMA Affords ==
    ASSUME EnoughAttempts, TypeOK, WedgeInv, NEW p \in Procs, pc[p] \in Looping
    PROVE  /\ attempts[p] \in Int /\ Budget \in Int /\ emptyFor \in 0 .. Grace /\ Grace \in Int /\ MaxAttempts \in Int
           /\ Spent(p) /\ Budget < MaxAttempts
           /\ file # NoFile => Budget + Grace + 1 < MaxAttempts
<1>1. p \notin Past
  BY DEF Past
<1>2. Budget < MaxAttempts /\ (file # NoFile => Budget + Grace + 1 < MaxAttempts)
  BY <1>1, BudgetSuffices DEF EnoughAttempts, WedgeInv
<1>3. Budget \in Nat
  BY BudgetIs DEF EnoughAttempts
<1>4. QED
  BY <1>2, <1>3, GraceAssumption DEF TypeOK, WedgeInv

LEMMA StartWedge ==
    ASSUME EnoughAttempts, ReclaimInv, WedgeInv, NEW p \in Procs, Start(p)
    PROVE  WedgeInv'
<1>1. pc[p] = "off" /\ pc' = [pc EXCEPT ![p] = "open"] /\ UNCHANGED <<file, emptyFor, attempts>> /\ TypeOK
  BY DEF Start, ReclaimInv
<1>2. attempts'[p] = 0 /\ emptyFor \in 0 .. Grace /\ Grace \in Int
  BY <1>1, GraceAssumption DEF WedgeInv, TypeOK
<1>3. Budget \in Nat
  BY BudgetIs DEF EnoughAttempts
<1>4. PICK to : to = "open"
  OBVIOUS
<1>5. /\ attempts'[p] + One(to \in {"read", "sleep"}) <= Budget /\ attempts'[p] + One(to = "sleep") <= Budget + 1
      /\ attempts'[p] <= Budget + emptyFor' /\ emptyFor' \in Int /\ emptyFor' >= emptyFor /\ attempts'[p] \in Int
  <2>1. One(to \in {"read", "sleep"}) = 0 /\ One(to = "sleep") = 0
    BY <1>4, OnesAre
  <2>2. QED
    BY <1>1, <1>2, <1>3, <2>1
<1>6. \A q \in Procs : pc'[q] = "sleep" /\ file # NoFile /\ ~file.written => emptyFor' < Grace
  BY <1>1 DEF WedgeInv, TypeOK
<1>7. \A q \in Procs \ {p} : attempts'[q] = attempts[q]
  BY <1>1
<1>8. pc' = [pc EXCEPT ![p] = to] /\ to \notin {"off", "gaveUp"} /\ pc[p] \in Looping \cup {"off"}
  BY <1>1, <1>4
<1>9. QED
  BY <1>1, <1>5, <1>6, <1>7, <1>8, Steady DEF EnoughAttempts

(* A step of the loop that counts no turn, with the file there.            *)
LEMMA LoopsOn ==
    ASSUME EnoughAttempts, TypeOK, WedgeInv, NEW p \in Procs, NEW to, pc[p] \in Looping,
           pc' = [pc EXCEPT ![p] = to], UNCHANGED <<file, emptyFor, attempts>>, file # NoFile,
           to \in {"read", "confirm", "unlink", "refused"} \/ (to = "sleep" /\ ~file.written /\ emptyFor < Grace)
    PROVE  WedgeInv'
<1>1. /\ attempts[p] \in Int /\ Budget \in Int /\ emptyFor \in 0 .. Grace /\ Grace \in Int /\ Spent(p)
  BY Affords
<1>2. PICK b : b = One(to = "sleep")
  OBVIOUS
<1>3. b \in Int /\ (file.written => b = 0)
  BY <1>2 DEF One
<1>4. /\ file.written => attempts[p] <= Budget + 1
      /\ ~file.written => attempts[p] <= Budget + emptyFor
  <2>1. file.written => attempts[p] + One(pc[p] = "sleep") <= Budget + 1
    BY <1>1 DEF Spent
  <2>2. One(pc[p] = "sleep") \in {0, 1}
    BY DEF One
  <2>3. QED
    BY <1>1, <2>1, <2>2 DEF Spent
<1>5. /\ file.written => attempts'[p] + b <= Budget + 1
      /\ ~file.written => attempts'[p] <= Budget + emptyFor'
      /\ attempts'[p] \in Int /\ emptyFor' \in Int /\ emptyFor' >= emptyFor
  BY <1>1, <1>3, <1>4
<1>6. \A q \in Procs : pc'[q] = "sleep" /\ file # NoFile /\ ~file.written => emptyFor' < Grace
  BY DEF WedgeInv, TypeOK
<1>7. QED
  BY <1>2, <1>5, <1>6, Steady DEF EnoughAttempts

(* A turn is counted, and the file stays or was taken away.                *)
LEMMA ReadWedge ==
    ASSUME EnoughAttempts, ReclaimInv, WedgeInv, NEW p \in Procs, Read(p)
    PROVE  WedgeInv'
<1>1. pc[p] = "read" /\ pc[p] \in Looping /\ UNCHANGED <<file, emptyFor>> /\ TypeOK
  BY DEF Read, Looping, ReclaimInv
<1>2. /\ attempts[p] \in Int /\ Budget \in Int /\ emptyFor \in 0 .. Grace /\ Grace \in Int /\ MaxAttempts \in Int
      /\ Spent(p) /\ Budget < MaxAttempts
  BY <1>1, Affords
<1>3. CASE file = NoFile
  <2>1. NextAttempt(p)
    BY <1>3 DEF Read
  <2>2. attempts[p] + 1 <= Budget
    <3>1. attempts[p] + One(pc[p] \in {"read", "sleep"}) <= Budget
      BY <1>2, <1>3 DEF Spent
    <3>2. One(pc[p] \in {"read", "sleep"}) = 1
      BY <1>1 DEF One
    <3>3. QED
      BY <1>2, <3>1, <3>2
  <2>3. /\ pc' = [pc EXCEPT ![p] = "open"] /\ attempts'[p] = attempts[p] + 1
        /\ \A q \in Procs \ {p} : attempts'[q] = attempts[q]
    BY <1>1, <1>2, <2>1, <2>2, TurnsAgain
  <2>4. PICK to : to = "open"
    OBVIOUS
  <2>5. attempts'[p] + One(to \in {"read", "sleep"}) <= Budget /\ attempts'[p] \in Int
    <3>1. One(to \in {"read", "sleep"}) = 0
      BY <2>4, OnesAre
    <3>2. QED
      BY <1>2, <2>2, <2>3, <3>1
  <2>6. pc' = [pc EXCEPT ![p] = to] /\ to \notin {"off", "gaveUp"} /\ emptyFor' \in Int /\ emptyFor' >= emptyFor
    BY <1>1, <1>2, <2>3, <2>4
  <2>7. QED
    BY <1>1, <1>3, <2>3, <2>5, <2>6, Steady DEF EnoughAttempts
<1>4. CASE file # NoFile
  <2>1. /\ UNCHANGED attempts
        /\ \/ pc' = [pc EXCEPT ![p] = "refused"]
           \/ BeingWritten /\ pc' = [pc EXCEPT ![p] = "sleep"]
           \/ pc' = [pc EXCEPT ![p] = "confirm"]
    BY <1>4 DEF Read
  <2>2. QED
    BY <1>1, <1>4, <2>1, LoopsOn DEF BeingWritten
<1>5. QED
  BY <1>3, <1>4

(* Only the sleep of a dead writer's file makes it older.                  *)
LEMMA SleepWedge ==
    ASSUME EnoughAttempts, ReclaimInv, WedgeInv, NEW p \in Procs, Sleep(p)
    PROVE  WedgeInv'
<1>1. /\ pc[p] = "sleep" /\ pc[p] \in Looping /\ pc[p] \in Trying /\ NextAttempt(p) /\ UNCHANGED file /\ TypeOK
      /\ emptyFor' = IF file # NoFile /\ ~file.written /\ emptyFor < Grace THEN emptyFor + 1 ELSE emptyFor
      /\ ~WriterIsBusy
  BY DEF Sleep, Looping, Trying, ReclaimInv
<1>2. /\ attempts[p] \in Int /\ Budget \in Int /\ emptyFor \in 0 .. Grace /\ Grace \in Int /\ MaxAttempts \in Int
      /\ Spent(p) /\ Budget < MaxAttempts /\ Grace >= 1
      /\ file # NoFile => Budget + Grace + 1 < MaxAttempts
  BY <1>1, Affords, GraceAssumption
<1>3. file # NoFile /\ ~file.written => emptyFor < Grace
  BY <1>1 DEF WedgeInv
<1>4. /\ file = NoFile => attempts[p] + 1 <= Budget
      /\ file # NoFile /\ file.written => attempts[p] + 1 <= Budget + 1
      /\ file # NoFile /\ ~file.written => attempts[p] + 1 <= Budget + emptyFor'
  <2>1. One(pc[p] \in {"read", "sleep"}) = 1 /\ One(pc[p] = "sleep") = 1
    BY <1>1 DEF One
  <2>2. /\ file = NoFile => attempts[p] + One(pc[p] \in {"read", "sleep"}) <= Budget
        /\ file # NoFile /\ file.written => attempts[p] + One(pc[p] = "sleep") <= Budget + 1
        /\ file # NoFile /\ ~file.written => attempts[p] <= Budget + emptyFor
    BY <1>2 DEF Spent
  <2>3. file # NoFile /\ ~file.written => emptyFor' = emptyFor + 1
    BY <1>1, <1>3
  <2>4. QED
    BY <1>2, <2>1, <2>2, <2>3
<1>5. attempts[p] + 1 < MaxAttempts /\ emptyFor' \in Int /\ emptyFor' >= emptyFor /\ emptyFor' <= Grace
  <2>1. emptyFor' \in Int /\ emptyFor' >= emptyFor /\ emptyFor' <= Grace
    BY <1>1, <1>2
  <2>2. QED
    BY <1>2, <1>4, <2>1
<1>6. /\ pc' = [pc EXCEPT ![p] = "open"] /\ attempts'[p] = attempts[p] + 1
      /\ \A q \in Procs \ {p} : attempts'[q] = attempts[q]
  BY <1>1, <1>5, TurnsAgain
<1>7. PICK to : to = "open"
  OBVIOUS
<1>8. /\ attempts'[p] \in Int
      /\ file = NoFile => attempts'[p] + One(to \in {"read", "sleep"}) <= Budget
      /\ file # NoFile /\ file.written => attempts'[p] + One(to = "sleep") <= Budget + 1
      /\ file # NoFile /\ ~file.written => attempts'[p] <= Budget + emptyFor'
  <2>1. One(to \in {"read", "sleep"}) = 0 /\ One(to = "sleep") = 0
    BY <1>7, OnesAre
  <2>2. QED
    BY <1>2, <1>4, <1>6, <2>1
<1>9. ASSUME NEW q \in Procs, pc'[q] = "sleep", file # NoFile, ~file.written PROVE emptyFor' < Grace
  <2>1. q # p /\ pc[q] = "sleep"
    BY <1>1, <1>6, <1>9 DEF TypeOK
  <2>2. p \in Starting /\ q \in Starting
    BY <1>1, <2>1 DEF Starting, Trying
  <2>3. IsLiveOwner(file.by)
    BY <1>9, <2>1, <2>2 DEF ReclaimInv, AloneWithStale, MayBeStale
  <2>4. WriterIsBusy
    BY <1>9, <2>3 DEF ReclaimInv, FileHasAMaker, WriterIsBusy, IsLiveOwner
  <2>5. QED
    BY <1>1, <2>4
<1>10. pc' = [pc EXCEPT ![p] = to] /\ to \notin {"off", "gaveUp"}
  BY <1>6, <1>7
<1>11. QED
  BY <1>1, <1>5, <1>6, <1>8, <1>9, <1>10, Steady DEF EnoughAttempts

LEMMA ConfirmWedge ==
    ASSUME EnoughAttempts, ReclaimInv, WedgeInv, NEW p \in Procs, Confirm(p)
    PROVE  WedgeInv'
<1>1. pc[p] = "confirm" /\ file = seen[p] /\ file # NoFile
  BY DEF Confirm, ReclaimInv, AloneWithStale, MayBeStale
<1>2. pc' = [pc EXCEPT ![p] = "unlink"] /\ UNCHANGED <<file, emptyFor, attempts>> /\ pc[p] \in Looping /\ TypeOK
  BY <1>1 DEF Confirm, Looping, ReclaimInv
<1>3. QED
  BY <1>1, <1>2, LoopsOn

(* Those out of the loop.                                                  *)
LEMMA LeavesTheLoop ==
    ASSUME EnoughAttempts, TypeOK, WedgeInv, NEW p \in Procs, NEW to \in {"release", "gone"},
           pc' = [pc EXCEPT ![p] = to], UNCHANGED <<file, emptyFor, attempts>>
    PROVE  WedgeInv'
<1>1. to \notin Looping /\ to \notin {"off", "gaveUp"} /\ to # "sleep"
  BY DEF Looping
<1>2. emptyFor' \in Int /\ emptyFor' >= emptyFor
  BY GraceAssumption DEF TypeOK
<1>3. \A q \in Procs : pc'[q] = "sleep" /\ file # NoFile /\ ~file.written => emptyFor' < Grace
  BY <1>1 DEF WedgeInv, TypeOK
<1>4. QED
  BY <1>1, <1>2, <1>3, Steady DEF EnoughAttempts

(* A file is created: whatever was lost to the others is paid for.         *)
LEMMA OpenWedge ==
    ASSUME EnoughAttempts, ReclaimInv, WedgeInv, NEW p \in Procs, Open(p)
    PROVE  WedgeInv'
<1>1. pc[p] = "open" /\ pc[p] \in Looping /\ TypeOK /\ UNCHANGED attempts
  BY DEF Open, Looping, ReclaimInv
<1>2. CASE file # NoFile
  <2>1. pc' = [pc EXCEPT ![p] = "read"] /\ UNCHANGED <<file, emptyFor>>
    BY <1>2 DEF Open
  <2>2. QED
    BY <1>1, <1>2, <2>1, LoopsOn
<1>3. CASE file = NoFile
  <2>1. /\ file' = [by |-> p, written |-> FALSE] /\ file' # NoFile /\ emptyFor' = 0
        /\ pc'[p] = "write" /\ \A q \in Procs \ {p} : pc'[q] = pc[q]
    BY <1>1, <1>3, FilesAreThere DEF Open, TypeOK
  <2>2. file'.by = p /\ ~file'.written
    BY <2>1
  <2>3. p \notin Past /\ p \in Past' /\ Past \subseteq Past'
    BY <1>1, <2>1 DEF Past, Looping
  <2>4. Gone \subseteq Gone'
    BY <1>3, <2>1, <2>2, <2>3, AncestorAssumption DEF Gone
  <2>5. Budget' >= Budget /\ Budget \in Nat /\ Budget' \in Nat
    BY <2>4, BudgetIs DEF EnoughAttempts
  <2>6. ASSUME NEW q \in Procs, pc'[q] \in Looping PROVE Spent(q)'
    <3>1. q # p /\ pc[q] \in Looping /\ attempts[q] \in Int /\ attempts'[q] = attempts[q]
      BY <1>1, <2>1, <2>6, GraceAssumption DEF Looping, TypeOK
    <3>2. attempts[q] + One(pc[q] \in {"read", "sleep"}) <= Budget
      BY <1>3, <3>1 DEF WedgeInv, Spent
    <3>3. One(pc[q] \in {"read", "sleep"}) \in {0, 1}
      BY DEF One
    <3>4. attempts'[q] <= Budget' + emptyFor'
      BY <2>1, <2>5, <3>1, <3>2, <3>3
    <3>5. QED
      BY <2>1, <2>2, <3>4 DEF Spent
  <2>7. emptyFor' < Grace
    BY <2>1, GraceAssumption
  <2>8. \A q \in Procs : pc'[q] # "gaveUp" /\ (pc'[q] = "off" => attempts'[q] = 0)
    BY <1>1, <2>1 DEF WedgeInv, NeverWedged
  <2>9. QED
    BY <2>2, <2>3, <2>6, <2>7, <2>8 DEF WedgeInv, NeverWedged
<1>4. QED
  BY <1>2, <1>3

(* One attempt for having slept while it was written.                      *)
LEMMA WriteWedge ==
    ASSUME EnoughAttempts, ReclaimInv, WedgeInv, NEW p \in Procs, Write(p)
    PROVE  WedgeInv'
<1>1. pc[p] = "write" /\ TypeOK /\ UNCHANGED <<emptyFor, attempts>> /\ file = [by |-> p, written |-> FALSE]
  BY DEF Write, ReclaimInv, FileHasAMaker
<1>2. /\ file' = Record(p) /\ pc'[p] = "owner" /\ \A q \in Procs \ {p} : pc'[q] = pc[q]
      /\ file' # NoFile /\ file'.by = p /\ file'.written /\ file # NoFile /\ file.by = p /\ ~file.written
  <2>1. file' = Record(p) /\ pc'[p] = "owner" /\ \A q \in Procs \ {p} : pc'[q] = pc[q]
    BY <1>1 DEF Write, TypeOK
  <2>2. QED
    BY <1>1, <2>1, FilesAreThere
<1>3. emptyFor = 0
  <2>1. IsLiveOwner(file.by)
    BY <1>1, <1>2 DEF IsLiveOwner, Trying
  <2>2. QED
    BY <1>1, <1>2, <2>1, GraceAssumption DEF ReclaimInv, WaitedInVain, TypeOK
<1>4. Past' = Past
  BY <1>1, <1>2 DEF Past, Looping
<1>5. Budget' = Budget /\ Budget \in Nat
  <2>1. Gone' = Gone
    BY <1>2, <1>4 DEF Gone
  <2>2. QED
    BY <2>1, BudgetIs DEF EnoughAttempts, Budget
<1>6. ASSUME NEW q \in Procs, pc'[q] \in Looping PROVE Spent(q)'
  <2>1. q # p /\ pc[q] \in Looping /\ pc'[q] = pc[q] /\ attempts[q] \in Int /\ attempts'[q] = attempts[q]
    BY <1>1, <1>2, <1>6, GraceAssumption DEF Looping, TypeOK
  <2>2. attempts[q] <= Budget + emptyFor
    BY <1>2, <2>1 DEF WedgeInv, Spent
  <2>3. One(pc'[q] = "sleep") \in {0, 1}
    BY DEF One
  <2>4. attempts'[q] + One(pc'[q] = "sleep") <= Budget' + 1
    BY <1>3, <1>5, <2>1, <2>2, <2>3
  <2>5. QED
    BY <1>2, <2>4 DEF Spent
<1>7. \A q \in Procs : pc'[q] # "gaveUp" /\ (pc'[q] = "off" => attempts'[q] = 0)
  BY <1>1, <1>2 DEF WedgeInv, NeverWedged
<1>8. file'.by \in Past' \cup {Ancestor}
  BY <1>1, <1>2, <1>4 DEF Past, Looping
<1>9. QED
  BY <1>2, <1>6, <1>7, <1>8 DEF WedgeInv, NeverWedged

(* A file is gone, and the budget has grown by what it may have cost.      *)
LEMMA FileGoes ==
    ASSUME EnoughAttempts, WedgeInv, file # NoFile, file' = NoFile, Past \subseteq Past'
    PROVE  Budget' >= Budget + Grace + 1 /\ Budget \in Int /\ Budget' \in Int
<1>1. file.by \in Past \cup {Ancestor}
  BY DEF WedgeInv
<1>2. file.by \in Gone' /\ file.by \notin Gone /\ Gone \cup {file.by} \subseteq Gone'
  BY <1>1 DEF Gone
<1>3. QED
  BY <1>2, BudgetIs DEF EnoughAttempts

LEMMA UnlinkWedge ==
    ASSUME EnoughAttempts, ReclaimInv, WedgeInv, NEW p \in Procs, Unlink(p)
    PROVE  WedgeInv'
<1>1. /\ pc[p] = "unlink" /\ pc[p] \in Looping /\ pc[p] \in Trying /\ file # NoFile /\ file' = NoFile /\ MayBeStale
      /\ NextAttempt(p) /\ UNCHANGED emptyFor /\ TypeOK
  BY DEF Unlink, Looping, Trying, ReclaimInv, AloneWithStale, MayBeStale
<1>2. /\ attempts[p] \in Int /\ Budget \in Int /\ emptyFor \in 0 .. Grace /\ Grace \in Int /\ MaxAttempts \in Int
      /\ Spent(p) /\ Budget + Grace + 1 < MaxAttempts /\ Grace >= 1
  BY <1>1, Affords, GraceAssumption
<1>3. attempts[p] <= Budget + Grace
  <2>1. file.written => attempts[p] + One(pc[p] = "sleep") <= Budget + 1
    BY <1>1, <1>2 DEF Spent
  <2>2. ~file.written => attempts[p] <= Budget + emptyFor
    BY <1>1, <1>2 DEF Spent
  <2>3. One(pc[p] = "sleep") = 0
    BY <1>1 DEF One
  <2>4. QED
    BY <1>2, <2>1, <2>2, <2>3
<1>4. /\ pc' = [pc EXCEPT ![p] = "open"] /\ attempts'[p] = attempts[p] + 1
      /\ \A q \in Procs \ {p} : attempts'[q] = attempts[q]
  <2>1. attempts[p] + 1 < MaxAttempts
    BY <1>2, <1>3
  <2>2. QED
    BY <1>1, <2>1, TurnsAgain
<1>5. pc'[p] = "open" /\ \A q \in Procs \ {p} : pc'[q] = pc[q]
  BY <1>1, <1>4 DEF TypeOK
<1>6. Past \subseteq Past'
  BY <1>1, <1>5 DEF Past
<1>7. Budget' >= Budget + Grace + 1 /\ Budget' \in Int
  BY <1>1, <1>6, FileGoes
<1>8. \A q \in Procs \ {p} : pc[q] \notin Looping
  BY <1>1 DEF ReclaimInv, AloneWithStale, Starting, Looping, Trying
<1>9. ASSUME NEW q \in Procs, pc'[q] \in Looping PROVE Spent(q)'
  <2>1. q = p
    BY <1>5, <1>8, <1>9
  <2>2. One(pc'[q] \in {"read", "sleep"}) = 0
    BY <1>5, <2>1 DEF One
  <2>3. attempts'[q] + One(pc'[q] \in {"read", "sleep"}) <= Budget'
    BY <1>2, <1>3, <1>4, <1>7, <2>1, <2>2
  <2>4. QED
    BY <1>1, <2>3 DEF Spent
<1>10. \A q \in Procs : pc'[q] # "gaveUp" /\ (pc'[q] = "off" => attempts'[q] = 0)
  BY <1>4, <1>5 DEF WedgeInv, NeverWedged
<1>11. QED
  BY <1>1, <1>9, <1>10 DEF WedgeInv, NeverWedged

LEMMA ReleaseUnlinkWedge ==
    ASSUME EnoughAttempts, ReclaimInv, WedgeInv, NEW p \in Procs, ReleaseUnlink(p)
    PROVE  WedgeInv'
<1>1. /\ pc[p] = "release" /\ file = Record(p) /\ file' = NoFile /\ UNCHANGED <<emptyFor, attempts>> /\ TypeOK
  BY DEF ReleaseUnlink, ReclaimInv, FileHasAMaker, Owning
<1>2. file # NoFile /\ file.written
  BY <1>1, FilesAreThere
<1>3. pc'[p] = "gone" /\ \A q \in Procs \ {p} : pc'[q] = pc[q]
  BY <1>1 DEF ReleaseUnlink, TypeOK
<1>4. Past \subseteq Past'
  BY <1>3 DEF Past, Looping
<1>5. Budget' >= Budget + Grace + 1 /\ Budget \in Int /\ Budget' \in Int /\ Grace \in Int /\ Grace >= 1
  BY <1>1, <1>2, <1>4, FileGoes, GraceAssumption
<1>6. ASSUME NEW q \in Procs, pc'[q] \in Looping PROVE Spent(q)'
  <2>1. q # p /\ pc[q] \in Looping /\ pc'[q] = pc[q] /\ attempts[q] \in Int /\ attempts'[q] = attempts[q]
    BY <1>1, <1>3, <1>6, GraceAssumption DEF Looping, TypeOK
  <2>2. attempts[q] + One(pc[q] = "sleep") <= Budget + 1
    BY <1>2, <2>1 DEF WedgeInv, Spent
  <2>3. One(pc[q] = "sleep") \in {0, 1} /\ One(pc'[q] \in {"read", "sleep"}) \in {0, 1}
    BY DEF One
  <2>4. attempts'[q] + One(pc'[q] \in {"read", "sleep"}) <= Budget'
    BY <1>5, <2>1, <2>2, <2>3
  <2>5. QED
    BY <1>1, <2>4 DEF Spent
<1>7. \A q \in Procs : pc'[q] # "gaveUp" /\ (pc'[q] = "off" => attempts'[q] = 0)
  BY <1>1, <1>3 DEF WedgeInv, NeverWedged
<1>8. QED
  BY <1>1, <1>6, <1>7 DEF WedgeInv, NeverWedged

LEMMA NextWedge ==
    ASSUME EnoughAttempts, ReclaimInv, WedgeInv, [Next]_vars
    PROVE  WedgeInv'
<1>1. CASE UNCHANGED vars
  BY <1>1 DEF vars, WedgeInv, Spent, Budget, Gone, Past, NeverWedged
<1>2. ASSUME NEW p \in Procs, Acquire(p) PROVE WedgeInv'
  BY <1>2, OpenWedge, WriteWedge, ReadWedge, SleepWedge, ConfirmWedge, UnlinkWedge DEF Acquire
<1>3. ASSUME NEW p \in Procs, Release(p) \/ Crash(p) PROVE WedgeInv'
  <2>1. PICK to \in {"release", "gone"} : pc' = [pc EXCEPT ![p] = to] /\ UNCHANGED <<file, emptyFor, attempts>>
    BY <1>3 DEF Release, Crash
  <2>2. QED
    BY <2>1, LeavesTheLoop DEF ReclaimInv
<1>4. QED
  BY <1>1, <1>2, <1>3, StartWedge, ReleaseUnlinkWedge DEF Next

LEMMA InitWedge == ASSUME EnoughAttempts, Init PROVE WedgeInv
<1>1. /\ pc = [p \in Procs |-> "off"] /\ attempts = [p \in Procs |-> 0]
      /\ file = NoFile \/ file.by = Ancestor
  BY DEF Init
<1>2. QED
  BY <1>1 DEF WedgeInv, NeverWedged, Looping

(* Where no two starters reclaim at once: if the attempts are more than    *)
(* the retries and one for each process that may leave a file, no starter  *)
(* ever runs out of them, whatever the others create, release and leave    *)
(* behind (supervisor.ts, acquireInstanceLock).                            *)
THEOREM NobodyGivesUp ==
    ASSUME MaxReclaiming <= 1, IsFiniteSet(Procs), Cardinality(Procs) * (Grace + 1) < MaxAttempts
    PROVE  Spec => []NeverWedged
<1>1. EnoughAttempts
  BY DEF EnoughAttempts
<1>2. Init => WedgeInv
  BY <1>1, InitWedge
<1>3. ReclaimInv /\ WedgeInv /\ [Next]_vars => WedgeInv'
  BY <1>1, NextWedge
<1>4. WedgeInv => NeverWedged
  BY DEF WedgeInv
<1>5. Spec => []ReclaimInv
  BY ReclaimInvariant
<1>6. QED
  BY <1>2, <1>3, <1>4, <1>5, PTL DEF Spec
=============================================================================
