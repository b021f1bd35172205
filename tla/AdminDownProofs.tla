--------------------------- MODULE AdminDownProofs ---------------------------
(* Proofs about AdminDown, for any roles, settings, commands and passes. *)
EXTENDS AdminDown, TLAPS

-----------------------------------------------------------------------------
(* The inductive invariants                                                *)

(* Whatever may be given back to the member was given by somebody.         *)
OnlyGiven ==
    /\ held \subseteq given
    /\ row # NoRow => row.roles \subseteq given
    /\ cached # NoList => cached \subseteq given
    /\ \A h \in Handlers : before[h] \subseteq given
    /\ \A h \in Undowns \cup Sweeps : todo[h] \subseteq given

(* A command has saved its row, and will not again, once anybody has it.   *)
SavedOnce ==
    /\ row # NoRow => at[row.by] = "done"
    /\ \A s \in Sweeps : from[s] # NoRow => at[from[s]] = "done"

(* A pass that is about to consume the row it read has seen to its roles:  *)
(* what is still owed of them is lost or with somebody else.               *)
PassRestores ==
    \A s \in Sweeps :
        /\ at[s] = "consuming" => todo[s] = {}
        /\ (at[s] \in {"granting", "consuming"} /\ row # NoRow /\ row.by = from[s])
              => row.roles \cap owed \subseteq todo[s] \cup Carried \cup lost

AccountInv == SavedOnce /\ PassRestores /\ EveryRoleAccountedFor

-----------------------------------------------------------------------------
(* Types                                                                   *)

LocalsOK ==
    /\ at \in [Handlers -> Steps]
    /\ todo \in [Handlers -> SUBSET Roles]
    /\ before \in [Handlers -> SUBSET Roles]
    /\ changed \in [Handlers -> SUBSET Roles]
    /\ \A h \in Handlers : changed[h] \cap todo[h] = {}

(* What GoOn does to the handler that goes on, and to nobody else.         *)
LEMMA GoOnMoves ==
    ASSUME LocalsOK,
           NEW h \in Handlers, NEW step \in Steps,
           NEW left \in SUBSET Roles, NEW snap \in SUBSET Roles, NEW did \in SUBSET Roles,
           did \cap left = {},
           GoOn(h, step, left, snap, did)
    PROVE  /\ LocalsOK'
           /\ at'[h] = step
           /\ todo'[h] = IF step = Finished(h) THEN {} ELSE left
           /\ before'[h] = IF step = Finished(h) THEN {} ELSE snap
           /\ changed'[h] = IF step = Finished(h) THEN {} ELSE did
           /\ \A g \in Handlers \ {h} : /\ at'[g] = at[g] /\ todo'[g] = todo[g]
                                        /\ before'[g] = before[g] /\ changed'[g] = changed[g]
<1> DEFINE over == step = Finished(h)
<1>1. /\ at' = [at EXCEPT ![h] = step]
      /\ todo' = [todo EXCEPT ![h] = IF over THEN {} ELSE left]
      /\ before' = [before EXCEPT ![h] = IF over THEN {} ELSE snap]
      /\ changed' = [changed EXCEPT ![h] = IF over THEN {} ELSE did]
  BY DEF GoOn
<1>2. /\ (IF over THEN {} ELSE left) \in SUBSET Roles
      /\ (IF over THEN {} ELSE snap) \in SUBSET Roles
      /\ (IF over THEN {} ELSE did) \in SUBSET Roles
  OBVIOUS
<1> HIDE DEF over
<1>3. at' \in [Handlers -> Steps] /\ at'[h] = step /\ \A g \in Handlers \ {h} : at'[g] = at[g]
  BY <1>1 DEF LocalsOK
<1>4. /\ todo' \in [Handlers -> SUBSET Roles]
      /\ todo'[h] = IF over THEN {} ELSE left
      /\ \A g \in Handlers \ {h} : todo'[g] = todo[g]
  BY <1>1, <1>2 DEF LocalsOK
<1>5. /\ before' \in [Handlers -> SUBSET Roles]
      /\ before'[h] = IF over THEN {} ELSE snap
      /\ \A g \in Handlers \ {h} : before'[g] = before[g]
  BY <1>1, <1>2 DEF LocalsOK
<1>6. /\ changed' \in [Handlers -> SUBSET Roles]
      /\ changed'[h] = IF over THEN {} ELSE did
      /\ \A g \in Handlers \ {h} : changed'[g] = changed[g]
  BY <1>1, <1>2 DEF LocalsOK
<1>7. \A g \in Handlers : changed'[g] \cap todo'[g] = {}
  BY <1>4, <1>6 DEF LocalsOK
<1>8. LocalsOK'
  BY <1>3, <1>4, <1>5, <1>6, <1>7 DEF LocalsOK
<1>9. QED
  BY <1>3, <1>4, <1>5, <1>6, <1>8 DEF over

(* The invariant of everything below.                                      *)
RoleInv == TypeOK /\ OnlyGiven /\ AccountInv

LEMMA InitRoleInv == Init => RoleInv
<1> SUFFICES ASSUME Init PROVE RoleInv
  OBVIOUS
<1>1. TypeOK
  <2>1. LocalsOK
    BY DEF Init, LocalsOK, Nothing, Steps
  <2>2. from \in [Handlers -> Downs \cup {NoRow}]
    BY DEF Init
  <2>3. mishaps \in 0 .. MaxMishaps
    BY BoundsAssumption DEF Init
  <2>4. held \in SUBSET Roles /\ given \in SUBSET Roles
        /\ owed \in SUBSET (Roles \ held) /\ lost \in SUBSET owed
    BY DEF Init
  <2>5. row \in Rows \cup {NoRow} /\ cached \in {NoList} \cup SUBSET Roles
    BY DEF Init
  <2>6. QED
    BY <2>1, <2>2, <2>3, <2>4, <2>5 DEF TypeOK, LocalsOK
<1>2. OnlyGiven
  BY DEF Init, OnlyGiven, Nothing, Handlers, Commands
<1>3. AccountInv
  <2>1. SavedOnce
    BY DEF Init, SavedOnce, Handlers
  <2>2. \A s \in Sweeps : at[s] = "idle"
    BY DEF Init, Handlers
  <2>3. PassRestores
    BY <2>2 DEF PassRestores
  <2>4. QED
    BY <2>1, <2>3 DEF Init, AccountInv, EveryRoleAccountedFor
<1>4. QED
  BY <1>1, <1>2, <1>3 DEF RoleInv

-----------------------------------------------------------------------------
(* The account of the roles                                                *)

LEMMA DownsAreCommands ==
    /\ Downs \subseteq Handlers /\ Undowns \subseteq Handlers /\ Sweeps \subseteq Handlers
    /\ \A d \in Downs : d \notin Undowns \cup Sweeps /\ Finished(d) = "done"
    /\ \A u \in Undowns : u \notin Downs \cup Sweeps /\ Finished(u) = "done"
    /\ \A s \in Sweeps : s \notin Downs \cup Undowns /\ Finished(s) = "idle"
BY NamesAssumption DEF Handlers, Commands, Finished

(* A step that leaves the row and whose it is to the others.               *)
LEMMA AccountKept ==
    ASSUME TypeOK, AccountInv,
           row' = row, from' = from,
           \A h \in Handlers : at[h] = "done" => at'[h] = "done",
           Carried \cap owed' \subseteq Carried' \cup lost',
           lost \cap owed' \subseteq lost',
           owed' \ owed \subseteq Carried' \cup lost',
           \A s \in Sweeps :
              /\ at'[s] = "consuming" => todo'[s] = {}
              /\ at'[s] \in {"granting", "consuming"} =>
                    /\ at[s] \in {"granting", "consuming"}
                    /\ todo[s] \cap owed' \subseteq todo'[s] \cup Carried' \cup lost'
    PROVE  AccountInv'
<1>1. SavedOnce'
  <2>1. row # NoRow => row.by \in Handlers
    BY DownsAreCommands DEF TypeOK, Rows
  <2>2. \A s \in Sweeps : from[s] # NoRow => from[s] \in Handlers
    BY DownsAreCommands DEF TypeOK
  <2>3. QED
    BY <2>1, <2>2 DEF AccountInv, SavedOnce
<1>2. PassRestores'
  <2> SUFFICES ASSUME NEW s \in Sweeps, at'[s] \in {"granting", "consuming"},
                      row # NoRow, row.by = from[s],
                      NEW r \in row.roles \cap owed'
               PROVE  r \in todo'[s] \cup Carried' \cup lost'
    BY DEF PassRestores
  <2>1. CASE r \in owed
    BY <2>1 DEF AccountInv, PassRestores
  <2>2. CASE r \notin owed
    BY <2>2
  <2>3. QED
    BY <2>1, <2>2
<1>3. EveryRoleAccountedFor'
  <2>1. Recorded' = Recorded
    BY DEF Recorded
  <2>2. QED
    BY <2>1 DEF AccountInv, EveryRoleAccountedFor
<1>4. QED
  BY <1>1, <1>2, <1>3 DEF AccountInv

(* A step that deletes the row.                                            *)
LEMMA AccountAfterDelete ==
    ASSUME TypeOK, AccountInv,
           row' = NoRow, owed' = owed,
           \A s \in Sweeps : from'[s] \in {from[s], NoRow},
           \A h \in Handlers : at[h] = "done" => at'[h] = "done",
           (Recorded \cup Carried) \cap owed \subseteq Carried' \cup lost',
           lost \subseteq lost',
           \A s \in Sweeps : at'[s] = "consuming" => todo'[s] = {}
    PROVE  AccountInv'
<1>1. \A s \in Sweeps : from[s] # NoRow => from[s] \in Handlers
  BY DownsAreCommands DEF TypeOK
<1>2. SavedOnce'
  BY <1>1 DEF AccountInv, SavedOnce
<1>3. PassRestores'
  BY DEF PassRestores
<1>4. EveryRoleAccountedFor'
  BY DEF AccountInv, EveryRoleAccountedFor
<1>5. QED
  BY <1>2, <1>3, <1>4 DEF AccountInv

-----------------------------------------------------------------------------
(* The steps of /down                                                      *)

LEMMA ListStrippableKeeps ==
    ASSUME RoleInv, NEW d \in Downs, ListStrippable(d)
    PROVE  RoleInv'
<1>1. PICK curated \in Configured :
         LET roles == IF curated # {} THEN curated ELSE held
         IN  GoOn(d, IF roles = {} THEN "done" ELSE "before", roles, {}, {})
  BY DEF ListStrippable
<1> DEFINE roles == IF curated # {} THEN curated ELSE held
           step  == IF roles = {} THEN "done" ELSE "before"
<1>2. roles \in SUBSET Roles /\ step \in Steps
  BY SettingsAssumption DEF RoleInv, TypeOK, Steps
<1>3. step \in {"done", "before"}
  OBVIOUS
<1>4. GoOn(d, step, roles, {}, {}) /\ at[d] = "idle"
  BY <1>1 DEF ListStrippable, Begin
<1>5. LocalsOK
  BY DEF RoleInv, TypeOK, LocalsOK
<1> HIDE DEF roles, step
<1>6. /\ LocalsOK'
      /\ at'[d] = step /\ before'[d] = {} /\ changed'[d] = {}
      /\ \A g \in Handlers \ {d} : /\ at'[g] = at[g] /\ todo'[g] = todo[g]
                                   /\ before'[g] = before[g] /\ changed'[g] = changed[g]
  BY <1>2, <1>4, <1>5, GoOnMoves, DownsAreCommands
<1>7. UNCHANGED <<held, row, cached, from, given, owed, lost, mishaps>>
  BY DEF ListStrippable, member, history
<1>8. TypeOK'
  BY <1>6, <1>7 DEF RoleInv, TypeOK, LocalsOK
<1>9. OnlyGiven'
  BY <1>6, <1>7, DownsAreCommands DEF RoleInv, OnlyGiven
<1>10. AccountInv'
  <2>1. Carried' = Carried
    BY <1>3, <1>4, <1>6, DownsAreCommands DEF Carried, InHands, Taken
  <2>2. \A h \in Handlers : at[h] = "done" => at'[h] = "done"
    BY <1>4, <1>6
  <2>3. \A s \in Sweeps : at'[s] = at[s] /\ todo'[s] = todo[s]
    BY <1>6, DownsAreCommands
  <2>4. \A s \in Sweeps : at[s] = "consuming" => todo[s] = {}
    BY DEF RoleInv, AccountInv, PassRestores
  <2>5. TypeOK /\ AccountInv
    BY DEF RoleInv
  <2>6. QED
    BY <1>7, <2>1, <2>2, <2>3, <2>4, <2>5, AccountKept
<1>11. QED
  BY <1>8, <1>9, <1>10 DEF RoleInv

LEMMA ReadBeforeKeeps ==
    ASSUME RoleInv, NEW d \in Downs, ReadBefore(d)
    PROVE  RoleInv'
<1>1. PICK list \in SUBSET Roles :
         /\ \/ /\ list = IF cached = NoList THEN held ELSE cached
               /\ cached' = list
               /\ UNCHANGED mishaps
            \/ list = {} /\ cached = NoList /\ Mishap /\ UNCHANGED cached
         /\ GoOn(d, "revoking", todo[d], list \cap todo[d], {})
  BY DEF ReadBefore
<1>2. LocalsOK /\ todo[d] \in SUBSET Roles /\ at[d] = "before"
  BY DownsAreCommands DEF RoleInv, TypeOK, LocalsOK, ReadBefore
<1>3. list \subseteq given /\ (cached' # NoList => cached' \subseteq given)
  BY <1>1 DEF RoleInv, OnlyGiven
<1>4. /\ LocalsOK'
      /\ at'[d] = "revoking" /\ before'[d] = list \cap todo[d] /\ changed'[d] = {}
      /\ \A g \in Handlers \ {d} : /\ at'[g] = at[g] /\ todo'[g] = todo[g]
                                   /\ before'[g] = before[g] /\ changed'[g] = changed[g]
  <2>1. "revoking" \in Steps /\ "revoking" # Finished(d) /\ d \in Handlers
    BY DownsAreCommands DEF Steps
  <2>2. list \cap todo[d] \in SUBSET Roles
    OBVIOUS
  <2>3. QED
    BY <1>1, <1>2, <2>1, <2>2, GoOnMoves
<1>5. UNCHANGED <<held, row, from, given, owed, lost>>
  BY DEF ReadBefore, history
<1>6. TypeOK'
  <2>1. mishaps' \in 0 .. MaxMishaps
    BY <1>1, BoundsAssumption DEF RoleInv, TypeOK, Mishap
  <2>2. cached' \in {NoList} \cup SUBSET Roles
    BY <1>1
  <2>3. QED
    BY <1>4, <1>5, <2>1, <2>2 DEF RoleInv, TypeOK, LocalsOK
<1>7. OnlyGiven'
  <2>1. \A h \in Handlers : before'[h] \subseteq given
    BY <1>3, <1>4 DEF RoleInv, OnlyGiven
  <2>2. QED
    BY <1>3, <1>4, <1>5, <2>1, DownsAreCommands DEF RoleInv, OnlyGiven
<1>8. AccountInv'
  <2>1. Carried' = Carried
    BY <1>2, <1>4, DownsAreCommands DEF Carried, InHands, Taken
  <2>2. \A h \in Handlers : at[h] = "done" => at'[h] = "done"
    BY <1>2, <1>4
  <2>3. \A s \in Sweeps : at'[s] = at[s] /\ todo'[s] = todo[s]
    BY <1>4, DownsAreCommands
  <2>4. \A s \in Sweeps : at[s] = "consuming" => todo[s] = {}
    BY DEF RoleInv, AccountInv, PassRestores
  <2>5. TypeOK /\ AccountInv
    BY DEF RoleInv
  <2>6. QED
    BY <1>5, <2>1, <2>2, <2>3, <2>4, <2>5, AccountKept
<1>9. QED
  BY <1>6, <1>7, <1>8 DEF RoleInv

LEMMA RevokeKeeps ==
    ASSUME RoleInv, NEW d \in Downs, NEW r \in Roles, Revoke(d, r)
    PROVE  RoleInv'
<1> DEFINE left == todo[d] \ {r}
           did  == changed[d] \cup {r}
<1>1. PICK made \in {did, changed[d]} :
         /\ GoOn(d, AfterRevoke(left, made), left, before[d], made)
         /\ \/ /\ made = did
               /\ held' = held \ {r}
               /\ owed' = owed \cup ({r} \cap held)
               /\ lost' = lost \cup (({r} \cap held) \ before[d])
            \/ made = changed[d] /\ UNCHANGED <<held, owed, lost>>
  BY DEF Revoke
<1>2. /\ LocalsOK /\ at[d] = "revoking" /\ r \in todo[d]
      /\ todo[d] \in SUBSET Roles /\ before[d] \in SUBSET Roles /\ changed[d] \in SUBSET Roles
      /\ changed[d] \cap todo[d] = {}
  BY DownsAreCommands DEF RoleInv, TypeOK, LocalsOK, Revoke
<1>3. UNCHANGED <<row, cached, from, given, mishaps>>
  BY DEF Revoke
<1>4. /\ AfterRevoke(left, made) \in {"revoking", "saving", "done"}
      /\ AfterRevoke(left, made) = "done" => made = {}
  BY DEF AfterRevoke
<1> DEFINE step == AfterRevoke(left, made)
<1>5. /\ LocalsOK'
      /\ at'[d] = step
      /\ before'[d] = IF step = "done" THEN {} ELSE before[d]
      /\ changed'[d] = made
      /\ \A g \in Handlers \ {d} : /\ at'[g] = at[g] /\ todo'[g] = todo[g]
                                   /\ before'[g] = before[g] /\ changed'[g] = changed[g]
  <2>1. made \cap left = {} /\ made \in SUBSET Roles /\ left \in SUBSET Roles
    BY <1>2
  <2>2. step \in Steps /\ Finished(d) = "done" /\ d \in Handlers
    BY <1>4, DownsAreCommands DEF Steps
  <2> HIDE DEF left, step
  <2>3. GoOn(d, step, left, before[d], made)
    BY <1>1 DEF step
  <2>4. /\ LocalsOK'
        /\ at'[d] = step
        /\ before'[d] = IF step = "done" THEN {} ELSE before[d]
        /\ changed'[d] = IF step = "done" THEN {} ELSE made
        /\ \A g \in Handlers \ {d} : /\ at'[g] = at[g] /\ todo'[g] = todo[g]
                                     /\ before'[g] = before[g] /\ changed'[g] = changed[g]
    BY <1>2, <2>1, <2>2, <2>3, GoOnMoves
  <2>5. QED
    BY <1>4, <2>4 DEF step
<1> HIDE DEF step
<1>6. TypeOK'
  BY <1>1, <1>3, <1>5 DEF RoleInv, TypeOK, LocalsOK
<1>7. OnlyGiven'
  <2>1. \A h \in Handlers : before'[h] \subseteq given
    BY <1>5 DEF RoleInv, OnlyGiven
  <2>2. held' \subseteq given
    BY <1>1 DEF RoleInv, OnlyGiven
  <2>3. QED
    BY <1>3, <1>5, <2>1, <2>2, DownsAreCommands DEF RoleInv, OnlyGiven
<1>8. AccountInv'
  <2>1. changed[d] \cap before[d] # {} => step # "done"
    BY <1>1, <1>4 DEF step
  <2>2. Carried \subseteq Carried'
    <3> SUFFICES ASSUME NEW x \in Roles, InHands(x) PROVE InHands(x)'
      BY DEF Carried
    <3>1. CASE \E u \in Undowns : at[u] = "granting" /\ x \in todo[u]
      BY <3>1, <1>5, DownsAreCommands DEF InHands
    <3>2. ASSUME NEW c \in Downs, c # d, at[c] \in {"revoking", "saving"}, x \in Taken(c)
          PROVE  InHands(x)'
      BY <3>2, <1>5, DownsAreCommands DEF InHands, Taken
    <3>3. CASE x \in Taken(d)
      <4>1. at'[d] \in {"revoking", "saving"}
        BY <3>3, <2>1, <1>4, <1>5 DEF Taken, step
      <4>2. x \in changed'[d] \cap before'[d]
        BY <4>1, <3>3, <1>1, <1>5 DEF Taken
      <4>3. QED
        BY <4>1, <4>2 DEF InHands, Taken
    <3>4. QED
      BY <3>1, <3>2, <3>3 DEF InHands
  <2>3. owed' \ owed \subseteq Carried' \cup lost'
    <3> SUFFICES ASSUME r \in owed', r \notin owed, r \in before[d] PROVE InHands(r)'
      BY <1>1 DEF Carried
    <3>1. made = did
      BY <1>1
    <3>2. at'[d] \in {"revoking", "saving"} /\ r \in changed'[d] \cap before'[d]
      BY <3>1, <1>4, <1>5 DEF step
    <3>3. QED
      BY <3>2 DEF InHands, Taken
  <2>4. lost \subseteq lost'
    BY <1>1
  <2>5. \A h \in Handlers : at[h] = "done" => at'[h] = "done"
    BY <1>2, <1>5
  <2>6. \A s \in Sweeps : at'[s] = at[s] /\ todo'[s] = todo[s]
    BY <1>5, DownsAreCommands
  <2>7. \A s \in Sweeps : at[s] = "consuming" => todo[s] = {}
    BY DEF RoleInv, AccountInv, PassRestores
  <2>8. TypeOK /\ AccountInv
    BY DEF RoleInv
  <2>9. QED
    BY <1>3, <2>2, <2>3, <2>4, <2>5, <2>6, <2>7, <2>8, AccountKept
<1>9. QED
  BY <1>6, <1>7, <1>8 DEF RoleInv

(* A handler that leaves.                                                  *)
LEMMA LeaveMoves ==
    ASSUME LocalsOK, NEW h \in Handlers, Leave(h)
    PROVE  /\ LocalsOK'
           /\ at'[h] = Finished(h)
           /\ todo'[h] = {} /\ before'[h] = {} /\ changed'[h] = {}
           /\ \A g \in Handlers \ {h} : /\ at'[g] = at[g] /\ todo'[g] = todo[g]
                                        /\ before'[g] = before[g] /\ changed'[g] = changed[g]
<1>1. Finished(h) \in Steps
  BY DEF Finished, Steps
<1>2. {} \in SUBSET Roles /\ {} \cap {} = {}
  OBVIOUS
<1>3. GoOn(h, Finished(h), {}, {}, {})
  BY DEF Leave
<1>4. QED
  BY <1>1, <1>2, <1>3, GoOnMoves

LEMMA SaveKeeps ==
    ASSUME RoleInv, NEW d \in Downs, Save(d)
    PROVE  RoleInv'
<1>1. /\ LocalsOK /\ at[d] = "saving" /\ TypeOK /\ AccountInv
      /\ changed[d] \in SUBSET Roles /\ before[d] \subseteq given
  BY DownsAreCommands DEF RoleInv, TypeOK, LocalsOK, OnlyGiven, Save
<1>2. /\ LocalsOK' /\ at'[d] = "done"
      /\ todo'[d] = {} /\ before'[d] = {} /\ changed'[d] = {}
      /\ \A g \in Handlers \ {d} : /\ at'[g] = at[g] /\ todo'[g] = todo[g]
                                   /\ before'[g] = before[g] /\ changed'[g] = changed[g]
  BY <1>1, LeaveMoves, DownsAreCommands DEF Save
<1>3. UNCHANGED <<held, cached, from, given, owed>>
  BY DEF Save
<1>4. Taken(d) \in SUBSET Roles /\ Taken(d) \subseteq given
  BY <1>1 DEF Taken
<1>5. \A h \in Handlers : at[h] = "done" => at'[h] = "done"
  BY <1>1, <1>2
<1>6. \A x \in Carried : x \in Taken(d) \/ x \in Carried'
  <2> SUFFICES ASSUME NEW x \in Roles, InHands(x), x \notin Taken(d) PROVE InHands(x)'
    BY DEF Carried
  <2>1. CASE \E u \in Undowns : at[u] = "granting" /\ x \in todo[u]
    BY <2>1, <1>2, DownsAreCommands DEF InHands
  <2>2. CASE \E c \in Downs : at[c] \in {"revoking", "saving"} /\ x \in Taken(c)
    BY <2>2, <1>2, DownsAreCommands DEF InHands, Taken
  <2>3. QED
    BY <2>1, <2>2 DEF InHands
<1>7. CASE /\ \E time \in {"running", "never"} :
                row' = [roles |-> Taken(d), by |-> d, time |-> time]
           /\ Lose(Recorded \ Taken(d))
           /\ UNCHANGED mishaps
  <2>1. row' \in Rows /\ row'.roles = Taken(d) /\ row'.by = d
    BY <1>7, <1>4 DEF Rows
  <2>2. row' # NoRow
    BY <2>1, NoRowAssumption DEF Rows
  <2>3. lost' = lost \cup ((Recorded \ Taken(d)) \cap owed)
    BY <1>7 DEF Lose
  <2>4. TypeOK'
    BY <1>1, <1>2, <1>3, <1>7, <2>1, <2>3 DEF TypeOK, LocalsOK
  <2>5. OnlyGiven'
    BY <1>2, <1>3, <1>4, <2>1, DownsAreCommands DEF RoleInv, OnlyGiven
  <2>6. SavedOnce'
    <3>1. \A s \in Sweeps : from[s] # NoRow => from[s] \in Handlers /\ at[from[s]] = "done"
      BY <1>1, DownsAreCommands DEF TypeOK, AccountInv, SavedOnce
    <3>2. QED
      BY <3>1, <1>2, <1>3, <1>5, <2>1 DEF SavedOnce
  <2>7. PassRestores'
    <3>1. \A s \in Sweeps : from[s] # d
      BY <1>1, NoRowAssumption DEF AccountInv, SavedOnce
    <3>2. \A s \in Sweeps : at'[s] = at[s] /\ todo'[s] = todo[s]
      BY <1>2, DownsAreCommands
    <3>3. QED
      BY <3>1, <3>2, <1>1, <1>3, <2>1 DEF AccountInv, PassRestores
  <2>8. EveryRoleAccountedFor'
    <3>1. Recorded' = Taken(d)
      BY <2>1, <2>2 DEF Recorded
    <3>2. QED
      BY <3>1, <1>1, <1>3, <1>6, <2>3 DEF AccountInv, EveryRoleAccountedFor
  <2>9. QED
    BY <2>4, <2>5, <2>6, <2>7, <2>8 DEF RoleInv, AccountInv
<1>8. CASE Mishap /\ Lose(Taken(d)) /\ UNCHANGED row
  <2>1. lost' = lost \cup (Taken(d) \cap owed) /\ row' = row
    BY <1>8 DEF Lose
  <2>2. mishaps' \in 0 .. MaxMishaps
    BY <1>1, <1>8, BoundsAssumption DEF TypeOK, Mishap
  <2>3. TypeOK'
    BY <1>1, <1>2, <1>3, <2>1, <2>2 DEF TypeOK, LocalsOK
  <2>4. OnlyGiven'
    BY <1>2, <1>3, <2>1, DownsAreCommands DEF RoleInv, OnlyGiven
  <2>5. AccountInv'
    <3>1. Carried \cap owed' \subseteq Carried' \cup lost'
      BY <1>3, <1>6, <2>1
    <3>2. \A s \in Sweeps : at'[s] = at[s] /\ todo'[s] = todo[s]
      BY <1>2, DownsAreCommands
    <3>3. \A s \in Sweeps : at[s] = "consuming" => todo[s] = {}
      BY <1>1 DEF AccountInv, PassRestores
    <3>4. QED
      BY <1>1, <1>3, <1>5, <2>1, <3>1, <3>2, <3>3, AccountKept
  <2>6. QED
    BY <2>3, <2>4, <2>5 DEF RoleInv
<1>9. QED
  BY <1>7, <1>8 DEF Save

-----------------------------------------------------------------------------
(* The steps of /undown and of the sweep                                   *)

LEMMA TakeKeeps ==
    ASSUME RoleInv, NEW u \in Undowns, Take(u)
    PROVE  RoleInv'
<1> DEFINE step == IF Recorded = {} THEN "done" ELSE "granting"
<1>1. /\ LocalsOK /\ at[u] = "idle" /\ TypeOK /\ AccountInv
      /\ GoOn(u, step, Recorded, {}, {})
  BY DEF RoleInv, TypeOK, LocalsOK, Take, Begin
<1>2. Recorded \in SUBSET Roles /\ Recorded \subseteq given
  BY DEF RoleInv, TypeOK, OnlyGiven, Recorded, Rows
<1>3. /\ LocalsOK' /\ at'[u] = step /\ todo'[u] = Recorded
      /\ before'[u] = {} /\ changed'[u] = {}
      /\ \A g \in Handlers \ {u} : /\ at'[g] = at[g] /\ todo'[g] = todo[g]
                                   /\ before'[g] = before[g] /\ changed'[g] = changed[g]
  <2>1. /\ step \in Steps /\ u \in Handlers /\ Finished(u) = "done"
        /\ step = "done" => Recorded = {}
    BY DownsAreCommands DEF Steps
  <2>2. {} \in SUBSET Roles /\ {} \cap Recorded = {}
    OBVIOUS
  <2> HIDE DEF step
  <2>3. /\ LocalsOK' /\ at'[u] = step
        /\ todo'[u] = IF step = Finished(u) THEN {} ELSE Recorded
        /\ before'[u] = {} /\ changed'[u] = {}
        /\ \A g \in Handlers \ {u} : /\ at'[g] = at[g] /\ todo'[g] = todo[g]
                                     /\ before'[g] = before[g] /\ changed'[g] = changed[g]
    BY <1>1, <1>2, <2>1, <2>2, GoOnMoves
  <2>4. QED
    BY <2>1, <2>3
<1>4. /\ UNCHANGED <<held, cached, given, owed, lost, mishaps>>
      /\ row' = NoRow
      /\ from' = [from EXCEPT ![u] = IF row = NoRow THEN NoRow ELSE row.by]
  BY DEF Take, history
<1>5. TypeOK'
  <2>1. from' \in [Handlers -> Downs \cup {NoRow}]
    <3>1. (IF row = NoRow THEN NoRow ELSE row.by) \in Downs \cup {NoRow}
      BY <1>1 DEF TypeOK, Rows
    <3>2. QED
      BY <1>1, <1>4, <3>1 DEF TypeOK
  <2>2. QED
    BY <1>1, <1>3, <1>4, <2>1 DEF TypeOK, LocalsOK
<1>6. OnlyGiven'
  BY <1>2, <1>3, <1>4, DownsAreCommands DEF RoleInv, OnlyGiven
<1>7. AccountInv'
  <2>1. Carried \subseteq Carried'
    BY <1>1, <1>3, DownsAreCommands DEF Carried, InHands, Taken
  <2>2. Recorded \subseteq Carried'
    BY <1>2, <1>3 DEF Carried, InHands
  <2>3. \A s \in Sweeps : from'[s] = from[s]
    BY <1>1, <1>4, DownsAreCommands DEF TypeOK
  <2>4. \A h \in Handlers : at[h] = "done" => at'[h] = "done"
    BY <1>1, <1>3
  <2>5. \A s \in Sweeps : at'[s] = "consuming" => todo'[s] = {}
    BY <1>1, <1>3, DownsAreCommands DEF AccountInv, PassRestores
  <2>6. QED
    BY <1>1, <1>4, <2>1, <2>2, <2>3, <2>4, <2>5, AccountAfterDelete
<1>8. QED
  BY <1>5, <1>6, <1>7 DEF RoleInv

LEMMA ReadDueKeeps ==
    ASSUME RoleInv, NEW s \in Sweeps, ReadDue(s)
    PROVE  RoleInv'
<1> DEFINE step == IF row.roles = {} THEN "consuming" ELSE "granting"
<1>1. /\ LocalsOK /\ at[s] = "idle" /\ TypeOK /\ AccountInv /\ row # NoRow
      /\ GoOn(s, step, row.roles, {}, {})
  BY DEF RoleInv, TypeOK, LocalsOK, ReadDue, Begin
<1>2. row.roles \in SUBSET Roles /\ row.by \in Downs /\ row.roles \subseteq given
  BY <1>1 DEF RoleInv, TypeOK, OnlyGiven, Rows
<1>3. /\ LocalsOK' /\ at'[s] = step /\ todo'[s] = row.roles
      /\ before'[s] = {} /\ changed'[s] = {}
      /\ \A g \in Handlers \ {s} : /\ at'[g] = at[g] /\ todo'[g] = todo[g]
                                   /\ before'[g] = before[g] /\ changed'[g] = changed[g]
  <2>1. step \in Steps /\ s \in Handlers /\ Finished(s) = "idle" /\ step # "idle"
    BY DownsAreCommands DEF Steps
  <2>2. {} \in SUBSET Roles /\ {} \cap row.roles = {}
    OBVIOUS
  <2> HIDE DEF step
  <2>3. /\ LocalsOK' /\ at'[s] = step
        /\ todo'[s] = IF step = Finished(s) THEN {} ELSE row.roles
        /\ before'[s] = {} /\ changed'[s] = {}
        /\ \A g \in Handlers \ {s} : /\ at'[g] = at[g] /\ todo'[g] = todo[g]
                                     /\ before'[g] = before[g] /\ changed'[g] = changed[g]
    BY <1>1, <1>2, <2>1, <2>2, GoOnMoves
  <2>4. QED
    BY <2>1, <2>3
<1>4. /\ UNCHANGED <<held, row, cached, given, owed, lost, mishaps>>
      /\ from' = [from EXCEPT ![s] = row.by]
  BY DEF ReadDue, member, history
<1>5. /\ from' \in [Handlers -> Downs \cup {NoRow}] /\ from'[s] = row.by
      /\ \A t \in Sweeps \ {s} : from'[t] = from[t]
  BY <1>1, <1>2, <1>4, DownsAreCommands DEF TypeOK
<1>6. TypeOK'
  BY <1>1, <1>3, <1>4, <1>5 DEF TypeOK, LocalsOK
<1>7. OnlyGiven'
  BY <1>2, <1>3, <1>4, DownsAreCommands DEF RoleInv, OnlyGiven
<1>8. SavedOnce'
  <2>1. \A t \in Sweeps : from[t] # NoRow => from[t] \in Handlers
    BY <1>1, DownsAreCommands DEF TypeOK
  <2>2. \A h \in Handlers : at[h] = "done" => at'[h] = "done"
    BY <1>1, <1>3
  <2>3. QED
    BY <1>1, <1>2, <1>4, <1>5, <2>1, <2>2, DownsAreCommands DEF AccountInv, SavedOnce
<1>9. Carried' = Carried
  BY <1>3, DownsAreCommands DEF Carried, InHands, Taken
<1>10. PassRestores'
  <2> SUFFICES ASSUME NEW t \in Sweeps
               PROVE  /\ at'[t] = "consuming" => todo'[t] = {}
                      /\ (/\ at'[t] \in {"granting", "consuming"} /\ row' # NoRow
                          /\ row'.by = from'[t])
                            => row'.roles \cap owed' \subseteq todo'[t] \cup Carried' \cup lost'
    BY DEF PassRestores
  <2>1. CASE t = s
    BY <2>1, <1>3, <1>4
  <2>2. CASE t # s
    BY <2>2, <1>1, <1>3, <1>4, <1>5, <1>9, DownsAreCommands DEF AccountInv, PassRestores
  <2>3. QED
    BY <2>1, <2>2
<1>11. EveryRoleAccountedFor'
  BY <1>1, <1>4, <1>9 DEF AccountInv, EveryRoleAccountedFor, Recorded
<1>12. QED
  BY <1>6, <1>7, <1>8, <1>10, <1>11 DEF RoleInv, AccountInv

LEMMA GrantKeeps ==
    ASSUME RoleInv, NEW h \in Undowns \cup Sweeps, NEW r \in Roles, Grant(h, r)
    PROVE  RoleInv'
<1> DEFINE left == todo[h] \ {r}
           step == AfterGrant(h, left)
<1>1. PICK made \in {changed[h] \cup {r}, changed[h]} :
         /\ GoOn(h, step, left, {}, made)
         /\ \/ held' = held \cup {r} /\ owed' = owed \ {r} /\ lost' = lost \ {r}
            \/ Lose({r}) /\ UNCHANGED <<held, owed>>
  BY DEF Grant
<1>2. /\ LocalsOK /\ at[h] = "granting" /\ r \in todo[h] /\ h \in Handlers
      /\ todo[h] \in SUBSET Roles /\ changed[h] \in SUBSET Roles
      /\ changed[h] \cap todo[h] = {} /\ r \in given
      /\ TypeOK /\ AccountInv
  BY DownsAreCommands DEF RoleInv, TypeOK, LocalsOK, OnlyGiven, Grant
<1>3. UNCHANGED <<row, cached, from, given, mishaps>>
  BY DEF Grant
<1>4. /\ step \in {"granting", "consuming", "done"}
      /\ step = "granting" <=> left # {}
      /\ step = "consuming" => h \in Sweeps
      /\ step = "done" => h \in Undowns
  BY DEF AfterGrant
<1>5. /\ LocalsOK' /\ at'[h] = step /\ todo'[h] = left /\ before'[h] = {}
      /\ \A g \in Handlers \ {h} : /\ at'[g] = at[g] /\ todo'[g] = todo[g]
                                   /\ before'[g] = before[g] /\ changed'[g] = changed[g]
  <2>1. made \cap left = {} /\ made \in SUBSET Roles /\ left \in SUBSET Roles
    BY <1>2
  <2>2. step \in Steps /\ {} \in SUBSET Roles
    BY <1>4 DEF Steps
  <2>3. step = Finished(h) => left = {}
    BY <1>4, DownsAreCommands
  <2> HIDE DEF left, step
  <2>4. /\ LocalsOK' /\ at'[h] = step
        /\ todo'[h] = IF step = Finished(h) THEN {} ELSE left
        /\ before'[h] = {}
        /\ \A g \in Handlers \ {h} : /\ at'[g] = at[g] /\ todo'[g] = todo[g]
                                     /\ before'[g] = before[g] /\ changed'[g] = changed[g]
    BY <1>1, <1>2, <2>1, <2>2, GoOnMoves
  <2>5. QED
    BY <2>3, <2>4
<1>6. lost' \subseteq owed' /\ owed' \in SUBSET (Roles \ held') /\ held' \in SUBSET Roles
  BY <1>1, <1>2 DEF TypeOK, Lose
<1>7. TypeOK'
  BY <1>2, <1>3, <1>5, <1>6 DEF TypeOK, LocalsOK
<1>8. OnlyGiven'
  BY <1>1, <1>2, <1>3, <1>5, DownsAreCommands DEF RoleInv, OnlyGiven
<1>9. AccountInv'
  <2>1. /\ owed' \subseteq owed /\ lost \cap owed' \subseteq lost'
        /\ {r} \cap owed' \subseteq lost'
    BY <1>1 DEF Lose
  <2>2. Carried \cap owed' \subseteq Carried' \cup lost'
    <3> SUFFICES ASSUME NEW x \in Roles, InHands(x), x # r PROVE InHands(x)'
      BY <2>1 DEF Carried
    <3>1. ASSUME NEW c \in Downs, at[c] \in {"revoking", "saving"}, x \in Taken(c)
          PROVE  InHands(x)'
      BY <3>1, <1>5, DownsAreCommands DEF InHands, Taken
    <3>2. ASSUME NEW u \in Undowns, at[u] = "granting", x \in todo[u]
          PROVE  InHands(x)'
      <4>1. at'[u] = "granting" /\ x \in todo'[u]
        BY <3>2, <1>4, <1>5, DownsAreCommands
      <4>2. QED
        BY <4>1 DEF InHands
    <3>3. QED
      BY <3>1, <3>2 DEF InHands
  <2>3. \A g \in Handlers : at[g] = "done" => at'[g] = "done"
    BY <1>2, <1>5
  <2>4. ASSUME NEW s \in Sweeps
        PROVE  /\ at'[s] = "consuming" => todo'[s] = {}
               /\ at'[s] \in {"granting", "consuming"} =>
                     /\ at[s] \in {"granting", "consuming"}
                     /\ todo[s] \cap owed' \subseteq todo'[s] \cup Carried' \cup lost'
    <3>1. CASE s = h
      BY <3>1, <1>2, <1>4, <1>5, <2>1
    <3>2. CASE s # h
      BY <3>2, <1>2, <1>5, DownsAreCommands DEF AccountInv, PassRestores
    <3>3. QED
      BY <3>1, <3>2
  <2>5. QED
    BY <1>2, <1>3, <2>1, <2>2, <2>3, <2>4, AccountKept
<1>10. QED
  BY <1>7, <1>8, <1>9 DEF RoleInv

(* Where the pass consumes the row it read, PassRestores says that nothing *)
(* is owed of it any more that is not lost or with a command.              *)
LEMMA ConsumeKeeps ==
    ASSUME RoleInv, NEW s \in Sweeps, Consume(s)
    PROVE  RoleInv'
<1>1. LocalsOK /\ at[s] = "consuming" /\ TypeOK /\ AccountInv
  BY DEF RoleInv, TypeOK, LocalsOK, Consume
<1>2. /\ LocalsOK' /\ at'[s] = "idle"
      /\ todo'[s] = {} /\ before'[s] = {} /\ changed'[s] = {}
      /\ \A g \in Handlers \ {s} : /\ at'[g] = at[g] /\ todo'[g] = todo[g]
                                   /\ before'[g] = before[g] /\ changed'[g] = changed[g]
  BY <1>1, LeaveMoves, DownsAreCommands DEF Consume
<1>3. /\ UNCHANGED <<held, cached, given, owed>>
      /\ from' = [from EXCEPT ![s] = NoRow]
      /\ \/ /\ row' = NoRow /\ UNCHANGED mishaps
            /\ IF row # NoRow /\ row.by # from[s] THEN Lose(row.roles) ELSE UNCHANGED lost
         \/ Mishap /\ UNCHANGED <<row, lost>>
  BY DEF Consume
<1>4. /\ from' \in [Handlers -> Downs \cup {NoRow}] /\ from'[s] = NoRow
      /\ \A t \in Sweeps \ {s} : from'[t] = from[t]
  BY <1>1, <1>3, DownsAreCommands DEF TypeOK
<1>5. mishaps' \in 0 .. MaxMishaps
  BY <1>1, <1>3, BoundsAssumption DEF TypeOK, Mishap
<1>6. lost \subseteq lost' /\ lost' \subseteq owed'
  BY <1>1, <1>3 DEF Lose, TypeOK
<1>7. TypeOK'
  BY <1>1, <1>2, <1>3, <1>4, <1>5, <1>6 DEF TypeOK, LocalsOK
<1>8. OnlyGiven'
  BY <1>2, <1>3, DownsAreCommands DEF RoleInv, OnlyGiven
<1>9. Carried' = Carried
  BY <1>2, DownsAreCommands DEF Carried, InHands, Taken
<1>10. \A h \in Handlers : at[h] = "done" => at'[h] = "done"
  BY <1>1, <1>2
<1>11. \A t \in Sweeps : at'[t] = "consuming" => todo'[t] = {}
  BY <1>1, <1>2, DownsAreCommands DEF AccountInv, PassRestores
<1>12. CASE /\ row' = NoRow
            /\ IF row # NoRow /\ row.by # from[s] THEN Lose(row.roles) ELSE UNCHANGED lost
  <2>1. Recorded \cap owed \subseteq Carried' \cup lost'
    <3>1. CASE row = NoRow
      BY <3>1 DEF Recorded
    <3>2. CASE row # NoRow /\ row.by # from[s]
      BY <3>2, <1>12 DEF Recorded, Lose
    <3>3. CASE row # NoRow /\ row.by = from[s]
      <4>1. row.roles \cap owed \subseteq Carried \cup lost
        BY <3>3, <1>1 DEF AccountInv, PassRestores
      <4>2. QED
        BY <4>1, <3>3, <1>6, <1>9 DEF Recorded
    <3>4. QED
      BY <3>1, <3>2, <3>3
  <2>2. AccountInv'
    BY <1>1, <1>3, <1>4, <1>6, <1>9, <1>10, <1>11, <1>12, <2>1, AccountAfterDelete
  <2>3. QED
    BY <1>7, <1>8, <2>2 DEF RoleInv
<1>13. CASE UNCHANGED <<row, lost>>
  <2>1. SavedOnce'
    <3>1. row # NoRow => row.by \in Handlers
      BY <1>1, DownsAreCommands DEF TypeOK, Rows
    <3>2. \A t \in Sweeps : from[t] # NoRow => from[t] \in Handlers
      BY <1>1, DownsAreCommands DEF TypeOK
    <3>3. QED
      BY <1>1, <1>4, <1>10, <1>13, <3>1, <3>2 DEF AccountInv, SavedOnce
  <2>2. PassRestores'
    BY <1>1, <1>2, <1>3, <1>4, <1>9, <1>11, <1>13, DownsAreCommands
    DEF AccountInv, PassRestores
  <2>3. EveryRoleAccountedFor'
    BY <1>1, <1>3, <1>9, <1>13 DEF AccountInv, EveryRoleAccountedFor, Recorded
  <2>4. QED
    BY <1>7, <1>8, <2>1, <2>2, <2>3 DEF RoleInv, AccountInv
<1>14. QED
  BY <1>3, <1>12, <1>13

-----------------------------------------------------------------------------
(* The steps around the handlers                                           *)

LEMMA ExpireKeeps == ASSUME RoleInv, Expire PROVE RoleInv'
<1>1. /\ UNCHANGED <<held, cached, at, todo, before, changed, from, given, owed, lost, mishaps>>
      /\ row # NoRow /\ row' = [row EXCEPT !.time = "over"]
  BY DEF Expire, locals, history
<1>2. row \in Rows
  BY <1>1 DEF RoleInv, TypeOK
<1>3. row' \in Rows /\ row'.roles = row.roles /\ row'.by = row.by
  BY <1>1, <1>2 DEF Rows
<1>4. row' # NoRow
  BY <1>3, NoRowAssumption DEF Rows
<1>5. TypeOK'
  BY <1>1, <1>3 DEF RoleInv, TypeOK
<1>6. OnlyGiven'
  BY <1>1, <1>3 DEF RoleInv, OnlyGiven
<1>7. Carried' = Carried /\ Recorded' = Recorded
  BY <1>1, <1>3, <1>4 DEF Carried, InHands, Taken, Recorded
<1>8. SavedOnce'
  BY <1>1, <1>3 DEF RoleInv, AccountInv, SavedOnce
<1>9. PassRestores'
  BY <1>1, <1>3, <1>7 DEF RoleInv, AccountInv, PassRestores
<1>10. EveryRoleAccountedFor'
  BY <1>1, <1>7 DEF RoleInv, AccountInv, EveryRoleAccountedFor
<1>11. QED
  BY <1>5, <1>6, <1>8, <1>9, <1>10 DEF RoleInv, AccountInv

(* Steps that leave the handlers and the row alone.                        *)
LEMMA HandlersStay ==
    ASSUME RoleInv,
           UNCHANGED <<row, at, todo, before, changed, from>>,
           owed' \subseteq owed, lost \cap owed' \subseteq lost'
    PROVE  AccountInv'
<1>1. Carried' = Carried
  BY DEF Carried, InHands, Taken
<1>2. \A s \in Sweeps : at[s] = "consuming" => todo[s] = {}
  BY DEF RoleInv, AccountInv, PassRestores
<1>3. TypeOK /\ AccountInv
  BY DEF RoleInv
<1>4. QED
  BY <1>1, <1>2, <1>3, AccountKept

LEMMA CacheRolesKeeps == ASSUME RoleInv, CacheRoles PROVE RoleInv'
<1>1. /\ UNCHANGED <<held, row, at, todo, before, changed, from, given, owed, lost, mishaps>>
      /\ cached' \in {held, NoList}
  BY DEF CacheRoles, locals, history
<1>2. TypeOK'
  BY <1>1 DEF RoleInv, TypeOK
<1>3. OnlyGiven'
  BY <1>1 DEF RoleInv, OnlyGiven
<1>4. AccountInv'
  BY <1>1, HandlersStay
<1>5. QED
  BY <1>2, <1>3, <1>4 DEF RoleInv

LEMMA EditKeeps == ASSUME RoleInv, NEW r \in Roles, Edit(r) PROVE RoleInv'
<1>1. /\ UNCHANGED <<row, cached, at, todo, before, changed, from>>
      /\ \/ held' = held \ {r} /\ UNCHANGED <<given, owed, lost>>
         \/ /\ held' = held \cup {r} /\ given' = given \cup {r}
            /\ owed' = owed \ {r} /\ lost' = lost \ {r}
  BY DEF Edit, locals
<1>2. mishaps' \in 0 .. MaxMishaps
  BY BoundsAssumption DEF RoleInv, TypeOK, Edit, Mishap
<1>3. /\ held' \in SUBSET Roles /\ given' \in SUBSET Roles
      /\ owed' \in SUBSET (Roles \ held') /\ lost' \in SUBSET owed'
  BY <1>1 DEF RoleInv, TypeOK
<1>4. TypeOK'
  BY <1>1, <1>2, <1>3 DEF RoleInv, TypeOK
<1>5. OnlyGiven'
  <2>1. given \subseteq given' /\ held' \subseteq given'
    BY <1>1 DEF RoleInv, OnlyGiven
  <2>2. QED
    BY <1>1, <2>1 DEF RoleInv, OnlyGiven
<1>6. AccountInv'
  BY <1>1, HandlersStay
<1>7. QED
  BY <1>4, <1>5, <1>6 DEF RoleInv

LEMMA ForgetKeeps == ASSUME RoleInv, Forget PROVE RoleInv'
<1>1. /\ UNCHANGED <<held, cached, at, todo, before, changed, from, given, owed>>
      /\ row' = NoRow /\ lost' = lost \cup (Recorded \cap owed)
  BY DEF Forget, locals, Lose
<1>2. mishaps' \in 0 .. MaxMishaps
  BY BoundsAssumption DEF RoleInv, TypeOK, Forget, Mishap
<1>3. TypeOK'
  BY <1>1, <1>2 DEF RoleInv, TypeOK
<1>4. OnlyGiven'
  BY <1>1 DEF RoleInv, OnlyGiven
<1>5. AccountInv'
  <2>1. Carried' = Carried
    BY <1>1 DEF Carried, InHands, Taken
  <2>2. \A s \in Sweeps : at[s] = "consuming" => todo[s] = {}
    BY DEF RoleInv, AccountInv, PassRestores
  <2>3. QED
    BY <1>1, <2>1, <2>2, AccountAfterDelete DEF RoleInv
<1>6. QED
  BY <1>3, <1>4, <1>5 DEF RoleInv

LEMMA RestartKeeps == ASSUME RoleInv, Restart PROVE RoleInv'
<1>1. /\ UNCHANGED <<held, row, given, owed>>
      /\ cached' = NoList /\ todo' = Nothing /\ before' = Nothing /\ changed' = Nothing
      /\ at' = [h \in Handlers |-> IF h \in InFlight \cup Sweeps THEN Finished(h) ELSE at[h]]
      /\ from' = [h \in Handlers |-> IF h \in Sweeps THEN NoRow ELSE from[h]]
      /\ lost' = lost \cup (Carried \cap owed)
  BY DEF Restart, Lose
<1>2. mishaps' \in 0 .. MaxMishaps
  BY BoundsAssumption DEF RoleInv, TypeOK, Restart, Mishap
<1>3. \A h \in Handlers : todo'[h] = {} /\ before'[h] = {} /\ changed'[h] = {}
  BY <1>1 DEF Nothing
<1>4. TypeOK'
  <2>1. at' \in [Handlers -> Steps]
    BY <1>1 DEF RoleInv, TypeOK, Finished, Steps
  <2>2. from' \in [Handlers -> Downs \cup {NoRow}]
    BY <1>1 DEF RoleInv, TypeOK
  <2>3. /\ todo' \in [Handlers -> SUBSET Roles] /\ before' \in [Handlers -> SUBSET Roles]
        /\ changed' \in [Handlers -> SUBSET Roles]
    BY <1>1 DEF Nothing
  <2>4. QED
    BY <1>1, <1>2, <1>3, <2>1, <2>2, <2>3 DEF RoleInv, TypeOK
<1>5. OnlyGiven'
  BY <1>1, <1>3, DownsAreCommands DEF RoleInv, OnlyGiven
<1>6. AccountInv'
  <2>1. \A s \in Sweeps : at'[s] = "idle" /\ from'[s] = NoRow
    BY <1>1, DownsAreCommands
  <2>2. SavedOnce'
    <3>1. row # NoRow => row.by \in Downs /\ at[row.by] = "done"
      BY DEF RoleInv, TypeOK, Rows, AccountInv, SavedOnce
    <3>2. \A d \in Downs : at[d] = "done" => at'[d] = "done"
      BY <1>1, DownsAreCommands DEF InFlight
    <3>3. QED
      BY <1>1, <2>1, <3>1, <3>2 DEF SavedOnce
  <2>3. PassRestores'
    BY <2>1 DEF PassRestores
  <2>4. EveryRoleAccountedFor'
    BY <1>1 DEF RoleInv, AccountInv, EveryRoleAccountedFor, Recorded
  <2>5. QED
    BY <2>2, <2>3, <2>4 DEF AccountInv
<1>7. QED
  BY <1>4, <1>5, <1>6 DEF RoleInv

-----------------------------------------------------------------------------
(* One /undown per /down                                                   *)

(* The /down whose row a /undown took has ended, its row is nobody else's, *)
(* and the row that stands is not one that was taken before.               *)
TakenOnce ==
    /\ OneUndownPerDown
    /\ \A u \in Undowns : from[u] # NoRow => at[from[u]] = "done"
    /\ row # NoRow => \A u \in Undowns : from[u] # row.by

(* A command that has ended does nothing more.                             *)
LEMMA DoneStays ==
    ASSUME RoleInv, [Next]_vars
    PROVE  \A h \in Commands : at[h] = "done" => at'[h] = "done"
<1>1. ASSUME NEW h \in Handlers, at[h] # "done", NEW step, NEW left, NEW snap, NEW did,
             GoOn(h, step, left, snap, did)
      PROVE  \A g \in Commands : at[g] = "done" => at'[g] = "done"
  BY <1>1 DEF GoOn, RoleInv, TypeOK, Handlers
<1>2. ASSUME NEW d \in Downs, Down(d)
      PROVE  \A g \in Commands : at[g] = "done" => at'[g] = "done"
  <2>1. d \in Handlers
    BY DownsAreCommands
  <2>2. CASE ListStrippable(d)
    <3>1. at[d] # "done"
      BY <2>2 DEF ListStrippable, Begin
    <3>2. \E step, left, snap, did : GoOn(d, step, left, snap, did)
      BY <2>2 DEF ListStrippable
    <3>3. QED
      BY <1>1, <2>1, <3>1, <3>2
  <2>3. CASE ReadBefore(d)
    BY <1>1, <2>1, <2>3 DEF ReadBefore
  <2>4. ASSUME NEW r \in Roles, Revoke(d, r)
        PROVE  \A g \in Commands : at[g] = "done" => at'[g] = "done"
    <3>1. at[d] # "done"
      BY <2>4 DEF Revoke
    <3>2. \E step, left, snap, did : GoOn(d, step, left, snap, did)
      BY <2>4 DEF Revoke
    <3>3. QED
      BY <1>1, <2>1, <3>1, <3>2
  <2>5. CASE Save(d)
    BY <1>1, <2>1, <2>5 DEF Save, Leave
  <2>6. QED
    BY <1>2, <2>2, <2>3, <2>4, <2>5 DEF Down
<1>3. ASSUME NEW h \in Undowns \cup Sweeps, NEW r \in Roles, Grant(h, r)
      PROVE  \A g \in Commands : at[g] = "done" => at'[g] = "done"
  <2>1. h \in Handlers /\ at[h] # "done"
    BY <1>3, DownsAreCommands DEF Grant
  <2>2. \E step, left, snap, did : GoOn(h, step, left, snap, did)
    BY <1>3 DEF Grant
  <2>3. QED
    BY <1>1, <2>1, <2>2
<1>4. ASSUME NEW u \in Undowns, Take(u)
      PROVE  \A g \in Commands : at[g] = "done" => at'[g] = "done"
  BY <1>1, <1>4, DownsAreCommands DEF Take, Begin
<1>5. ASSUME NEW s \in Sweeps, ReadDue(s) \/ Consume(s)
      PROVE  \A g \in Commands : at[g] = "done" => at'[g] = "done"
  BY <1>1, <1>5, DownsAreCommands DEF ReadDue, Begin, Consume, Leave
<1>6. CASE Restart
  BY <1>6, DownsAreCommands DEF Restart, InFlight, Finished, Handlers, Commands
<1>7. CASE Expire \/ CacheRoles \/ Forget \/ (\E r \in Roles : Edit(r)) \/ UNCHANGED vars
  BY <1>7 DEF Expire, CacheRoles, Forget, Edit, vars, locals
<1>8. QED
  BY <1>2, <1>3, <1>4, <1>5, <1>6, <1>7 DEF Next, Undown, Sweep

(* A step that takes no row and saves none.                                *)
LEMMA NobodyTakes ==
    ASSUME RoleInv, TakenOnce, [Next]_vars,
           \A u \in Undowns : from'[u] = from[u],
           row' # NoRow => row # NoRow /\ row'.by = row.by
    PROVE  TakenOnce'
<1>1. \A u \in Undowns : from[u] # NoRow => from[u] \in Commands
  BY DownsAreCommands DEF RoleInv, TypeOK, Commands
<1>2. \A u \in Undowns : from'[u] # NoRow => at'[from'[u]] = "done"
  BY <1>1, DoneStays DEF TakenOnce
<1>3. QED
  BY <1>2 DEF TakenOnce, OneUndownPerDown

LEMMA NextTakenOnce == RoleInv /\ TakenOnce /\ [Next]_vars => TakenOnce'
<1> SUFFICES ASSUME RoleInv, TakenOnce, [Next]_vars PROVE TakenOnce'
  OBVIOUS
<1>1. ASSUME NEW d \in Downs, Save(d) PROVE TakenOnce'
  <2>1. from' = from /\ at[d] = "saving"
    BY <1>1 DEF Save
  <2>2. row' = row \/ (row' # NoRow => row'.by = d)
    BY <1>1 DEF Save
  <2>3. CASE row' = row
    BY <2>1, <2>3, NobodyTakes
  <2>4. CASE row' # NoRow => row'.by = d
    <3>1. \A u \in Undowns : from[u] # d
      BY <2>1, NoRowAssumption DEF TakenOnce
    <3>2. \A u \in Undowns : from'[u] # NoRow => at'[from'[u]] = "done"
      BY <2>1, DoneStays, DownsAreCommands DEF TakenOnce, RoleInv, TypeOK, Commands
    <3>3. QED
      BY <2>1, <2>4, <3>1, <3>2 DEF TakenOnce, OneUndownPerDown
  <2>5. QED
    BY <2>2, <2>3, <2>4
<1>2. ASSUME NEW u \in Undowns, Take(u) PROVE TakenOnce'
  <2>1. /\ from'[u] = IF row = NoRow THEN NoRow ELSE row.by
        /\ \A v \in Undowns \ {u} : from'[v] = from[v]
        /\ row' = NoRow
    BY <1>2, DownsAreCommands DEF Take, RoleInv, TypeOK
  <2>2. row # NoRow => row.by \in Commands /\ at[row.by] = "done"
    BY DEF RoleInv, TypeOK, Rows, AccountInv, SavedOnce, Commands
  <2>3. \A v \in Undowns : from'[v] # NoRow => at'[from'[v]] = "done"
    BY <2>1, <2>2, DoneStays, DownsAreCommands DEF TakenOnce, RoleInv, TypeOK, Commands
  <2>4. OneUndownPerDown'
    BY <2>1 DEF TakenOnce, OneUndownPerDown
  <2>5. QED
    BY <2>1, <2>3, <2>4 DEF TakenOnce
<1>3. ASSUME NEW s \in Sweeps, ReadDue(s) \/ Consume(s) PROVE TakenOnce'
  <2>1. \A u \in Undowns : from'[u] = from[u]
    BY <1>3, DownsAreCommands DEF ReadDue, Consume, RoleInv, TypeOK
  <2>2. row' = row \/ row' = NoRow
    BY <1>3 DEF ReadDue, Consume, member
  <2>3. QED
    BY <2>1, <2>2, NobodyTakes
<1>4. ASSUME NEW h \in Handlers, NEW r \in Roles, Grant(h, r) \/ Revoke(h, r)
      PROVE  TakenOnce'
  BY <1>4, NobodyTakes DEF Grant, Revoke
<1>5. ASSUME NEW d \in Downs, ListStrippable(d) \/ ReadBefore(d) PROVE TakenOnce'
  BY <1>5, NobodyTakes DEF ListStrippable, ReadBefore, member
<1>6. CASE Restart
  <2>1. \A u \in Undowns : from'[u] = from[u]
    BY <1>6, DownsAreCommands DEF Restart
  <2>2. QED
    BY <1>6, <2>1, NobodyTakes DEF Restart
<1>7. CASE Expire
  <2>1. row'.by = row.by
    BY <1>7 DEF Expire, RoleInv, TypeOK, Rows
  <2>2. QED
    BY <1>7, <2>1, NobodyTakes DEF Expire
<1>8. CASE CacheRoles \/ Forget \/ (\E r \in Roles : Edit(r)) \/ UNCHANGED vars
  BY <1>8, NobodyTakes DEF CacheRoles, Forget, Edit, vars, member
<1>9. QED
  BY <1>1, <1>2, <1>3, <1>4, <1>5, <1>6, <1>7, <1>8, DownsAreCommands
  DEF Next, Down, Undown, Sweep

-----------------------------------------------------------------------------
(* The theorems                                                            *)

LEMMA NextRoleInv == RoleInv /\ [Next]_vars => RoleInv'
<1> SUFFICES ASSUME RoleInv, [Next]_vars PROVE RoleInv'
  OBVIOUS
<1>1. ASSUME NEW d \in Downs, Down(d) PROVE RoleInv'
  BY <1>1, ListStrippableKeeps, ReadBeforeKeeps, RevokeKeeps, SaveKeeps DEF Down
<1>2. ASSUME NEW u \in Undowns, Undown(u) PROVE RoleInv'
  BY <1>2, TakeKeeps, GrantKeeps DEF Undown
<1>3. ASSUME NEW s \in Sweeps, Sweep(s) PROVE RoleInv'
  BY <1>3, ReadDueKeeps, GrantKeeps, ConsumeKeeps DEF Sweep
<1>4. ASSUME NEW r \in Roles, Edit(r) PROVE RoleInv'
  BY <1>4, EditKeeps
<1>5. CASE Expire
  BY <1>5, ExpireKeeps
<1>6. CASE CacheRoles
  BY <1>6, CacheRolesKeeps
<1>7. CASE Forget
  BY <1>7, ForgetKeeps
<1>8. CASE Restart
  BY <1>8, RestartKeeps
<1>9. CASE UNCHANGED vars
  BY <1>9 DEF vars, member, locals, history, RoleInv, TypeOK, OnlyGiven, AccountInv, SavedOnce,
              PassRestores, EveryRoleAccountedFor, Recorded, Carried, InHands, Taken
<1>10. QED
  BY <1>1, <1>2, <1>3, <1>4, <1>5, <1>6, <1>7, <1>8, <1>9 DEF Next

LEMMA RolesInvariant == Spec => []RoleInv
<1>1. QED
  BY InitRoleInv, NextRoleInv, PTL DEF Spec

(* The variables keep their types, for any number of commands and passes.  *)
THEOREM DownTypes == Spec => []TypeOK
<1>1. RoleInv => TypeOK
  BY DEF RoleInv
<1>2. QED
  BY <1>1, RolesInvariant, PTL

(* Whatever commands, passes, edits and restarts do to each other, the bot *)
(* gives no administrative role to a member to whom nobody ever gave it.   *)
THEOREM NobodyIsPromoted == Spec => []NeverPromotes
<1>1. RoleInv => NeverPromotes
  BY DEF RoleInv, OnlyGiven, NeverPromotes
<1>2. QED
  BY <1>1, RolesInvariant, PTL

(* No role that /down took vanishes unless it was refused or its record    *)
(* was lost in one of the ways the model names.                            *)
THEOREM TakenRolesAreAccountedFor == Spec => []EveryRoleAccountedFor
<1>1. RoleInv => EveryRoleAccountedFor
  BY DEF RoleInv, AccountInv
<1>2. QED
  BY <1>1, RolesInvariant, PTL

(* However many /undown of a member run at once, the roles of one /down    *)
(* are given back by at most one of them.                                  *)
THEOREM OneUndownGivesBack == Spec => []OneUndownPerDown
<1>1. Init => TakenOnce
  BY DEF Init, TakenOnce, OneUndownPerDown, Handlers, Commands
<1>2. TakenOnce => OneUndownPerDown
  BY DEF TakenOnce
<1>3. QED
  BY <1>1, <1>2, RolesInvariant, NextTakenOnce, PTL DEF Spec
=============================================================================
