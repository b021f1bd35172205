---------------------------- MODULE DashboardProofs ----------------------------
(***************************************************************************)
(* Theorems about the dashboard, for any number of requests at once and    *)
(* any bounds.  The sign-in (SignIn): its types are kept, no pending login *)
(* takes more guesses than the ceiling and the requests in flight allow,   *)
(* and the store takes a code once.  The settings routes (SettingsRoutes): *)
(* every answer tells what was written.  The appearance (Appearance) and   *)
(* the screen (SettingsForm): what an operator sees is the row, or they    *)
(* were told of the difference.  The tunnel (Tunnel): one agent at most,   *)
(* and the manager's.  At the end, the types of every part.                *)
(***************************************************************************)
EXTENDS MCDashboard, Sequences, FiniteSetTheorems, TLAPS

-----------------------------------------------------------------------------
(* The inductive invariant, in three parts.                                *)

Request == [at : Places, route : Routes, id : {None} \cup Pendings,
            code : Codes \cup {Junk}, mint : 0 .. MaxMints]

(* The steps of a login that waits for a code, those that carry a code,    *)
(* and those that carry a key to enrol.                                    *)
LoginPlaces == {"enrolled?", "material", "check", "enrol", "count", "destroy", "forget"}
CodePlaces  == {"enrolled?", "material", "check", "enrol", "consume", "reauth", "confirm"}
KeyPlaces   == {"enrol", "confirm"}

(* A request between two awaits: a login step serves a login that was      *)
(* created, and the codes typed are of keys that were generated.           *)
RequestOK(x, made, created) ==
    /\ x \in Request
    /\ x.at \in LoginPlaces => x.route = "verify"
    /\ x.route = "verify" <=> x.id # None
    /\ x.id # None => x.id \in created
    /\ x.at \in CodePlaces => x.code \in Codes
    /\ x.code \in Codes => x.code[2] <= made
    /\ x.at \in KeyPlaces => x.mint \in Mints
    /\ x.at \in {"consume", "reauth"} => x.route \in {"verify", "setup", "disable", "regenerate"}
    /\ x.at = "reauth" => x.route # "verify"

Created == {p \in Pendings : pending[p] # None}

RequestsOK ==
    /\ req \in [Requests -> Request]
    /\ \A r \in Requests : RequestOK(req[r], minted, Created)

(* The store refuses what it has taken: an app's code is not newer than    *)
(* the last one taken, and a recovery code is deleted.                     *)
Refused(c) == IF c[1] = "totp" THEN credential # None /\ c[3] <= credential.last ELSE c \notin recovery

StoreOK ==
    /\ clock \in 0 .. MaxClock /\ minted \in 0 .. MaxMints
    /\ credential \in {None} \cup Enrolled
    /\ recovery \subseteq Codes /\ (recovery # {} => credential # None)
    /\ \A c \in recovery : c[1] = "recovery"
    /\ setup \in 0 .. MaxMints
    /\ signedIn \in BOOLEAN
    /\ consumed \subseteq Codes
    /\ \A c \in consumed : c[2] <= minted /\ Refused(c)

(* The requests that may still give a login a wrong code, and those that   *)
(* have and are about to destroy it.                                       *)
Guessing(p) == {r \in Requests : req[r].id = p
                    /\ req[r].at \in {"enrolled?", "material", "check", "consume", "count"}}
Ending(p)   == {r \in Requests : req[r].id = p /\ req[r].at = "destroy"}

(* A guess that reaches the ceiling leaves its request ending the login;   *)
(* once the login is gone only the requests that had begun can guess.      *)
LoginOK(p) ==
    /\ pending[p] = None => guesses[p] = 0
    /\ pending[p] \in Live => /\ guesses[p] = pending[p].attempts
                              /\ guesses[p] <= MaxAttempts - 1 + Cardinality(Ending(p))
    /\ pending[p] = Gone =>
          guesses[p] + Cardinality(Guessing(p)) <= MaxAttempts - 1 + Cardinality(Requests)

LoginsOK ==
    /\ pending \in [Pendings -> {None, Gone} \cup Live]
    /\ guesses \in [Pendings -> Nat]
    /\ \A p \in Pendings : LoginOK(p)

SignInInv == RequestsOK /\ StoreOK /\ LoginsOK

-----------------------------------------------------------------------------
(* Codes, and what the operators of the model say of them.                 *)

LEMMA CodesAre ==
    \A c \in Codes : /\ c[1] \in {"totp", "recovery"} /\ c[2] \in Mints
                     /\ c[1] = "totp" => c[3] \in 0 .. MaxClock
BY DEF Codes

LEMMA JunkIsNoCode == Junk \notin Codes /\ Junk[1] = "junk"
<1>1. Junk[1] = "junk"
  BY DEF Junk
<1>2. QED
  BY <1>1, CodesAre

LEMMA RecoveryOfAre ==
    ASSUME NEW m \in Mints
    PROVE  RecoveryOf(m) \subseteq Codes /\ \A c \in RecoveryOf(m) : c[1] = "recovery" /\ c[2] = m
BY DEF RecoveryOf, Codes

LEMMA VerifiedIs ==
    ASSUME NEW key, NEW c \in Codes \cup {Junk}, VerifyTotp(key, c) >= 0
    PROVE  c \in Codes /\ c[1] = "totp" /\ c[2] = key
<1>1. c[1] = "totp" /\ c[2] = key
  BY DEF VerifyTotp
<1>2. QED
  BY <1>1, JunkIsNoCode

LEMMA TypedAre ==
    ASSUME NEW c \in Typed
    PROVE  c = Junk \/ (c \in Codes /\ c[2] <= minted)
BY CodesAre DEF Typed, Mints

-----------------------------------------------------------------------------
(* One request moves at a time.                                            *)

Moved(r, x) ==
    /\ req' \in [Requests -> Request] /\ req'[r] = x
    /\ \A s \in Requests \ {r} : req'[s] = req[s]

LEMMA MovesTo ==
    ASSUME req \in [Requests -> Request], NEW r \in Requests, NEW x \in Request,
           req' = [req EXCEPT ![r] = x]
    PROVE  Moved(r, x)
BY DEF Moved

LEMMA GotoMoves ==
    ASSUME req \in [Requests -> Request], NEW r \in Requests, NEW place \in Places, Goto(r, place)
    PROVE  Moved(r, [req[r] EXCEPT !.at = place])
<1>1. [req[r] EXCEPT !.at = place] \in Request
  BY DEF Request
<1>2. req' = [req EXCEPT ![r] = [req[r] EXCEPT !.at = place]]
  BY DEF Goto
<1>3. QED
  BY <1>1, <1>2, MovesTo

Bare(r, place) == [req[r] EXCEPT !.at = place, !.code = Junk, !.mint = 0]

LEMMA GotoBareMoves ==
    ASSUME req \in [Requests -> Request], NEW r \in Requests, NEW place \in Places, GotoBare(r, place)
    PROVE  Moved(r, Bare(r, place))
<1>1. Bare(r, place) \in Request
  <2>1. 0 \in 0 .. MaxMints /\ req[r] \in Request
    BY SignInBounds
  <2>2. [req[r] EXCEPT !.at = place] \in Request
    BY <2>1 DEF Request
  <2>3. [req[r] EXCEPT !.at = place, !.code = Junk] \in Request
    BY <2>1 DEF Request
  <2>4. QED
    BY <2>1, <2>3 DEF Request, Bare
<1>2. req' = [req EXCEPT ![r] = Bare(r, place)]
  BY DEF GotoBare, Bare
<1>3. QED
  BY <1>1, <1>2, MovesTo

LEMMA IdleFields ==
    /\ Idle.at = "idle" /\ Idle.route = "none" /\ Idle.id = None
    /\ Idle.code = Junk /\ Idle.mint = 0
BY DEF Idle

LEMMA IdleIs ==
    Idle \in Request /\ \A made, created : RequestOK(Idle, made, created)
BY SignInBounds, JunkIsNoCode
DEF Idle, Request, Places, Routes, RequestOK, LoginPlaces, CodePlaces, KeyPlaces

LEMMA AnswerMoves ==
    ASSUME req \in [Requests -> Request], NEW r \in Requests, Answer(r)
    PROVE  Moved(r, Idle)
BY IdleIs, MovesTo DEF Answer

(* Keys are only added and logins stay created, so the other requests are  *)
(* as they were.                                                           *)
LEMMA MovedKeepsRequests ==
    ASSUME RequestsOK, NEW r \in Requests, NEW x, Moved(r, x),
           minted \in Nat, minted' \in Nat, minted <= minted', Created \subseteq Created',
           RequestOK(x, minted', Created')
    PROVE  RequestsOK'
<1>1. \A s \in Requests : RequestOK(req[s], minted', Created')
  BY CodesAre DEF RequestsOK, RequestOK, Mints
<1>2. QED
  BY <1>1 DEF RequestsOK, Moved

LEMMA NobodyMovesKeepsRequests ==
    ASSUME RequestsOK, req' = req,
           minted \in Nat, minted' \in Nat, minted <= minted', Created \subseteq Created'
    PROVE  RequestsOK'
<1>1. \A s \in Requests : RequestOK(req[s], minted', Created')
  BY CodesAre DEF RequestsOK, RequestOK, Mints
<1>2. QED
  BY <1>1 DEF RequestsOK

-----------------------------------------------------------------------------
(* The logins.                                                             *)

(* A row as a step that counts nothing may leave it.                       *)
RowStep(p) ==
    \/ pending'[p] = pending[p]
    \/ pending[p] \in Live /\ pending'[p] \in Live /\ pending'[p].attempts = pending[p].attempts
    \/ pending[p] = None /\ pending'[p] \in Live /\ pending'[p].attempts = 0
    \/ pending[p] \in Live /\ pending'[p] = Gone

LEMMA RowsAreOfOneKind ==
    /\ None \notin Live /\ Gone \notin Live /\ None # Gone
    /\ \A x \in Live : x.attempts \in Nat
<1>1. IsFiniteSet(Requests) /\ Cardinality(Requests) \in Nat
  BY RequestsAreFinite, FS_CardinalityType
<1>2. \A x \in Live : x.life = "live" /\ x.attempts \in Nat
  BY <1>1, SignInBounds DEF Live
<1>3. Gone.life = "gone"
  BY DEF Gone
<1>4. QED
  BY <1>2, <1>3, NoneIsNoRow

LEMMA GuessersAreCounted ==
    ASSUME NEW p
    PROVE  /\ IsFiniteSet(Guessing(p)) /\ IsFiniteSet(Ending(p))
           /\ Cardinality(Guessing(p)) \in Nat /\ Cardinality(Ending(p)) \in Nat
           /\ Cardinality(Requests) \in Nat
           /\ Cardinality(Guessing(p)) + Cardinality(Ending(p)) <= Cardinality(Requests)
<1>1. Guessing(p) \subseteq Requests /\ Ending(p) \subseteq Requests
      /\ Guessing(p) \cap Ending(p) = {}
  BY DEF Guessing, Ending
<1> DEFINE G == Guessing(p)
           E == Ending(p)
<1> HIDE DEF G, E
<1>2. IsFiniteSet(G) /\ IsFiniteSet(E)
  BY <1>1, RequestsAreFinite, FS_Subset DEF G, E
<1>3. /\ IsFiniteSet(G \cup E)
      /\ Cardinality(G \cup E) = Cardinality(G) + Cardinality(E) - Cardinality(G \cap E)
  BY <1>2, FS_Union
<1>4. Cardinality(G \cap E) = 0
  BY <1>1, FS_EmptySet DEF G, E
<1>5. Cardinality(G \cup E) <= Cardinality(Requests)
  BY <1>1, RequestsAreFinite, FS_Subset DEF G, E
<1>6. /\ Cardinality(G) \in Nat /\ Cardinality(E) \in Nat
      /\ Cardinality(Requests) \in Nat
  BY <1>2, RequestsAreFinite, FS_CardinalityType
<1>7. Cardinality(G) + Cardinality(E) <= Cardinality(Requests)
  BY <1>3, <1>4, <1>5, <1>6
<1>8. QED
  BY <1>2, <1>6, <1>7 DEF G, E

LEMMA RowStepKeepsLogin ==
    ASSUME LoginsOK, NEW p \in Pendings, RowStep(p), guesses'[p] = guesses[p],
           pending'[p] \in Live \/ Guessing(p)' \subseteq Guessing(p),
           pending'[p] = Gone \/ Ending(p) \subseteq Ending(p)'
    PROVE  LoginOK(p)'
<1> DEFINE G == Guessing(p)
           E == Ending(p)
           G1 == Guessing(p)'
           E1 == Ending(p)'
<1>1. /\ IsFiniteSet(G) /\ IsFiniteSet(E)
      /\ Cardinality(G) \in Nat /\ Cardinality(E) \in Nat /\ Cardinality(Requests) \in Nat
      /\ Cardinality(G) + Cardinality(E) <= Cardinality(Requests)
  BY GuessersAreCounted
<1>2. /\ IsFiniteSet(G1) /\ IsFiniteSet(E1)
      /\ Cardinality(G1) \in Nat /\ Cardinality(E1) \in Nat
  <2>1. G1 \subseteq Requests /\ E1 \subseteq Requests
    BY DEF Guessing, Ending
  <2> HIDE DEF G1, E1
  <2>2. IsFiniteSet(G1) /\ IsFiniteSet(E1)
    BY <2>1, RequestsAreFinite, FS_Subset
  <2>3. QED
    BY <2>2, FS_CardinalityType
<1>3. pending'[p] \in Live \/ G1 \subseteq G
  OBVIOUS
<1>4. pending'[p] = Gone \/ E \subseteq E1
  OBVIOUS
<1>5. /\ pending[p] = None => guesses[p] = 0
      /\ pending[p] \in Live => /\ guesses[p] = pending[p].attempts
                                /\ guesses[p] <= MaxAttempts - 1 + Cardinality(E)
      /\ pending[p] = Gone => guesses[p] + Cardinality(G) <= MaxAttempts - 1 + Cardinality(Requests)
  BY DEF LoginsOK, LoginOK
<1>6. guesses[p] \in Nat /\ MaxAttempts \in Nat /\ MaxAttempts > 0
  BY SignInBounds DEF LoginsOK
<1> HIDE DEF G, E, G1, E1
<1>7. pending'[p] = None => guesses'[p] = 0
  BY <1>5, RowsAreOfOneKind DEF RowStep
<1>8. ASSUME pending'[p] \in Live
      PROVE  guesses'[p] = pending'[p].attempts /\ guesses'[p] <= MaxAttempts - 1 + Cardinality(E1)
  <2>1. E \subseteq E1
    BY <1>4, <1>8, RowsAreOfOneKind
  <2>2. Cardinality(E) <= Cardinality(E1)
    BY <1>2, <2>1, FS_Subset
  <2>3. CASE pending[p] \in Live
    BY <1>1, <1>2, <1>5, <1>6, <1>8, <2>2, <2>3, RowsAreOfOneKind DEF RowStep
  <2>4. CASE pending[p] = None /\ pending'[p].attempts = 0
    BY <1>1, <1>2, <1>5, <1>6, <2>4
  <2>5. QED
    BY <1>8, <2>3, <2>4, RowsAreOfOneKind DEF RowStep
<1>9. ASSUME pending'[p] = Gone
      PROVE  guesses'[p] + Cardinality(G1) <= MaxAttempts - 1 + Cardinality(Requests)
  <2>1. G1 \subseteq G
    BY <1>3, <1>9, RowsAreOfOneKind
  <2>2. Cardinality(G1) <= Cardinality(G)
    BY <1>1, <2>1, FS_Subset
  <2>3. CASE pending[p] \in Live
    BY <1>1, <1>2, <1>5, <1>6, <2>2, <2>3
  <2>4. CASE pending[p] = Gone
    BY <1>1, <1>2, <1>5, <1>6, <2>2, <2>4
  <2>5. QED
    BY <1>9, <2>3, <2>4, RowsAreOfOneKind DEF RowStep
<1>10. LoginOK(p)' <=>
          /\ pending'[p] = None => guesses'[p] = 0
          /\ pending'[p] \in Live => /\ guesses'[p] = pending'[p].attempts
                                     /\ guesses'[p] <= MaxAttempts - 1 + Cardinality(E1)
          /\ pending'[p] = Gone => guesses'[p] + Cardinality(G1) <= MaxAttempts - 1 + Cardinality(Requests)
  BY DEF LoginOK, E1, G1
<1>11. QED
  BY <1>7, <1>8, <1>9, <1>10

GuessPlaces == {"enrolled?", "material", "check", "consume", "count"}

(* A request that moves and does not come from the ending of its login     *)
(* disturbs no count, if it guesses only at the login it guessed at before *)
(* or at one that is live.                                                 *)
LEMMA MoveKeepsLogins ==
    ASSUME LoginsOK, pending' \in [Pendings -> {None, Gone} \cup Live], guesses' = guesses,
           NEW r \in Requests, NEW x \in Request, Moved(r, x),
           \A p \in Pendings : RowStep(p),
           req[r].at = "destroy" => pending'[req[r].id] = Gone,
           x.at \in GuessPlaces =>
              \/ x.id = None
              \/ req[r].at \in GuessPlaces /\ x.id = req[r].id
              \/ pending'[x.id] \in Live
    PROVE  LoginsOK'
<1>1. ASSUME NEW p \in Pendings
      PROVE  pending'[p] \in Live \/ Guessing(p)' \subseteq Guessing(p)
  BY NoneIsNoRow DEF Guessing, GuessPlaces, Moved
<1>2. ASSUME NEW p \in Pendings
      PROVE  pending'[p] = Gone \/ Ending(p) \subseteq Ending(p)'
  BY DEF Ending, Moved
<1>3. \A p \in Pendings : LoginOK(p)'
  BY <1>1, <1>2, RowStepKeepsLogin
<1>4. QED
  BY <1>3 DEF LoginsOK

LEMMA NobodyMovesKeepsLogins ==
    ASSUME LoginsOK, pending' \in [Pendings -> {None, Gone} \cup Live], guesses' = guesses,
           req' = req, \A p \in Pendings : RowStep(p)
    PROVE  LoginsOK'
<1>1. \A p \in Pendings : Guessing(p)' = Guessing(p) /\ Ending(p)' = Ending(p)
  BY DEF Guessing, Ending
<1>2. \A p \in Pendings : LoginOK(p)'
  BY <1>1, RowStepKeepsLogin
<1>3. QED
  BY <1>2 DEF LoginsOK


(* The wrong code counted: one more guess; the request that gave the last  *)
(* one, or one more to a login that is gone, has no other.                 *)
LEMMA CountKeepsLogins ==
    ASSUME RequestsOK, LoginsOK, NEW r \in Requests, CountWrongCode(r)
    PROVE  LoginsOK'
<1>0. PICK p \in Pendings : p = req[r].id /\ p \in Created
  BY DEF RequestsOK, RequestOK, LoginPlaces, CountWrongCode, Created
<1>1. /\ req \in [Requests -> Request] /\ req[r].at = "count" /\ req[r].id = p
      /\ req[r] \in Request
  BY <1>0 DEF RequestsOK, RequestOK, CountWrongCode
<1>2. p \in Pendings /\ pending[p] # None
  BY <1>0 DEF Created
<1>3. /\ guesses' = [guesses EXCEPT ![p] = @ + 1]
      /\ \/ /\ Alive(p) /\ pending' = [pending EXCEPT ![p].attempts = @ + 1]
            /\ \/ pending[p].attempts + 1 >= MaxAttempts /\ Goto(r, "destroy")
               \/ ~(pending[p].attempts + 1 >= MaxAttempts) /\ Answer(r)
         \/ ~Alive(p) /\ Goto(r, "destroy") /\ pending' = pending
  BY <1>0 DEF CountWrongCode
<1>4. /\ pending \in [Pendings -> {None, Gone} \cup Live] /\ guesses \in [Pendings -> Nat]
      /\ MaxAttempts \in Nat
  BY SignInBounds DEF LoginsOK
<1>5. PICK x : Moved(r, x) /\ x.at \in {"destroy", "idle"} /\ x.id \in {p, None}
               /\ (Goto(r, "destroy") => x.at = "destroy" /\ x.id = p)
  <2>1. CASE Goto(r, "destroy")
    <3> DEFINE y == [req[r] EXCEPT !.at = "destroy"]
    <3>1. Moved(r, y)
      BY <1>1, <2>1, GotoMoves DEF Places
    <3>2. y.at = "destroy" /\ y.id = p
      BY <1>1 DEF Request
    <3>3. QED
      BY <3>1, <3>2
  <2>2. CASE ~Goto(r, "destroy") /\ Answer(r)
    <3>1. Moved(r, Idle) /\ Idle.at = "idle" /\ Idle.id = None
      BY <1>1, <2>2, AnswerMoves DEF Idle
    <3>2. QED
      BY <2>2, <3>1
  <2>3. QED
    BY <1>3, <2>1, <2>2
<1>6. ASSUME NEW q \in Pendings, q # p
      PROVE  LoginOK(q)'
  <2>1. pending'[q] = pending[q] /\ guesses'[q] = guesses[q]
    BY <1>2, <1>3, <1>4, <1>6
  <2>2. Guessing(q)' \subseteq Guessing(q)
    BY <1>5, <1>6, NoneIsNoRow DEF Guessing, Moved
  <2>3. Ending(q) \subseteq Ending(q)'
    BY <1>1, <1>5, <1>6 DEF Ending, Moved
  <2>4. QED
    BY <2>1, <2>2, <2>3, RowStepKeepsLogin DEF RowStep
<1> DEFINE G == Guessing(p)
           E == Ending(p)
           G1 == Guessing(p)'
           E1 == Ending(p)'
<1>7. r \in G /\ r \notin E /\ r \notin G1 /\ E \subseteq E1 /\ G1 \subseteq G \ {r}
  BY <1>1, <1>2, <1>5, NoneIsNoRow DEF Guessing, Ending, Moved
<1>8. Goto(r, "destroy") => E \cup {r} \subseteq E1
  BY <1>1, <1>5 DEF Ending, Moved
<1>9. /\ IsFiniteSet(G) /\ IsFiniteSet(E)
      /\ Cardinality(G) \in Nat /\ Cardinality(E) \in Nat /\ Cardinality(Requests) \in Nat
      /\ Cardinality(G) + Cardinality(E) <= Cardinality(Requests)
  BY GuessersAreCounted
<1>10. /\ IsFiniteSet(G1) /\ IsFiniteSet(E1)
       /\ Cardinality(G1) \in Nat /\ Cardinality(E1) \in Nat
  <2>1. G1 \subseteq Requests /\ E1 \subseteq Requests
    BY DEF Guessing, Ending
  <2> HIDE DEF G1, E1
  <2>2. IsFiniteSet(G1) /\ IsFiniteSet(E1)
    BY <2>1, RequestsAreFinite, FS_Subset
  <2>3. QED
    BY <2>2, FS_CardinalityType
<1>11. /\ pending[p] \in Live => /\ guesses[p] = pending[p].attempts
                                 /\ guesses[p] <= MaxAttempts - 1 + Cardinality(E)
       /\ pending[p] = Gone => guesses[p] + Cardinality(G) <= MaxAttempts - 1 + Cardinality(Requests)
  BY <1>2 DEF LoginsOK, LoginOK
<1>12. LoginOK(p)' <=>
          /\ pending'[p] = None => guesses'[p] = 0
          /\ pending'[p] \in Live => /\ guesses'[p] = pending'[p].attempts
                                     /\ guesses'[p] <= MaxAttempts - 1 + Cardinality(E1)
          /\ pending'[p] = Gone => guesses'[p] + Cardinality(G1) <= MaxAttempts - 1 + Cardinality(Requests)
  BY DEF LoginOK, E1, G1
<1> HIDE DEF G, E, G1, E1
<1>13. guesses'[p] = guesses[p] + 1 /\ guesses[p] \in Nat
  BY <1>2, <1>3, <1>4
<1>14. Cardinality(E) + 1 <= Cardinality(Requests)
  <2>1. IsFiniteSet({r}) /\ Cardinality({r}) = 1
    BY FS_Singleton
  <2>2. Cardinality({r}) <= Cardinality(G)
    BY <1>7, <1>9, FS_Subset
  <2>3. QED
    BY <1>9, <2>1, <2>2
<1>15. CASE Alive(p)
  <2>1. pending[p] \in Live /\ pending' = [pending EXCEPT ![p].attempts = @ + 1]
    BY <1>2, <1>3, <1>4, <1>15 DEF Alive
  <2>2. pending[p].attempts = guesses[p] /\ guesses[p] + 1 <= MaxAttempts + Cardinality(Requests)
    BY <1>4, <1>9, <1>11, <1>13, <1>14, <2>1
  <2>3. pending'[p] \in Live /\ pending'[p].attempts = guesses[p] + 1
    <3>1. pending'[p] = [pending[p] EXCEPT !.attempts = guesses[p] + 1]
      BY <1>2, <1>4, <2>1, <2>2
    <3>2. guesses[p] + 1 \in 0 .. MaxAttempts + Cardinality(Requests)
      BY <1>4, <1>9, <1>13, <2>2
    <3>3. QED
      BY <2>1, <3>1, <3>2 DEF Live
  <2>4. pending' \in [Pendings -> {None, Gone} \cup Live]
    BY <1>2, <1>4, <2>1, <2>3
  <2>5. guesses'[p] <= MaxAttempts - 1 + Cardinality(E1)
    <3>1. CASE Goto(r, "destroy")
      <4>1. Cardinality(E \cup {r}) <= Cardinality(E1)
        BY <1>8, <1>10, <3>1, FS_Subset
      <4>2. Cardinality(E \cup {r}) = Cardinality(E) + 1
        BY <1>7, <1>9, FS_AddElement
      <4>3. QED
        BY <1>4, <1>9, <1>10, <1>11, <1>13, <2>1, <4>1, <4>2
    <3>2. CASE ~(pending[p].attempts + 1 >= MaxAttempts)
      BY <1>4, <1>10, <1>13, <2>2, <3>2
    <3>3. QED
      BY <1>3, <1>15, <3>1, <3>2
  <2>6. LoginOK(p)'
    BY <1>12, <1>13, <2>3, <2>5, RowsAreOfOneKind
  <2>7. QED
    BY <1>3, <1>4, <1>6, <2>4, <2>6 DEF LoginsOK
<1>16. CASE ~Alive(p)
  <2>1. pending[p] = Gone /\ pending' = pending
    BY <1>2, <1>3, <1>4, <1>16, NoneIsNoRow DEF Alive
  <2>2. Cardinality(G1) <= Cardinality(G) - 1
    <3>1. IsFiniteSet(G \ {r}) /\ Cardinality(G \ {r}) = Cardinality(G) - 1
      BY <1>7, <1>9, FS_RemoveElement
    <3>2. QED
      BY <1>7, <3>1, FS_Subset
  <2>3. guesses'[p] + Cardinality(G1) <= MaxAttempts - 1 + Cardinality(Requests)
    BY <1>4, <1>9, <1>10, <1>11, <1>13, <2>1, <2>2
  <2>4. LoginOK(p)'
    BY <1>12, <2>1, <2>3, RowsAreOfOneKind
  <2>5. QED
    BY <1>3, <1>4, <1>6, <2>1, <2>4 DEF LoginsOK
<1>17. QED
  BY <1>15, <1>16

-----------------------------------------------------------------------------
(* What a step leaves of the request, and of the store.                    *)

LEMMA PlaceIsOK ==
    ASSUME NEW x, NEW made, NEW created, RequestOK(x, made, created), NEW place \in Places,
           place \in LoginPlaces => x.route = "verify",
           place \in CodePlaces => x.code \in Codes,
           place \in KeyPlaces => x.mint \in Mints,
           place \in {"consume", "reauth"} => x.route \in {"verify", "setup", "disable", "regenerate"},
           place # "reauth"
    PROVE  RequestOK([x EXCEPT !.at = place], made, created)
<1> DEFINE y == [x EXCEPT !.at = place]
<1>1. x \in Request
  BY DEF RequestOK
<1>2. /\ y \in Request /\ y.at = place /\ y.route = x.route /\ y.id = x.id
      /\ y.code = x.code /\ y.mint = x.mint
  BY <1>1 DEF Request
<1> HIDE DEF y
<1>3. RequestOK(y, made, created)
  BY <1>2 DEF RequestOK
<1>4. QED
  BY <1>3 DEF y

LEMMA BareIsOK ==
    ASSUME NEW r \in Requests, NEW made, NEW created, RequestOK(req[r], made, created),
           NEW place \in Places \ (CodePlaces \cup KeyPlaces),
           place \in LoginPlaces => req[r].route = "verify"
    PROVE  RequestOK(Bare(r, place), made, created)
<1> DEFINE x == req[r]
           y == Bare(r, place)
<1>1. x \in Request
  BY DEF RequestOK
<1>2. 0 \in 0 .. MaxMints
  BY SignInBounds
<1>3. /\ y \in Request /\ y.at = place /\ y.route = x.route /\ y.id = x.id /\ y.code = Junk
  <2>1. y = [x EXCEPT !.at = place, !.code = Junk, !.mint = 0]
    BY DEF Bare
  <2>2. y = [at |-> place, route |-> x.route, id |-> x.id, code |-> Junk, mint |-> 0]
    BY <1>1, <2>1 DEF Request
  <2>3. QED
    BY <1>1, <1>2, <2>2 DEF Request
<1> HIDE DEF y
<1>4. RequestOK(y, made, created)
  BY <1>3, JunkIsNoCode DEF RequestOK, CodePlaces, KeyPlaces
<1>5. QED
  BY <1>4 DEF y

LEMMA StoreStays ==
    ASSUME StoreOK, clock' \in 0 .. MaxClock, minted' \in 0 .. MaxMints, minted <= minted',
           setup' \in 0 .. MaxMints, signedIn' \in BOOLEAN,
           UNCHANGED <<credential, recovery, consumed>>
    PROVE  StoreOK'
<1>1. \A c \in consumed : c[2] <= minted'
  BY CodesAre, SignInBounds DEF StoreOK, Mints
<1>2. \A c \in consumed : Refused(c)' <=> Refused(c)
  BY DEF Refused
<1>3. QED
  BY <1>1, <1>2 DEF StoreOK

LEMMA Here ==
    ASSUME SignInInv, NEW r \in Requests
    PROVE  /\ req \in [Requests -> Request] /\ req[r] \in Request
           /\ RequestOK(req[r], minted, Created)
           /\ minted \in Nat /\ minted \in 0 .. MaxMints /\ MaxMints \in Nat
           /\ pending \in [Pendings -> {None, Gone} \cup Live]
           /\ guesses \in [Pendings -> Nat]
BY SignInBounds DEF SignInInv, RequestsOK, StoreOK, LoginsOK

(* A request moves and the logins stay as they are.                        *)
LEMMA QuietMove ==
    ASSUME SignInInv, NEW r \in Requests, NEW x, Moved(r, x),
           minted' \in Nat, minted <= minted', RequestOK(x, minted', Created),
           UNCHANGED <<pending, guesses>>,
           req[r].at # "destroy",
           x.at \in GuessPlaces =>
              \/ x.id = None
              \/ req[r].at \in GuessPlaces /\ x.id = req[r].id
              \/ pending[x.id] \in Live,
           StoreOK'
    PROVE  SignInInv'
<1>1. Created' = Created /\ x \in Request
  BY DEF Created, RequestOK
<1>2. RequestsOK'
  BY <1>1, Here, MovedKeepsRequests DEF SignInInv
<1>3. \A p \in Pendings : RowStep(p)
  BY DEF RowStep
<1>4. LoginsOK'
  BY <1>1, <1>3, Here, MoveKeepsLogins DEF SignInInv
<1>5. QED
  BY <1>2, <1>4 DEF SignInInv

(* The request goes on at another place, with its code or without.         *)
LEMMA QuietGoto ==
    ASSUME SignInInv, NEW r \in Requests, NEW place \in Places, Goto(r, place),
           UNCHANGED <<minted, pending, guesses>>, req[r].at # "destroy",
           place \in LoginPlaces => req[r].route = "verify",
           place \in CodePlaces => req[r].code \in Codes,
           place \in KeyPlaces => req[r].mint \in Mints,
           place \in {"consume", "reauth"} => req[r].route \in {"verify", "setup", "disable", "regenerate"},
           place # "reauth",
           place \in GuessPlaces => req[r].id = None \/ req[r].at \in GuessPlaces,
           StoreOK'
    PROVE  SignInInv'
<1> DEFINE x == [req[r] EXCEPT !.at = place]
<1>1. Moved(r, x)
  BY Here, GotoMoves
<1>2. RequestOK(x, minted, Created)
  BY Here, PlaceIsOK
<1>3. x.at = place /\ x.id = req[r].id
  BY Here DEF Request
<1> HIDE DEF x
<1>4. QED
  BY <1>1, <1>2, <1>3, Here, QuietMove

LEMMA QuietGotoBare ==
    ASSUME SignInInv, NEW r \in Requests, NEW place \in Places \ (CodePlaces \cup KeyPlaces),
           GotoBare(r, place),
           UNCHANGED <<minted, pending, guesses>>, req[r].at # "destroy",
           place \in LoginPlaces => req[r].route = "verify",
           place \in GuessPlaces => req[r].at \in GuessPlaces,
           StoreOK'
    PROVE  SignInInv'
<1>1. Moved(r, Bare(r, place))
  BY Here, GotoBareMoves
<1>2. RequestOK(Bare(r, place), minted, Created)
  BY Here, BareIsOK
<1>3. Bare(r, place).at = place /\ Bare(r, place).id = req[r].id
  BY Here DEF Request, Bare
<1>4. QED
  BY <1>1, <1>2, <1>3, Here, QuietMove

LEMMA QuietAnswer ==
    ASSUME SignInInv, NEW r \in Requests, Answer(r), minted' \in Nat, minted <= minted',
           UNCHANGED <<pending, guesses>>, req[r].at # "destroy", StoreOK'
    PROVE  SignInInv'
<1>1. Moved(r, Idle) /\ Idle.at = "idle"
  BY Here, AnswerMoves DEF Idle
<1>2. RequestOK(Idle, minted', Created)
  BY IdleIs
<1>3. QED
  BY <1>1, <1>2, Here, QuietMove DEF GuessPlaces

-----------------------------------------------------------------------------
(* The callback and the session.                                           *)

LEMMA CallbackStep ==
    ASSUME SignInInv, NEW r \in Requests, Callback(r)
    PROVE  SignInInv'
<1> DEFINE x == [Idle EXCEPT !.at = "gate", !.route = "callback"]
<1>1. StoreOK'
  <2>1. signedIn' \in BOOLEAN
    BY DEF SignInInv, StoreOK, Callback
  <2>2. QED
    BY <2>1, StoreStays, Here DEF SignInInv, StoreOK, Callback, store
<1>2. /\ x \in Request /\ x.at = "gate" /\ x.route = "callback" /\ x.id = None /\ x.code = Junk
  <2>0. x = [Idle EXCEPT !.at = "gate", !.route = "callback"]
    OBVIOUS
  <2> HIDE DEF x
  <2>1. x = [at |-> "gate", route |-> "callback", id |-> None, code |-> Junk, mint |-> 0]
    BY <2>0, IdleIs, IdleFields DEF Request
  <2>2. 0 \in 0 .. MaxMints /\ "gate" \in Places /\ "callback" \in Routes
    BY SignInBounds DEF Places, Routes
  <2>3. QED
    BY <2>1, <2>2 DEF Request
<1>3. Moved(r, x)
  <2>1. req' = [req EXCEPT ![r] = x]
    BY DEF Callback
  <2>2. QED
    BY <1>2, <2>1, Here, MovesTo
<1> HIDE DEF x
<1>4. RequestOK(x, minted, Created)
  BY <1>2, JunkIsNoCode DEF RequestOK, LoginPlaces, CodePlaces, KeyPlaces
<1>5. req[r].at # "destroy" /\ UNCHANGED <<minted, pending, guesses>>
  BY DEF Callback, Idle
<1>6. QED
  BY <1>1, <1>2, <1>3, <1>4, <1>5, Here, QuietMove DEF GuessPlaces

LEMMA GateStep ==
    ASSUME SignInInv, NEW r \in Requests, Gate(r)
    PROVE  SignInInv'
<1>1. StoreOK'
  BY StoreStays, Here DEF SignInInv, StoreOK, Gate, store
<1>2. PICK place \in {"pend", "issue"} : Goto(r, place)
  BY DEF Gate
<1>3. QED
  BY <1>1, <1>2, QuietGoto
  DEF Gate, Places, LoginPlaces, CodePlaces, KeyPlaces, GuessPlaces

LEMMA CreatePendingStep ==
    ASSUME SignInInv, NEW r \in Requests, CreatePending(r)
    PROVE  SignInInv'
<1>1. PICK p \in Pendings, previous \in Pendings \cup {None} :
         /\ pending[p] = None /\ previous # p
         /\ pending' = [q \in Pendings |->
                           CASE q = p -> [life |-> "live", attempts |-> 0, mint |-> 0]
                             [] q = previous /\ Alive(q) -> Gone
                             [] OTHER -> pending[q]]
  BY DEF CreatePending
<1> DEFINE alive == [life |-> "live", attempts |-> 0, mint |-> 0]
<1>2. alive \in Live /\ alive.attempts = 0
  BY SignInBounds, RequestsAreFinite, FS_CardinalityType DEF Live
<1> HIDE DEF alive
<1>3. /\ pending'[p] = alive
      /\ \A q \in Pendings \ {p} :
            pending'[q] = pending[q] \/ (Alive(q) /\ pending'[q] = Gone)
  BY <1>1 DEF alive
<1>4. \A q \in Pendings : RowStep(q)
  BY <1>1, <1>2, <1>3, Here DEF RowStep, Alive
<1>5. pending' \in [Pendings -> {None, Gone} \cup Live]
  <2>1. \A q \in Pendings : pending'[q] \in {None, Gone} \cup Live
    BY <1>2, <1>3, Here
  <2>2. QED
    BY <1>1, <2>1
<1>6. Created \subseteq Created'
  BY <1>3, <1>1, RowsAreOfOneKind DEF Created
<1>7. StoreOK'
  BY StoreStays, Here DEF SignInInv, StoreOK, CreatePending, store
<1>8. Moved(r, Idle) /\ Idle.at = "idle" /\ Idle \in Request
  BY Here, AnswerMoves, IdleIs DEF CreatePending, Idle
<1>9. req[r].at # "destroy" /\ UNCHANGED <<minted, guesses>>
  BY DEF CreatePending
<1>10. RequestsOK'
  BY <1>6, <1>8, <1>9, Here, IdleIs, MovedKeepsRequests DEF SignInInv
<1>11. LoginsOK'
  BY <1>4, <1>5, <1>8, <1>9, MoveKeepsLogins DEF SignInInv, GuessPlaces
<1>12. QED
  BY <1>7, <1>10, <1>11 DEF SignInInv

LEMMA IssueSessionStep ==
    ASSUME SignInInv, NEW r \in Requests, IssueSession(r)
    PROVE  SignInInv'
<1>1. StoreOK'
  BY StoreStays, Here DEF SignInInv, StoreOK, IssueSession, store
<1>2. UNCHANGED <<minted, pending, guesses>> /\ req[r].at # "destroy"
  BY DEF IssueSession
<1>3. CASE req[r].route = "verify" /\ Goto(r, "forget")
  BY <1>1, <1>2, <1>3, QuietGoto DEF Places, LoginPlaces, CodePlaces, KeyPlaces, GuessPlaces
<1>4. CASE Answer(r)
  BY <1>1, <1>2, <1>4, Here, QuietAnswer
<1>5. QED
  BY <1>3, <1>4 DEF IssueSession

(* A row that goes, and a request that ends.                               *)
LEMMA ForgetPendingStep ==
    ASSUME SignInInv, NEW r \in Requests, ForgetPending(r)
    PROVE  SignInInv'
<1>1. PICK p \in Pendings : p = req[r].id /\ p \in Created
  BY Here DEF ForgetPending, RequestOK, LoginPlaces, Created
<1>2. pending' = [pending EXCEPT ![p] = Gone] /\ pending[p] # None
  BY <1>1 DEF ForgetPending, Drop, Created
<1>3. pending' \in [Pendings -> {None, Gone} \cup Live] /\ \A q \in Pendings : RowStep(q)
  BY <1>2, Here DEF RowStep
<1>4. Created \subseteq Created'
  BY <1>2, Here, RowsAreOfOneKind DEF Created
<1>5. StoreOK'
  BY StoreStays, Here DEF SignInInv, StoreOK, ForgetPending, store
<1>6. Moved(r, Idle) /\ Idle.at = "idle" /\ Idle \in Request
  BY Here, AnswerMoves, IdleIs DEF ForgetPending, Idle
<1>7. UNCHANGED <<minted, guesses>> /\ pending'[req[r].id] = Gone
  BY <1>1, <1>2, Here DEF ForgetPending
<1>8. RequestsOK'
  BY <1>4, <1>6, <1>7, Here, IdleIs, MovedKeepsRequests DEF SignInInv
<1>9. LoginsOK'
  BY <1>3, <1>6, <1>7, MoveKeepsLogins DEF SignInInv, GuessPlaces
<1>10. QED
  BY <1>5, <1>8, <1>9 DEF SignInInv

-----------------------------------------------------------------------------
(* Verifying a code.                                                       *)

LEMMA VerifyStep ==
    ASSUME SignInInv, NEW r \in Requests, Verify(r)
    PROVE  SignInInv'
<1>1. PICK p \in Pendings, code \in Typed :
         /\ Alive(p)
         /\ req' = [req EXCEPT ![r] = [Idle EXCEPT !.at = IF code = Junk THEN "count" ELSE "enrolled?",
                                                   !.route = "verify", !.id = p, !.code = code]]
  BY DEF Verify
<1> DEFINE place == IF code = Junk THEN "count" ELSE "enrolled?"
           x == [Idle EXCEPT !.at = place, !.route = "verify", !.id = p, !.code = code]
<1>2. code = Junk \/ (code \in Codes /\ code[2] <= minted)
  BY TypedAre
<1>3. /\ x \in Request /\ x.at = place /\ x.route = "verify" /\ x.id = p /\ x.code = code
  <2>1. place \in Places /\ 0 \in 0 .. MaxMints /\ "verify" \in Routes
    BY SignInBounds DEF Places, Routes
  <2> HIDE DEF place
  <2>0. x = [Idle EXCEPT !.at = place, !.route = "verify", !.id = p, !.code = code]
    OBVIOUS
  <2> HIDE DEF x
  <2>2. x = [at |-> place, route |-> "verify", id |-> p, code |-> code, mint |-> 0]
    BY <2>0, IdleIs, IdleFields DEF Request
  <2>3. QED
    BY <1>2, <2>1, <2>2 DEF Request
<1>4. Moved(r, x)
  BY <1>1, <1>3, Here, MovesTo
<1>5. pending[p] \in Live /\ p \in Created /\ p # None
  BY <1>1, Here, NoneIsNoRow DEF Alive, Created
<1> HIDE DEF x
<1>6. RequestOK(x, minted, Created)
  BY <1>2, <1>3, <1>5, JunkIsNoCode DEF RequestOK, CodePlaces, KeyPlaces
<1>7. StoreOK'
  BY StoreStays, Here DEF SignInInv, StoreOK, Verify, store
<1>8. req[r].at # "destroy" /\ UNCHANGED <<minted, pending, guesses>>
  BY DEF Verify, Idle
<1>9. QED
  BY <1>3, <1>4, <1>5, <1>6, <1>7, <1>8, Here, QuietMove

LEMMA CheckEnrolledStep ==
    ASSUME SignInInv, NEW r \in Requests, CheckEnrolled(r)
    PROVE  SignInInv'
<1>1. StoreOK'
  BY StoreStays, Here DEF SignInInv, StoreOK, CheckEnrolled, store
<1>2. PICK place \in {"material", "check"} : Goto(r, place)
  BY DEF CheckEnrolled
<1>3. /\ req[r].at = "enrolled?" /\ req[r].route = "verify" /\ req[r].code \in Codes
      /\ UNCHANGED <<minted, pending, guesses>>
  BY Here DEF CheckEnrolled, RequestOK, LoginPlaces, CodePlaces
<1>4. QED
  BY <1>1, <1>2, <1>3, QuietGoto DEF Places, KeyPlaces, GuessPlaces

(* The material of a row: it keeps its life and its count.                 *)
LEMMA EnsureKeepsRows ==
    ASSUME SignInInv, NEW p \in Pendings, Alive(p), EnsureEnrollment(p)
    PROVE  /\ pending' \in [Pendings -> {None, Gone} \cup Live]
           /\ \A q \in Pendings : RowStep(q)
           /\ Created' = Created
           /\ pending'[p].mint \in Mints
           /\ minted' \in 0 .. MaxMints /\ minted <= minted'
<1>1. pending[p] \in Live /\ pending \in [Pendings -> {None, Gone} \cup Live]
  BY Here DEF SignInInv, LoginsOK, Alive
<1>2. minted \in 0 .. MaxMints /\ MaxMints \in Nat
  BY SignInBounds DEF SignInInv, StoreOK
<1>3. CASE pending[p].mint # 0 /\ UNCHANGED <<pending, minted>>
  <2>1. pending[p].mint \in Mints
    BY <1>1, <1>2, <1>3 DEF Live, Mints
  <2>2. QED
    BY <1>1, <1>2, <1>3, <2>1 DEF RowStep, Created
<1>4. CASE NewMint /\ pending' = [pending EXCEPT ![p].mint = minted + 1]
  <2>1. minted' = minted + 1 /\ minted + 1 \in 1 .. MaxMints
    BY <1>2, <1>4 DEF NewMint
  <2>2. pending' = [pending EXCEPT ![p] = [pending[p] EXCEPT !.mint = minted + 1]]
    BY <1>4
  <2> DEFINE new == [pending[p] EXCEPT !.mint = minted + 1]
  <2>3. new \in Live /\ new.attempts = pending[p].attempts /\ new.mint = minted + 1
    BY <1>1, <1>2, <2>1 DEF Live
  <2> HIDE DEF new
  <2>4. pending'[p] = new /\ \A q \in Pendings \ {p} : pending'[q] = pending[q]
    BY <1>1, <2>2 DEF new
  <2>5. pending' \in [Pendings -> {None, Gone} \cup Live]
    BY <1>1, <2>2, <2>3 DEF new
  <2>6. \A q \in Pendings : RowStep(q)
    BY <1>1, <2>3, <2>4 DEF RowStep
  <2>7. Created' = Created
    BY <1>1, <2>3, <2>4, RowsAreOfOneKind DEF Created
  <2>8. QED
    BY <1>2, <2>1, <2>3, <2>4, <2>5, <2>6, <2>7 DEF Mints
<1>5. QED
  BY <1>3, <1>4 DEF EnsureEnrollment

LEMMA VerifyMaterialStep ==
    ASSUME SignInInv, NEW r \in Requests, VerifyMaterial(r)
    PROVE  SignInInv'
<1>1. PICK p \in Pendings : p = req[r].id /\ p \in Created
  BY Here DEF VerifyMaterial, RequestOK, LoginPlaces, Created
<1>2. /\ req[r].at = "material" /\ req[r].route = "verify" /\ req[r].code \in Codes
      /\ req[r].code[2] <= minted
  BY Here DEF VerifyMaterial, RequestOK, LoginPlaces, CodePlaces
<1>3. UNCHANGED <<clock, store, signedIn, consumed, guesses>>
  BY DEF VerifyMaterial
<1>4. CASE ~Alive(p)
  <2>1. GotoBare(r, "destroy") /\ UNCHANGED <<pending, minted>>
    BY <1>1, <1>4 DEF VerifyMaterial
  <2>2. StoreOK'
    BY <1>3, <2>1, StoreStays, Here DEF SignInInv, StoreOK, store
  <2>3. QED
    BY <1>2, <1>3, <2>1, <2>2, QuietGotoBare
    DEF Places, LoginPlaces, CodePlaces, KeyPlaces, GuessPlaces
<1>5. CASE Alive(p)
  <2> DEFINE m == pending'[p].mint
             x == [req[r] EXCEPT !.at = "enrol", !.mint = m]
  <2>1. EnsureEnrollment(p)
    BY <1>1, <1>5 DEF VerifyMaterial
  <2>2. /\ pending' \in [Pendings -> {None, Gone} \cup Live]
        /\ \A q \in Pendings : RowStep(q)
        /\ Created' = Created
        /\ m \in Mints
        /\ minted' \in 0 .. MaxMints /\ minted <= minted' /\ minted' \in Nat
    BY <1>5, <2>1, Here, EnsureKeepsRows
  <2>3. StoreOK'
    BY <1>3, <2>2, StoreStays DEF SignInInv, StoreOK, store
  <2>4. RequestOK(req[r], minted', Created)
    BY <2>2, Here, CodesAre DEF RequestOK, Mints
  <2>5. \/ req' = [req EXCEPT ![r].at = "enrol", ![r].mint = m]
        \/ GotoBare(r, "count")
    BY <1>1, <1>5 DEF VerifyMaterial
  <2>6. CASE req' = [req EXCEPT ![r].at = "enrol", ![r].mint = m]
    <3>0. req[r] \in Request
      BY Here
    <3>2. req' = [req EXCEPT ![r] = x]
      BY <2>6
    <3> HIDE DEF m
    <3> DEFINE here == req[r]
    <3>1. x = [at |-> "enrol", route |-> "verify", id |-> p, code |-> here.code, mint |-> m]
      <4>1. x = [here EXCEPT !.at = "enrol", !.mint = m]
        OBVIOUS
      <4>2. here \in Request /\ here.route = "verify" /\ here.id = p
        BY <1>1, <1>2, <3>0
      <4> HIDE DEF x, here
      <4>3. QED
        BY <4>1, <4>2 DEF Request
    <3> HIDE DEF x
    <3>3. m \in 0 .. MaxMints
      BY <2>2, SignInBounds DEF Mints
    <3>4. x \in Request /\ x.at = "enrol" /\ x.route = "verify" /\ x.id = p /\ x.code = req[r].code
          /\ x.mint = m
      BY <1>2, <3>1, <3>3 DEF Request, Places, Routes
    <3>5. Moved(r, x)
      BY <3>2, <3>4, Here, MovesTo
    <3>6. RequestOK(x, minted', Created)
      BY <1>1, <1>2, <2>2, <2>4, <3>4, NoneIsNoRow DEF RequestOK
    <3>7. RequestsOK'
      BY <2>2, <3>5, <3>6, Here, MovedKeepsRequests DEF SignInInv
    <3>8. LoginsOK'
      BY <1>2, <1>3, <2>2, <3>4, <3>5, MoveKeepsLogins DEF SignInInv, GuessPlaces
    <3>9. QED
      BY <2>3, <3>7, <3>8 DEF SignInInv
  <2>7. CASE GotoBare(r, "count")
    <3> HIDE DEF m, x
    <3>1. "count" \in Places \ (CodePlaces \cup KeyPlaces)
      BY DEF Places, CodePlaces, KeyPlaces
    <3>2. Moved(r, Bare(r, "count"))
      BY <2>7, <3>1, Here, GotoBareMoves
    <3>3. RequestOK(Bare(r, "count"), minted', Created)
      BY <1>2, <2>4, <3>1, BareIsOK
    <3>4. Bare(r, "count").id = req[r].id /\ Bare(r, "count") \in Request
      BY <3>3, Here DEF Bare, Request, RequestOK
    <3>5. RequestsOK'
      BY <2>2, <3>2, <3>3, Here, MovedKeepsRequests DEF SignInInv
    <3>6. LoginsOK'
      BY <1>2, <1>3, <2>2, <3>2, <3>4, MoveKeepsLogins DEF SignInInv, GuessPlaces
    <3>7. QED
      BY <2>3, <3>5, <3>6 DEF SignInInv
  <2>8. QED
    BY <2>5, <2>6, <2>7
<1>6. QED
  BY <1>4, <1>5

(* The account enrols with the key of the request: what was consumed       *)
(* before was of another key, and the code that confirms it is refused.    *)
LEMMA EnrolledStore ==
    ASSUME SignInInv, NEW m \in Mints, NEW c \in Codes, c[2] <= minted,
           credential' = [mint |-> m, last |-> IF c[1] = "totp" THEN c[3] ELSE -1],
           recovery' = RecoveryOf(m) \ {c},
           consumed' = {c},
           setup' \in 0 .. MaxMints,
           UNCHANGED <<clock, minted, signedIn>>
    PROVE  StoreOK'
<1>1. credential' \in Enrolled /\ credential' # None
  <2>1. (IF c[1] = "totp" THEN c[3] ELSE -1) \in -1 .. MaxClock
    BY CodesAre, SignInBounds
  <2>2. credential' \in Enrolled
    BY <2>1 DEF Enrolled
  <2>3. QED
    BY <2>2, NoneIsNoRow
<1>2. recovery' \subseteq Codes /\ \A d \in recovery' : d[1] = "recovery"
  BY RecoveryOfAre
<1>3. Refused(c)'
  BY <1>1, CodesAre DEF Refused
<1>4. \A d \in consumed' : d[2] <= minted' /\ Refused(d)'
  BY <1>3
<1>5. QED
  BY <1>1, <1>2, <1>4 DEF SignInInv, StoreOK

LEMMA ConfirmEnrollmentStep ==
    ASSUME SignInInv, NEW r \in Requests, ConfirmEnrollment(r)
    PROVE  SignInInv'
<1>1. /\ req[r].at = "enrol" /\ req[r].route = "verify" /\ req[r].code \in Codes
      /\ req[r].code[2] <= minted /\ req[r].mint \in Mints
      /\ UNCHANGED <<clock, minted, setup, pending, signedIn, guesses>>
      /\ GotoBare(r, "issue")
  BY Here DEF ConfirmEnrollment, RequestOK, LoginPlaces, CodePlaces, KeyPlaces
<1>2. StoreOK'
  <2>1. CASE credential = None
    BY <1>1, <2>1, EnrolledStore DEF ConfirmEnrollment, SignInInv, StoreOK
  <2>2. CASE credential # None
    BY <1>1, <2>2, Here, StoreStays DEF ConfirmEnrollment, SignInInv, StoreOK
  <2>3. QED
    BY <2>1, <2>2
<1>3. QED
  BY <1>1, <1>2, QuietGotoBare DEF Places, LoginPlaces, CodePlaces, KeyPlaces, GuessPlaces

LEMMA ShowEnrollmentStep ==
    ASSUME SignInInv, NEW p \in Pendings, ShowEnrollment(p)
    PROVE  SignInInv'
<1>1. /\ Alive(p) /\ EnsureEnrollment(p)
      /\ UNCHANGED <<clock, store, signedIn, req, consumed, guesses>>
  BY DEF ShowEnrollment
<1>2. /\ pending' \in [Pendings -> {None, Gone} \cup Live]
      /\ \A q \in Pendings : RowStep(q)
      /\ Created' = Created
      /\ minted' \in 0 .. MaxMints /\ minted <= minted' /\ minted' \in Nat
  BY <1>1, SignInBounds, EnsureKeepsRows
<1>3. StoreOK'
  BY <1>1, <1>2, StoreStays DEF SignInInv, StoreOK, store
<1>4. minted \in Nat
  BY SignInBounds DEF SignInInv, StoreOK
<1>5. RequestsOK'
  BY <1>1, <1>2, <1>4, NobodyMovesKeepsRequests DEF SignInInv
<1>6. LoginsOK'
  BY <1>1, <1>2, NobodyMovesKeepsLogins DEF SignInInv
<1>7. QED
  BY <1>3, <1>5, <1>6 DEF SignInInv

-----------------------------------------------------------------------------
(* The code is checked, consumed or counted.                               *)

LEMMA ReadCredentialStep ==
    ASSUME SignInInv, NEW r \in Requests, ReadCredential(r)
    PROVE  SignInInv'
<1>1. /\ req[r].at \in {"check", "reauth"} /\ req[r].code \in Codes
      /\ req[r].at = "check" => req[r].route = "verify"
      /\ req[r].at = "reauth" => /\ req[r].route \in {"setup", "disable", "regenerate"}
                                 /\ req[r].id = None
      /\ UNCHANGED <<clock, minted, store, pending, signedIn, consumed, guesses>>
  BY Here DEF ReadCredential, RequestOK, LoginPlaces, CodePlaces
<1>2. StoreOK'
  BY <1>1, StoreStays, Here DEF SignInInv, StoreOK, store
<1>3. \/ Answer(r)
      \/ req[r].at = "check" /\ GotoBare(r, "count")
      \/ Goto(r, "consume")
  BY <1>1 DEF ReadCredential
<1>4. CASE Answer(r)
  BY <1>1, <1>2, <1>4, Here, QuietAnswer
<1>5. CASE req[r].at = "check" /\ GotoBare(r, "count")
  BY <1>1, <1>2, <1>5, QuietGotoBare DEF Places, LoginPlaces, CodePlaces, KeyPlaces, GuessPlaces
<1>6. CASE Goto(r, "consume")
  <2>1. req[r].id = None \/ req[r].at \in GuessPlaces
    BY <1>1 DEF GuessPlaces
  <2>2. req[r].route \in {"verify", "setup", "disable", "regenerate"}
    BY <1>1
  <2>3. QED
    BY <1>1, <1>2, <1>6, <2>1, <2>2, QuietGoto DEF Places, LoginPlaces, KeyPlaces
<1>7. QED
  BY <1>3, <1>4, <1>5, <1>6

(* What the store takes it refuses from then on.                           *)
LEMMA TakenIsRefused ==
    ASSUME StoreOK, NEW c \in Codes, c[2] <= minted,
           TakesCounter(c) \/ TakesRecovery(c),
           credential' = IF c[1] = "totp" THEN [credential EXCEPT !.last = c[3]] ELSE credential,
           recovery' = recovery \ {c},
           consumed' = consumed \cup {c},
           UNCHANGED <<clock, minted, setup, signedIn>>
    PROVE  StoreOK' /\ c \notin consumed
<1>1. CASE TakesCounter(c)
  <2>1. c[1] = "totp" /\ c[3] \in 0 .. MaxClock /\ MaxClock \in Nat
    BY <1>1, CodesAre, SignInBounds DEF TakesCounter
  <2>2. credential \in Enrolled /\ credential # None /\ credential.last < c[3]
    BY <1>1 DEF TakesCounter, StoreOK
  <2>3. credential' = [credential EXCEPT !.last = c[3]]
    BY <2>1
  <2>4. credential' \in Enrolled /\ credential'.last = c[3] /\ credential.last \in Int
    BY <2>1, <2>2, <2>3 DEF Enrolled
  <2>5. credential' # None
    BY <2>4, NoneIsNoRow
  <2>6. ASSUME NEW d \in consumed
        PROVE  Refused(d)' /\ d # c
    <3>1. Refused(d) /\ d \in Codes
      BY DEF StoreOK
    <3>2. CASE d[1] = "totp"
      <4>1. d[3] \in 0 .. MaxClock /\ d[3] <= credential.last
        BY <3>1, <3>2, CodesAre DEF Refused
      <4>2. d[3] < c[3]
        BY <2>1, <2>2, <2>4, <4>1
      <4>3. d # c /\ d[3] <= c[3]
        BY <2>1, <4>1, <4>2
      <4>4. QED
        BY <2>4, <2>5, <3>2, <4>3 DEF Refused
    <3>3. CASE d[1] # "totp"
      BY <2>1, <3>1, <3>3 DEF Refused
    <3>4. QED
      BY <3>2, <3>3
  <2>7. Refused(c)'
    BY <2>1, <2>4, <2>5 DEF Refused
  <2>8. QED
    BY <2>4, <2>5, <2>6, <2>7 DEF StoreOK
<1>2. CASE TakesRecovery(c)
  <2>1. c \in recovery /\ c[1] = "recovery"
    BY <1>2 DEF TakesRecovery, StoreOK
  <2>2. credential' = credential
    BY <2>1
  <2>3. c \notin consumed
    BY <2>1 DEF StoreOK, Refused
  <2>4. \A d \in consumed : Refused(d)'
    BY <2>2 DEF StoreOK, Refused
  <2>5. Refused(c)'
    BY <2>1 DEF Refused
  <2>6. QED
    BY <2>1, <2>2, <2>3, <2>4, <2>5 DEF StoreOK
<1>3. QED
  BY <1>1, <1>2

LEMMA AcceptedIs ==
    ASSUME NEW r, req[r].route \in {"verify", "setup", "disable", "regenerate"}
    PROVE  Accepted(r) \in {"issue", "begin", "disable", "regenerate"}
BY DEF Accepted

LEMMA ConsumeStep ==
    ASSUME SignInInv, NEW r \in Requests, Consume(r)
    PROVE  SignInInv'
<1>1. /\ req[r].at = "consume" /\ req[r].code \in Codes /\ req[r].code[2] <= minted
      /\ req[r].route \in {"verify", "setup", "disable", "regenerate"}
      /\ UNCHANGED <<clock, minted, setup, pending, signedIn, guesses>>
  BY Here DEF Consume, RequestOK, CodePlaces
<1>2. CASE TakesCounter(req[r].code) \/ TakesRecovery(req[r].code)
  <2>1. StoreOK'
    BY <1>1, <1>2, TakenIsRefused DEF Consume, SignInInv
  <2>2. GotoBare(r, Accepted(r)) /\ Accepted(r) \in {"issue", "begin", "disable", "regenerate"}
    BY <1>1, <1>2, AcceptedIs DEF Consume
  <2>3. QED
    BY <1>1, <2>1, <2>2, QuietGotoBare DEF Places, LoginPlaces, CodePlaces, KeyPlaces, GuessPlaces
<1>3. CASE ~(TakesCounter(req[r].code) \/ TakesRecovery(req[r].code))
  <2>1. StoreOK'
    BY <1>1, <1>3, StoreStays, Here DEF Consume, SignInInv, StoreOK
  <2>2. CASE req[r].route = "verify" /\ GotoBare(r, "count")
    BY <1>1, <2>1, <2>2, QuietGotoBare DEF Places, LoginPlaces, CodePlaces, KeyPlaces, GuessPlaces
  <2>3. CASE Answer(r)
    BY <1>1, <2>1, <2>3, Here, QuietAnswer
  <2>4. QED
    BY <1>3, <2>2, <2>3 DEF Consume
<1>4. QED
  BY <1>2, <1>3

LEMMA CountWrongCodeStep ==
    ASSUME SignInInv, NEW r \in Requests, CountWrongCode(r)
    PROVE  SignInInv'
<1>1. LoginsOK'
  BY CountKeepsLogins DEF SignInInv
<1>2. StoreOK'
  BY StoreStays, Here DEF SignInInv, StoreOK, CountWrongCode, store
<1>3. PICK p \in Pendings : p = req[r].id /\ p \in Created
  BY Here DEF CountWrongCode, RequestOK, LoginPlaces, Created
<1>4. Created \subseteq Created'
  <2>1. CASE pending' = pending
    BY <2>1 DEF Created
  <2>2. CASE Alive(p) /\ pending' = [pending EXCEPT ![p].attempts = @ + 1]
    <3>1. \A q \in Pendings : q # p => pending'[q] = pending[q]
      BY <2>2, Here
    <3>2. pending'[p] # None
      <4>1. pending' \in [Pendings -> {None, Gone} \cup Live] /\ LoginOK(p)'
        BY <1>1 DEF LoginsOK
      <4>2. guesses'[p] = guesses[p] + 1 /\ guesses[p] \in Nat
        BY <1>3, Here DEF CountWrongCode
      <4>3. QED
        BY <4>1, <4>2 DEF LoginOK
    <3>3. QED
      BY <3>1, <3>2 DEF Created
  <2>3. QED
    BY <1>3, <2>1, <2>2 DEF CountWrongCode
<1>5. req[r].at = "count" /\ req[r].route = "verify" /\ minted' = minted
  BY Here DEF CountWrongCode, RequestOK, LoginPlaces
<1>6. RequestsOK'
  <2>1. CASE Answer(r)
    BY <1>4, <1>5, <2>1, Here, IdleIs, AnswerMoves, MovedKeepsRequests DEF SignInInv
  <2>2. CASE Goto(r, "destroy")
    <3> DEFINE x == [req[r] EXCEPT !.at = "destroy"]
    <3>1. Moved(r, x)
      BY <2>2, Here, GotoMoves DEF Places
    <3>2. RequestOK(x, minted, Created')
      <4>1. RequestOK(req[r], minted, Created')
        BY <1>4, Here DEF RequestOK
      <4>2. QED
        BY <1>5, <4>1, PlaceIsOK DEF Places, CodePlaces, KeyPlaces
    <3> HIDE DEF x
    <3>3. QED
      BY <1>4, <1>5, <3>1, <3>2, Here, MovedKeepsRequests DEF SignInInv
  <2>3. QED
    BY <2>1, <2>2 DEF CountWrongCode
<1>7. QED
  BY <1>1, <1>2, <1>6 DEF SignInInv

-----------------------------------------------------------------------------
(* The account routes.                                                     *)

LEMMA AccountChangeStep ==
    ASSUME SignInInv, NEW r \in Requests, AccountChange(r)
    PROVE  SignInInv'
<1>1. /\ req[r] = Idle /\ req[r].at # "destroy"
      /\ UNCHANGED <<clock, minted, store, pending, signedIn, consumed, guesses>>
  BY IdleFields DEF AccountChange
<1>2. StoreOK'
  BY <1>1, StoreStays, Here DEF SignInInv, StoreOK, store
<1>3. CASE req' = [req EXCEPT ![r].route = "setup", ![r].at = "begin"]
  <2> DEFINE x == [Idle EXCEPT !.route = "setup", !.at = "begin"]
  <2>1. x = [Idle EXCEPT !.route = "setup", !.at = "begin"] /\ req' = [req EXCEPT ![r] = x]
    BY <1>1, <1>3
  <2> HIDE DEF x
  <2>2. x = [at |-> "begin", route |-> "setup", id |-> None, code |-> Junk, mint |-> 0]
    BY <2>1, IdleIs, IdleFields DEF Request
  <2>3. x \in Request
    <3>1. 0 \in 0 .. MaxMints /\ "begin" \in Places /\ "setup" \in Routes
      BY SignInBounds DEF Places, Routes
    <3>2. QED
      BY <2>2, <3>1 DEF Request
  <2>4. Moved(r, x)
    BY <2>1, <2>3, Here, MovesTo
  <2>5. RequestOK(x, minted, Created)
    BY <2>2, <2>3, JunkIsNoCode DEF RequestOK, LoginPlaces, CodePlaces, KeyPlaces
  <2>6. QED
    BY <1>1, <1>2, <2>2, <2>4, <2>5, Here, QuietMove
<1>4. ASSUME NEW route \in {"setup", "disable", "regenerate"}, NEW code \in Typed \ {Junk},
             req' = [req EXCEPT ![r] = [Idle EXCEPT !.route = route, !.code = code, !.at = "reauth"]]
      PROVE  SignInInv'
  <2> DEFINE x == [Idle EXCEPT !.route = route, !.code = code, !.at = "reauth"]
  <2>1. x = [Idle EXCEPT !.route = route, !.code = code, !.at = "reauth"] /\ req' = [req EXCEPT ![r] = x]
    BY <1>4
  <2> HIDE DEF x
  <2>2. x = [at |-> "reauth", route |-> route, id |-> None, code |-> code, mint |-> 0]
    BY <2>1, IdleIs, IdleFields DEF Request
  <2>3. code \in Codes /\ code[2] <= minted
    BY TypedAre
  <2>4. x \in Request
    <3>1. 0 \in 0 .. MaxMints /\ "reauth" \in Places /\ route \in Routes
      BY SignInBounds DEF Places, Routes
    <3>2. QED
      BY <2>2, <2>3, <3>1 DEF Request
  <2>5. Moved(r, x)
    BY <2>1, <2>4, Here, MovesTo
  <2>6. RequestOK(x, minted, Created)
    BY <2>2, <2>3, <2>4 DEF RequestOK, LoginPlaces, KeyPlaces
  <2>7. QED
    BY <1>1, <1>2, <2>2, <2>5, <2>6, Here, QuietMove
<1>5. QED
  BY <1>3, <1>4 DEF AccountChange

LEMMA BeginSetupStep ==
    ASSUME SignInInv, NEW r \in Requests, BeginSetup(r)
    PROVE  SignInInv'
<1>1. /\ minted' = minted + 1 /\ setup' = minted + 1 /\ minted < MaxMints
      /\ UNCHANGED <<clock, credential, recovery, pending, signedIn, consumed, guesses>>
      /\ Answer(r) /\ req[r].at # "destroy"
  BY DEF BeginSetup, NewMint
<1>2. minted' \in 0 .. MaxMints /\ minted <= minted' /\ minted' \in Nat
  BY <1>1, Here
<1>3. StoreOK'
  BY <1>1, <1>2, StoreStays DEF SignInInv, StoreOK
<1>4. QED
  BY <1>1, <1>2, <1>3, QuietAnswer

LEMMA ConfirmStartStep ==
    ASSUME SignInInv, NEW r \in Requests, ConfirmStart(r)
    PROVE  SignInInv'
<1>1. /\ req[r] = Idle /\ req[r].at # "destroy" /\ setup # 0
      /\ UNCHANGED <<clock, minted, store, pending, signedIn, consumed, guesses>>
  BY IdleFields DEF ConfirmStart
<1>2. StoreOK'
  BY <1>1, StoreStays, Here DEF SignInInv, StoreOK, store
<1>3. setup \in Mints
  BY <1>1, SignInBounds DEF SignInInv, StoreOK, Mints
<1>4. PICK code \in Typed :
         /\ VerifyTotp(setup, code) >= 0 \/ code \in RecoveryOf(setup)
         /\ req' = [req EXCEPT ![r] = [Idle EXCEPT !.at = "confirm", !.route = "confirm",
                                                   !.code = code, !.mint = setup]]
  BY DEF ConfirmStart
<1>5. code \in Codes /\ code[2] <= minted
  BY <1>3, <1>4, TypedAre, VerifiedIs, RecoveryOfAre, JunkIsNoCode
<1> DEFINE x == [Idle EXCEPT !.at = "confirm", !.route = "confirm", !.code = code, !.mint = setup]
<1>6. /\ x = [Idle EXCEPT !.at = "confirm", !.route = "confirm", !.code = code, !.mint = setup]
      /\ req' = [req EXCEPT ![r] = x]
  BY <1>4
<1> HIDE DEF x
<1>7. x = [at |-> "confirm", route |-> "confirm", id |-> None, code |-> code, mint |-> setup]
  BY <1>6, IdleIs, IdleFields DEF Request
<1>8. x \in Request
  <2>1. setup \in 0 .. MaxMints /\ "confirm" \in Places /\ "confirm" \in Routes
    BY DEF SignInInv, StoreOK, Places, Routes
  <2>2. QED
    BY <1>5, <1>7, <2>1 DEF Request
<1>9. Moved(r, x)
  BY <1>6, <1>8, Here, MovesTo
<1>10. RequestOK(x, minted, Created)
  BY <1>3, <1>5, <1>7, <1>8 DEF RequestOK, LoginPlaces
<1>11. QED
  BY <1>1, <1>2, <1>7, <1>9, <1>10, Here, QuietMove

LEMMA ConfirmSetupStep ==
    ASSUME SignInInv, NEW r \in Requests, ConfirmSetup(r)
    PROVE  SignInInv'
<1>1. /\ req[r].at = "confirm" /\ req[r].code \in Codes /\ req[r].code[2] <= minted
      /\ req[r].mint \in Mints /\ Answer(r)
      /\ UNCHANGED <<clock, minted, pending, signedIn, guesses>>
  BY Here DEF ConfirmSetup, RequestOK, CodePlaces, KeyPlaces
<1>2. 0 \in 0 .. MaxMints
  BY SignInBounds
<1>3. StoreOK'
  BY <1>1, <1>2, EnrolledStore DEF ConfirmSetup
<1>4. QED
  BY <1>1, <1>3, Here, QuietAnswer

LEMMA DisableStep ==
    ASSUME SignInInv, NEW r \in Requests, Disable(r)
    PROVE  SignInInv'
<1>1. /\ req[r].at = "disable" /\ Answer(r)
      /\ credential' = None /\ recovery' = {} /\ setup' = 0 /\ consumed' = {}
      /\ UNCHANGED <<clock, minted, pending, signedIn, guesses>>
  BY DEF Disable
<1>2. StoreOK'
  BY <1>1, SignInBounds DEF SignInInv, StoreOK
<1>3. QED
  BY <1>1, <1>2, Here, QuietAnswer

LEMMA ReplaceRecoveryCodesStep ==
    ASSUME SignInInv, NEW r \in Requests, ReplaceRecoveryCodes(r)
    PROVE  SignInInv'
<1>1. /\ req[r].at = "regenerate" /\ Answer(r) /\ minted' = minted + 1 /\ minted < MaxMints
      /\ recovery' = IF credential = None THEN {} ELSE RecoveryOf(minted + 1)
      /\ UNCHANGED <<clock, credential, setup, pending, signedIn, consumed, guesses>>
  BY DEF ReplaceRecoveryCodes, NewMint
<1>2. minted' \in 0 .. MaxMints /\ minted <= minted' /\ minted' \in Nat /\ minted + 1 \in Mints
  BY <1>1, Here DEF Mints
<1>3. /\ RecoveryOf(minted + 1) \subseteq Codes
      /\ \A c \in RecoveryOf(minted + 1) : c[1] = "recovery" /\ c[2] = minted + 1
  BY <1>2, RecoveryOfAre
<1>4. ASSUME NEW c \in consumed
      PROVE  c[2] <= minted' /\ Refused(c)'
  <2>1. c \in Codes /\ c[2] <= minted /\ Refused(c) /\ c[2] \in Nat
    BY CodesAre DEF SignInInv, StoreOK, Mints
  <2>2. c \notin RecoveryOf(minted + 1)
    BY <1>3, <2>1, Here
  <2>3. QED
    BY <1>1, <2>1, <2>2, Here DEF Refused
<1>5. StoreOK'
  BY <1>1, <1>2, <1>3, <1>4 DEF SignInInv, StoreOK
<1>6. QED
  BY <1>1, <1>2, <1>5, QuietAnswer

-----------------------------------------------------------------------------
(* Time, and what nobody asked for.                                        *)

LEMMA LogoutStep ==
    ASSUME SignInInv, Logout
    PROVE  SignInInv'
<1>1. PICK p \in {q \in Pendings : Alive(q)} \cup {None} :
         pending' = [q \in Pendings |-> IF q = p THEN Gone ELSE pending[q]]
  BY DEF Logout
<1>2. /\ pending \in [Pendings -> {None, Gone} \cup Live] /\ minted \in Nat
      /\ UNCHANGED <<clock, minted, store, req, consumed, guesses>>
  BY SignInBounds DEF SignInInv, StoreOK, LoginsOK, Logout
<1>3. pending' \in [Pendings -> {None, Gone} \cup Live] /\ \A q \in Pendings : RowStep(q)
  BY <1>1, <1>2, NoneIsNoRow DEF RowStep, Alive
<1>4. Created \subseteq Created'
  BY <1>1, <1>2, RowsAreOfOneKind DEF Created
<1>5. StoreOK'
  <2>1. signedIn' \in BOOLEAN
    BY DEF SignInInv, StoreOK, Logout
  <2>2. QED
    BY <1>2, <2>1, StoreStays DEF SignInInv, StoreOK, store
<1>6. RequestsOK' /\ LoginsOK'
  BY <1>2, <1>3, <1>4, NobodyMovesKeepsRequests, NobodyMovesKeepsLogins DEF SignInInv
<1>7. QED
  BY <1>5, <1>6 DEF SignInInv

LEMMA ExpireStep ==
    ASSUME SignInInv, Expire
    PROVE  SignInInv'
<1>1. /\ pending \in [Pendings -> {None, Gone} \cup Live] /\ minted \in Nat
      /\ UNCHANGED <<clock, minted, credential, recovery, req, consumed, guesses>>
  BY SignInBounds DEF SignInInv, StoreOK, LoginsOK, Expire
<1>2. pending' = pending \/ \E p \in Pendings : Alive(p) /\ pending' = [pending EXCEPT ![p] = Gone]
  BY DEF Expire, Drop
<1>3. pending' \in [Pendings -> {None, Gone} \cup Live] /\ \A q \in Pendings : RowStep(q)
  BY <1>1, <1>2 DEF RowStep, Alive
<1>4. Created \subseteq Created'
  BY <1>1, <1>2, RowsAreOfOneKind DEF Created
<1>5. StoreOK'
  <2>1. signedIn' \in BOOLEAN
    BY DEF SignInInv, StoreOK, Expire
  <2>2. setup' \in 0 .. MaxMints
    BY SignInBounds DEF SignInInv, StoreOK, Expire
  <2>3. clock' \in 0 .. MaxClock /\ minted' \in 0 .. MaxMints /\ minted <= minted'
    BY <1>1 DEF SignInInv, StoreOK
  <2>4. QED
    BY <1>1, <2>1, <2>2, <2>3, StoreStays DEF SignInInv
<1>6. RequestsOK' /\ LoginsOK'
  BY <1>1, <1>3, <1>4, NobodyMovesKeepsRequests, NobodyMovesKeepsLogins DEF SignInInv
<1>7. QED
  BY <1>5, <1>6 DEF SignInInv

LEMMA TickStep ==
    ASSUME SignInInv, Tick \/ UNCHANGED vars
    PROVE  SignInInv'
<1>1. /\ clock' \in 0 .. MaxClock /\ minted \in Nat
      /\ UNCHANGED <<minted, store, pending, signedIn, req, consumed, guesses>>
  BY SignInBounds DEF SignInInv, StoreOK, Tick, vars
<1>2. StoreOK'
  BY <1>1, StoreStays DEF SignInInv, StoreOK, store
<1>3. \A q \in Pendings : RowStep(q)
  BY <1>1 DEF RowStep
<1>4. Created' = Created
  BY <1>1 DEF Created
<1>5. RequestsOK' /\ LoginsOK'
  BY <1>1, <1>3, <1>4, NobodyMovesKeepsRequests, NobodyMovesKeepsLogins DEF SignInInv, LoginsOK
<1>6. QED
  BY <1>2, <1>5 DEF SignInInv

-----------------------------------------------------------------------------

LEMMA InitSignInInv == Init => SignInInv
<1> SUFFICES ASSUME Init PROVE SignInInv
  OBVIOUS
<1>1. RequestsOK
  BY IdleIs DEF Init, RequestsOK
<1>2. StoreOK
  <2>1. 0 \in 0 .. MaxClock /\ 0 \in 0 .. MaxMints
    BY SignInBounds
  <2>2. signedIn \in BOOLEAN
    BY DEF Init
  <2>3. QED
    BY <2>1, <2>2 DEF Init, StoreOK
<1>3. LoginsOK
  <2>1. \A p \in Pendings : LoginOK(p)
    BY RowsAreOfOneKind DEF Init, LoginOK
  <2>2. QED
    BY <2>1 DEF Init, LoginsOK
<1>4. QED
  BY <1>1, <1>2, <1>3 DEF SignInInv

LEMMA NextSignInInv == SignInInv /\ [Next]_vars => SignInInv'
<1> SUFFICES ASSUME SignInInv, [Next]_vars PROVE SignInInv'
  OBVIOUS
<1>1. ASSUME NEW r \in Requests, Work(r)
      PROVE  SignInInv'
  <2>1. CASE Callback(r) \/ Gate(r) \/ CreatePending(r) \/ IssueSession(r) \/ ForgetPending(r)
    BY <2>1, CallbackStep, GateStep, CreatePendingStep, IssueSessionStep, ForgetPendingStep
  <2>2. CASE Verify(r) \/ CheckEnrolled(r) \/ VerifyMaterial(r) \/ ConfirmEnrollment(r)
    BY <2>2, VerifyStep, CheckEnrolledStep, VerifyMaterialStep, ConfirmEnrollmentStep
  <2>3. CASE ReadCredential(r) \/ Consume(r) \/ CountWrongCode(r)
    BY <2>3, ReadCredentialStep, ConsumeStep, CountWrongCodeStep
  <2>4. CASE AccountChange(r) \/ BeginSetup(r) \/ ConfirmStart(r) \/ ConfirmSetup(r)
    BY <2>4, AccountChangeStep, BeginSetupStep, ConfirmStartStep, ConfirmSetupStep
  <2>5. CASE Disable(r) \/ ReplaceRecoveryCodes(r)
    BY <2>5, DisableStep, ReplaceRecoveryCodesStep
  <2>6. QED
    BY <1>1, <2>1, <2>2, <2>3, <2>4, <2>5 DEF Work
<1>2. QED
  BY <1>1, ShowEnrollmentStep, LogoutStep, ExpireStep, TickStep DEF Next

LEMMA SignInInvariant == Spec => []SignInInv
<1>1. QED
  BY InitSignInInv, NextSignInInv, PTL DEF Spec

(* The sign-in keeps its types; the count of a login's row stays within    *)
(* the ceiling and the requests in flight.                                 *)
THEOREM SignInTypes == Spec => []TypeOK
<1>1. SignInInv => TypeOK
  BY DEF SignInInv, RequestsOK, StoreOK, LoginsOK, TypeOK, Request
<1>2. QED
  BY <1>1, SignInInvariant, PTL

(* However many requests guess at once, a pending login takes at most the  *)
(* ceiling of wrong codes and those already in flight when it was reached. *)
THEOREM GuessingEnds == Spec => []GuessesAreBounded
<1>1. SignInInv => GuessesAreBounded
  <2> SUFFICES ASSUME SignInInv, NEW p \in Pendings
               PROVE  guesses[p] <= MaxAttempts - 1 + Cardinality(Requests)
    BY DEF GuessesAreBounded
  <2>1. LoginOK(p) /\ guesses[p] \in Nat /\ pending[p] \in {None, Gone} \cup Live
    BY DEF SignInInv, LoginsOK
  <2>2. /\ Cardinality(Guessing(p)) \in Nat /\ Cardinality(Ending(p)) \in Nat
        /\ Cardinality(Requests) \in Nat
        /\ Cardinality(Guessing(p)) + Cardinality(Ending(p)) <= Cardinality(Requests)
    BY GuessersAreCounted
  <2>3. MaxAttempts \in Nat /\ MaxAttempts > 0
    BY SignInBounds
  <2>4. QED
    BY <2>1, <2>2, <2>3 DEF LoginOK
<1>2. QED
  BY <1>1, SignInInvariant, PTL

(* Only Consume lets a request through by its code, and it takes the code  *)
(* from the store in the same step.                                        *)
LEMMA ConsumingTakesOnce ==
    ASSUME SignInInv, [Next]_vars, NEW r \in Requests,
           req[r].at = "consume", req'[r].at = Accepted(r)
    PROVE  req[r].code \notin consumed
<1>1. /\ req[r].code \in Codes /\ req[r].code[2] <= minted
      /\ req[r].route \in {"verify", "setup", "disable", "regenerate"}
  BY Here DEF RequestOK, CodePlaces
<1>2. Accepted(r) \in {"issue", "begin", "disable", "regenerate"}
  BY <1>1, AcceptedIs
<1>3. req'[r].at # "consume"
  BY <1>2
<1>4. Consume(r)
  <2>1. ASSUME NEW s \in Requests, Work(s), s # r
        PROVE  req'[r] = req[r]
    BY <2>1, Here
    DEF Work, Callback, Gate, CreatePending, IssueSession, ForgetPending, Verify, CheckEnrolled,
        VerifyMaterial, ConfirmEnrollment, ReadCredential, Consume, CountWrongCode, AccountChange,
        BeginSetup, ConfirmStart, ConfirmSetup, Disable, ReplaceRecoveryCodes,
        Goto, GotoBare, Answer
  <2>2. ASSUME Work(r)
        PROVE  Consume(r)
    BY <2>2, IdleFields
    DEF Work, Callback, Gate, CreatePending, IssueSession, ForgetPending, Verify, CheckEnrolled,
        VerifyMaterial, ConfirmEnrollment, ReadCredential, CountWrongCode, AccountChange,
        BeginSetup, ConfirmStart, ConfirmSetup, Disable, ReplaceRecoveryCodes
  <2>3. CASE (\E p \in Pendings : ShowEnrollment(p)) \/ Logout \/ Tick \/ Expire \/ UNCHANGED vars
    BY <1>3, <2>3 DEF ShowEnrollment, Logout, Tick, Expire, vars
  <2>4. QED
    BY <1>3, <2>1, <2>2, <2>3 DEF Next
<1>5. TakesCounter(req[r].code) \/ TakesRecovery(req[r].code)
  <2>1. SUFFICES ASSUME ~(TakesCounter(req[r].code) \/ TakesRecovery(req[r].code))
                 PROVE  FALSE
    OBVIOUS
  <2>2. CASE req[r].route = "verify"
    <3>1. Accepted(r) = "issue"
      BY <2>2 DEF Accepted
    <3>2. GotoBare(r, "count")
      BY <1>4, <2>1, <2>2 DEF Consume
    <3>3. req'[r].at = "count"
      BY <3>2, Here DEF GotoBare, Request
    <3>4. QED
      BY <3>1, <3>3
  <2>3. CASE req[r].route # "verify"
    <3>1. Answer(r)
      BY <1>4, <2>1, <2>3 DEF Consume
    <3>2. req'[r].at = "idle"
      BY <3>1, Here, IdleFields DEF Answer
    <3>3. QED
      BY <1>2, <3>2
  <2>4. QED
    BY <2>2, <2>3
<1>6. QED
  BY <1>1, <1>4, <1>5, TakenIsRefused DEF Consume, SignInInv

(* Two requests are never let through by the same code between two changes *)
(* of the authenticator.                                                   *)
THEOREM EachCodeOnce == Spec => CodesAreTakenOnce
<1>1. SignInInv /\ [Next]_vars =>
         [\A r \in Requests :
             req[r].at = "consume" /\ req'[r].at = Accepted(r) /\ req[r].route = req'[r].route
                 => req[r].code \notin consumed]_vars
  BY ConsumingTakesOnce
<1>2. QED
  BY <1>1, SignInInvariant, PTL DEF Spec, CodesAreTakenOnce

-----------------------------------------------------------------------------
(* The settings routes.                                                    *)

RowNames == {"another", "command", "hidden", "invites", "language", "levels",
             "logging", "messages", "security", "tiers", "welcome"}

(* The rows of a form, and those an ask has written.                       *)
Elements(s) == {s[i] : i \in DOMAIN s}
KeptBy(a)   == {w.row : w \in {v \in written : v.ask = a}}
ToldBy(a)   == [ask |-> a, of |-> "save"] \in trail

FormOK(f) == f.blind \in {"conflict", "later"} /\ f.rows \in Seq(RowNames)
ViewOK(v) == v.lists \in {"beside", "needed", "later", "none"}

(* Before its rows a request has written nothing and has no answer; at its *)
(* rows, those written and those left are the form's; and its answer tells *)
(* what it wrote.                                                          *)
Asking(q) ==
    /\ DOMAIN q = DOMAIN Settings!Blank
    /\ q.at \in Settings!Steps /\ q.answer \in Settings!Answers /\ q.body \in Settings!Bodies
    /\ q.at # "idle" => /\ q.ask \in 1 .. asks
                        /\ FormOK(q.form) /\ ViewOK(q.view)
    /\ q.at \notin {"idle", "answered"} => q.answer = "none" /\ ~ToldBy(q.ask) /\ ~q.ended
    /\ q.at \notin {"idle", "answered", "rows"} => KeptBy(q.ask) = {}
    /\ q.at = "lists" => q.view.lists # "none"
    /\ q.at = "check" => q.left = q.form.rows
    /\ q.at = "rows" => /\ q.left \in Seq(RowNames)
                        /\ KeptBy(q.ask) \cup Elements(q.left) = Elements(q.form.rows)

Answered(q) ==
    q.at = "answered" =>
        /\ q.answer = "saved" => KeptBy(q.ask) = Elements(q.form.rows) /\ (q.form.audits => ToldBy(q.ask))
        /\ q.answer \in {"signed_out", "forbidden", "wrong", "conflict", "later", "shown"} =>
               KeptBy(q.ask) = {} /\ ~ToldBy(q.ask)
        /\ q.answer = "later" => ~q.ended
        /\ ToldBy(q.ask) => KeptBy(q.ask) = Elements(q.form.rows)

(* Each ask is one request's.                                              *)
RouteInv ==
    /\ asks \in Nat
    /\ DOMAIN served = Browsers
    /\ \A r \in Browsers : Asking(served[r]) /\ Answered(served[r])
    /\ \A r, s \in Browsers : r # s /\ served[r].at # "idle" /\ served[s].at # "idle" => served[r].ask # served[s].ask
    /\ \A w \in written : w.ask \in 1 .. asks
    /\ \A t \in trail : t \in [ask : 1 .. asks, of : {"save", "rejection"}]

LEMMA OneOrTwo ==
    ASSUME NEW S, NEW x \in S, NEW y \in S
    PROVE  <<x>> \in Seq(S) /\ <<x, y>> \in Seq(S)
OBVIOUS

LEMMA FormsAreSound == \A f \in DOMAIN Settings!Forms : FormOK(Settings!Forms[f])
<1> SUFFICES ASSUME NEW f \in DOMAIN Settings!Forms PROVE FormOK(Settings!Forms[f])
  OBVIOUS
<1>1. f \in {"tiers", "commands", "security", "welcome", "levels", "messages",
             "invites", "logging", "visibility", "preferences"}
  BY DEF Settings!Forms
<1>2. CASE f = "tiers"
  <2>1. Settings!Forms[f] = Settings!TiersRoute
    BY <1>2 DEF Settings!Forms
  <2>2. Settings!TiersRoute.blind \in {"conflict", "later"}
    BY DEF Settings!TiersRoute
  <2>3. Settings!TiersRoute.rows \in Seq(RowNames)
    <3>1. Settings!TiersRoute.rows = <<"tiers">>
      BY DEF Settings!TiersRoute
    <3>2. "tiers" \in RowNames
      BY DEF RowNames
    <3>3. QED
      BY <3>1, <3>2, OneOrTwo
  <2>4. QED
    BY <2>1, <2>2, <2>3 DEF FormOK
<1>3. CASE f = "commands"
  <2>1. Settings!Forms[f] = Settings!CommandsRoute
    BY <1>3 DEF Settings!Forms
  <2>2. Settings!CommandsRoute.blind \in {"conflict", "later"}
    BY DEF Settings!CommandsRoute
  <2>3. Settings!CommandsRoute.rows \in Seq(RowNames)
    <3>1. Settings!CommandsRoute.rows = <<"command", "another">>
      BY DEF Settings!CommandsRoute
    <3>2. "command" \in RowNames /\ "another" \in RowNames
      BY DEF RowNames
    <3>3. QED
      BY <3>1, <3>2, OneOrTwo
  <2>4. QED
    BY <2>1, <2>2, <2>3 DEF FormOK
<1>4. CASE f = "security"
  <2>1. Settings!Forms[f] = Settings!SecurityRoute
    BY <1>4 DEF Settings!Forms
  <2>2. Settings!SecurityRoute.blind \in {"conflict", "later"}
    BY DEF Settings!SecurityRoute
  <2>3. Settings!SecurityRoute.rows \in Seq(RowNames)
    <3>1. Settings!SecurityRoute.rows = <<"security">>
      BY DEF Settings!SecurityRoute
    <3>2. "security" \in RowNames
      BY DEF RowNames
    <3>3. QED
      BY <3>1, <3>2, OneOrTwo
  <2>4. QED
    BY <2>1, <2>2, <2>3 DEF FormOK
<1>5. CASE f = "welcome"
  <2>1. Settings!Forms[f] = Settings!WelcomeRoute
    BY <1>5 DEF Settings!Forms
  <2>2. Settings!WelcomeRoute.blind \in {"conflict", "later"}
    BY DEF Settings!WelcomeRoute
  <2>3. Settings!WelcomeRoute.rows \in Seq(RowNames)
    <3>1. Settings!WelcomeRoute.rows = <<"welcome">>
      BY DEF Settings!WelcomeRoute
    <3>2. "welcome" \in RowNames
      BY DEF RowNames
    <3>3. QED
      BY <3>1, <3>2, OneOrTwo
  <2>4. QED
    BY <2>1, <2>2, <2>3 DEF FormOK
<1>6. CASE f = "levels"
  <2>1. Settings!Forms[f] = Settings!LevelsRoute
    BY <1>6 DEF Settings!Forms
  <2>2. Settings!LevelsRoute.blind \in {"conflict", "later"}
    BY DEF Settings!LevelsRoute
  <2>3. Settings!LevelsRoute.rows \in Seq(RowNames)
    <3>1. Settings!LevelsRoute.rows = <<"levels">>
      BY DEF Settings!LevelsRoute
    <3>2. "levels" \in RowNames
      BY DEF RowNames
    <3>3. QED
      BY <3>1, <3>2, OneOrTwo
  <2>4. QED
    BY <2>1, <2>2, <2>3 DEF FormOK
<1>7. CASE f = "messages"
  <2>1. Settings!Forms[f] = Settings!WelcomeMessagesRoute
    BY <1>7 DEF Settings!Forms
  <2>2. Settings!WelcomeMessagesRoute.blind \in {"conflict", "later"}
    BY DEF Settings!WelcomeMessagesRoute
  <2>3. Settings!WelcomeMessagesRoute.rows \in Seq(RowNames)
    <3>1. Settings!WelcomeMessagesRoute.rows = <<"messages">>
      BY DEF Settings!WelcomeMessagesRoute
    <3>2. "messages" \in RowNames
      BY DEF RowNames
    <3>3. QED
      BY <3>1, <3>2, OneOrTwo
  <2>4. QED
    BY <2>1, <2>2, <2>3 DEF FormOK
<1>8. CASE f = "invites"
  <2>1. Settings!Forms[f] = Settings!InvitesRoute
    BY <1>8 DEF Settings!Forms
  <2>2. Settings!InvitesRoute.blind \in {"conflict", "later"}
    BY DEF Settings!InvitesRoute
  <2>3. Settings!InvitesRoute.rows \in Seq(RowNames)
    <3>1. Settings!InvitesRoute.rows = <<"invites">>
      BY DEF Settings!InvitesRoute
    <3>2. "invites" \in RowNames
      BY DEF RowNames
    <3>3. QED
      BY <3>1, <3>2, OneOrTwo
  <2>4. QED
    BY <2>1, <2>2, <2>3 DEF FormOK
<1>9. CASE f = "logging"
  <2>1. Settings!Forms[f] = Settings!LoggingRoute
    BY <1>9 DEF Settings!Forms
  <2>2. Settings!LoggingRoute.blind \in {"conflict", "later"}
    BY DEF Settings!LoggingRoute
  <2>3. Settings!LoggingRoute.rows \in Seq(RowNames)
    <3>1. Settings!LoggingRoute.rows = <<"logging">>
      BY DEF Settings!LoggingRoute
    <3>2. "logging" \in RowNames
      BY DEF RowNames
    <3>3. QED
      BY <3>1, <3>2, OneOrTwo
  <2>4. QED
    BY <2>1, <2>2, <2>3 DEF FormOK
<1>10. CASE f = "visibility"
  <2>1. Settings!Forms[f] = Settings!VisibilityRoute
    BY <1>10 DEF Settings!Forms
  <2>2. Settings!VisibilityRoute.blind \in {"conflict", "later"}
    BY DEF Settings!VisibilityRoute
  <2>3. Settings!VisibilityRoute.rows \in Seq(RowNames)
    <3>1. Settings!VisibilityRoute.rows = <<"hidden">>
      BY DEF Settings!VisibilityRoute
    <3>2. "hidden" \in RowNames
      BY DEF RowNames
    <3>3. QED
      BY <3>1, <3>2, OneOrTwo
  <2>4. QED
    BY <2>1, <2>2, <2>3 DEF FormOK
<1>11. CASE f = "preferences"
  <2>1. Settings!Forms[f] = Settings!PreferencesRoute
    BY <1>11 DEF Settings!Forms
  <2>2. Settings!PreferencesRoute.blind \in {"conflict", "later"}
    BY DEF Settings!PreferencesRoute
  <2>3. Settings!PreferencesRoute.rows \in Seq(RowNames)
    <3>1. Settings!PreferencesRoute.rows = <<"language">>
      BY DEF Settings!PreferencesRoute
    <3>2. "language" \in RowNames
      BY DEF RowNames
    <3>3. QED
      BY <3>1, <3>2, OneOrTwo
  <2>4. QED
    BY <2>1, <2>2, <2>3 DEF FormOK
<1>12. QED
  BY <1>1, <1>2, <1>3, <1>4, <1>5, <1>6, <1>7, <1>8, <1>9, <1>10, <1>11

LEMMA ViewsAreSound == \A v \in DOMAIN Settings!Views : ViewOK(Settings!Views[v])
BY DEF Settings!Views, ViewOK, Settings!View, Settings!GuildListView, Settings!ChannelsView, Settings!TiersView, Settings!CommandsView, Settings!MembersView,
       Settings!AuditView, Settings!SecurityEventsView, Settings!SecurityView, Settings!WelcomeView, Settings!LevelsView, Settings!WelcomeMessagesView,
       Settings!InvitesView, Settings!MetricsView, Settings!LeaderboardView, Settings!LoggingView, Settings!PreferencesView, Settings!RewardsView, Settings!SyncView,
       Settings!OwnLevelsView, Settings!LevelsStatusView, Settings!CustomizationView, Settings!OwnSecurityView

LEMMA HeadAndTail ==
    ASSUME NEW s \in Seq(RowNames), s # <<>>
    PROVE  Tail(s) \in Seq(RowNames) /\ Elements(s) = {Head(s)} \cup Elements(Tail(s))
<1>1. Len(s) \in Nat /\ Len(s) > 0 /\ DOMAIN s = 1 .. Len(s) /\ Head(s) = s[1]
  OBVIOUS
<1>2. Tail(s) \in Seq(RowNames) /\ Len(Tail(s)) = Len(s) - 1 /\ DOMAIN Tail(s) = 1 .. Len(s) - 1
  OBVIOUS
<1>3. \A i \in 1 .. Len(s) - 1 : Tail(s)[i] = s[i + 1]
  OBVIOUS
<1>4. ASSUME NEW i \in 1 .. Len(s) PROVE s[i] \in {Head(s)} \cup Elements(Tail(s))
  <2>1. CASE i = 1
    BY <1>1, <2>1
  <2>2. CASE i # 1
    <3>1. i - 1 \in 1 .. Len(s) - 1 /\ Tail(s)[i - 1] = s[i]
      BY <1>1, <1>3, <2>2
    <3>2. QED
      BY <1>2, <3>1 DEF Elements
  <2>3. QED
    BY <2>1, <2>2
<1>5. ASSUME NEW i \in 1 .. Len(s) - 1 PROVE Tail(s)[i] \in Elements(s)
  <2>1. i + 1 \in 1 .. Len(s) /\ Tail(s)[i] = s[i + 1]
    BY <1>1, <1>3
  <2>2. QED
    BY <1>1, <2>1 DEF Elements
<1>6. Head(s) \in Elements(s)
  BY <1>1 DEF Elements
<1>7. QED
  BY <1>1, <1>2, <1>4, <1>5, <1>6 DEF Elements

(* A step of one request touches what is its own.                          *)
LEMMA OneRequestMoves ==
    ASSUME RouteInv, NEW r \in Browsers, NEW q, served' = [served EXCEPT ![r] = q],
           asks' \in Nat, asks <= asks',
           (q.at # "idle") => \/ q.ask = served[r].ask /\ served[r].at # "idle"
                              \/ q.ask = asks' /\ asks' = asks + 1,
           written \subseteq written', trail \subseteq trail',
           \A w \in written' \ written : w.ask = served[r].ask /\ served[r].at # "idle",
           \A t \in trail' \ trail : /\ t.ask = served[r].ask /\ served[r].at # "idle"
                                     /\ t \in [ask : 1 .. asks', of : {"save", "rejection"}],
           Asking(q)', Answered(q)'
    PROVE  RouteInv'
<1>1. /\ DOMAIN served' = Browsers /\ served'[r] = q
      /\ \A s \in Browsers \ {r} : served'[s] = served[s]
  BY DEF RouteInv
<1>2. served[r].at # "idle" => served[r].ask \in 1 .. asks
  BY DEF RouteInv, Asking
<1>3. ASSUME NEW a, (served[r].at # "idle") => a # served[r].ask
      PROVE  KeptBy(a)' = KeptBy(a) /\ ToldBy(a)' = ToldBy(a)
  <2>1. {v \in written' : v.ask = a} = {v \in written : v.ask = a}
    BY <1>3
  <2>2. [ask |-> a, of |-> "save"].ask = a
    OBVIOUS
  <2>3. [ask |-> a, of |-> "save"] \in trail' <=> [ask |-> a, of |-> "save"] \in trail
    BY <1>3, <2>2
  <2>4. QED
    BY <2>1, <2>3 DEF KeptBy, ToldBy
<1>4. ASSUME NEW s \in Browsers \ {r}
      PROVE  Asking(served[s])' /\ Answered(served[s])'
  <2>1. Asking(served[s]) /\ Answered(served[s]) /\ served'[s] = served[s]
    BY <1>1, <1>4 DEF RouteInv
  <2>2. CASE served[s].at = "idle"
    BY <2>1, <2>2 DEF Asking, Answered
  <2>3. CASE served[s].at # "idle"
    <3>1. KeptBy(served[s].ask)' = KeptBy(served[s].ask)' /\ ((served[r].at # "idle") => served[s].ask # served[r].ask)
      BY <1>4, <2>3 DEF RouteInv
    <3> DEFINE a == served[s].ask
    <3>2. PICK b : b = a
      OBVIOUS
    <3>3. KeptBy(b)' = KeptBy(b) /\ ToldBy(b)' = ToldBy(b)
      BY <1>3, <3>1, <3>2
    <3>4. served[s].ask \in 1 .. asks'
      BY <2>1, <2>3 DEF RouteInv, Asking
    <3>5. served'[s].ask = b /\ served[s].ask = b
      BY <2>1, <3>2
    <3>6. QED
      BY <2>1, <2>3, <3>3, <3>4, <3>5 DEF Asking, Answered
  <2>4. QED
    BY <2>2, <2>3
<1>5. ASSUME NEW s \in Browsers \ {r}, served'[r].at # "idle", served'[s].at # "idle"
      PROVE  served'[r].ask # served'[s].ask
  <2>1. served'[s] = served[s] /\ served[s].ask \in 1 .. asks
    BY <1>1, <1>5 DEF RouteInv, Asking
  <2>2. CASE q.ask = served[r].ask /\ served[r].at # "idle"
    BY <1>1, <1>5, <2>1, <2>2 DEF RouteInv
  <2>3. CASE q.ask = asks' /\ asks' = asks + 1
    BY <1>1, <2>1, <2>3 DEF RouteInv
  <2>4. QED
    BY <1>1, <1>5, <2>2, <2>3
<1>6. \A w \in written' : w.ask \in 1 .. asks'
  BY <1>2 DEF RouteInv
<1>7. \A t \in trail' : t \in [ask : 1 .. asks', of : {"save", "rejection"}]
  BY DEF RouteInv
<1>8. \A s, t \in Browsers : s # t /\ served'[s].at # "idle" /\ served'[t].at # "idle" => served'[s].ask # served'[t].ask
  BY <1>1, <1>5 DEF RouteInv
<1>9. QED
  BY <1>1, <1>4, <1>6, <1>7, <1>8 DEF RouteInv

(* It goes on and writes nothing.                                          *)
LEMMA RequestGoesOn ==
    ASSUME RouteInv, NEW r \in Browsers, NEW q, served' = [served EXCEPT ![r] = q],
           UNCHANGED <<written, trail, asks>>,
           (q.at # "idle") => q.ask = served[r].ask /\ served[r].at # "idle",
           Asking(q), Answered(q)
    PROVE  RouteInv'
<1>1. Asking(q)' /\ Answered(q)'
  BY DEF Asking, Answered, KeptBy, ToldBy
<1>2. asks' \in Nat /\ asks <= asks'
  BY DEF RouteInv
<1>3. written' = written /\ trail' = trail
  OBVIOUS
<1>4. /\ written \subseteq written' /\ trail \subseteq trail'
      /\ \A w \in written' \ written : w.ask = served[r].ask /\ served[r].at # "idle"
      /\ \A t \in trail' \ trail : /\ t.ask = served[r].ask /\ served[r].at # "idle"
                                   /\ t \in [ask : 1 .. asks', of : {"save", "rejection"}]
  BY <1>3
<1>5. QED
  BY <1>1, <1>2, <1>4, OneRequestMoves

(* The fields of a request that goes to a place, or is answered.           *)
LEMMA AtPlace ==
    ASSUME NEW x, DOMAIN x = DOMAIN Settings!Blank, NEW a, NEW y, y = [x EXCEPT !.at = a]
    PROVE  /\ DOMAIN y = DOMAIN Settings!Blank /\ y.at = a
           /\ y.ask = x.ask /\ y.form = x.form /\ y.view = x.view /\ y.body = x.body
           /\ y.left = x.left /\ y.ended = x.ended /\ y.answer = x.answer
BY DEF Settings!Blank

(* Before its rows, a request may go to any such place, or be answered by  *)
(* anything but "saved"; "later" only if it ended nothing.                 *)
EarlySteps == Settings!Steps \ {"idle", "answered", "rows"}

LEMMA GoesToPlace ==
    ASSUME RouteInv, NEW r \in Browsers, served[r].at \in EarlySteps, NEW p \in EarlySteps \ {"check"}, Settings!GoTo(r, p),
           UNCHANGED <<written, trail, asks>>, (p = "lists") => served[r].view.lists # "none"
    PROVE  RouteInv'
<1>1. PICK q : q = [served[r] EXCEPT !.at = p]
  OBVIOUS
<1>2. Asking(served[r]) /\ DOMAIN served[r] = DOMAIN Settings!Blank
  BY DEF RouteInv, Asking
<1>3. /\ DOMAIN q = DOMAIN Settings!Blank /\ q.at = p
      /\ q.ask = served[r].ask /\ q.form = served[r].form /\ q.view = served[r].view /\ q.body = served[r].body
      /\ q.left = served[r].left /\ q.ended = served[r].ended /\ q.answer = served[r].answer
  BY <1>1, <1>2, AtPlace
<1>4. served' = [served EXCEPT ![r] = q]
  BY <1>1 DEF Settings!GoTo
<1>5. Asking(q) /\ Answered(q)
  BY <1>2, <1>3 DEF Asking, Answered, EarlySteps
<1>6. QED
  BY <1>3, <1>4, <1>5, RequestGoesOn DEF EarlySteps

LEMMA AnswersEarly ==
    ASSUME RouteInv, NEW r \in Browsers, served[r].at \in EarlySteps, NEW a \in Settings!Answers \ {"saved"}, NEW e,
           \/ Settings!Answer(r, a)
           \/ a # "later" /\ served' = [served EXCEPT ![r].at = "answered", ![r].answer = a, ![r].ended = e],
           UNCHANGED <<written, trail, asks>>
    PROVE  RouteInv'
<1>1. PICK q : /\ served' = [served EXCEPT ![r] = q]
               /\ \/ q = [served[r] EXCEPT !.at = "answered", !.answer = a]
                  \/ a # "later" /\ q = [served[r] EXCEPT !.at = "answered", !.answer = a, !.ended = e]
  BY DEF Settings!Answer
<1>2. Asking(served[r]) /\ DOMAIN served[r] = DOMAIN Settings!Blank
  BY DEF RouteInv, Asking
<1>3. /\ DOMAIN q = DOMAIN Settings!Blank /\ q.at = "answered" /\ q.answer = a
      /\ q.ask = served[r].ask /\ q.form = served[r].form /\ q.view = served[r].view /\ q.body = served[r].body
      /\ a = "later" => q.ended = served[r].ended
  <2>1. CASE q = [served[r] EXCEPT !.at = "answered", !.answer = a]
    BY <1>2, <2>1 DEF Settings!Blank
  <2>2. CASE a # "later" /\ q = [served[r] EXCEPT !.at = "answered", !.answer = a, !.ended = e]
    BY <1>2, <2>2 DEF Settings!Blank
  <2>3. QED
    BY <1>1, <2>1, <2>2
<1>4. Asking(q)
  BY <1>2, <1>3 DEF Asking, EarlySteps, Settings!Steps
<1>5. Answered(q)
  BY <1>2, <1>3 DEF Asking, Answered, EarlySteps
<1>6. QED
  BY <1>1, <1>3, <1>4, <1>5, RequestGoesOn DEF EarlySteps

-----------------------------------------------------------------------------
LEMMA InitRoutes == Settings!Init => RouteInv
BY DEF Settings!Init, RouteInv, Asking, Answered, Settings!Blank, Settings!Steps, Settings!Answers, Settings!Bodies

LEMMA AskRoute == ASSUME RouteInv, NEW r \in Browsers, Settings!Ask(r) PROVE RouteInv'
<1>1. \E q : /\ served' = [served EXCEPT ![r] = q]
              /\ DOMAIN q = DOMAIN Settings!Blank /\ q.at = "session" /\ q.ask = asks' /\ q.body \in Settings!Bodies
              /\ FormOK(q.form) /\ ViewOK(q.view) /\ q.answer = "none" /\ q.ended = FALSE
  <2>0. FormOK(Settings!Forms["tiers"]) /\ ViewOK(Settings!Views["logging"]) /\ "plain" \in Settings!Bodies
    <3>1. "tiers" \in DOMAIN Settings!Forms
      BY DEF Settings!Forms
    <3>2. "logging" \in DOMAIN Settings!Views
      BY DEF Settings!Views
    <3>3. QED
      BY <3>1, <3>2, FormsAreSound, ViewsAreSound DEF Settings!Bodies
  <2>1. ASSUME NEW f \in DOMAIN Settings!Forms, NEW b \in Settings!Bodies, NEW q,
               q = [Settings!Blank EXCEPT !.at = "session", !.ask = asks', !.saves = TRUE, !.form = Settings!Forms[f], !.body = b]
        PROVE  /\ DOMAIN q = DOMAIN Settings!Blank /\ q.at = "session" /\ q.ask = asks' /\ q.body \in Settings!Bodies
               /\ FormOK(q.form) /\ ViewOK(q.view) /\ q.answer = "none" /\ q.ended = FALSE
    <3>1. /\ DOMAIN q = DOMAIN Settings!Blank /\ q.at = "session" /\ q.ask = asks' /\ q.body = b
          /\ q.form = Settings!Forms[f] /\ q.view = Settings!Views["logging"] /\ q.answer = "none" /\ q.ended = FALSE
      BY <2>1 DEF Settings!Blank
    <3>2. QED
      BY <2>0, <3>1, FormsAreSound
  <2>2. ASSUME NEW v \in DOMAIN Settings!Views, NEW q,
               q = [Settings!Blank EXCEPT !.at = "session", !.ask = asks', !.view = Settings!Views[v]]
        PROVE  /\ DOMAIN q = DOMAIN Settings!Blank /\ q.at = "session" /\ q.ask = asks' /\ q.body \in Settings!Bodies
               /\ FormOK(q.form) /\ ViewOK(q.view) /\ q.answer = "none" /\ q.ended = FALSE
    <3>1. /\ DOMAIN q = DOMAIN Settings!Blank /\ q.at = "session" /\ q.ask = asks' /\ q.body = "plain"
          /\ q.form = Settings!Forms["tiers"] /\ q.view = Settings!Views[v] /\ q.answer = "none" /\ q.ended = FALSE
      BY <2>2 DEF Settings!Blank
    <3>2. QED
      BY <2>0, <3>1, ViewsAreSound
  <2>3. CASE \E f \in DOMAIN Settings!Forms, b \in Settings!Bodies :
             served' = [served EXCEPT ![r] = [Settings!Blank EXCEPT !.at = "session", !.ask = asks', !.saves = TRUE,
                                                     !.form = Settings!Forms[f], !.body = b]]
    <3>1. PICK f \in DOMAIN Settings!Forms, b \in Settings!Bodies :
             served' = [served EXCEPT ![r] = [Settings!Blank EXCEPT !.at = "session", !.ask = asks', !.saves = TRUE,
                                                     !.form = Settings!Forms[f], !.body = b]]
      BY <2>3
    <3>2. QED
      BY <2>1, <3>1
  <2>4. CASE \E v \in DOMAIN Settings!Views :
             served' = [served EXCEPT ![r] = [Settings!Blank EXCEPT !.at = "session", !.ask = asks', !.view = Settings!Views[v]]]
    <3>1. PICK v \in DOMAIN Settings!Views :
             served' = [served EXCEPT ![r] = [Settings!Blank EXCEPT !.at = "session", !.ask = asks', !.view = Settings!Views[v]]]
      BY <2>4
    <3>2. QED
      BY <2>2, <3>1
  <2>5. QED
    BY <2>3, <2>4 DEF Settings!Ask
<1>2. asks' = asks + 1 /\ asks \in Nat /\ UNCHANGED <<written, trail>>
  BY DEF Settings!Ask, RouteInv
<1>3. PICK n \in Nat : n = asks'
  BY <1>2
<1>4. PICK q : /\ served' = [served EXCEPT ![r] = q]
               /\ DOMAIN q = DOMAIN Settings!Blank /\ q.at = "session" /\ q.ask = asks' /\ q.body \in Settings!Bodies
               /\ FormOK(q.form) /\ ViewOK(q.view) /\ q.answer = "none" /\ q.ended = FALSE
  BY <1>1
<1>5. q.ask = n
  BY <1>3, <1>4
<1>7. KeptBy(n)' = {} /\ ~ToldBy(n)'
  <2>1. \A w \in written : w.ask # n
    BY <1>2, <1>3 DEF RouteInv
  <2>2. \A t \in trail : t.ask # n
    BY <1>2, <1>3 DEF RouteInv
  <2>3. [ask |-> n, of |-> "save"].ask = n
    OBVIOUS
  <2>4. QED
    BY <1>2, <2>1, <2>2, <2>3 DEF KeptBy, ToldBy
<1>8. Asking(q)' /\ Answered(q)'
  BY <1>2, <1>3, <1>4, <1>5, <1>7 DEF Asking, Answered, Settings!Steps, Settings!Answers
<1>9. asks <= asks' /\ asks' \in Nat /\ q.ask = asks'
  BY <1>2, <1>3, <1>4, <1>5
<1>10. /\ written \subseteq written' /\ trail \subseteq trail'
       /\ \A w \in written' \ written : w.ask = served[r].ask /\ served[r].at # "idle"
       /\ \A t \in trail' \ trail : /\ t.ask = served[r].ask /\ served[r].at # "idle"
                                    /\ t \in [ask : 1 .. asks', of : {"save", "rejection"}]
  BY <1>2
<1>11. QED
  BY <1>2, <1>4, <1>8, <1>9, <1>10, OneRequestMoves

LEMMA EarlyStepsRoute ==
    ASSUME RouteInv, NEW r \in Browsers,
           \/ Settings!RequireSession(r) \/ Settings!LoadUserGuilds(r) \/ Settings!ResolveStanding(r) \/ Settings!CheckAtDiscord(r)
           \/ Settings!ReadView(r) \/ Settings!ReadLists(r)
    PROVE  RouteInv'
<1>0. Asking(served[r])
  BY DEF RouteInv
<1>1. CASE Settings!RequireSession(r)
  <2>1. served[r].at \in EarlySteps /\ UNCHANGED <<written, trail, asks>>
    BY <1>1 DEF Settings!RequireSession, EarlySteps, Settings!Steps
  <2>2. CASE Settings!Throws(r)
    BY <2>1, <2>2, AnswersEarly DEF Settings!Throws, Settings!Answers
  <2>3. CASE Settings!Answer(r, "signed_out")
    BY <2>1, <2>3, AnswersEarly DEF Settings!Answers
  <2>4. CASE Settings!GoTo(r, IF Settings!Guard(r) = "session" THEN Settings!Passed(r) ELSE "list")
    <3>1. (IF Settings!Guard(r) = "session" THEN Settings!Passed(r) ELSE "list") \in EarlySteps \ {"lists", "check"}
      BY DEF Settings!Passed, EarlySteps, Settings!Steps
    <3>2. QED
      BY <2>1, <2>4, <3>1, GoesToPlace
  <2>5. QED
    BY <1>1, <2>2, <2>3, <2>4 DEF Settings!RequireSession
<1>2. CASE Settings!LoadUserGuilds(r)
  <2>1. served[r].at \in EarlySteps /\ UNCHANGED <<written, trail, asks>>
    BY <1>2 DEF Settings!LoadUserGuilds, EarlySteps, Settings!Steps
  <2>2. CASE Settings!GoTo(r, "standing")
    BY <2>1, <2>2, GoesToPlace DEF EarlySteps, Settings!Steps
  <2>3. CASE Settings!Answer(r, "later")
    BY <2>1, <2>3, AnswersEarly DEF Settings!Answers
  <2>4. CASE served' = [served EXCEPT ![r].at = "answered", ![r].answer = "signed_out", ![r].ended = session' # session]
    <3>1. PICK e : e = (session' # session)
      OBVIOUS
    <3>2. served' = [served EXCEPT ![r].at = "answered", ![r].answer = "signed_out", ![r].ended = e]
      BY <2>4, <3>1
    <3>3. QED
      BY <2>1, <3>2, AnswersEarly DEF Settings!Answers
  <2>5. QED
    BY <1>2, <2>2, <2>3, <2>4 DEF Settings!LoadUserGuilds
<1>3. CASE Settings!ResolveStanding(r)
  <2>1. served[r].at \in EarlySteps /\ UNCHANGED <<written, trail, asks>>
    BY <1>3 DEF Settings!ResolveStanding, EarlySteps, Settings!Steps
  <2>2. CASE \E p \in {"view", "reject", Settings!Passed(r)} : Settings!GoTo(r, p)
    <3>1. {"view", "reject", Settings!Passed(r)} \subseteq EarlySteps \ {"lists", "check"}
      BY DEF Settings!Passed, EarlySteps, Settings!Steps
    <3>2. QED
      BY <2>1, <2>2, <3>1, GoesToPlace
  <2>3. CASE Settings!Answer(r, "forbidden")
    BY <2>1, <2>3, AnswersEarly DEF Settings!Answers
  <2>4. CASE Settings!Throws(r)
    BY <2>1, <2>4, AnswersEarly DEF Settings!Throws, Settings!Answers
  <2>5. QED
    BY <1>3, <2>2, <2>3, <2>4 DEF Settings!ResolveStanding
<1>4. CASE Settings!CheckAtDiscord(r)
  <2>1. served[r].at = "check" /\ served[r].at \in EarlySteps /\ UNCHANGED <<written, trail, asks>>
    BY <1>4 DEF Settings!CheckAtDiscord, EarlySteps, Settings!Steps
  <2>2. CASE Settings!Answer(r, "conflict")
    BY <2>1, <2>2, AnswersEarly DEF Settings!Answers
  <2>3. CASE Settings!Answer(r, served[r].form.blind)
    <3>1. PICK b \in {"conflict", "later"} : b = served[r].form.blind
      BY <1>0, <2>1 DEF Asking, FormOK
    <3>2. QED
      BY <2>1, <2>3, <3>1, AnswersEarly DEF Settings!Answers
  <2>4. CASE Settings!GoTo(r, "rows")
    <3>1. PICK q : q = [served[r] EXCEPT !.at = "rows"]
      OBVIOUS
    <3>2. /\ DOMAIN q = DOMAIN Settings!Blank /\ q.at = "rows"
          /\ q.ask = served[r].ask /\ q.form = served[r].form /\ q.view = served[r].view /\ q.body = served[r].body
          /\ q.left = served[r].left /\ q.ended = served[r].ended /\ q.answer = served[r].answer
      BY <1>0, <3>1, AtPlace DEF Asking
    <3>3. Asking(q) /\ Answered(q)
      BY <1>0, <2>1, <3>2 DEF Asking, Answered, FormOK, Settings!Steps
    <3>4. served' = [served EXCEPT ![r] = q]
      BY <2>4, <3>1 DEF Settings!GoTo
    <3>5. QED
      BY <2>1, <3>2, <3>3, <3>4, RequestGoesOn
  <2>5. QED
    BY <1>4, <2>2, <2>3, <2>4 DEF Settings!CheckAtDiscord
<1>5. CASE Settings!ReadView(r)
  <2>1. served[r].at \in EarlySteps /\ UNCHANGED <<written, trail, asks>>
    BY <1>5 DEF Settings!ReadView, EarlySteps, Settings!Steps
  <2>2. CASE served[r].view.lists # "none" /\ Settings!GoTo(r, "lists")
    BY <2>1, <2>2, GoesToPlace DEF EarlySteps, Settings!Steps
  <2>3. CASE Settings!Answer(r, "shown")
    BY <2>1, <2>3, AnswersEarly DEF Settings!Answers
  <2>4. CASE Settings!Throws(r)
    BY <2>1, <2>4, AnswersEarly DEF Settings!Throws, Settings!Answers
  <2>5. QED
    BY <1>5, <2>2, <2>3, <2>4 DEF Settings!ReadView
<1>6. CASE Settings!ReadLists(r)
  <2>1. served[r].at = "lists" /\ served[r].at \in EarlySteps /\ UNCHANGED <<written, trail, asks>>
    BY <1>6 DEF Settings!ReadLists, EarlySteps, Settings!Steps
  <2>2. served[r].view.lists \in {"beside", "needed", "later"}
    BY <1>0, <2>1 DEF Asking, ViewOK
  <2>3. PICK a \in {"shown", "later", "failed"} : Settings!Answer(r, a)
    BY <1>6, <2>2 DEF Settings!ReadLists
  <2>4. QED
    BY <2>1, <2>3, AnswersEarly DEF Settings!Answers
<1>7. QED
  BY <1>1, <1>2, <1>3, <1>4, <1>5, <1>6

LEMMA RejectRoute == ASSUME RouteInv, NEW r \in Browsers, Settings!RejectTier(r) PROVE RouteInv'
<1>0. Asking(served[r]) /\ served[r].at = "reject" /\ served[r].ask \in 1 .. asks /\ UNCHANGED <<written, asks>>
  BY DEF RouteInv, Settings!RejectTier, Asking
<1>1. CASE Settings!Throws(r) /\ UNCHANGED trail
  BY <1>0, <1>1, AnswersEarly DEF Settings!Throws, Settings!Answers, EarlySteps, Settings!Steps
<1>2. CASE trail' = trail \cup {[ask |-> served[r].ask, of |-> "rejection"]} /\ Settings!Answer(r, "forbidden")
  <2>1. PICK q : q = [served[r] EXCEPT !.at = "answered", !.answer = "forbidden"]
    OBVIOUS
  <2>2. /\ DOMAIN q = DOMAIN Settings!Blank /\ q.at = "answered" /\ q.answer = "forbidden"
        /\ q.ask = served[r].ask /\ q.form = served[r].form /\ q.view = served[r].view /\ q.body = served[r].body
    BY <1>0, <2>1 DEF Asking, Settings!Blank
  <2>3. served' = [served EXCEPT ![r] = q]
    BY <1>2, <2>1 DEF Settings!Answer
  <2>4. ToldBy(q.ask)' = ToldBy(q.ask) /\ KeptBy(q.ask)' = KeptBy(q.ask)
    BY <1>0, <1>2 DEF ToldBy, KeptBy
  <2>5. Asking(q)' /\ Answered(q)'
    BY <1>0, <2>2, <2>4 DEF Asking, Answered, Settings!Steps, Settings!Answers
  <2>6. /\ asks' \in Nat /\ asks <= asks' /\ written \subseteq written' /\ trail \subseteq trail'
        /\ \A w \in written' \ written : w.ask = served[r].ask /\ served[r].at # "idle"
        /\ \A t \in trail' \ trail : /\ t.ask = served[r].ask /\ served[r].at # "idle"
                                     /\ t \in [ask : 1 .. asks', of : {"save", "rejection"}]
    BY <1>0, <1>2 DEF RouteInv
  <2>7. QED
    BY <1>0, <2>2, <2>3, <2>5, <2>6, OneRequestMoves
<1>3. QED
  BY <1>1, <1>2 DEF Settings!RejectTier

LEMMA BodyRoute == ASSUME RouteInv, NEW r \in Browsers, Settings!CheckBody(r) PROVE RouteInv'
<1>0. Asking(served[r]) /\ served[r].at = "body" /\ UNCHANGED <<written, trail, asks>>
  BY DEF RouteInv, Settings!CheckBody
<1>1. CASE Settings!Answer(r, "wrong")
  BY <1>0, <1>1, AnswersEarly DEF Settings!Answers, EarlySteps, Settings!Steps
<1>2. ASSUME NEW p \in {"check", "rows"}, served' = [served EXCEPT ![r].at = p, ![r].left = served[r].form.rows]
      PROVE  RouteInv'
  <2>1. PICK q : q = [served[r] EXCEPT !.at = p, !.left = served[r].form.rows]
    OBVIOUS
  <2>2. /\ DOMAIN q = DOMAIN Settings!Blank /\ q.at = p /\ q.left = served[r].form.rows
        /\ q.ask = served[r].ask /\ q.form = served[r].form /\ q.view = served[r].view /\ q.body = served[r].body
        /\ q.ended = served[r].ended /\ q.answer = served[r].answer
    BY <1>0, <2>1 DEF Asking, Settings!Blank
  <2>3. served' = [served EXCEPT ![r] = q]
    BY <1>2, <2>1
  <2>4. Asking(q) /\ Answered(q)
    BY <1>0, <2>2 DEF Asking, Answered, FormOK, Settings!Steps
  <2>5. QED
    BY <1>0, <2>2, <2>3, <2>4, RequestGoesOn
<1>3. QED
  BY <1>1, <1>2 DEF Settings!CheckBody

LEMMA RowsRoute == ASSUME RouteInv, NEW r \in Browsers, Settings!SaveRows(r) \/ Settings!AppendAudit(r) PROVE RouteInv'
<1>0. /\ Asking(served[r]) /\ served[r].at = "rows" /\ served[r].ask \in 1 .. asks /\ UNCHANGED asks
      /\ served[r].left \in Seq(RowNames) /\ DOMAIN served[r] = DOMAIN Settings!Blank
      /\ KeptBy(served[r].ask) \cup Elements(served[r].left) = Elements(served[r].form.rows)
  BY DEF RouteInv, Settings!SaveRows, Settings!AppendAudit, Asking
<1>1. CASE Settings!Throws(r) /\ UNCHANGED <<written, trail>>
  <2>1. PICK q : q = [served[r] EXCEPT !.at = "answered", !.answer = "failed"]
    OBVIOUS
  <2>2. /\ DOMAIN q = DOMAIN Settings!Blank /\ q.at = "answered" /\ q.answer = "failed"
        /\ q.ask = served[r].ask /\ q.form = served[r].form /\ q.view = served[r].view /\ q.body = served[r].body
    BY <1>0, <2>1 DEF Settings!Blank
  <2>3. served' = [served EXCEPT ![r] = q]
    BY <1>1, <2>1 DEF Settings!Throws, Settings!Answer
  <2>4. Asking(q) /\ Answered(q)
    BY <1>0, <2>2 DEF Asking, Answered, Settings!Steps, Settings!Answers
  <2>5. QED
    BY <1>0, <1>1, <2>2, <2>3, <2>4, RequestGoesOn
<1>2. CASE served[r].left # <<>> /\ Settings!Upsert(r) /\ served' = [served EXCEPT ![r].left = Tail(@)] /\ UNCHANGED trail
  <2>1. PICK q : q = [served[r] EXCEPT !.left = Tail(served[r].left)]
    OBVIOUS
  <2>2. /\ DOMAIN q = DOMAIN Settings!Blank /\ q.at = "rows" /\ q.left = Tail(served[r].left)
        /\ q.ask = served[r].ask /\ q.form = served[r].form /\ q.view = served[r].view /\ q.body = served[r].body
        /\ q.ended = served[r].ended /\ q.answer = served[r].answer
    BY <1>0, <2>1 DEF Settings!Blank
  <2>3. served' = [served EXCEPT ![r] = q]
    BY <1>2, <2>1
  <2>4. PICK a, x : a = served[r].ask /\ x = Head(served[r].left)
    OBVIOUS
  <2>5. written' = written \cup {[ask |-> a, row |-> x]}
    BY <1>2, <2>4 DEF Settings!Upsert
  <2>6. KeptBy(a)' = KeptBy(a) \cup {x}
    <3>1. {v \in written' : v.ask = a} = {v \in written : v.ask = a} \cup {[ask |-> a, row |-> x]}
      BY <2>5
    <3>2. [ask |-> a, row |-> x].row = x
      OBVIOUS
    <3>3. QED
      BY <3>1, <3>2 DEF KeptBy
  <2>7. Tail(served[r].left) \in Seq(RowNames) /\ Elements(served[r].left) = {x} \cup Elements(Tail(served[r].left))
    BY <1>0, <1>2, <2>4, HeadAndTail
  <2>8. KeptBy(a)' \cup Elements(q.left) = Elements(q.form.rows)
    BY <1>0, <2>2, <2>4, <2>6, <2>7
  <2>9. ToldBy(a)' = ToldBy(a) /\ q.ask = a
    BY <1>2, <2>2, <2>4 DEF ToldBy
  <2>10. Asking(q)' /\ Answered(q)'
    BY <1>0, <2>2, <2>4, <2>7, <2>8, <2>9 DEF Asking, Answered
  <2>11. /\ asks' \in Nat /\ asks <= asks' /\ written \subseteq written' /\ trail \subseteq trail'
         /\ \A w \in written' \ written : w.ask = served[r].ask /\ served[r].at # "idle"
         /\ \A t \in trail' \ trail : /\ t.ask = served[r].ask /\ served[r].at # "idle"
                                      /\ t \in [ask : 1 .. asks', of : {"save", "rejection"}]
    BY <1>0, <1>2, <2>4, <2>5 DEF RouteInv
  <2>12. QED
    BY <1>0, <2>2, <2>3, <2>10, <2>11, OneRequestMoves
<1>3. CASE /\ served[r].left = <<>> /\ Settings!Answer(r, "saved") /\ UNCHANGED written
           /\ trail' = IF served[r].form.audits THEN trail \cup {[ask |-> served[r].ask, of |-> "save"]} ELSE trail
  <2>1. PICK q : q = [served[r] EXCEPT !.at = "answered", !.answer = "saved"]
    OBVIOUS
  <2>2. /\ DOMAIN q = DOMAIN Settings!Blank /\ q.at = "answered" /\ q.answer = "saved"
        /\ q.ask = served[r].ask /\ q.form = served[r].form /\ q.view = served[r].view /\ q.body = served[r].body
    BY <1>0, <2>1 DEF Settings!Blank
  <2>3. served' = [served EXCEPT ![r] = q]
    BY <1>3, <2>1 DEF Settings!Answer
  <2>4. Elements(served[r].left) = {}
    BY <1>3 DEF Elements
  <2>5. KeptBy(q.ask)' = Elements(q.form.rows)
    BY <1>0, <1>3, <2>2, <2>4 DEF KeptBy
  <2>6. q.form.audits => ToldBy(q.ask)'
    BY <1>3, <2>2 DEF ToldBy
  <2>7. Asking(q)' /\ Answered(q)'
    BY <1>0, <2>2, <2>5, <2>6 DEF Asking, Answered, Settings!Steps, Settings!Answers
  <2>8. /\ asks' \in Nat /\ asks <= asks' /\ written \subseteq written' /\ trail \subseteq trail'
        /\ \A w \in written' \ written : w.ask = served[r].ask /\ served[r].at # "idle"
        /\ \A t \in trail' \ trail : /\ t.ask = served[r].ask /\ served[r].at # "idle"
                                     /\ t \in [ask : 1 .. asks', of : {"save", "rejection"}]
    BY <1>0, <1>3 DEF RouteInv
  <2>9. QED
    BY <1>0, <2>2, <2>3, <2>7, <2>8, OneRequestMoves
<1>4. QED
  BY <1>1, <1>2, <1>3 DEF Settings!SaveRows, Settings!AppendAudit

LEMMA TakenRoute == ASSUME RouteInv, NEW r \in Browsers, Settings!Taken(r) PROVE RouteInv'
<1>1. Asking(Settings!Blank) /\ Answered(Settings!Blank) /\ Settings!Blank.at = "idle"
  BY DEF Asking, Answered, Settings!Blank, Settings!Steps, Settings!Answers, Settings!Bodies
<1>2. served' = [served EXCEPT ![r] = Settings!Blank] /\ UNCHANGED <<written, trail, asks>>
  BY DEF Settings!Taken
<1>3. QED
  BY <1>1, <1>2, RequestGoesOn

LEMMA NextRoutes == RouteInv /\ [Settings!Next]_Settings!vars => RouteInv'
<1> SUFFICES ASSUME RouteInv, [Settings!Next]_Settings!vars PROVE RouteInv'
  OBVIOUS
<1>1. CASE UNCHANGED <<written, trail, served, asks>>
  <2>1. ASSUME NEW a PROVE KeptBy(a)' = KeptBy(a) /\ ToldBy(a)' = ToldBy(a)
    BY <1>1 DEF KeptBy, ToldBy
  <2>2. ASSUME NEW r \in Browsers PROVE Asking(served[r])' /\ Answered(served[r])'
    <3>1. PICK q : q = served[r]
      OBVIOUS
    <3>2. Asking(q) /\ Answered(q) /\ served'[r] = q /\ asks' = asks
      BY <1>1, <3>1 DEF RouteInv
    <3>3. Asking(q)' /\ Answered(q)'
      BY <2>1, <3>2 DEF Asking, Answered
    <3>4. QED
      BY <3>2, <3>3
  <2>3. QED
    BY <1>1, <2>2 DEF RouteInv
<1>2. CASE Settings!SignedOutElsewhere \/ UNCHANGED Settings!vars
  BY <1>1, <1>2 DEF Settings!SignedOutElsewhere, Settings!vars
<1>3. ASSUME NEW r \in Browsers,
             \/ Settings!Ask(r) \/ Settings!RequireSession(r) \/ Settings!LoadUserGuilds(r) \/ Settings!ResolveStanding(r) \/ Settings!RejectTier(r)
             \/ Settings!CheckBody(r) \/ Settings!CheckAtDiscord(r) \/ Settings!SaveRows(r) \/ Settings!AppendAudit(r)
             \/ Settings!ReadView(r) \/ Settings!ReadLists(r) \/ Settings!Taken(r)
      PROVE  RouteInv'
  BY <1>3, AskRoute, EarlyStepsRoute, RejectRoute, BodyRoute, RowsRoute, TakenRoute
<1>4. QED
  BY <1>2, <1>3 DEF Settings!Next

LEMMA RoutesTellTheTruth == RouteInv => Settings!AnswersAreTrue
<1> SUFFICES ASSUME RouteInv, NEW r \in Browsers, served[r].at # "idle"
             PROVE  /\ served[r].answer = "saved" =>
                            Settings!Kept(r) = Elements(served[r].form.rows) /\ (served[r].form.audits => Settings!Told(r))
                    /\ served[r].answer \in {"signed_out", "forbidden", "wrong", "conflict", "later", "shown"} =>
                            Settings!Kept(r) = {} /\ ~Settings!Told(r)
                    /\ served[r].answer = "later" => ~served[r].ended
                    /\ Settings!Told(r) => Settings!Kept(r) = Elements(served[r].form.rows)
  BY DEF Settings!AnswersAreTrue, Elements
<1>1. Asking(served[r]) /\ Answered(served[r])
  BY DEF RouteInv
<1>2. Settings!Kept(r) = KeptBy(served[r].ask) /\ Settings!Told(r) = ToldBy(served[r].ask)
  BY DEF Settings!Kept, Settings!Told, KeptBy, ToldBy
<1>3. QED
  BY <1>1, <1>2 DEF Asking, Answered

-----------------------------------------------------------------------------
(* The appearance of the bot.                                              *)

(* A save past the upsert, which only its answer ends; what Discord does   *)
(* not show as stored, an operator was told of.                            *)
Landing(s) == save[s].at \in {"member", "role", "write role", "audit", "answer"}
Settled    == \A f \in Look!Fields \ told : shown[f] = Look!Effective(row)[f]

(* A save that met no other: until it stores, what it read is the row; from*)
(* then on a field it did not change is as it was, and one it changed shows*)
(* what it stored or failed, once its call is over.                        *)
Differs(s)   == Look!Changed(save[s].previous, save[s].next)
Done(s, f)   == shown[f] = Look!Effective(row)[f] \/ f \in save[s].failed
AloneSave(s) ==
    /\ \A t \in Saves \ {s} : save[t].at = "idle"
    /\ save[s].at \in {"gate", "permission", "store"} => save[s].previous = row
    /\ Landing(s) =>
          /\ save[s].next = row
          /\ \A f \in (Look!Fields \ Differs(s)) \ told : shown[f] = Look!Effective(row)[f]
    /\ save[s].at \in {"role", "write role", "audit", "answer"} =>
          \A f \in Differs(s) \cap Look!MemberFields : Done(s, f)
    /\ save[s].at \in {"audit", "answer"} => \A f \in Differs(s) : Done(s, f)

(* Whoever is left behind by a save that met another, the answer of one    *)
(* past its upsert will tell of everything.                                *)
LookInv ==
    /\ DOMAIN save = Saves
    /\ \A s \in Saves : DOMAIN save[s] = DOMAIN Look!Nothing /\ save[s].at \in Look!Steps
    /\ Settled \/ \E s \in Saves : Landing(s)
    /\ \A s \in Saves : save[s].at # "idle" /\ save[s].alone => AloneSave(s)

LEMMA NothingIs == Look!Nothing.at = "idle"
BY DEF Look!Nothing

LEMMA InitLook == Look!Init => LookInv
<1> SUFFICES ASSUME Look!Init PROVE LookInv
  OBVIOUS
<1>1. \A s \in Saves : save[s].at = "idle" /\ DOMAIN save[s] = DOMAIN Look!Nothing
  BY NothingIs DEF Look!Init
<1>2. Settled
  BY DEF Look!Init, Settled
<1>3. QED
  BY <1>1, <1>2 DEF Look!Init, LookInv, Look!Steps

(* A save goes on; whatever was left unsettled, it or another landing save *)
(* remains to tell of it.                                                  *)
LEMMA OneSaveMoves ==
    ASSUME LookInv, NEW s \in Saves, save[s].at # "idle", NEW q, save' = [save EXCEPT ![s] = q],
           DOMAIN q = DOMAIN Look!Nothing, q.at \in Look!Steps, q.at # "idle" => q.alone = save[s].alone,
           Landing(s) => Landing(s)' \/ Settled',
           UNCHANGED <<row, shown, told>> \/ Landing(s)' \/ Settled',
           (q.at # "idle" /\ save[s].alone) => AloneSave(s)'
    PROVE  LookInv'
<1>1. DOMAIN save' = Saves /\ save'[s] = q /\ \A t \in Saves \ {s} : save'[t] = save[t]
  BY DEF LookInv
<1>2. Settled' \/ \E t \in Saves : Landing(t)'
  <2>1. CASE Settled /\ UNCHANGED <<row, shown, told>>
    BY <2>1 DEF Settled
  <2>2. ASSUME NEW t \in Saves, t # s, Landing(t) PROVE Landing(t)'
    BY <1>1, <2>2 DEF Landing
  <2>3. QED
    BY <2>1, <2>2 DEF LookInv
<1>3. ASSUME NEW t \in Saves, save'[t].at # "idle", save'[t].alone PROVE AloneSave(t)'
  <2>1. CASE t = s
    BY <1>1, <1>3, <2>1
  <2>2. CASE t # s
    <3>1. AloneSave(t)
      BY <1>1, <1>3, <2>2 DEF LookInv
    <3>2. QED
      BY <2>2, <3>1 DEF AloneSave
  <2>3. QED
    BY <2>1, <2>2
<1>4. \A t \in Saves : DOMAIN save'[t] = DOMAIN Look!Nothing /\ save'[t].at \in Look!Steps
  BY <1>1 DEF LookInv
<1>5. QED
  BY <1>1, <1>2, <1>3, <1>4 DEF LookInv

LEMMA PutLook == ASSUME LookInv, NEW s \in Saves, Look!Put(s) PROVE LookInv'
<1>1. PICK enabled \in BOOLEAN, sent \in TwoForms, v \in Values :
          save' = [t \in Saves |->
                     IF t = s THEN [Look!Nothing EXCEPT !.at = "read", !.enabled = enabled, !.sent = sent, !.alone = Look!Busy = {},
                                                   !.body = [f \in Look!Fields |-> v]]
                     ELSE [save[t] EXCEPT !.alone = FALSE]]
  BY DEF Look!Put
<1>2. save[s].at = "idle" /\ UNCHANGED <<row, shown, told>>
  BY DEF Look!Put
<1>3. DOMAIN save' = Saves
  BY <1>1
<1>4. /\ DOMAIN save'[s] = DOMAIN Look!Nothing /\ save'[s].at = "read"
      /\ save'[s].alone = (Look!Busy = {})
  BY <1>1 DEF Look!Nothing
<1>5. ASSUME NEW t \in Saves \ {s}
      PROVE  DOMAIN save'[t] = DOMAIN Look!Nothing /\ save'[t].at = save[t].at /\ save'[t].alone = FALSE
  <2>1. save'[t] = [save[t] EXCEPT !.alone = FALSE] /\ DOMAIN save[t] = DOMAIN Look!Nothing
    BY <1>1, <1>5 DEF LookInv
  <2>2. QED
    BY <2>1 DEF Look!Nothing
<1>6. Settled' \/ \E t \in Saves : Landing(t)'
  BY <1>2, <1>5 DEF LookInv, Settled, Landing
<1>7. ASSUME NEW t \in Saves, save'[t].at # "idle", save'[t].alone PROVE AloneSave(t)'
  <2>1. t = s /\ Look!Busy = {}
    BY <1>4, <1>5, <1>7
  <2>2. \A u \in Saves \ {s} : save'[u].at = "idle"
    BY <1>5, <2>1 DEF Look!Busy
  <2>3. QED
    BY <1>4, <2>1, <2>2 DEF AloneSave, Landing
<1>8. QED
  BY <1>3, <1>4, <1>5, <1>6, <1>7 DEF LookInv, Look!Steps

(* Before the upsert.                                                      *)
LEMMA EarlyLook ==
    ASSUME LookInv, NEW s \in Saves, Look!ReadCurrent(s) \/ Look!IconGate(s) \/ Look!Permission(s)
    PROVE  LookInv'
<1>0. DOMAIN save[s] = DOMAIN Look!Nothing /\ save[s].at \in {"read", "gate", "permission"} /\ UNCHANGED <<row, shown, told>>
  BY DEF LookInv, Look!ReadCurrent, Look!IconGate, Look!Permission
<1>1. PICK q : /\ save' = [save EXCEPT ![s] = q]
               /\ \/ q = Look!Nothing
                  \/ /\ DOMAIN q = DOMAIN Look!Nothing /\ q.at \in {"gate", "permission", "store"} /\ q.alone = save[s].alone
                     /\ q.previous = row \/ (q.previous = save[s].previous /\ save[s].at # "read")
  <2>1. CASE Look!ReadCurrent(s)
    <3>0. PICK p \in {"gate", "permission"} :
             \E n : save' = [save EXCEPT ![s].previous = row, ![s].at = p, ![s].next = n]
      BY <2>1 DEF Look!ReadCurrent
    <3>1. PICK n : save' = [save EXCEPT ![s].previous = row, ![s].at = p, ![s].next = n]
      BY <3>0
    <3>2. PICK q : q = [save[s] EXCEPT !.previous = row, !.at = p, !.next = n]
      OBVIOUS
    <3>3. DOMAIN q = DOMAIN Look!Nothing /\ q.at = p /\ q.alone = save[s].alone /\ q.previous = row
      BY <1>0, <3>2 DEF Look!Nothing
    <3>4. QED
      BY <3>1, <3>2, <3>3
  <2>2. CASE Look!IconGate(s)
    <3>1. save[s].at = "gate"
      BY <2>2 DEF Look!IconGate
    <3>2. CASE save' = [save EXCEPT ![s].at = "permission", ![s].failed = @ \cup {"roleIconUrl"}]
      <4>1. PICK q : q = [save[s] EXCEPT !.at = "permission", !.failed = save[s].failed \cup {"roleIconUrl"}]
        OBVIOUS
      <4>2. DOMAIN q = DOMAIN Look!Nothing /\ q.at = "permission" /\ q.alone = save[s].alone /\ q.previous = save[s].previous
        BY <1>0, <4>1 DEF Look!Nothing
      <4>3. save' = [save EXCEPT ![s] = q]
        BY <3>2, <4>1
      <4>4. QED
        BY <3>1, <4>2, <4>3
    <3>3. CASE \E n : save' = [save EXCEPT ![s].at = "permission", ![s].next = n]
      <4>0. PICK n : save' = [save EXCEPT ![s].at = "permission", ![s].next = n]
        BY <3>3
      <4>1. PICK q : q = [save[s] EXCEPT !.at = "permission", !.next = n]
        OBVIOUS
      <4>2. DOMAIN q = DOMAIN Look!Nothing /\ q.at = "permission" /\ q.alone = save[s].alone /\ q.previous = save[s].previous
        BY <1>0, <4>1 DEF Look!Nothing
      <4>3. save' = [save EXCEPT ![s] = q]
        BY <4>0, <4>1
      <4>4. QED
        BY <3>1, <4>2, <4>3
    <3>4. QED
      BY <2>2, <3>2, <3>3 DEF Look!IconGate
  <2>3. CASE Look!Permission(s)
    <3>1. save[s].at = "permission"
      BY <2>3 DEF Look!Permission
    <3>2. CASE Look!Goto(s, "store")
      <4>1. PICK q : q = [save[s] EXCEPT !.at = "store"]
        OBVIOUS
      <4>2. DOMAIN q = DOMAIN Look!Nothing /\ q.at = "store" /\ q.alone = save[s].alone /\ q.previous = save[s].previous
        BY <1>0, <4>1 DEF Look!Nothing
      <4>3. save' = [save EXCEPT ![s] = q]
        BY <3>2, <4>1 DEF Look!Goto
      <4>4. QED
        BY <3>1, <4>2, <4>3
    <3>3. CASE save' = [save EXCEPT ![s] = Look!Nothing]
      BY <3>3
    <3>4. QED
      BY <2>3, <3>2, <3>3 DEF Look!Permission
  <2>4. QED
    BY <2>1, <2>2, <2>3
<1>2. DOMAIN q = DOMAIN Look!Nothing /\ q.at \in Look!Steps /\ (q.at # "idle" => q.alone = save[s].alone) /\ ~Landing(s)
  BY <1>0, <1>1, NothingIs DEF Look!Steps, Landing
<1>3. ASSUME q.at # "idle", save[s].alone PROVE AloneSave(s)'
  <2>1. AloneSave(s)
    BY <1>0, <1>3 DEF LookInv
  <2>2. save'[s] = q /\ \A t \in Saves \ {s} : save'[t] = save[t]
    BY <1>1 DEF LookInv
  <2>3. q.at \in {"gate", "permission", "store"} /\ q.previous = row
    BY <1>0, <1>1, <1>3, <2>1, NothingIs DEF AloneSave
  <2>4. QED
    BY <1>0, <2>1, <2>2, <2>3 DEF AloneSave, Landing
<1>4. QED
  BY <1>0, <1>1, <1>2, <1>3, OneSaveMoves

LEMMA StoreLook == ASSUME LookInv, NEW s \in Saves, Look!Store(s) PROVE LookInv'
<1>0. DOMAIN save[s] = DOMAIN Look!Nothing /\ save[s].at = "store" /\ UNCHANGED <<shown, told>>
  BY DEF LookInv, Look!Store
<1>1. CASE save' = [save EXCEPT ![s] = Look!Nothing] /\ UNCHANGED row
  BY <1>0, <1>1, OneSaveMoves, NothingIs DEF Landing, Look!Steps
<1>2. CASE row' = save[s].next /\ Look!Goto(s, "member")
  <2>1. PICK q : q = [save[s] EXCEPT !.at = "member"]
    OBVIOUS
  <2>2. /\ DOMAIN q = DOMAIN Look!Nothing /\ q.at = "member"
        /\ q.previous = save[s].previous /\ q.next = save[s].next /\ q.alone = save[s].alone
    BY <1>0, <2>1 DEF Look!Nothing
  <2>3. save' = [save EXCEPT ![s] = q] /\ save'[s] = q /\ \A t \in Saves \ {s} : save'[t] = save[t]
    BY <1>2, <2>1 DEF Look!Goto, LookInv
  <2>4. Landing(s)' /\ ~Landing(s)
    BY <1>0, <2>2, <2>3 DEF Landing
  <2>5. ASSUME save[s].alone PROVE AloneSave(s)'
    <3>1. AloneSave(s) /\ save[s].previous = row
      BY <1>0, <2>5 DEF LookInv, AloneSave
    <3>2. \A t \in Saves : ~Landing(t)
      BY <1>0, <3>1 DEF AloneSave, Landing
    <3>3. Settled
      BY <3>2 DEF LookInv
    <3>4. Differs(s)' = Look!Changed(row, row') /\ told' = told /\ shown' = shown
      BY <1>0, <1>2, <2>2, <2>3, <3>1 DEF Differs
    <3>5. \A f \in Look!Fields \ Look!Changed(row, row') : Look!Effective(row)[f] = Look!Effective(row')[f]
      BY DEF Look!Changed
    <3>6. \A f \in (Look!Fields \ Differs(s)') \ told' : shown'[f] = Look!Effective(row')[f]
      BY <3>3, <3>4, <3>5 DEF Settled
    <3>7. save'[s].next = row'
      BY <1>2, <2>2, <2>3
    <3>8. QED
      BY <2>2, <2>3, <3>1, <3>6, <3>7 DEF AloneSave
  <2>6. QED
    BY <1>0, <2>2, <2>3, <2>4, <2>5, OneSaveMoves DEF Look!Steps
<1>3. QED
  BY <1>1, <1>2 DEF Look!Store

(* A call to Discord, or its failure: what a field shows is as before or   *)
(* as stored, and each field the call is about shows it or failed.         *)
LEMMA CallLook ==
    ASSUME LookInv, NEW s \in Saves, NEW q, save' = [save EXCEPT ![s] = q],
           save[s].at \in {"member", "role", "write role", "audit"},
           q.at \in {"role", "write role", "audit", "answer"}, DOMAIN q = DOMAIN Look!Nothing,
           q.previous = save[s].previous, q.next = save[s].next, q.alone = save[s].alone,
           save[s].failed \subseteq q.failed,
           UNCHANGED <<row, told>>,
           \A f \in Look!Fields : shown'[f] = shown[f] \/ shown'[f] = Look!Effective(save[s].next)[f],
           save[s].at = "member" =>
               \A f \in Differs(s) \cap Look!MemberFields : shown'[f] = Look!Effective(save[s].next)[f] \/ f \in q.failed,
           (save[s].at # "audit" /\ q.at \in {"audit", "answer"}) =>
               /\ save[s].at # "member"
               /\ \A f \in Differs(s) \cap Look!RoleFields : shown'[f] = Look!Effective(save[s].next)[f] \/ f \in q.failed
    PROVE  LookInv'
<1>1. save'[s] = q /\ \A t \in Saves \ {s} : save'[t] = save[t]
  BY DEF LookInv
<1>2. Landing(s) /\ Landing(s)'
  BY <1>1 DEF Landing
<1>3. ASSUME save[s].alone PROVE AloneSave(s)'
  <2>1. AloneSave(s) /\ save[s].next = row /\ Differs(s) \subseteq Look!Fields
    BY <1>2, <1>3 DEF LookInv, AloneSave, Landing, Differs, Look!Changed
  <2>2. Differs(s)' = Differs(s) /\ Look!Effective(row)' = Look!Effective(row)
    BY <1>1 DEF Differs, Look!Effective
  <2>3. ASSUME NEW f \in Look!Fields, Done(s, f) \/ shown'[f] = Look!Effective(row)[f] \/ f \in q.failed
        PROVE  Done(s, f)'
    BY <1>1, <2>1, <2>2, <2>3 DEF Done
  <2>4. \A f \in (Look!Fields \ Differs(s)) \ told : shown'[f] = Look!Effective(row)[f]
    BY <1>2, <2>1 DEF AloneSave
  <2>5. \A f \in Differs(s) \cap Look!MemberFields : Done(s, f)'
    BY <2>1, <2>3 DEF AloneSave
  <2>6. ASSUME q.at \in {"audit", "answer"}, NEW f \in Differs(s) PROVE Done(s, f)'
    <3>1. CASE save[s].at = "audit"
      BY <2>1, <2>3, <3>1 DEF AloneSave
    <3>2. CASE save[s].at # "audit" /\ f \in Look!RoleFields
      BY <2>1, <2>3, <2>6, <3>2
    <3>3. CASE f \in Look!MemberFields
      BY <2>5, <2>6, <3>3
    <3>4. QED
      BY <2>1, <2>6, <3>1, <3>2, <3>3 DEF Look!Fields
  <2>7. QED
    BY <1>1, <2>1, <2>2, <2>4, <2>5, <2>6 DEF AloneSave, Landing
<1>4. QED
  BY <1>1, <1>2, <1>3, OneSaveMoves DEF Look!Steps

LEMMA MemberLook == ASSUME LookInv, NEW s \in Saves, Look!PatchMember(s) PROVE LookInv'
<1> DEFINE carried == Look!Changed(save[s].previous, save[s].next) \cap Look!MemberFields
<1>0. DOMAIN save[s] = DOMAIN Look!Nothing /\ save[s].at = "member" /\ UNCHANGED <<row, told>>
  BY DEF LookInv, Look!PatchMember
<1>1. CASE Look!Show(s, carried) /\ Look!Goto(s, "role")
  <2>1. PICK q : q = [save[s] EXCEPT !.at = "role"]
    OBVIOUS
  <2>2. /\ DOMAIN q = DOMAIN Look!Nothing /\ q.at = "role" /\ q.failed = save[s].failed
        /\ q.previous = save[s].previous /\ q.next = save[s].next /\ q.alone = save[s].alone
    BY <1>0, <2>1 DEF Look!Nothing
  <2>3. save' = [save EXCEPT ![s] = q]
    BY <1>1, <2>1 DEF Look!Goto
  <2>4. /\ \A f \in Look!Fields : shown'[f] = shown[f] \/ shown'[f] = Look!Effective(save[s].next)[f]
        /\ \A f \in Differs(s) \cap Look!MemberFields : shown'[f] = Look!Effective(save[s].next)[f]
    BY <1>1 DEF Look!Show, Differs, Look!Fields
  <2>5. QED
    BY <1>0, <2>2, <2>3, <2>4, CallLook
<1>2. CASE Look!Fail(s, carried, "role") /\ UNCHANGED shown
  <2>1. PICK q : q = [save[s] EXCEPT !.failed = save[s].failed \cup carried, !.at = "role"]
    OBVIOUS
  <2>2. /\ DOMAIN q = DOMAIN Look!Nothing /\ q.at = "role" /\ q.failed = save[s].failed \cup carried
        /\ q.previous = save[s].previous /\ q.next = save[s].next /\ q.alone = save[s].alone
    BY <1>0, <2>1 DEF Look!Nothing
  <2>3. save' = [save EXCEPT ![s] = q]
    BY <1>2, <2>1 DEF Look!Fail
  <2>4. \A f \in Differs(s) \cap Look!MemberFields : f \in q.failed
    BY <2>2 DEF Differs
  <2>5. QED
    BY <1>0, <1>2, <2>2, <2>3, <2>4, CallLook
<1>3. QED
  BY <1>1, <1>2 DEF Look!PatchMember

LEMMA FindLook == ASSUME LookInv, NEW s \in Saves, Look!FindRole(s) PROVE LookInv'
<1> DEFINE touched == Look!Changed(save[s].previous, save[s].next) \cap Look!RoleFields
<1>0. DOMAIN save[s] = DOMAIN Look!Nothing /\ save[s].at = "role" /\ UNCHANGED <<row, shown, told>>
  BY DEF LookInv, Look!FindRole
<1>1. CASE Look!Goto(s, IF touched = {} THEN "audit" ELSE "write role")
  <2>0. PICK p \in {"audit", "write role"} : Look!Goto(s, p) /\ (p = "audit" => touched = {})
    BY <1>1
  <2>1. PICK q : q = [save[s] EXCEPT !.at = p]
    OBVIOUS
  <2>2. /\ DOMAIN q = DOMAIN Look!Nothing /\ q.at = p /\ q.failed = save[s].failed
        /\ q.previous = save[s].previous /\ q.next = save[s].next /\ q.alone = save[s].alone
    BY <1>0, <2>1 DEF Look!Nothing
  <2>3. save' = [save EXCEPT ![s] = q]
    BY <2>0, <2>1 DEF Look!Goto
  <2>4. p = "audit" => Differs(s) \cap Look!RoleFields = {}
    BY <2>0 DEF Differs
  <2>5. QED
    BY <1>0, <2>2, <2>3, <2>4, CallLook
<1>2. ASSUME NEW F, NEW p \in {"audit", "write role"}, Look!Fail(s, F, p), p = "audit" => touched \subseteq F
      PROVE  LookInv'
  <2>1. PICK q : q = [save[s] EXCEPT !.failed = save[s].failed \cup F, !.at = p]
    OBVIOUS
  <2>2. /\ DOMAIN q = DOMAIN Look!Nothing /\ q.at = p /\ q.failed = save[s].failed \cup F
        /\ q.previous = save[s].previous /\ q.next = save[s].next /\ q.alone = save[s].alone
    BY <1>0, <2>1 DEF Look!Nothing
  <2>3. save' = [save EXCEPT ![s] = q]
    BY <1>2, <2>1 DEF Look!Fail
  <2>4. p = "audit" => \A f \in Differs(s) \cap Look!RoleFields : f \in q.failed
    BY <1>2, <2>2 DEF Differs
  <2>5. QED
    BY <1>0, <2>2, <2>3, <2>4, CallLook
<1>3. QED
  BY <1>1, <1>2 DEF Look!FindRole

LEMMA RoleLook == ASSUME LookInv, NEW s \in Saves, Look!PatchRole(s) PROVE LookInv'
<1> DEFINE touched == (Look!Changed(save[s].previous, save[s].next) \cap Look!RoleFields) \ save[s].failed
<1>0. DOMAIN save[s] = DOMAIN Look!Nothing /\ save[s].at = "write role" /\ UNCHANGED <<row, told>>
  BY DEF LookInv, Look!PatchRole
<1>1. CASE Look!Show(s, touched \cup {"roleColor"}) /\ Look!Goto(s, "audit")
  <2>1. PICK q : q = [save[s] EXCEPT !.at = "audit"]
    OBVIOUS
  <2>2. /\ DOMAIN q = DOMAIN Look!Nothing /\ q.at = "audit" /\ q.failed = save[s].failed
        /\ q.previous = save[s].previous /\ q.next = save[s].next /\ q.alone = save[s].alone
    BY <1>0, <2>1 DEF Look!Nothing
  <2>3. save' = [save EXCEPT ![s] = q]
    BY <1>1, <2>1 DEF Look!Goto
  <2>4. /\ \A f \in Look!Fields : shown'[f] = shown[f] \/ shown'[f] = Look!Effective(save[s].next)[f]
        /\ \A f \in Differs(s) \cap Look!RoleFields : shown'[f] = Look!Effective(save[s].next)[f] \/ f \in q.failed
    BY <1>1, <2>2 DEF Look!Show, Differs, Look!Fields
  <2>5. QED
    BY <1>0, <2>2, <2>3, <2>4, CallLook
<1>2. CASE Look!Fail(s, touched, "audit") /\ UNCHANGED shown
  <2>1. PICK q : q = [save[s] EXCEPT !.failed = save[s].failed \cup touched, !.at = "audit"]
    OBVIOUS
  <2>2. /\ DOMAIN q = DOMAIN Look!Nothing /\ q.at = "audit" /\ q.failed = save[s].failed \cup touched
        /\ q.previous = save[s].previous /\ q.next = save[s].next /\ q.alone = save[s].alone
    BY <1>0, <2>1 DEF Look!Nothing
  <2>3. save' = [save EXCEPT ![s] = q]
    BY <1>2, <2>1 DEF Look!Fail
  <2>4. \A f \in Differs(s) \cap Look!RoleFields : f \in q.failed
    BY <2>2 DEF Differs
  <2>5. QED
    BY <1>0, <1>2, <2>2, <2>3, <2>4, CallLook
<1>3. QED
  BY <1>1, <1>2 DEF Look!PatchRole

LEMMA AuditLook == ASSUME LookInv, NEW s \in Saves, Look!Audit(s) PROVE LookInv'
<1>0. DOMAIN save[s] = DOMAIN Look!Nothing /\ save[s].at = "audit" /\ UNCHANGED <<row, shown, told>>
  BY DEF LookInv, Look!Audit
<1>1. CASE Look!Goto(s, "answer")
  <2>1. PICK q : q = [save[s] EXCEPT !.at = "answer"]
    OBVIOUS
  <2>2. /\ DOMAIN q = DOMAIN Look!Nothing /\ q.at = "answer" /\ q.failed = save[s].failed
        /\ q.previous = save[s].previous /\ q.next = save[s].next /\ q.alone = save[s].alone
    BY <1>0, <2>1 DEF Look!Nothing
  <2>3. save' = [save EXCEPT ![s] = q]
    BY <1>1, <2>1 DEF Look!Goto
  <2>4. QED
    BY <1>0, <2>2, <2>3, CallLook
<1>2. CASE Look!Fail(s, Look!Fields, "answer")
  <2>1. PICK q : q = [save[s] EXCEPT !.failed = save[s].failed \cup Look!Fields, !.at = "answer"]
    OBVIOUS
  <2>2. /\ DOMAIN q = DOMAIN Look!Nothing /\ q.at = "answer" /\ q.failed = save[s].failed \cup Look!Fields
        /\ q.previous = save[s].previous /\ q.next = save[s].next /\ q.alone = save[s].alone
    BY <1>0, <2>1 DEF Look!Nothing
  <2>3. save' = [save EXCEPT ![s] = q]
    BY <1>2, <2>1 DEF Look!Fail
  <2>4. QED
    BY <1>0, <2>2, <2>3, CallLook
<1>3. QED
  BY <1>1, <1>2 DEF Look!Audit

LEMMA AnswerLook == ASSUME LookInv, NEW s \in Saves, Look!Answer(s) PROVE LookInv'
<1>0. save[s].at = "answer" /\ UNCHANGED <<row, shown>> /\ save' = [save EXCEPT ![s] = Look!Nothing]
  BY DEF Look!Answer
<1>1. Settled'
  <2>1. CASE ~save[s].alone
    BY <2>1 DEF Look!Answer, Settled
  <2>2. CASE save[s].alone
    <3>1. AloneSave(s) /\ Landing(s)
      BY <1>0, <2>2 DEF LookInv, Landing
    <3>2. told' = (told \ Differs(s)) \cup (save[s].failed \cap Differs(s))
      BY <2>2 DEF Look!Answer, Differs
    <3>3. ASSUME NEW f \in Look!Fields \ told' PROVE shown[f] = Look!Effective(row)[f]
      <4>1. CASE f \in Differs(s)
        <5>1. Done(s, f) /\ f \notin save[s].failed
          BY <1>0, <3>1, <3>2, <3>3, <4>1 DEF AloneSave
        <5>2. QED
          BY <5>1 DEF Done
      <4>2. CASE f \notin Differs(s)
        <5>1. f \notin told
          BY <3>2, <3>3, <4>2
        <5>2. QED
          BY <3>1, <3>3, <4>2, <5>1 DEF AloneSave
      <4>3. QED
        BY <4>1, <4>2
    <3>4. QED
      BY <1>0, <3>3 DEF Settled
  <2>3. QED
    BY <2>1, <2>2
<1>2. QED
  BY <1>0, <1>1, OneSaveMoves, NothingIs DEF Look!Steps

LEMMA NextLook == LookInv /\ [Look!Next]_Look!vars => LookInv'
<1> SUFFICES ASSUME LookInv, [Look!Next]_Look!vars PROVE LookInv'
  OBVIOUS
<1>1. CASE UNCHANGED Look!vars
  BY <1>1 DEF Look!vars, LookInv, AloneSave, Settled, Landing, Done, Differs
<1>2. ASSUME NEW s \in Saves,
             \/ Look!Put(s) \/ Look!ReadCurrent(s) \/ Look!IconGate(s) \/ Look!Permission(s) \/ Look!Store(s)
             \/ Look!PatchMember(s) \/ Look!FindRole(s) \/ Look!PatchRole(s) \/ Look!Audit(s) \/ Look!Answer(s)
      PROVE  LookInv'
  BY <1>2, PutLook, EarlyLook, StoreLook, MemberLook, FindLook, RoleLook, AuditLook, AnswerLook
<1>3. QED
  BY <1>1, <1>2 DEF Look!Next

LEMMA LooksAreTold == LookInv => Look!DifferencesAreReported
BY DEF LookInv, Look!DifferencesAreReported, Look!Busy, Landing, Settled

-----------------------------------------------------------------------------
(* The screen of the settings.                                             *)

Afloat == {"sent", "limited", "resent", "stored"}

(* Of the loads only the last is not cancelled, and nothing else happens   *)
(* while it is out; a save on its way is the only one, of the guild in     *)
(* view, and what the form calls saved is the row unless it has stored.    *)
LoadFramed(l)  == DOMAIN l = {"guild", "at", "answer", "cancelled"}
PressFramed(p) == p.at \in Afloat => DOMAIN p = {"at", "mounted", "guild", "value"}

Unslipped ==
    /\ \A l \in DOMAIN loads : ~loads[l].cancelled /\ loads[l].at # "done" =>
           /\ loads[l].guild = guild /\ base = Loading /\ Screen!Flying = {}
           /\ loads[l].at = "read" => loads[l].answer = rows[guild]
    /\ source = "loading" => base = Loading /\ Screen!Flying = {}
    /\ \A p \in Screen!Flying : /\ press[p].guild = guild
                                /\ press[p].at = "stored" => press[p].value = rows[guild]
                                /\ \A o \in Screen!Flying : o = p
    /\ base # Loading => base = rows[guild] \/ \E p \in Screen!Flying : press[p].at = "stored"

FormInv ==
    /\ DOMAIN rows = Guilds /\ guild \in Guilds
    /\ source \in {"loading", "loaded"}
    /\ DOMAIN press = Presses
    /\ \A l \in DOMAIN loads : LoadFramed(loads[l])
    /\ \A p \in Presses : PressFramed(press[p])
    /\ \A l, m \in DOMAIN loads : ~loads[l].cancelled /\ ~loads[m].cancelled => l = m
    /\ strayed \/ Unslipped

LEMMA FlyingIs == /\ Screen!Flying = {p \in Presses : press[p].at \in Afloat}
                  /\ Screen!Flying' = {p \in Presses : press'[p].at \in Afloat}
BY DEF Screen!Flying, Afloat

LEMMA InitForm == Screen!Init => FormInv
<1> SUFFICES ASSUME Screen!Init PROVE FormInv
  OBVIOUS
<1>1. DOMAIN loads = {1} /\ loads[1] = Screen!Load(guild)
  BY DEF Screen!Init
<1>2. LoadFramed(Screen!Load(guild)) /\ Screen!Load(guild).guild = guild /\ Screen!Load(guild).at = "sent"
  BY DEF LoadFramed, Screen!Load
<1>3. \A p \in Presses : press[p].at = "ready"
  BY DEF Screen!Init, Screen!Ready
<1>4. Screen!Flying = {}
  BY <1>3 DEF Screen!Flying
<1>5. \A p \in Presses : PressFramed(press[p])
  BY <1>3 DEF PressFramed, Afloat
<1>6. Unslipped
  BY <1>1, <1>2, <1>4 DEF Screen!Init, Unslipped
<1>7. QED
  BY <1>1, <1>2, <1>5, <1>6 DEF Screen!Init, FormInv

(* What the form shows does not touch the requests but the one it ends.    *)
LEMMA ShowsKeeps ==
    ASSUME FormInv, NEW s, NEW d, NEW ended, Screen!Shows(s, d, ended)
    PROVE  /\ base' = s /\ DOMAIN press' = Presses
           /\ \A p \in Presses : PressFramed(press[p])'
           /\ Screen!Flying' = Screen!Flying \ ended
           /\ \A p \in Screen!Flying' : /\ press'[p].guild = press[p].guild /\ press'[p].value = press[p].value
                                        /\ press'[p].at = press[p].at
<1>1. base' = s /\ DOMAIN press' = Presses
  BY DEF Screen!Shows
<1>2. ASSUME NEW p \in Presses
      PROVE  /\ p \in ended => press'[p] = [at |-> "done"]
             /\ p \in Screen!Flying \ ended =>
                  /\ DOMAIN press'[p] = DOMAIN press[p] /\ press'[p].at = press[p].at
                  /\ press'[p].guild = press[p].guild /\ press'[p].value = press[p].value
             /\ p \notin Screen!Flying \cup ended => press'[p] = press[p]
  <2>1. CASE p \in Screen!Flying \ ended
    <3>1. PICK b : press'[p] = [press[p] EXCEPT !.mounted = b]
      BY <2>1 DEF Screen!Shows
    <3>2. DOMAIN press[p] = {"at", "mounted", "guild", "value"}
      BY <2>1 DEF FormInv, PressFramed, Screen!Flying, Afloat
    <3>3. QED
      BY <2>1, <3>1, <3>2
  <2>2. CASE p \notin Screen!Flying \ ended
    BY <2>2 DEF Screen!Shows
  <2>3. QED
    BY <2>1, <2>2
<1>3. "done" \notin Afloat /\ \A p \in ended \cap Presses : press'[p].at = "done"
  BY <1>2 DEF Afloat
<1>4. Screen!Flying' = Screen!Flying \ ended
  BY <1>2, <1>3, FlyingIs
<1>5. \A p \in Presses : PressFramed(press[p])'
  BY <1>2, <1>3, FlyingIs DEF FormInv, PressFramed
<1>6. QED
  BY <1>1, <1>2, <1>4, <1>5, FlyingIs

LEMMA PickForm == ASSUME FormInv, NEW g \in Guilds, Screen!Pick(g) PROVE FormInv'
<1>1. /\ guild' = g /\ source' = "loading" /\ UNCHANGED rows /\ strayed' = (strayed \/ Screen!Flying # {})
      /\ IF source = "loading" THEN UNCHANGED <<base, draft, press>> ELSE Screen!Shows(Loading, Loading, {})
  BY DEF Screen!Pick
<1>2. ASSUME NEW l \in DOMAIN loads'
      PROVE  loads'[l] = Screen!Load(g) \/ (l \in DOMAIN loads /\ loads'[l] = [loads[l] EXCEPT !.cancelled = TRUE])
  BY <1>2 DEF Screen!Pick
<1>3. LoadFramed(Screen!Load(g)) /\ Screen!Load(g).guild = g /\ Screen!Load(g).at = "sent"
  BY DEF LoadFramed, Screen!Load
<1>4. ASSUME NEW l \in DOMAIN loads'
      PROVE  LoadFramed(loads'[l]) /\ (loads'[l] = Screen!Load(g) \/ loads'[l].cancelled)
  <2>1. CASE loads'[l] = Screen!Load(g)
    BY <1>3, <2>1
  <2>2. CASE l \in DOMAIN loads /\ loads'[l] = [loads[l] EXCEPT !.cancelled = TRUE]
    BY <2>2 DEF FormInv, LoadFramed
  <2>3. QED
    BY <1>2, <2>1, <2>2
<1>5. ASSUME NEW l \in DOMAIN loads', NEW m \in DOMAIN loads', ~loads'[l].cancelled, ~loads'[m].cancelled
      PROVE  l = m
  <2>1. PICK n : DOMAIN loads' = DOMAIN loads \cup {n}
    BY DEF Screen!Pick
  <2>2. ASSUME NEW k \in DOMAIN loads, k \in DOMAIN loads', ~loads'[k].cancelled PROVE FALSE
    <3>1. loads'[k] = [loads[k] EXCEPT !.cancelled = TRUE] /\ LoadFramed(loads[k])
      BY <2>2 DEF Screen!Pick, FormInv
    <3>2. QED
      BY <2>2, <3>1 DEF LoadFramed
  <2>3. QED
    BY <1>5, <2>1, <2>2
<1>6. DOMAIN press' = Presses /\ (\A p \in Presses : PressFramed(press[p])') /\ Screen!Flying' = Screen!Flying
  <2>1. CASE source = "loading"
    BY <1>1, <2>1 DEF FormInv, Screen!Flying, PressFramed
  <2>2. CASE source # "loading"
    BY <1>1, <2>2, ShowsKeeps
  <2>3. QED
    BY <2>1, <2>2
<1>7. ASSUME ~strayed' PROVE Unslipped'
  <2>1. ~strayed /\ Screen!Flying' = {} /\ Unslipped
    BY <1>1, <1>6, <1>7 DEF FormInv
  <2>2. base' = Loading
    BY <1>1, <2>1, ShowsKeeps DEF Unslipped
  <2>3. QED
    BY <1>1, <1>3, <1>4, <2>1, <2>2 DEF Unslipped
<1>8. QED
  BY <1>1, <1>4, <1>5, <1>6, <1>7 DEF FormInv

LEMMA LoadMoves ==
    ASSUME FormInv, NEW l \in DOMAIN loads, NEW q, loads' = [loads EXCEPT ![l] = q],
           LoadFramed(q), q.guild = loads[l].guild, q.cancelled = loads[l].cancelled
    PROVE  /\ DOMAIN loads' = DOMAIN loads /\ loads'[l] = q
           /\ \A m \in DOMAIN loads \ {l} : loads'[m] = loads[m]
           /\ \A m \in DOMAIN loads : LoadFramed(loads'[m]) /\ loads'[m].cancelled = loads[m].cancelled
           /\ \A k, m \in DOMAIN loads' : ~loads'[k].cancelled /\ ~loads'[m].cancelled => k = m
BY DEF FormInv

LEMMA ReadForm == ASSUME FormInv, NEW l \in DOMAIN loads, Screen!Read(l) PROVE FormInv'
<1>0. LoadFramed(loads[l]) /\ loads[l].at = "sent" /\ UNCHANGED <<rows, guild, source, base, press, strayed>>
  BY DEF Screen!Read, FormInv, Screen!form
<1>1. PICK q : /\ loads' = [loads EXCEPT ![l] = q]
               /\ \/ q = [loads[l] EXCEPT !.at = "read", !.answer = rows[loads[l].guild]]
                  \/ q = [loads[l] EXCEPT !.at = "done"]
  BY DEF Screen!Read
<1>2. /\ LoadFramed(q) /\ q.guild = loads[l].guild /\ q.cancelled = loads[l].cancelled
      /\ q.at = "done" \/ (q.at = "read" /\ q.answer = rows[loads[l].guild])
  <2>1. CASE q = [loads[l] EXCEPT !.at = "read", !.answer = rows[loads[l].guild]]
    BY <1>0, <2>1 DEF LoadFramed
  <2>2. CASE q = [loads[l] EXCEPT !.at = "done"]
    BY <1>0, <2>2 DEF LoadFramed
  <2>3. QED
    BY <1>1, <2>1, <2>2
<1>3. /\ DOMAIN loads' = DOMAIN loads /\ loads'[l] = q
      /\ \A m \in DOMAIN loads \ {l} : loads'[m] = loads[m]
      /\ \A m \in DOMAIN loads : LoadFramed(loads'[m]) /\ loads'[m].cancelled = loads[m].cancelled
      /\ \A k, m \in DOMAIN loads' : ~loads'[k].cancelled /\ ~loads'[m].cancelled => k = m
  BY <1>1, <1>2, LoadMoves
<1>4. Screen!Flying' = Screen!Flying
  BY <1>0 DEF Screen!Flying
<1>5. ASSUME Unslipped PROVE Unslipped'
  <2>1. ASSUME NEW m \in DOMAIN loads', ~loads'[m].cancelled, loads'[m].at # "done"
        PROVE  /\ loads'[m].guild = guild' /\ base' = Loading /\ Screen!Flying' = {}
               /\ loads'[m].at = "read" => loads'[m].answer = rows'[guild']
    <3>1. CASE m = l
      BY <1>0, <1>2, <1>3, <1>4, <1>5, <2>1, <3>1 DEF Unslipped
    <3>2. CASE m # l
      BY <1>0, <1>3, <1>4, <1>5, <2>1, <3>2 DEF Unslipped
    <3>3. QED
      BY <3>1, <3>2
  <2>2. QED
    BY <1>0, <1>4, <1>5, <2>1 DEF Unslipped
<1>6. QED
  BY <1>0, <1>3, <1>5 DEF FormInv, PressFramed

LEMMA LoadedForm == ASSUME FormInv, NEW l \in DOMAIN loads, Screen!Loaded(l) PROVE FormInv'
<1>0. LoadFramed(loads[l]) /\ loads[l].at = "read" /\ UNCHANGED <<rows, guild, strayed>>
  BY DEF Screen!Loaded, FormInv
<1>1. PICK q : loads' = [loads EXCEPT ![l] = q] /\ q = [loads[l] EXCEPT !.at = "done"]
  BY DEF Screen!Loaded
<1>2. LoadFramed(q) /\ q.guild = loads[l].guild /\ q.cancelled = loads[l].cancelled /\ q.at = "done"
  BY <1>0, <1>1 DEF LoadFramed
<1>3. /\ DOMAIN loads' = DOMAIN loads /\ loads'[l] = q
      /\ \A m \in DOMAIN loads \ {l} : loads'[m] = loads[m]
      /\ \A m \in DOMAIN loads : LoadFramed(loads'[m]) /\ loads'[m].cancelled = loads[m].cancelled
      /\ \A k, m \in DOMAIN loads' : ~loads'[k].cancelled /\ ~loads'[m].cancelled => k = m
  BY <1>1, <1>2, LoadMoves
<1>4. CASE loads[l].cancelled
  <2>1. UNCHANGED <<source, base, press>> /\ Screen!Flying' = Screen!Flying
    BY <1>4 DEF Screen!Loaded, Screen!form, Screen!Flying
  <2>2. Unslipped => Unslipped'
    BY <1>0, <1>2, <1>3, <2>1 DEF Unslipped
  <2>3. QED
    BY <1>0, <1>3, <2>1, <2>2 DEF FormInv, PressFramed
<1>5. CASE ~loads[l].cancelled
  <2>1. source' = "loaded" /\ Screen!Shows(loads[l].answer, loads[l].answer, {})
    BY <1>5 DEF Screen!Loaded
  <2>2. /\ base' = loads[l].answer /\ DOMAIN press' = Presses
        /\ (\A p \in Presses : PressFramed(press[p])') /\ Screen!Flying' = Screen!Flying
    BY <2>1, ShowsKeeps
  <2>3. ASSUME Unslipped PROVE Unslipped'
    <3>1. Screen!Flying' = {} /\ base' = rows[guild]
      BY <1>0, <1>5, <2>2, <2>3 DEF Unslipped
    <3>2. \A m \in DOMAIN loads' : loads'[m].cancelled \/ loads'[m].at = "done"
      BY <1>2, <1>3, <1>5
    <3>3. QED
      BY <1>0, <2>1, <3>1, <3>2 DEF Unslipped
  <2>4. QED
    BY <1>0, <1>3, <2>1, <2>2, <2>3 DEF FormInv
<1>6. QED
  BY <1>4, <1>5

(* The form shows another draft of what is saved.                          *)
LEMMA DraftForm ==
    ASSUME FormInv, NEW d, Screen!Shows(base, d, {}), UNCHANGED <<rows, guild, source, loads, strayed>>
    PROVE  FormInv'
<1>1. /\ base' = base /\ DOMAIN press' = Presses
      /\ (\A p \in Presses : PressFramed(press[p])') /\ Screen!Flying' = Screen!Flying
      /\ \A p \in Screen!Flying' : /\ press'[p].guild = press[p].guild /\ press'[p].value = press[p].value
                                   /\ press'[p].at = press[p].at
  BY ShowsKeeps
<1>2. Unslipped => Unslipped'
  BY <1>1 DEF Unslipped
<1>3. QED
  BY <1>1, <1>2 DEF FormInv

LEMMA CommitsForm == ASSUME FormInv, NEW p \in Presses, Screen!Commits(p) PROVE FormInv'
<1>0. p \in Screen!Flying /\ press[p].at = "stored" /\ UNCHANGED <<rows, guild, source, loads, strayed>>
  BY DEF Screen!Commits, Screen!Flying
<1>1. /\ base' = press[p].value /\ DOMAIN press' = Presses
      /\ (\A o \in Presses : PressFramed(press[o])') /\ Screen!Flying' = Screen!Flying \ {p}
  BY ShowsKeeps DEF Screen!Commits
<1>2. ASSUME Unslipped PROVE Unslipped'
  <2>1. Screen!Flying' = {} /\ base' = rows[guild] /\ source = "loaded"
    BY <1>0, <1>1, <1>2 DEF Unslipped, FormInv
  <2>2. \A l \in DOMAIN loads : loads[l].cancelled \/ loads[l].at = "done"
    BY <1>0, <1>2 DEF Unslipped
  <2>3. QED
    BY <1>0, <2>1, <2>2 DEF Unslipped
<1>3. QED
  BY <1>0, <1>1, <1>2 DEF FormInv

LEMMA SaveForm == ASSUME FormInv, NEW p \in Presses, Screen!Save(p) PROVE FormInv'
<1>0. /\ press' = [press EXCEPT ![p] = [at |-> "sent", mounted |-> TRUE, guild |-> guild, value |-> draft]]
      /\ base # Loading /\ strayed' = (strayed \/ Screen!Flying # {}) /\ UNCHANGED <<rows, guild, source, base, loads>>
  BY DEF Screen!Save, Screen!Dirty, Screen!form
<1>1. /\ DOMAIN press' = Presses /\ press'[p].at = "sent" /\ press'[p].guild = guild /\ PressFramed(press'[p])
      /\ \A o \in Presses \ {p} : press'[o] = press[o]
  BY <1>0 DEF FormInv, PressFramed
<1>2. \A o \in Presses : PressFramed(press'[o])
  BY <1>1 DEF FormInv
<1>3. ASSUME ~strayed' PROVE Unslipped'
  <2>1. Unslipped /\ Screen!Flying = {}
    BY <1>0, <1>3 DEF FormInv
  <2>2. Screen!Flying' = {p}
    BY <1>1, <2>1, FlyingIs DEF Afloat
  <2>3. source = "loaded" /\ base = rows[guild] /\ \A l \in DOMAIN loads : loads[l].cancelled \/ loads[l].at = "done"
    BY <1>0, <2>1 DEF Unslipped, FormInv
  <2>4. QED
    BY <1>0, <1>1, <2>2, <2>3 DEF Unslipped
<1>4. QED
  BY <1>0, <1>1, <1>2, <1>3 DEF FormInv

(* A request on its way goes from one place to another, or is over.        *)
LEMMA PressForm ==
    ASSUME FormInv, NEW p \in Presses,
           Screen!Limited(p) \/ Screen!Resend(p) \/ Screen!Stores(p) \/ Screen!Fails(p)
    PROVE  FormInv'
<1>0. p \in Screen!Flying /\ UNCHANGED <<guild, source, base, loads>> /\ DOMAIN press = Presses
      /\ DOMAIN press[p] = {"at", "mounted", "guild", "value"}
  BY DEF Screen!Limited, Screen!Resend, Screen!Stores, Screen!Fails, Screen!Flying, Screen!form, FormInv, PressFramed, Afloat
<1>1. CASE Screen!Fails(p)
  <2>1. /\ DOMAIN press' = Presses /\ press'[p].at = "done" /\ \A o \in Presses \ {p} : press'[o] = press[o]
        /\ strayed' = (strayed \/ press[p].at = "stored") /\ UNCHANGED rows
    BY <1>0, <1>1 DEF Screen!Fails
  <2>2. Screen!Flying' = Screen!Flying \ {p}
    BY <2>1, FlyingIs DEF Afloat
  <2>3. \A o \in Presses : PressFramed(press'[o])
    BY <2>1 DEF FormInv, PressFramed, Afloat
  <2>4. ASSUME ~strayed' PROVE Unslipped'
    <3>1. Unslipped /\ press[p].at # "stored" /\ Screen!Flying' = {}
      BY <1>0, <2>1, <2>2, <2>4 DEF FormInv, Unslipped
    <3>2. base # Loading => base = rows[guild]
      BY <1>0, <3>1 DEF Unslipped
    <3>3. QED
      BY <1>0, <2>1, <3>1, <3>2 DEF Unslipped
  <2>5. QED
    BY <1>0, <2>1, <2>3, <2>4 DEF FormInv
<1>2. ASSUME NEW a \in Afloat, press' = [press EXCEPT ![p].at = a], UNCHANGED strayed,
             \/ a # "stored" /\ press[p].at # "stored" /\ UNCHANGED rows
             \/ a = "stored" /\ rows' = [rows EXCEPT ![press[p].guild] = press[p].value]
      PROVE  FormInv'
  <2>1. /\ DOMAIN press' = Presses /\ press'[p].at = a /\ press'[p].guild = press[p].guild
        /\ press'[p].value = press[p].value /\ PressFramed(press'[p])
        /\ \A o \in Presses \ {p} : press'[o] = press[o]
    BY <1>0, <1>2 DEF PressFramed
  <2>2. Screen!Flying' = Screen!Flying
    BY <1>0, <1>2, <2>1, FlyingIs
  <2>3. (\A o \in Presses : PressFramed(press'[o])) /\ DOMAIN rows' = Guilds
    BY <1>2, <2>1 DEF FormInv
  <2>4. ASSUME Unslipped PROVE Unslipped'
    <3>1. press[p].guild = guild /\ Screen!Flying = {p}
      BY <1>0, <2>4 DEF Unslipped
    <3>2. \A l \in DOMAIN loads : loads[l].cancelled \/ loads[l].at = "done"
      BY <1>0, <2>4 DEF Unslipped
    <3>3. CASE a = "stored" /\ rows' = [rows EXCEPT ![press[p].guild] = press[p].value]
      <4>1. rows'[guild] = press[p].value
        BY <3>1, <3>3 DEF FormInv
      <4>2. QED
        BY <1>0, <2>1, <2>2, <2>4, <3>1, <3>2, <3>3, <4>1 DEF Unslipped
    <3>4. CASE a # "stored" /\ press[p].at # "stored" /\ UNCHANGED rows
      BY <1>0, <2>1, <2>2, <2>4, <3>1, <3>2, <3>4 DEF Unslipped
    <3>5. QED
      BY <1>2, <3>3, <3>4
  <2>5. QED
    BY <1>0, <1>2, <2>1, <2>3, <2>4 DEF FormInv
<1>3. CASE Screen!Limited(p)
  BY <1>2, <1>3 DEF Screen!Limited, Afloat
<1>4. CASE Screen!Resend(p)
  BY <1>2, <1>4 DEF Screen!Resend, Afloat
<1>5. CASE Screen!Stores(p)
  BY <1>2, <1>5 DEF Screen!Stores, Afloat
<1>6. QED
  BY <1>1, <1>3, <1>4, <1>5

LEMMA NextForm == FormInv /\ [Screen!Next]_Screen!vars => FormInv'
<1> SUFFICES ASSUME FormInv, [Screen!Next]_Screen!vars PROVE FormInv'
  OBVIOUS
<1>1. CASE UNCHANGED Screen!vars
  BY <1>1 DEF Screen!vars, Screen!form, FormInv, Unslipped, Screen!Flying, PressFramed
<1>2. ASSUME NEW g \in Guilds, Screen!Pick(g) PROVE FormInv'
  BY <1>2, PickForm
<1>3. ASSUME NEW l \in DOMAIN loads, Screen!Read(l) \/ Screen!Loaded(l) PROVE FormInv'
  BY <1>3, ReadForm, LoadedForm
<1>4. ASSUME NEW v \in Values, Screen!Edit(v) PROVE FormInv'
  BY <1>4, DraftForm DEF Screen!Edit
<1>5. CASE Screen!Reset
  BY <1>5, DraftForm DEF Screen!Reset
<1>6. ASSUME NEW p \in Presses,
             Screen!Save(p) \/ Screen!Limited(p) \/ Screen!Resend(p) \/ Screen!Stores(p) \/ Screen!Commits(p) \/ Screen!Fails(p)
      PROVE  FormInv'
  BY <1>6, SaveForm, PressForm, CommitsForm
<1>7. QED
  BY <1>1, <1>2, <1>3, <1>4, <1>5, <1>6 DEF Screen!Next

LEMMA FormsTellTheTruth == FormInv => Screen!FormShowsTheRow
BY DEF FormInv, Unslipped, Screen!FormShowsTheRow

-----------------------------------------------------------------------------
(* The tunnel.                                                             *)

StopStages  == {"killing", "culling", "clearing"}
AdoptStages == {"reading", "asking", "purging", "purged"}
Ends        == {"start", "adopt", "end"}

Hosts == {Random, Fixed}
Agent == [alive : BOOLEAN, url : Reach!Urls, works : BOOLEAN, domain : Hosts]
Known == {Absent} \cup DOMAIN agents

(* What a task remembers at each await.                                    *)
TaskOK(x) ==
    /\ x.at \in Reach!Stages
    /\ x.at \in StopStages => x \in [at : StopStages, victim : Known, next : Ends]
    /\ x.at \in {"asking", "purging"} => x \in [at : {"asking", "purging"}, victim : Known, url : Reach!Urls]
    /\ x.at = "storing" => x \in [at : {"storing"}, mode : {"off", "tunnel"}, switched : BOOLEAN, moved : BOOLEAN]

Row == [mode : {"off", "tunnel"}, domain : Hosts, pid : Reach!Agents, url : Reach!Urls]

ReachTypes ==
    /\ mode \in {"off", "tunnel"} /\ domain \in Hosts
    /\ link \in [status : {"off", "starting", "running", "error"}, url : Reach!Urls]
    /\ child \in Known /\ pid \in Known /\ keys \in Row /\ keys.pid \in Known
    /\ attempts \in 0 .. Retries /\ retryTimer \in BOOLEAN /\ stray \in Nat
    /\ polls \subseteq 0 .. MaxUrls /\ failures \in 0 .. 1
    /\ probe # Absent => probe.url # Absent
    /\ DOMAIN tasks = Reach!Tasks /\ \A t \in Reach!Tasks : TaskOK(tasks[t])
    /\ agents \in Seq(Agent) /\ Len(agents) <= MaxAgents
    /\ log \in Seq(Reach!Urls) /\ Len(log) <= MaxUrls
    /\ born \in Nat
    /\ exits \subseteq DOMAIN agents /\ \A a \in exits : ~agents[a].alive
    /\ troubles \in 0 .. MaxTroubles /\ slipped \in BOOLEAN

ReachConstants ==
    /\ Absent \notin Nat
    /\ Retries \in Nat /\ MaxAgents \in Nat /\ MaxUrls \in Nat /\ MaxTroubles \in Nat

-----------------------------------------------------------------------------
(* Types.                                                                  *)

LEMMA ReachTypesAre == ASSUME ReachConstants, ReachTypes PROVE Reach!TypeOK /\ Known \subseteq Reach!Agents
<1>1. DOMAIN agents = 1 .. Len(agents) /\ Len(agents) \in Nat
  BY DEF ReachTypes
<1>2. Known \subseteq Reach!Agents
  BY <1>1 DEF ReachTypes, ReachConstants, Known, Reach!Agents
<1>3. QED
  BY <1>2 DEF ReachTypes, Reach!TypeOK, TaskOK, Row, Hosts

(* What the writes nobody waits for leave of the row they mean to leave.   *)
LEMMA LandedIs ==
    ASSUME ReachTypes, NEW kept \in Row, kept.pid \in Known, NEW x \in Reach!Landed(kept)
    PROVE  x \in Row /\ x.pid \in Known /\ x.pid \in {keys.pid, kept.pid} /\ x.url \in {keys.url, kept.url}
<1>1. PICK p \in {keys.pid, kept.pid}, u \in {keys.url, kept.url} : x = [kept EXCEPT !.pid = p, !.url = u]
  BY DEF Reach!Landed
<1>2. keys \in Row /\ keys.pid \in Known
  BY DEF ReachTypes
<1>3. p \in Reach!Agents /\ u \in Reach!Urls
  BY <1>1, <1>2 DEF Row
<1>4. x \in Row /\ x.pid = p /\ x.url = u
  BY <1>1, <1>3 DEF Row
<1>5. QED
  BY <1>1, <1>2, <1>4

LEMMA MishapTypes ==
    ASSUME ReachConstants, ReachTypes
    PROVE  /\ Reach!Mishap => troubles' \in 0 .. MaxTroubles
           /\ Reach!Smooth => troubles' \in 0 .. MaxTroubles /\ slipped' \in BOOLEAN
<1>1. Reach!Mishap => troubles' \in 0 .. MaxTroubles
  BY DEF Reach!Mishap, ReachTypes, ReachConstants
<1>2. QED
  BY <1>1 DEF Reach!Smooth, ReachTypes

LEMMA UrlLands ==
    ASSUME ReachTypes, NEW u \in Reach!Urls, NEW x \in Reach!Landed([keys EXCEPT !.url = u])
    PROVE  x \in Row /\ x.pid = keys.pid /\ x.pid \in Known /\ x.url \in {keys.url, u}
<1>1. PICK kept : kept = [keys EXCEPT !.url = u]
  OBVIOUS
<1>2. kept \in Row /\ kept.pid = keys.pid /\ kept.url = u /\ kept.pid \in Known
  BY <1>1 DEF ReachTypes, Row
<1>3. QED
  BY <1>1, <1>2, LandedIs

LEMMA LandsTypes ==
    ASSUME ReachConstants, ReachTypes, NEW kept, Reach!Lands(kept)
    PROVE  troubles' \in 0 .. MaxTroubles
BY DEF Reach!Lands, Reach!Mishap, ReachTypes, ReachConstants

LEMMA SpawnedAgents ==
    ASSUME ReachTypes, NEW x \in Agent, agents' = Append(agents, x)
    PROVE  /\ agents' \in Seq(Agent) /\ Len(agents') = Len(agents) + 1 /\ Len(agents) \in Nat
           /\ DOMAIN agents = 1 .. Len(agents) /\ DOMAIN agents' = 1 .. Len(agents) + 1
           /\ \A a \in DOMAIN agents : agents'[a] = agents[a]
           /\ agents'[Len(agents) + 1] = x
BY DEF ReachTypes

LEMMA AgentsOnly ==
    ASSUME ReachTypes, NEW a \in DOMAIN agents, NEW x \in Agent, agents' = [agents EXCEPT ![a] = x]
    PROVE  /\ agents' \in Seq(Agent) /\ Len(agents') = Len(agents) /\ Known' = Known
           /\ DOMAIN agents' = DOMAIN agents /\ agents'[a] = x
           /\ \A b \in DOMAIN agents \ {a} : agents'[b] = agents[b]
BY DEF ReachTypes, Known

LEMMA StartTypes ==
    ASSUME ReachConstants, ReachTypes, NEW kept \in Row, kept.pid \in Known, Reach!StartTunnel(kept)
    PROVE  /\ agents' \in Seq(Agent) /\ Len(agents') <= MaxAgents
           /\ Known \subseteq Known' /\ DOMAIN agents \subseteq DOMAIN agents'
           /\ \A a \in DOMAIN agents : agents'[a] = agents[a]
           /\ child' \in Known' /\ pid' \in Known' /\ keys' \in Row /\ keys'.pid \in Known'
           /\ link' \in [status : {"off", "starting", "running", "error"}, url : Reach!Urls]
           /\ polls' \subseteq 0 .. MaxUrls /\ troubles' \in 0 .. MaxTroubles
<1>1. CASE child # Absent /\ keys' \in Reach!Landed(kept) /\ Reach!Lands(kept) /\ UNCHANGED <<agents, child, pid, link, polls>>
  <2>1. keys' \in Row /\ keys'.pid \in Known
    BY <1>1, LandedIs
  <2>2. troubles' \in 0 .. MaxTroubles
    BY <1>1, LandsTypes
  <2>3. QED
    BY <1>1, <2>1, <2>2 DEF ReachTypes, Known
<1>2. CASE child = Absent /\ Reach!Mishap /\ link' = [status |-> "error", url |-> Absent]
           /\ (\E was \in Reach!Landed(kept) : keys' \in {was, [was EXCEPT !.pid = Absent]})
           /\ child' = Absent /\ pid' \in {pid, Absent} /\ UNCHANGED <<agents, polls>>
  <2>1. PICK was \in Reach!Landed(kept) : keys' \in {was, [was EXCEPT !.pid = Absent]}
    BY <1>2
  <2>2. was \in Row /\ was.pid \in Known /\ Absent \in Known /\ Absent \in Reach!Agents
    BY LandedIs DEF Known, Reach!Agents
  <2>3. keys' \in Row /\ keys'.pid \in Known
    BY <2>1, <2>2 DEF Row
  <2>4. troubles' \in 0 .. MaxTroubles
    BY <1>2, MishapTypes
  <2>5. QED
    BY <1>2, <2>2, <2>3, <2>4 DEF ReachTypes, Known, Reach!Urls
<1>3. CASE /\ child = Absent /\ Len(agents) < MaxAgents
           /\ agents' = Append(agents, [alive |-> TRUE, url |-> Absent, works |-> FALSE, domain |-> domain])
           /\ child' = Len(agents) + 1 /\ pid' = Len(agents) + 1
           /\ (\E was \in Reach!Landed(kept) : keys' \in {was, [was EXCEPT !.pid = Len(agents) + 1]})
           /\ Reach!Lands([kept EXCEPT !.pid = Len(agents) + 1])
           /\ link' = [status |-> "starting", url |-> Absent]
           /\ polls' = polls \cup {Len(log)}
  <2>1. [alive |-> TRUE, url |-> Absent, works |-> FALSE, domain |-> domain] \in Agent
    BY DEF ReachTypes, Agent, Reach!Urls
  <2>2. /\ agents' \in Seq(Agent) /\ Len(agents') = Len(agents) + 1 /\ Len(agents) \in Nat
        /\ DOMAIN agents = 1 .. Len(agents) /\ DOMAIN agents' = 1 .. Len(agents) + 1
        /\ \A a \in DOMAIN agents : agents'[a] = agents[a]
    BY <1>3, <2>1, SpawnedAgents
  <2>3. PICK n : n = Len(agents) + 1
    OBVIOUS
  <2>4. n \in DOMAIN agents' /\ n \in Reach!Agents /\ Len(agents') <= MaxAgents /\ DOMAIN agents \subseteq DOMAIN agents'
    BY <1>3, <2>2, <2>3 DEF ReachConstants, Reach!Agents
  <2>5. keys' \in Row /\ keys'.pid \in Known \cup {n}
    <3>1. PICK was \in Reach!Landed(kept) : keys' \in {was, [was EXCEPT !.pid = n]}
      BY <1>3, <2>3
    <3>2. was \in Row /\ was.pid \in Known
      BY LandedIs
    <3>3. QED
      BY <2>4, <3>1, <3>2 DEF Row
  <2>6. polls' \subseteq 0 .. MaxUrls
    BY <1>3 DEF ReachTypes, ReachConstants
  <2>7. troubles' \in 0 .. MaxTroubles
    BY <1>3, LandsTypes
  <2>8. QED
    BY <1>3, <2>2, <2>3, <2>4, <2>5, <2>6, <2>7 DEF ReachTypes, Known, Reach!Urls
<1>4. QED
  BY <1>1, <1>2, <1>3 DEF Reach!StartTunnel

(* More agents make no task's memory wrong.                                *)
LEMMA TasksStay ==
    ASSUME ReachTypes, Known \subseteq Known', NEW t \in Reach!Tasks
    PROVE  TaskOK(tasks[t]) /\ \A x : TaskOK(x) => TaskOK(x)'
BY DEF ReachTypes, TaskOK

LEMMA StepTypes ==
    ASSUME ReachTypes, Known \subseteq Known', NEW t \in Reach!Tasks, NEW x, Reach!Step(t, x), TaskOK(x)'
    PROVE  DOMAIN tasks' = Reach!Tasks /\ \A u \in Reach!Tasks : TaskOK(tasks[u])'
<1>1. DOMAIN tasks' = Reach!Tasks /\ tasks'[t] = x /\ \A u \in Reach!Tasks \ {t} : tasks'[u] = tasks[u]
  BY DEF Reach!Step, ReachTypes
<1>2. \A u \in Reach!Tasks : TaskOK(tasks[u]) /\ \A y : TaskOK(y) => TaskOK(y)'
  BY TasksStay
<1>3. ASSUME NEW u \in Reach!Tasks PROVE TaskOK(tasks[u])'
  <2>1. CASE u = t
    BY <1>1, <2>1
  <2>2. CASE u # t
    <3>1. PICK y : y = tasks[u]
      OBVIOUS
    <3>2. TaskOK(y)' /\ tasks'[u] = y
      BY <1>1, <1>2, <2>2, <3>1
    <3>3. QED
      BY <3>2
  <2>3. QED
    BY <2>1, <2>2
<1>4. QED
  BY <1>1, <1>3

LEMMA KillTypes ==
    ASSUME ReachConstants, ReachTypes, NEW a \in Known, Reach!Kill(a)
    PROVE  /\ agents' \in Seq(Agent) /\ Len(agents') = Len(agents) /\ Known' = Known /\ DOMAIN agents' = DOMAIN agents
           /\ exits' \subseteq DOMAIN agents' /\ \A b \in exits' : ~agents'[b].alive
           /\ troubles' \in 0 .. MaxTroubles /\ slipped' \in BOOLEAN
<1>1. CASE UNCHANGED <<agents, exits>>
  <2>1. troubles' \in 0 .. MaxTroubles /\ slipped' \in BOOLEAN
    BY MishapTypes DEF Reach!Kill, ReachTypes
  <2>2. agents' = agents /\ exits' = exits
    BY <1>1
  <2>3. QED
    BY <2>1, <2>2 DEF ReachTypes, Known
<1>2. CASE /\ Reach!Alive(a) /\ agents' = [agents EXCEPT ![a].alive = FALSE]
           /\ exits' = IF a > born THEN exits \cup {a} ELSE exits
           /\ Reach!Smooth
  <2>1. a \in DOMAIN agents /\ agents[a] \in Agent
    BY <1>2 DEF ReachTypes, Known, Reach!Alive
  <2>0. [agents[a] EXCEPT !.alive = FALSE] \in Agent /\ ~[agents[a] EXCEPT !.alive = FALSE].alive
    BY <2>1 DEF Agent
  <2>2. PICK x \in Agent : x = [agents[a] EXCEPT !.alive = FALSE] /\ ~x.alive
    BY <2>0
  <2>3. agents' = [agents EXCEPT ![a] = x]
    BY <1>2, <2>2
  <2>4. /\ agents' \in Seq(Agent) /\ Len(agents') = Len(agents) /\ Known' = Known
        /\ DOMAIN agents' = DOMAIN agents /\ agents'[a] = x
        /\ \A b \in DOMAIN agents \ {a} : agents'[b] = agents[b]
    BY <2>1, <2>3, AgentsOnly
  <2>5. QED
    BY <1>2, <2>1, <2>2, <2>4 DEF ReachTypes, Reach!Smooth
<1>3. QED
  BY <1>1, <1>2 DEF Reach!Kill

(* What a boot can find the reach to be.                                   *)
LEMMA BootsAre == keys \in Row => Reach!BootModes \subseteq {"off", "tunnel"} /\ Reach!BootDomains \subseteq Hosts
BY DEF Reach!BootModes, Reach!BootDomains, Row, Hosts

LEMMA InitReachTypes == ASSUME ReachConstants, Reach!Init PROVE ReachTypes
<1>1. agents \in Seq(Agent) /\ Len(agents) = 0 /\ log \in Seq(Reach!Urls) /\ Len(log) = 0 /\ DOMAIN agents = {}
  BY DEF Reach!Init
<1>2. \A t \in Reach!Tasks : TaskOK(tasks[t])
  BY DEF Reach!Init, Reach!BootTask, Reach!Idle, TaskOK, Reach!Stages, StopStages
<1>3. keys \in Row /\ keys.pid = Absent /\ link \in [status : {"off", "starting", "running", "error"}, url : Reach!Urls]
  BY DEF Reach!Init, Reach!Unsaved, Reach!Off, Row, Hosts, Reach!Agents, Reach!Urls, ReachConstants
<1>4. /\ attempts \in 0 .. Retries /\ retryTimer \in BOOLEAN /\ stray \in Nat
      /\ polls \subseteq 0 .. MaxUrls /\ failures \in 0 .. 1 /\ born \in Nat
      /\ troubles \in 0 .. MaxTroubles /\ slipped \in BOOLEAN
  <2>1. 0 \in 0 .. Retries /\ 0 \in 0 .. MaxTroubles /\ 0 \in 0 .. 1 /\ 0 \in Nat /\ {} \subseteq 0 .. MaxUrls
    BY DEF ReachConstants
  <2>2. /\ attempts = 0 /\ retryTimer = FALSE /\ stray = 0 /\ polls = {} /\ failures = 0 /\ born = 0
        /\ troubles = 0 /\ slipped = FALSE
    BY DEF Reach!Init
  <2>3. QED
    BY <2>1, <2>2
<1>5. /\ mode \in {"off", "tunnel"} /\ domain \in Hosts /\ probe = Absent /\ exits = {}
      /\ DOMAIN tasks = Reach!Tasks /\ child \in Known /\ pid \in Known /\ Absent \in Known
  BY <1>3, BootsAre DEF Reach!Init, Reach!BootTask, Known
<1>6. Len(agents) <= MaxAgents /\ Len(log) <= MaxUrls
  BY <1>1 DEF ReachConstants
<1>7. QED
  BY <1>1, <1>2, <1>3, <1>4, <1>5, <1>6 DEF ReachTypes

LEMMA IdleTaskIs == TaskOK(Reach!Idle) /\ TaskOK(Reach!Idle)' /\ Reach!Idle.at = "idle"
BY DEF TaskOK, Reach!Idle, Reach!Stages, StopStages

(* A stopping task and what its caller goes on with.                       *)
LEMMA StopTypes ==
    ASSUME ReachTypes, NEW x, TaskOK(x), x.at \in StopStages, NEW p \in StopStages, NEW y, y = [x EXCEPT !.at = p]
    PROVE  TaskOK(y) /\ y.at = p /\ y.victim = x.victim /\ y.next = x.next /\ x.victim \in Known /\ x.next \in Ends
BY DEF TaskOK, StopStages, Reach!Stages

LEMMA KilledTypes == ASSUME ReachConstants, ReachTypes, NEW t \in Reach!Tasks, Reach!Killed(t) PROVE ReachTypes'
<1>1. PICK y : y = [tasks[t] EXCEPT !.at = "culling"]
  OBVIOUS
<1>2. TaskOK(tasks[t]) /\ tasks[t].at \in StopStages
  BY DEF ReachTypes, Reach!Killed, StopStages
<1>3. TaskOK(y)
  BY <1>1, <1>2, StopTypes DEF StopStages
<1>4. Known' = Known /\ Reach!Step(t, y)
  BY <1>1 DEF Reach!Killed, Known
<1>5. TaskOK(y)'
  BY <1>3, <1>4 DEF TaskOK
<1>6. DOMAIN tasks' = Reach!Tasks /\ \A u \in Reach!Tasks : TaskOK(tasks[u])'
  BY <1>4, <1>5, StepTypes
<1>7. troubles' \in 0 .. MaxTroubles /\ slipped' \in BOOLEAN
  BY DEF Reach!Killed, Reach!Mishap, Reach!Smooth, ReachTypes, ReachConstants
<1>8. QED
  BY <1>4, <1>6, <1>7 DEF Reach!Killed, ReachTypes, Reach!manager, Reach!world

LEMMA CullTypes == ASSUME ReachConstants, ReachTypes, NEW t \in Reach!Tasks, Reach!Cull(t) PROVE ReachTypes'
<1>1. PICK y : y = [tasks[t] EXCEPT !.at = "clearing"]
  OBVIOUS
<1>2. TaskOK(tasks[t]) /\ tasks[t].at \in StopStages /\ Reach!Kill(tasks[t].victim)
  BY DEF ReachTypes, Reach!Cull, StopStages
<1>3. TaskOK(y) /\ tasks[t].victim \in Known
  BY <1>1, <1>2, StopTypes DEF StopStages
<1>4. /\ agents' \in Seq(Agent) /\ Len(agents') = Len(agents) /\ Known' = Known /\ DOMAIN agents' = DOMAIN agents
      /\ exits' \subseteq DOMAIN agents' /\ \A b \in exits' : ~agents'[b].alive
      /\ troubles' \in 0 .. MaxTroubles /\ slipped' \in BOOLEAN
  BY <1>2, <1>3, KillTypes
<1>5. TaskOK(y)' /\ Reach!Step(t, y)
  BY <1>1, <1>3, <1>4 DEF TaskOK, Reach!Cull
<1>6. DOMAIN tasks' = Reach!Tasks /\ \A u \in Reach!Tasks : TaskOK(tasks[u])'
  BY <1>4, <1>5, StepTypes
<1>7. QED
  BY <1>4, <1>6 DEF Reach!Cull, ReachTypes, Reach!manager, Reach!world

LEMMA PurgeTypes == ASSUME ReachConstants, ReachTypes, NEW t \in Reach!Tasks, Reach!Purge(t) PROVE ReachTypes'
<1>1. PICK y : y = [at |-> "purged"]
  OBVIOUS
<1>2. TaskOK(tasks[t]) /\ tasks[t].at = "purging" /\ Reach!Kill(tasks[t].victim) /\ tasks[t].victim \in Known
  BY DEF ReachTypes, Reach!Purge, TaskOK
<1>4. /\ agents' \in Seq(Agent) /\ Len(agents') = Len(agents) /\ Known' = Known /\ DOMAIN agents' = DOMAIN agents
      /\ exits' \subseteq DOMAIN agents' /\ \A b \in exits' : ~agents'[b].alive
      /\ troubles' \in 0 .. MaxTroubles /\ slipped' \in BOOLEAN
  BY <1>2, KillTypes
<1>5. TaskOK(y)' /\ Reach!Step(t, y)
  BY <1>1, <1>4 DEF TaskOK, Reach!Purge, Reach!Stages, StopStages
<1>6. DOMAIN tasks' = Reach!Tasks /\ \A u \in Reach!Tasks : TaskOK(tasks[u])'
  BY <1>4, <1>5, StepTypes
<1>7. QED
  BY <1>4, <1>6 DEF Reach!Purge, ReachTypes, Reach!manager, Reach!world

LEMMA ForgottenIs == ASSUME ReachTypes
                     PROVE  /\ Reach!Forgotten \in Row /\ Reach!Forgotten.pid = Absent /\ Reach!Forgotten.url = Absent
                            /\ Reach!Forgotten.mode = keys.mode /\ Reach!Forgotten.domain = keys.domain
BY DEF ReachTypes, Reach!Forgotten, Row, Reach!Agents, Reach!Urls

(* The task ends, or begins to adopt.                                      *)
LEMMA BeginAdoptIs ==
    ASSUME NEW t, Reach!BeginAdopt(t)
    PROVE  \E x : Reach!Step(t, x) /\ TaskOK(x) /\ TaskOK(x)' /\ x.at = IF child # Absent \/ link.status \in {"running", "starting"}
                                                                      THEN "idle" ELSE "reading"
<1>1. TaskOK([at |-> "reading"]) /\ TaskOK([at |-> "reading"])' /\ [at |-> "reading"].at = "reading"
  BY DEF TaskOK, Reach!Stages, StopStages
<1>2. QED
  BY <1>1, IdleTaskIs DEF Reach!BeginAdopt

LEMMA ClearTypes == ASSUME ReachConstants, ReachTypes, NEW t \in Reach!Tasks, Reach!Clear(t) PROVE ReachTypes'
<1>0. Reach!Forgotten \in Row /\ Reach!Forgotten.pid = Absent /\ Absent \in Known /\ Absent \in Known'
  BY ForgottenIs DEF Known
<1>1. CASE Reach!StartTunnel(Reach!Forgotten) /\ Reach!Step(t, Reach!Idle) /\ slipped' = slipped
  <2>1. /\ agents' \in Seq(Agent) /\ Len(agents') <= MaxAgents
        /\ Known \subseteq Known' /\ DOMAIN agents \subseteq DOMAIN agents'
        /\ \A a \in DOMAIN agents : agents'[a] = agents[a]
        /\ child' \in Known' /\ pid' \in Known' /\ keys' \in Row /\ keys'.pid \in Known'
        /\ link' \in [status : {"off", "starting", "running", "error"}, url : Reach!Urls]
        /\ polls' \subseteq 0 .. MaxUrls /\ troubles' \in 0 .. MaxTroubles
    BY <1>0, <1>1, StartTypes
  <2>2. DOMAIN tasks' = Reach!Tasks /\ \A u \in Reach!Tasks : TaskOK(tasks[u])'
    BY <1>1, <2>1, StepTypes, IdleTaskIs
  <2>3. exits' = exits /\ exits' \subseteq DOMAIN agents' /\ \A a \in exits' : ~agents'[a].alive
    BY <2>1 DEF Reach!Clear, ReachTypes
  <2>4. QED
    BY <1>1, <2>1, <2>2, <2>3 DEF Reach!Clear, ReachTypes, Reach!ladder, Reach!world
<1>2. CASE /\ Reach!BeginAdopt(t) \/ Reach!Step(t, Reach!Idle)
           /\ keys' \in Reach!Landed(Reach!Forgotten) /\ Reach!Lands(Reach!Forgotten) /\ UNCHANGED <<agents, child, pid, link, polls, slipped>>
  <2>1. PICK x : Reach!Step(t, x) /\ TaskOK(x)'
    BY <1>2, BeginAdoptIs, IdleTaskIs
  <2>2. Known' = Known
    BY <1>2 DEF Known
  <2>3. DOMAIN tasks' = Reach!Tasks /\ \A u \in Reach!Tasks : TaskOK(tasks[u])'
    BY <2>1, <2>2, StepTypes
  <2>4. keys' \in Row /\ keys'.pid \in Known' /\ troubles' \in 0 .. MaxTroubles
    BY <1>0, <1>2, <2>2, LandedIs, LandsTypes
  <2>5. QED
    BY <1>2, <2>2, <2>3, <2>4 DEF Reach!Clear, ReachTypes, Reach!ladder, Reach!world
<1>3. QED
  BY <1>1, <1>2 DEF Reach!Clear

LEMMA ReadTypes == ASSUME ReachConstants, ReachTypes, NEW t \in Reach!Tasks, Reach!Read(t) PROVE ReachTypes'
<1>1. CASE Reach!StartTunnel(keys) /\ Reach!Step(t, Reach!Idle) /\ slipped' = slipped
  <2>1. /\ agents' \in Seq(Agent) /\ Len(agents') <= MaxAgents
        /\ Known \subseteq Known' /\ DOMAIN agents \subseteq DOMAIN agents'
        /\ \A a \in DOMAIN agents : agents'[a] = agents[a]
        /\ child' \in Known' /\ pid' \in Known' /\ keys' \in Row /\ keys'.pid \in Known'
        /\ link' \in [status : {"off", "starting", "running", "error"}, url : Reach!Urls]
        /\ polls' \subseteq 0 .. MaxUrls /\ troubles' \in 0 .. MaxTroubles
    BY <1>1, StartTypes DEF ReachTypes
  <2>2. DOMAIN tasks' = Reach!Tasks /\ \A u \in Reach!Tasks : TaskOK(tasks[u])'
    BY <1>1, <2>1, StepTypes, IdleTaskIs
  <2>3. exits' = exits /\ exits' \subseteq DOMAIN agents' /\ \A a \in exits' : ~agents'[a].alive
    BY <2>1 DEF Reach!Read, ReachTypes
  <2>4. QED
    BY <1>1, <2>1, <2>2, <2>3 DEF Reach!Read, ReachTypes, Reach!ladder, Reach!world
<1>2. CASE /\ Reach!Step(t, [at |-> "asking", victim |-> keys.pid, url |-> keys.url])
           /\ UNCHANGED <<agents, child, pid, link, polls, keys>> /\ Reach!Smooth
  <2>1. PICK x : x = [at |-> "asking", victim |-> keys.pid, url |-> keys.url]
    OBVIOUS
  <2>2. Known' = Known
    BY <1>2 DEF Known
  <2>3. TaskOK(x) /\ keys.pid \in Known
    BY <2>1 DEF TaskOK, Reach!Stages, StopStages, ReachTypes, Row
  <2>4. TaskOK(x)'
    BY <2>2, <2>3 DEF TaskOK
  <2>5. DOMAIN tasks' = Reach!Tasks /\ \A u \in Reach!Tasks : TaskOK(tasks[u])'
    BY <1>2, <2>1, <2>2, <2>4, StepTypes
  <2>6. QED
    BY <1>2, <2>2, <2>5 DEF Reach!Read, ReachTypes, Reach!ladder, Reach!world, Reach!Smooth
<1>3. QED
  BY <1>1, <1>2 DEF Reach!Read

LEMMA ReplaceTypes == ASSUME ReachConstants, ReachTypes, NEW t \in Reach!Tasks, Reach!Replace(t) PROVE ReachTypes'
<1>0. Reach!Forgotten \in Row /\ Reach!Forgotten.pid = Absent /\ Absent \in Known
  BY ForgottenIs DEF Known
<1>1. Reach!StartTunnel(Reach!Forgotten) /\ Reach!Step(t, Reach!Idle) /\ slipped' = slipped
  BY DEF Reach!Replace
<1>2. /\ agents' \in Seq(Agent) /\ Len(agents') <= MaxAgents
      /\ Known \subseteq Known' /\ DOMAIN agents \subseteq DOMAIN agents'
      /\ \A a \in DOMAIN agents : agents'[a] = agents[a]
      /\ child' \in Known' /\ pid' \in Known' /\ keys' \in Row /\ keys'.pid \in Known'
      /\ link' \in [status : {"off", "starting", "running", "error"}, url : Reach!Urls]
      /\ polls' \subseteq 0 .. MaxUrls /\ troubles' \in 0 .. MaxTroubles
  BY <1>0, <1>1, StartTypes
<1>3. DOMAIN tasks' = Reach!Tasks /\ \A u \in Reach!Tasks : TaskOK(tasks[u])'
  BY <1>1, <1>2, StepTypes, IdleTaskIs
<1>4. exits' = exits /\ exits' \subseteq DOMAIN agents' /\ \A a \in exits' : ~agents'[a].alive
  BY <1>2 DEF Reach!Replace, ReachTypes
<1>5. QED
  BY <1>1, <1>2, <1>3, <1>4 DEF Reach!Replace, ReachTypes, Reach!ladder, Reach!world

(* The address a task or a start settles on.                               *)
LEMMA ReachedIs ==
    ASSUME ReachTypes, NEW u \in Reach!Urls
    PROVE  Reach!Reached(u) \in Reach!Urls /\ (Reach!Expected(u) /\ Reach!Reached(u) # Absent => Reach!Expected(Reach!Reached(u)))
<1>1. PICK last : last = IF log = <<>> THEN Absent ELSE log[Len(log)]
  OBVIOUS
<1>2. last \in Reach!Urls
  BY <1>1 DEF ReachTypes, Reach!Urls
<1>3. Reach!Reached(u) = CHOOSE w \in {last, u, Absent} :
        IF last # Absent /\ last # u /\ Reach!Expected(last) /\ Reach!Answers(last) THEN w = last
        ELSE IF Reach!Answers(u) THEN w = u ELSE w = Absent
  BY <1>1 DEF Reach!Reached
<1>4. IF last # Absent /\ last # u /\ Reach!Expected(last) /\ Reach!Answers(last) THEN Reach!Reached(u) = last
      ELSE IF Reach!Answers(u) THEN Reach!Reached(u) = u ELSE Reach!Reached(u) = Absent
  BY <1>3
<1>5. QED
  BY <1>2, <1>4 DEF Reach!Urls

LEMMA NewestIs ==
    ASSUME ReachTypes, NEW from \in polls
    PROVE  Reach!Newest(from) \in Reach!Urls /\ (Reach!Newest(from) # Absent => Reach!Expected(Reach!Newest(from)))
<1>1. from \in Nat /\ Len(log) \in Nat
  BY DEF ReachTypes
<1>2. Len(log) > from => log[Len(log)] \in Reach!Urls
  BY <1>1 DEF ReachTypes
<1>3. QED
  BY <1>2 DEF Reach!Newest, Reach!Urls

LEMMA AskTypes == ASSUME ReachConstants, ReachTypes, NEW t \in Reach!Tasks, Reach!Ask(t) PROVE ReachTypes'
<1>0. /\ UNCHANGED <<mode, domain, child, attempts, retryTimer, stray, polls, probe, failures, agents, exits, log, born, slipped>>
      /\ Known' = Known
  BY DEF Reach!Ask, Reach!ladder, Reach!world, Known
<1>1. tasks[t] \in [at : {"asking", "purging"}, victim : Known, url : Reach!Urls] /\ TaskOK(tasks[t])
  BY DEF ReachTypes, Reach!Ask, TaskOK
<1>2. PICK u : u = Reach!Reached(tasks[t].url)
  OBVIOUS
<1>3. u \in Reach!Urls
  BY <1>1, <1>2, ReachedIs
<1>4. CASE /\ pid' = tasks[t].victim /\ link' = [status |-> "running", url |-> u]
           /\ keys' \in Reach!Landed([keys EXCEPT !.url = u]) /\ Reach!Lands([keys EXCEPT !.url = u])
           /\ Reach!Step(t, Reach!Idle)
  <2>1. DOMAIN tasks' = Reach!Tasks /\ \A v \in Reach!Tasks : TaskOK(tasks[v])'
    BY <1>0, <1>4, StepTypes, IdleTaskIs
  <2>2. keys' \in Row /\ keys'.pid \in Known /\ troubles' \in 0 .. MaxTroubles
    BY <1>3, <1>4, UrlLands, LandsTypes
  <2>3. link' \in [status : {"off", "starting", "running", "error"}, url : Reach!Urls] /\ pid' \in Known
    BY <1>1, <1>3, <1>4
  <2>4. QED
    BY <1>0, <2>1, <2>2, <2>3 DEF ReachTypes
<1>5. CASE Reach!Step(t, [tasks[t] EXCEPT !.at = "purging"]) /\ UNCHANGED <<pid, link, keys, troubles>>
  <2>1. PICK y : y = [tasks[t] EXCEPT !.at = "purging"]
    OBVIOUS
  <2>2. y \in [at : {"asking", "purging"}, victim : Known, url : Reach!Urls] /\ y.at = "purging"
    BY <1>1, <2>1
  <2>3. TaskOK(y)'
    BY <1>0, <2>2 DEF TaskOK, Reach!Stages, StopStages
  <2>4. DOMAIN tasks' = Reach!Tasks /\ \A v \in Reach!Tasks : TaskOK(tasks[v])'
    BY <1>0, <1>5, <2>1, <2>3, StepTypes
  <2>5. QED
    BY <1>0, <1>5, <2>4 DEF ReachTypes
<1>6. QED
  BY <1>2, <1>4, <1>5 DEF Reach!Ask

LEMMA PollTypes == ASSUME ReachConstants, ReachTypes, NEW from, Reach!Poll(from) PROVE ReachTypes'
<1>0. /\ UNCHANGED <<mode, domain, child, pid, retryTimer, stray, probe, failures, tasks, agents, exits, log, born, slipped>>
      /\ Known' = Known /\ polls' \subseteq polls /\ from \in polls
  BY DEF Reach!Poll, Reach!world, Known
<1>1. \A t \in Reach!Tasks : TaskOK(tasks[t])'
  BY <1>0 DEF ReachTypes, TaskOK
<1>2. Reach!Newest(from) \in Reach!Urls
  BY <1>0, NewestIs
<1>3. /\ link' \in [status : {"off", "starting", "running", "error"}, url : Reach!Urls]
      /\ keys' \in Row /\ keys'.pid = keys.pid /\ attempts' \in 0 .. Retries /\ troubles' \in 0 .. MaxTroubles
  <2>1. CASE UNCHANGED <<link, attempts, keys, troubles>>
    BY <2>1 DEF ReachTypes
  <2>2. CASE /\ link' = [status |-> "running", url |-> Reach!Newest(from)] /\ attempts' = 0
             /\ keys' \in Reach!Landed([keys EXCEPT !.url = Reach!Newest(from)])
             /\ Reach!Lands([keys EXCEPT !.url = Reach!Newest(from)])
    <3>1. keys' \in Row /\ keys'.pid = keys.pid
      BY <1>2, <2>2, UrlLands
    <3>2. troubles' \in 0 .. MaxTroubles
      BY <2>2, LandsTypes
    <3>3. QED
      BY <1>2, <2>2, <3>1, <3>2 DEF ReachConstants
  <2>3. CASE link' = [link EXCEPT !.status = "error"] /\ UNCHANGED <<attempts, keys, troubles>>
    BY <2>3 DEF ReachTypes
  <2>4. QED
    BY <2>1, <2>2, <2>3 DEF Reach!Poll
<1>4. QED
  BY <1>0, <1>1, <1>3 DEF ReachTypes

LEMMA HandleExitTypes == ASSUME ReachConstants, ReachTypes, NEW a, Reach!HandleExit(a) PROVE ReachTypes'
<1>0. /\ UNCHANGED <<mode, domain, pid, polls, probe, failures, tasks, keys, agents, log, born, troubles, slipped>>
      /\ Known' = Known /\ exits' \subseteq exits /\ child' = Absent
  BY DEF Reach!HandleExit, Reach!world, Reach!Smooth, Known
<1>1. \A t \in Reach!Tasks : TaskOK(tasks[t])'
  BY <1>0 DEF ReachTypes, TaskOK
<1>2. link' \in [status : {"off", "starting", "running", "error"}, url : Reach!Urls]
  <2>1. link' = link \/ link' = [status |-> "starting", url |-> Absent] \/ link' = [status |-> "error", url |-> Absent]
    BY DEF Reach!HandleExit
  <2>2. QED
    BY <2>1 DEF ReachTypes, Reach!Urls
<1>3. attempts' \in 0 .. Retries
  BY DEF Reach!HandleExit, ReachTypes, ReachConstants
<1>4. retryTimer' \in BOOLEAN
  BY DEF Reach!HandleExit, ReachTypes
<1>5. stray' \in Nat
  BY DEF Reach!HandleExit, ReachTypes
<1>6. QED
  BY <1>0, <1>1, <1>2, <1>3, <1>4, <1>5 DEF ReachTypes, Known

LEMMA RetryTypes == ASSUME ReachConstants, ReachTypes, Reach!RetryFires PROVE ReachTypes'
<1>0. /\ UNCHANGED <<mode, domain, attempts, probe, failures, tasks, exits, log, born>> /\ exits = {}
      /\ retryTimer' = FALSE
  BY DEF Reach!RetryFires, Reach!world
<1>1. stray' \in Nat
  BY DEF Reach!RetryFires, ReachTypes
<1>2. CASE UNCHANGED <<agents, child, pid, keys, link, polls>> /\ Reach!Smooth
  <2>1. Known' = Known /\ \A t \in Reach!Tasks : TaskOK(tasks[t])'
    BY <1>0, <1>2 DEF ReachTypes, TaskOK, Known
  <2>2. QED
    BY <1>0, <1>1, <1>2, <2>1 DEF ReachTypes, Reach!Smooth
<1>3. CASE Reach!StartTunnel(keys) /\ slipped' = (slipped \/ Reach!Busy # {})
  <2>1. /\ agents' \in Seq(Agent) /\ Len(agents') <= MaxAgents
        /\ Known \subseteq Known' /\ DOMAIN agents \subseteq DOMAIN agents'
        /\ child' \in Known' /\ pid' \in Known' /\ keys' \in Row /\ keys'.pid \in Known'
        /\ link' \in [status : {"off", "starting", "running", "error"}, url : Reach!Urls]
        /\ polls' \subseteq 0 .. MaxUrls /\ troubles' \in 0 .. MaxTroubles
    BY <1>3, StartTypes DEF ReachTypes
  <2>2. \A t \in Reach!Tasks : TaskOK(tasks[t])'
    BY <1>0, <2>1 DEF ReachTypes, TaskOK
  <2>3. slipped' \in BOOLEAN
    BY <1>3
  <2>4. QED
    BY <1>0, <1>1, <2>1, <2>2, <2>3 DEF ReachTypes
<1>4. QED
  BY <1>2, <1>3 DEF Reach!RetryFires

LEMMA ProbeStartTypes == ASSUME ReachConstants, ReachTypes, Reach!ProbeStart PROVE ReachTypes'
<1>0. /\ UNCHANGED <<mode, domain, link, child, pid, attempts, retryTimer, stray, polls, tasks, keys, agents, exits, log, born,
                     troubles, slipped>>
      /\ Known' = Known /\ failures' \in 0 .. 1
      /\ probe' # Absent => probe'.url # Absent
  BY DEF Reach!ProbeStart, Reach!manager, Reach!world, Reach!Smooth, Known, ReachTypes
<1>1. \A t \in Reach!Tasks : TaskOK(tasks[t])'
  BY <1>0 DEF ReachTypes, TaskOK
<1>2. QED
  BY <1>0, <1>1 DEF ReachTypes

(* A stop begins.                                                          *)
LEMMA BeginStopTypes ==
    ASSUME ReachConstants, ReachTypes, NEW t \in Reach!Tasks, NEW next \in Ends, Reach!BeginStop(t, next), Known' = Known
    PROVE  /\ retryTimer' = FALSE /\ attempts' \in 0 .. Retries /\ stray' \in Nat
           /\ child' = Absent /\ pid' = Absent /\ Absent \in Known
           /\ link' \in [status : {"off", "starting", "running", "error"}, url : Reach!Urls]
           /\ DOMAIN tasks' = Reach!Tasks /\ \A u \in Reach!Tasks : TaskOK(tasks[u])'
<1>1. PICK x : x = [at |-> IF child # Absent THEN "killing" ELSE "culling", victim |-> pid, next |-> next]
  OBVIOUS
<1>2. x \in [at : StopStages, victim : Known, next : Ends] /\ x.at \in {"killing", "culling"}
  BY <1>1 DEF ReachTypes, StopStages
<1>3. TaskOK(x)'
  BY <1>2 DEF TaskOK, Reach!Stages, StopStages
<1>4. Reach!Step(t, x)
  BY <1>1 DEF Reach!BeginStop
<1>5. DOMAIN tasks' = Reach!Tasks /\ \A u \in Reach!Tasks : TaskOK(tasks[u])'
  BY <1>3, <1>4, StepTypes
<1>6. attempts' \in 0 .. Retries
  BY DEF Reach!BeginStop, ReachConstants
<1>7. link' \in [status : {"off", "starting", "running", "error"}, url : Reach!Urls]
  BY DEF Reach!BeginStop, Reach!Off, Reach!Urls
<1>8. QED
  BY <1>5, <1>6, <1>7 DEF Reach!BeginStop, ReachTypes, Known

LEMMA VerdictTypes == ASSUME ReachConstants, ReachTypes, Reach!ProbeVerdict PROVE ReachTypes'
<1>0. /\ UNCHANGED <<mode, domain, polls, keys, agents, exits, log, born, troubles>>
      /\ Known' = Known /\ probe' = Absent
  BY DEF Reach!ProbeVerdict, Reach!world, Known
<1>1. CASE UNCHANGED <<link, child, pid, Reach!ladder, failures, tasks, slipped>>
  <2>1. \A t \in Reach!Tasks : TaskOK(tasks[t])'
    BY <1>0, <1>1 DEF ReachTypes, TaskOK
  <2>2. QED
    BY <1>0, <1>1, <2>1 DEF ReachTypes, Reach!ladder
<1>2. CASE failures' = 0 /\ Reach!BeginStop("heal", "adopt") /\ slipped' = (slipped \/ Reach!Busy # {})
  <2>1. "heal" \in Reach!Tasks /\ "adopt" \in Ends
    BY DEF Reach!Tasks, Ends
  <2>2. /\ retryTimer' = FALSE /\ attempts' \in 0 .. Retries /\ stray' \in Nat
        /\ child' = Absent /\ pid' = Absent /\ Absent \in Known
        /\ link' \in [status : {"off", "starting", "running", "error"}, url : Reach!Urls]
        /\ DOMAIN tasks' = Reach!Tasks /\ \A u \in Reach!Tasks : TaskOK(tasks[u])'
    BY <1>0, <1>2, <2>1, BeginStopTypes
  <2>3. slipped' \in BOOLEAN
    BY <1>2
  <2>4. failures' \in 0 .. 1
    BY <1>2
  <2>5. QED
    BY <1>0, <2>2, <2>3, <2>4 DEF ReachTypes
<1>3. CASE /\ ~(Reach!Verdict(probe.url) = "error" /\ failures = 1)
           /\ failures' = IF Reach!Verdict(probe.url) = "error" THEN failures + 1 ELSE 0
           /\ link' = IF Reach!Verdict(probe.url) # probe.status THEN [link EXCEPT !.status = Reach!Verdict(probe.url)] ELSE link
           /\ UNCHANGED <<child, pid, Reach!ladder, tasks, slipped>>
  <2>1. failures' \in 0 .. 1
    <3>1. CASE Reach!Verdict(probe.url) = "error"
      <4>1. failures = 0 /\ failures' = failures + 1
        BY <1>3, <3>1 DEF ReachTypes
      <4>2. QED
        BY <4>1
    <3>2. CASE Reach!Verdict(probe.url) # "error"
      BY <1>3, <3>2
    <3>3. QED
      BY <3>1, <3>2
  <2>2. link' \in [status : {"off", "starting", "running", "error"}, url : Reach!Urls]
    BY <1>3 DEF Reach!Verdict, ReachTypes
  <2>3. \A t \in Reach!Tasks : TaskOK(tasks[t])'
    BY <1>0, <1>3 DEF ReachTypes, TaskOK
  <2>4. QED
    BY <1>0, <1>3, <2>1, <2>2, <2>3 DEF ReachTypes, Reach!ladder
<1>4. QED
  BY <1>1, <1>2, <1>3 DEF Reach!ProbeVerdict

LEMMA PutTypes ==
    ASSUME ReachConstants, ReachTypes, NEW r \in Switches, NEW m \in {"off", "tunnel"}, NEW d \in Hosts, Reach!Put(r, m, d)
    PROVE  ReachTypes'
<1>0. /\ UNCHANGED <<link, child, pid, attempts, retryTimer, stray, polls, probe, failures, keys, agents, exits, log, born>>
      /\ Known' = Known /\ mode' = m /\ domain' = d /\ slipped' \in BOOLEAN
  BY DEF Reach!Put, Reach!ladder, Known
<1>1. troubles' \in 0 .. MaxTroubles
  BY MishapTypes DEF Reach!Put, ReachTypes
<1>2. PICK x : x = [at |-> "storing", mode |-> m, switched |-> m # mode, moved |-> d # domain]
  OBVIOUS
<1>3. x \in [at : {"storing"}, mode : {"off", "tunnel"}, switched : BOOLEAN, moved : BOOLEAN]
  BY <1>2
<1>4. TaskOK(x)' /\ Reach!Step(r, x) /\ r \in Reach!Tasks
  BY <1>2, <1>3 DEF TaskOK, Reach!Stages, StopStages, Reach!Put, Reach!Tasks
<1>5. DOMAIN tasks' = Reach!Tasks /\ \A u \in Reach!Tasks : TaskOK(tasks[u])'
  BY <1>0, <1>4, StepTypes
<1>6. QED
  BY <1>0, <1>1, <1>5 DEF ReachTypes

LEMMA StoredTypes == ASSUME ReachConstants, ReachTypes, NEW r \in Switches, Reach!Stored(r) PROVE ReachTypes'
<1>0. /\ UNCHANGED <<mode, domain, polls, probe, failures, agents, exits, log, born, troubles, slipped>>
      /\ Known' = Known /\ r \in Reach!Tasks
  BY DEF Reach!Stored, Reach!world, Reach!Smooth, Known, Reach!Tasks
<1>1. tasks[r] \in [at : {"storing"}, mode : {"off", "tunnel"}, switched : BOOLEAN, moved : BOOLEAN]
  BY <1>0 DEF ReachTypes, Reach!Stored, TaskOK
<1>2. keys' \in Row /\ keys'.pid = keys.pid
  <2>1. keys' = [keys EXCEPT !.mode = tasks[r].mode, !.domain = domain] \/ keys' = [keys EXCEPT !.mode = tasks[r].mode]
    BY DEF Reach!Stored
  <2>2. QED
    BY <1>1, <2>1 DEF ReachTypes, Row
<1>3. CASE Reach!BeginStop(r, "start") \/ Reach!BeginStop(r, "end")
  <2>1. "start" \in Ends /\ "end" \in Ends
    BY DEF Ends
  <2>2. /\ retryTimer' = FALSE /\ attempts' \in 0 .. Retries /\ stray' \in Nat
        /\ child' = Absent /\ pid' = Absent /\ Absent \in Known
        /\ link' \in [status : {"off", "starting", "running", "error"}, url : Reach!Urls]
        /\ DOMAIN tasks' = Reach!Tasks /\ \A u \in Reach!Tasks : TaskOK(tasks[u])'
    BY <1>0, <1>3, <2>1, BeginStopTypes
  <2>3. QED
    BY <1>0, <1>2, <2>2 DEF ReachTypes
<1>4. CASE (Reach!BeginAdopt(r) \/ Reach!Step(r, Reach!Idle)) /\ UNCHANGED <<child, pid, link, Reach!ladder>>
  <2>1. PICK x : Reach!Step(r, x) /\ TaskOK(x)'
    BY <1>4, BeginAdoptIs, IdleTaskIs
  <2>2. DOMAIN tasks' = Reach!Tasks /\ \A u \in Reach!Tasks : TaskOK(tasks[u])'
    BY <1>0, <2>1, StepTypes
  <2>3. QED
    BY <1>0, <1>2, <1>4, <2>2 DEF ReachTypes, Reach!ladder
<1>5. QED
  BY <1>3, <1>4 DEF Reach!Stored

LEMMA StoreFailsTypes == ASSUME ReachConstants, ReachTypes, NEW r \in Switches, Reach!StoreFails(r) PROVE ReachTypes'
<1>0. /\ UNCHANGED <<mode, domain, link, child, pid, attempts, retryTimer, stray, polls, probe, failures, agents, exits, log, born>>
      /\ Known' = Known /\ r \in Reach!Tasks /\ slipped' = TRUE /\ Reach!Step(r, Reach!Idle)
  BY DEF Reach!StoreFails, Reach!manager, Reach!world, Known, Reach!Tasks
<1>1. troubles' \in 0 .. MaxTroubles
  BY MishapTypes DEF Reach!StoreFails
<1>2. DOMAIN tasks' = Reach!Tasks /\ \A u \in Reach!Tasks : TaskOK(tasks[u])'
  BY <1>0, StepTypes, IdleTaskIs
<1>3. tasks[r].mode \in {"off", "tunnel"}
  BY <1>0 DEF Reach!StoreFails, ReachTypes, TaskOK
<1>4. keys' \in Row /\ keys'.pid = keys.pid
  <2>1. keys' = keys \/ keys' = [keys EXCEPT !.mode = tasks[r].mode]
    BY DEF Reach!StoreFails
  <2>2. QED
    BY <1>3, <2>1 DEF ReachTypes, Row
<1>5. QED
  BY <1>0, <1>1, <1>2, <1>4 DEF ReachTypes

LEMMA RestartTypes == ASSUME ReachConstants, ReachTypes, Reach!Restart PROVE ReachTypes'
<1>0. /\ UNCHANGED <<keys, agents, log>> /\ Known' = Known /\ Absent \in Known
      /\ child' = Absent /\ pid' = Absent /\ polls' = {} /\ probe' = Absent /\ exits' = {}
      /\ mode' \in Reach!BootModes /\ domain' \in Reach!BootDomains /\ retryTimer' = FALSE
  BY DEF Reach!Restart, Known
<1>1. troubles' \in 0 .. MaxTroubles
  BY MishapTypes DEF Reach!Restart
<1>2. slipped' \in BOOLEAN
  BY DEF Reach!Restart, ReachTypes
<1>3. attempts' \in 0 .. Retries /\ stray' \in Nat /\ failures' \in 0 .. 1 /\ born' \in Nat
  BY DEF Reach!Restart, ReachTypes, ReachConstants
<1>4. link' \in [status : {"off", "starting", "running", "error"}, url : Reach!Urls]
  BY DEF Reach!Restart, Reach!Off, Reach!Urls
<1>5. mode' \in {"off", "tunnel"} /\ domain' \in Hosts
  BY <1>0, BootsAre DEF ReachTypes
<1>6. DOMAIN tasks' = Reach!Tasks /\ \A t \in Reach!Tasks : TaskOK(tasks[t])'
  <2>1. tasks' = [t \in Reach!Tasks |-> IF t = "boot" /\ mode' = "tunnel" THEN [at |-> "reading"] ELSE Reach!Idle]
    BY DEF Reach!Restart, Reach!BootTask
  <2>2. TaskOK([at |-> "reading"])'
    BY DEF TaskOK, Reach!Stages, StopStages
  <2>3. ASSUME NEW t \in Reach!Tasks PROVE TaskOK(tasks[t])'
    BY <2>1, <2>2, IdleTaskIs DEF TaskOK, Reach!Idle
  <2>4. QED
    BY <2>1, <2>3
<1>7. polls' \subseteq 0 .. MaxUrls
  BY <1>0
<1>8. QED
  BY <1>0, <1>1, <1>2, <1>3, <1>4, <1>5, <1>6, <1>7 DEF ReachTypes

(* What the agents do.                                                     *)
LEMMA AgentTypes ==
    ASSUME ReachConstants, ReachTypes, NEW a \in DOMAIN agents, NEW x \in Agent, agents' = [agents EXCEPT ![a] = x],
           UNCHANGED <<mode, domain, link, child, pid, attempts, retryTimer, stray, polls, probe, failures, tasks, keys, born>>,
           log' \in Seq(Reach!Urls), Len(log') <= MaxUrls,
           (exits' = exits /\ a \notin exits) \/ (exits' \subseteq exits \cup {a} /\ ~x.alive),
           troubles' \in 0 .. MaxTroubles, slipped' \in BOOLEAN
    PROVE  ReachTypes'
<1>1. /\ agents' \in Seq(Agent) /\ Len(agents') = Len(agents) /\ Known' = Known
      /\ DOMAIN agents' = DOMAIN agents /\ agents'[a] = x
      /\ \A b \in DOMAIN agents \ {a} : agents'[b] = agents[b]
  BY AgentsOnly
<1>2. \A t \in Reach!Tasks : TaskOK(tasks[t])'
  BY <1>1 DEF ReachTypes, TaskOK
<1>3. exits' \subseteq DOMAIN agents' /\ \A b \in exits' : ~agents'[b].alive
  BY <1>1 DEF ReachTypes
<1>4. QED
  BY <1>1, <1>2, <1>3 DEF ReachTypes

LEMMA LivingAgent ==
    ASSUME ReachTypes, NEW a \in 1 .. Len(agents), Reach!Alive(a)
    PROVE  a \in DOMAIN agents /\ agents[a] \in Agent /\ agents[a].alive /\ a \notin exits
BY DEF ReachTypes, Reach!Alive

LEMMA PrintsTypes == ASSUME ReachConstants, ReachTypes, NEW a \in 1 .. Len(agents), Reach!Prints(a) PROVE ReachTypes'
<1>1. a \in DOMAIN agents /\ agents[a] \in Agent /\ agents[a].alive /\ a \notin exits
  BY LivingAgent DEF Reach!Prints
<1>2. PICK u : /\ u = IF agents[a].domain = Random THEN Len(log) + 1 ELSE agents[a].domain
               /\ log' = Append(log, u) /\ agents' = [agents EXCEPT ![a].url = u, ![a].works = TRUE]
  BY DEF Reach!Prints
<1>3. u \in Reach!Urls
  BY <1>1, <1>2 DEF Reach!Prints, ReachTypes, ReachConstants, Reach!Urls, Agent, Hosts
<1>4. [agents[a] EXCEPT !.url = u, !.works = TRUE] \in Agent
  BY <1>1, <1>3 DEF Agent
<1>5. PICK x \in Agent : x = [agents[a] EXCEPT !.url = u, !.works = TRUE]
  BY <1>4
<1>6. agents' = [agents EXCEPT ![a] = x]
  BY <1>2, <1>5
<1>7. log' \in Seq(Reach!Urls) /\ Len(log') <= MaxUrls
  BY <1>2, <1>3 DEF Reach!Prints, ReachTypes, ReachConstants
<1>8. /\ UNCHANGED <<mode, domain, link, child, pid, attempts, retryTimer, stray, polls, probe, failures, tasks, keys, born, exits>>
      /\ troubles' \in 0 .. MaxTroubles /\ slipped' \in BOOLEAN
  BY DEF Reach!Prints, Reach!manager, Reach!Smooth, ReachTypes
<1>9. QED
  BY <1>1, <1>6, <1>7, <1>8, AgentTypes

LEMMA ReconnectTypes == ASSUME ReachConstants, ReachTypes, NEW a \in 1 .. Len(agents), Reach!Reconnect(a) PROVE ReachTypes'
<1>1. a \in DOMAIN agents /\ agents[a] \in Agent /\ agents[a].alive /\ a \notin exits
  BY LivingAgent DEF Reach!Reconnect
<1>2. PICK u : /\ u = Len(log) + 1 /\ log' = Append(log, u)
               /\ agents' = [agents EXCEPT ![a].url = u, ![a].works = TRUE]
  BY DEF Reach!Reconnect
<1>3. u \in Reach!Urls
  BY <1>1, <1>2 DEF Reach!Reconnect, ReachTypes, ReachConstants, Reach!Urls
<1>4. [agents[a] EXCEPT !.url = u, !.works = TRUE] \in Agent
  BY <1>1, <1>3 DEF Agent
<1>5. PICK x \in Agent : x = [agents[a] EXCEPT !.url = u, !.works = TRUE]
  BY <1>4
<1>6. agents' = [agents EXCEPT ![a] = x]
  BY <1>2, <1>5
<1>7. log' \in Seq(Reach!Urls) /\ Len(log') <= MaxUrls
  BY <1>2, <1>3 DEF Reach!Reconnect, ReachTypes, ReachConstants
<1>8. /\ UNCHANGED <<mode, domain, link, child, pid, attempts, retryTimer, stray, polls, probe, failures, tasks, keys, born, exits>>
      /\ slipped' \in BOOLEAN
  BY DEF Reach!Reconnect, Reach!manager, ReachTypes
<1>9. troubles' \in 0 .. MaxTroubles
  BY MishapTypes DEF Reach!Reconnect
<1>10. QED
  BY <1>1, <1>6, <1>7, <1>8, <1>9, AgentTypes

LEMMA WedgeTypes == ASSUME ReachConstants, ReachTypes, NEW a \in 1 .. Len(agents), Reach!Wedge(a) PROVE ReachTypes'
<1>1. a \in DOMAIN agents /\ agents[a] \in Agent /\ agents[a].alive /\ a \notin exits
  BY LivingAgent DEF Reach!Wedge
<1>2. [agents[a] EXCEPT !.works = FALSE] \in Agent
  BY <1>1 DEF Agent
<1>3. PICK x \in Agent : x = [agents[a] EXCEPT !.works = FALSE]
  BY <1>2
<1>4. agents' = [agents EXCEPT ![a] = x]
  BY <1>3 DEF Reach!Wedge
<1>5. /\ UNCHANGED <<mode, domain, link, child, pid, attempts, retryTimer, stray, polls, probe, failures, tasks, keys, born, exits>>
      /\ slipped' \in BOOLEAN /\ log' \in Seq(Reach!Urls) /\ Len(log') <= MaxUrls
  BY DEF Reach!Wedge, Reach!manager, Reach!world, ReachTypes
<1>6. troubles' \in 0 .. MaxTroubles
  BY MishapTypes DEF Reach!Wedge
<1>7. QED
  BY <1>1, <1>4, <1>5, <1>6, AgentTypes

LEMMA ExitTypes == ASSUME ReachConstants, ReachTypes, NEW a \in 1 .. Len(agents), Reach!Exit(a) PROVE ReachTypes'
<1>1. a \in DOMAIN agents /\ agents[a] \in Agent /\ agents[a].alive /\ a \notin exits
  BY LivingAgent DEF Reach!Exit
<1>2. [agents[a] EXCEPT !.alive = FALSE] \in Agent /\ ~[agents[a] EXCEPT !.alive = FALSE].alive
  BY <1>1 DEF Agent
<1>3. PICK x \in Agent : x = [agents[a] EXCEPT !.alive = FALSE] /\ ~x.alive
  BY <1>2
<1>4. agents' = [agents EXCEPT ![a] = x]
  BY <1>3 DEF Reach!Exit
<1>5. /\ UNCHANGED <<mode, domain, link, child, pid, attempts, retryTimer, stray, polls, probe, failures, tasks, keys, born>>
      /\ log' \in Seq(Reach!Urls) /\ Len(log') <= MaxUrls
      /\ exits' \subseteq exits \cup {a}
  BY DEF Reach!Exit, Reach!manager, Reach!world, ReachTypes
<1>6. troubles' \in 0 .. MaxTroubles /\ slipped' \in BOOLEAN
  BY MishapTypes DEF Reach!Exit, ReachTypes
<1>7. QED
  BY <1>1, <1>3, <1>4, <1>5, <1>6, AgentTypes

LEMMA NextReachTypes == ASSUME ReachConstants PROVE ReachTypes /\ [Reach!Next]_Reach!vars => ReachTypes'
<1> SUFFICES ASSUME ReachTypes, [Reach!Next]_Reach!vars PROVE ReachTypes'
  OBVIOUS
<1>1. ASSUME NEW t \in Reach!Tasks, Reach!Killed(t) \/ Reach!Cull(t) \/ Reach!Clear(t) \/ Reach!Read(t) \/ Reach!Ask(t) \/ Reach!Purge(t) \/ Reach!Replace(t)
      PROVE  ReachTypes'
  BY <1>1, KilledTypes, CullTypes, ClearTypes, ReadTypes, AskTypes, PurgeTypes, ReplaceTypes
<1>2. CASE (\E from \in polls : Reach!Poll(from)) \/ (\E a \in exits : Reach!HandleExit(a)) \/ Reach!RetryFires \/ Reach!ProbeStart \/ Reach!ProbeVerdict
  BY <1>2, PollTypes, HandleExitTypes, RetryTypes, ProbeStartTypes, VerdictTypes
<1>3. ASSUME NEW r \in Switches, Reach!Stored(r) \/ Reach!StoreFails(r) PROVE ReachTypes'
  BY <1>3, StoredTypes, StoreFailsTypes
<1>4. CASE Reach!Restart
  BY <1>4, RestartTypes
<1>5. ASSUME NEW r \in Switches, NEW m \in {"off", "tunnel"}, NEW d \in Hosts, Reach!Put(r, m, d) PROVE ReachTypes'
  BY <1>5, PutTypes
<1>6. ASSUME NEW a \in 1 .. Len(agents), Reach!Prints(a) \/ Reach!Reconnect(a) \/ Reach!Wedge(a) \/ Reach!Exit(a) PROVE ReachTypes'
  BY <1>6, PrintsTypes, ReconnectTypes, WedgeTypes, ExitTypes
<1>7. CASE UNCHANGED Reach!vars
  BY <1>7 DEF Reach!vars, Reach!manager, Reach!world, ReachTypes, TaskOK, Known
<1>8. QED
  BY <1>1, <1>2, <1>3, <1>4, <1>5, <1>6, <1>7 DEF Reach!Next, Reach!Manage, Hosts

-----------------------------------------------------------------------------
(* One task at a time, if nothing slipped: what its await knows.           *)

(* A stopping task took the agent it stops from the manager.               *)
OursStop(x) ==
    /\ child = Absent /\ pid = Absent /\ link = Reach!Off
    /\ Reach!Live \subseteq {x.victim}
    /\ x.at = "clearing" => Reach!Live = {}
    /\ x.next \in {"start", "adopt"} => mode = "tunnel"

(* The row leads a boot to the agent that runs.                            *)
Named == keys.url # Absent /\ Reach!Expected(keys.url)

(* An adopting one asks for the agent of the row.                          *)
OursAdopt(x) ==
    /\ child = Absent /\ mode = "tunnel" /\ Reach!Live \subseteq {keys.pid}
    /\ x.at \in {"reading", "asking"} /\ Reach!Live # {} => Named
    /\ x.at \in {"asking", "purging"} => x.victim = keys.pid
    /\ x.at = "asking" => Reach!Expected(x.url)
    /\ x.at = "purged" => Reach!Live = {}

(* An agent that is not our child is the one of the row.                   *)
OursAdopted == \A a \in Reach!Live : a # child => a = keys.pid /\ Named
OursOff == link.status = "off" /\ Reach!Live = {}

(* A storing one has set the mode and not yet acted on it.                 *)
OursStoring(x) ==
    /\ Reach!Live \subseteq {pid} /\ x.mode = mode
    /\ mode = "off" /\ ~x.switched => OursOff
    /\ ~x.moved => OursAdopted

OursIdle == Reach!Live \subseteq {pid} /\ OursAdopted /\ (mode = "off" => OursOff)

(* The child, or the agent the task is stopping.                           *)
Handled(a, x) == a = child \/ (x.at \in StopStages /\ x.victim = a)

(* The row may name no agent, or one that is gone: nobody waits for what   *)
(* is written of it.                                                       *)
OursBy(x) ==
    /\ child # Absent => child = pid
    /\ \A a \in exits : Handled(a, x)
    /\ \A a \in Reach!Live : a > born => Handled(a, x)
    /\ x.at \notin StopStages /\ (retryTimer \/ stray > 0) => Reach!Live \subseteq {child}
    /\ x.at = "idle" => OursIdle
    /\ x.at \in StopStages => OursStop(x)
    /\ x.at \in AdoptStages => OursAdopt(x)
    /\ x.at = "storing" => OursStoring(x)

Sole(t) == \A u \in Reach!Tasks \ {t} : tasks[u].at = "idle"
Ours    == \E t \in Reach!Tasks : Sole(t) /\ OursBy(tasks[t])

TunnelInv == ReachTypes /\ (slipped \/ Ours)

LEMMA LiveAre ==
    ASSUME ReachConstants, ReachTypes
    PROVE  /\ Reach!Live \subseteq DOMAIN agents /\ DOMAIN agents = 1 .. Len(agents) /\ Len(agents) \in Nat
           /\ Absent \notin DOMAIN agents
           /\ \A a \in Known : Reach!Alive(a) <=> a \in Reach!Live
           /\ \A a \in exits : a \notin Reach!Live /\ a # Absent
           /\ IsFiniteSet(DOMAIN agents)
<1>1. Reach!Live \subseteq DOMAIN agents /\ DOMAIN agents = 1 .. Len(agents) /\ Len(agents) \in Nat
  BY DEF ReachTypes, Reach!Live
<1>2. Absent \notin DOMAIN agents
  BY <1>1 DEF ReachConstants
<1>3. \A a \in Known : Reach!Alive(a) <=> a \in Reach!Live
  BY <1>2 DEF Reach!Live, Reach!Alive, Known
<1>4. \A a \in exits : a \notin Reach!Live /\ a # Absent
  BY <1>2 DEF ReachTypes, Reach!Live
<1>5. IsFiniteSet(DOMAIN agents)
  BY <1>1, FS_Interval
<1>6. QED
  BY <1>1, <1>2, <1>3, <1>4, <1>5

LEMMA DeadAgent ==
    ASSUME ReachTypes, NEW a \in DOMAIN agents, agents' = [agents EXCEPT ![a].alive = FALSE]
    PROVE  /\ DOMAIN agents' = DOMAIN agents /\ ~agents'[a].alive
           /\ \A b \in DOMAIN agents \ {a} : agents'[b] = agents[b]
<1>0. agents[a] \in Agent
  BY DEF ReachTypes
<1>1. [agents[a] EXCEPT !.alive = FALSE] \in Agent /\ ~[agents[a] EXCEPT !.alive = FALSE].alive
  BY <1>0 DEF Agent
<1>2. PICK x \in Agent : x = [agents[a] EXCEPT !.alive = FALSE] /\ ~x.alive
  BY <1>1
<1>3. agents' = [agents EXCEPT ![a] = x]
  BY <1>2
<1>4. QED
  BY <1>2, <1>3, AgentsOnly

LEMMA StagesApart ==
    /\ \A p \in StopStages : p \notin {"idle", "storing"} /\ p \notin AdoptStages
    /\ \A p \in AdoptStages : p \notin {"idle", "storing"} /\ p \notin StopStages
BY DEF StopStages, AdoptStages

LEMMA InitOurs == ASSUME ReachConstants, Reach!Init PROVE Ours
<1>1. Reach!Live = {}
  BY DEF Reach!Init, Reach!Live
<1>2. /\ child = Absent /\ link = Reach!Off /\ exits = {} /\ retryTimer = FALSE /\ stray = 0
      /\ tasks = Reach!BootTask(mode)
  BY DEF Reach!Init
<1>3. PICK q : q = IF mode = "tunnel" THEN [at |-> "reading"] ELSE Reach!Idle
  OBVIOUS
<1>4. OursBy(q)
  <2>1. \/ q.at = "reading" /\ mode = "tunnel" /\ q.at \notin StopStages
        \/ q.at = "idle" /\ q.at \notin StopStages /\ q.at \notin AdoptStages
    BY <1>3, IdleTaskIs, StagesApart DEF StopStages
  <2>2. q.at = "reading" => mode = "tunnel" /\ OursAdopt(q)
    BY <1>1, <1>2, <2>1 DEF OursAdopt
  <2>3. OursIdle
    BY <1>1, <1>2 DEF OursIdle, OursAdopted, OursOff, Reach!Off
  <2>4. QED
    BY <1>1, <1>2, <2>1, <2>2, <2>3 DEF OursBy
<1>5. "boot" \in Reach!Tasks /\ tasks["boot"] = q /\ Sole("boot")
  BY <1>2, <1>3, IdleTaskIs DEF Reach!BootTask, Reach!Tasks, Sole
<1>6. QED
  BY <1>4, <1>5 DEF Ours

(* The task at work is the sole one, and goes on.                          *)
LEMMA SoleMoves ==
    ASSUME ReachTypes, NEW t \in Reach!Tasks, Sole(t), NEW q, Reach!Step(t, q), OursBy(q)'
    PROVE  Ours'
<1>1. tasks'[t] = q /\ \A u \in Reach!Tasks \ {t} : tasks'[u] = tasks[u]
  BY DEF Reach!Step, ReachTypes
<1>2. Sole(t)'
  BY <1>1 DEF Sole
<1>3. OursBy(tasks[t])'
  BY <1>1
<1>4. QED
  BY <1>2, <1>3 DEF Ours

LEMMA SoleStays ==
    ASSUME NEW t \in Reach!Tasks, Sole(t), UNCHANGED tasks, NEW q, q = tasks[t], OursBy(q)'
    PROVE  Ours'
<1>1. Sole(t)' /\ tasks'[t] = q
  BY DEF Sole
<1>2. OursBy(tasks[t])'
  BY <1>1
<1>3. QED
  BY <1>1, <1>2 DEF Ours

(* Who is busy is sole; with nobody busy anybody is.                       *)
LEMMA BusyIsSole ==
    ASSUME ReachTypes, Ours, NEW t \in Reach!Tasks, tasks[t].at # "idle"
    PROVE  Sole(t) /\ OursBy(tasks[t])
BY DEF Ours, Sole

LEMMA RestIsSole ==
    ASSUME ReachTypes, Ours, Reach!Busy = {}, NEW t \in Reach!Tasks
    PROVE  Sole(t) /\ tasks[t].at = "idle" /\ OursBy(Reach!Idle)
<1>1. \A u \in Reach!Tasks : tasks[u].at = "idle"
  BY DEF Reach!Busy
<1>2. PICK u \in Reach!Tasks : OursBy(tasks[u])
  BY DEF Ours
<1>3. OursBy(Reach!Idle)
  BY <1>1, <1>2, IdleTaskIs, StagesApart DEF OursBy, Handled
<1>4. QED
  BY <1>1, <1>3 DEF Sole

(* Whatever leaves the manager, the row and the tasks alone and starts no  *)
(* agent.                                                                  *)
LEMMA FewerAgents ==
    ASSUME NEW x, OursBy(x), Reach!Live' \subseteq Reach!Live,
           UNCHANGED <<mode, domain, link, child, pid, retryTimer, stray, keys, born>>,
           \A a \in exits' : Handled(a, x)
    PROVE  OursBy(x)'
BY DEF OursBy, OursStop, OursAdopt, Named, OursAdopted, OursOff, OursStoring, OursIdle, Handled, Reach!Expected

(* A start with nothing there to run beside it.                            *)
LEMMA StartOurs ==
    ASSUME ReachConstants, ReachTypes, NEW kept, Reach!StartTunnel(kept),
           child = Absent, Reach!Live = {}, exits = {}, mode = "tunnel",
           UNCHANGED <<mode, domain, exits, born>>
    PROVE  OursBy(Reach!Idle)'
<1>0. Reach!Idle.at \notin StopStages /\ Reach!Idle.at \notin AdoptStages /\ Reach!Idle.at = "idle"
  BY IdleTaskIs, StagesApart
<1>1. CASE child' = Absent /\ UNCHANGED agents
  <2>1. Reach!Live' = {}
    BY <1>1 DEF Reach!Live
  <2>2. OursIdle'
    BY <1>1, <2>1 DEF OursIdle, OursAdopted, Named
  <2>3. QED
    BY <1>0, <1>1, <2>1, <2>2 DEF OursBy, Handled
<1>2. CASE /\ Len(agents) < MaxAgents
           /\ agents' = Append(agents, [alive |-> TRUE, url |-> Absent, works |-> FALSE, domain |-> domain])
           /\ child' = Len(agents) + 1 /\ pid' = Len(agents) + 1
  <2>1. [alive |-> TRUE, url |-> Absent, works |-> FALSE, domain |-> domain] \in Agent
    BY DEF ReachTypes, Agent, Reach!Urls
  <2>2. PICK n : n = Len(agents) + 1
    OBVIOUS
  <2>3. DOMAIN agents' = DOMAIN agents \cup {n} /\ \A a \in DOMAIN agents : agents'[a] = agents[a]
    BY <1>2, <2>1, <2>2, SpawnedAgents
  <2>4. Reach!Live' \subseteq {n}
    BY <2>3 DEF Reach!Live
  <2>5. child' = n /\ pid' = n
    BY <1>2, <2>2
  <2>6. OursIdle'
    BY <1>2, <2>4, <2>5 DEF OursIdle, OursAdopted, Named
  <2>7. QED
    BY <1>0, <1>2, <2>4, <2>5, <2>6 DEF OursBy, Handled
<1>3. QED
  BY <1>1, <1>2 DEF Reach!StartTunnel

LEMMA KilledOurs == ASSUME ReachConstants, ReachTypes, NEW t \in Reach!Tasks, Ours, Reach!Killed(t) PROVE Ours'
<1>1. tasks[t].at = "killing" /\ Sole(t) /\ OursBy(tasks[t]) /\ TaskOK(tasks[t])
  BY BusyIsSole DEF Reach!Killed, ReachTypes
<1>2. PICK x : x = tasks[t]
  OBVIOUS
<1>3. PICK q : q = [x EXCEPT !.at = "culling"]
  OBVIOUS
<1>4. x.at = "killing" /\ OursBy(x) /\ TaskOK(x)
  BY <1>1, <1>2
<1>5. q.at = "culling" /\ q.victim = x.victim /\ q.next = x.next
  BY <1>3, <1>4 DEF TaskOK, StopStages
<1>6. UNCHANGED <<mode, domain, link, child, pid, retryTimer, stray, keys, agents, exits, born>> /\ Reach!Live' = Reach!Live
  BY DEF Reach!Killed, Reach!manager, Reach!world, Reach!Live
<1>7. OursBy(x)'
  BY <1>4, <1>6, FewerAgents DEF OursBy
<1>8. OursBy(q)'
  BY <1>4, <1>5, <1>7, StagesApart DEF OursBy, OursStop, Handled, StopStages
<1>9. Reach!Step(t, q)
  BY <1>2, <1>3 DEF Reach!Killed
<1>10. QED
  BY <1>1, <1>8, <1>9, SoleMoves

(* taskkill leaves nothing of the agent, or the step is excused.           *)
LEMMA KillOurs ==
    ASSUME ReachConstants, ReachTypes, NEW a \in Known, Reach!Kill(a), ~slipped', Reach!Live \subseteq {a}
    PROVE  /\ Reach!Live' = {} /\ exits' \subseteq exits \cup {a} /\ (exits' = exits \/ (a \in Reach!Live /\ a > born))
<1>1. CASE ~Reach!Alive(a) /\ UNCHANGED <<agents, exits>>
  <2>1. Reach!Live = {} /\ Reach!Live' = Reach!Live
    BY <1>1, LiveAre DEF Reach!Live
  <2>2. QED
    BY <1>1, <2>1
<1>2. CASE /\ Reach!Alive(a) /\ agents' = [agents EXCEPT ![a].alive = FALSE]
           /\ exits' = IF a > born THEN exits \cup {a} ELSE exits
  <2>1. a \in Reach!Live /\ a \in DOMAIN agents
    BY <1>2, LiveAre
  <2>2. DOMAIN agents' = DOMAIN agents /\ ~agents'[a].alive /\ \A b \in DOMAIN agents \ {a} : agents'[b] = agents[b]
    BY <1>2, <2>1, DeadAgent
  <2>3. Reach!Live' = {}
    BY <2>2 DEF Reach!Live
  <2>4. QED
    BY <1>2, <2>1, <2>3
<1>3. QED
  BY <1>1, <1>2 DEF Reach!Kill

LEMMA CullOurs == ASSUME ReachConstants, ReachTypes, NEW t \in Reach!Tasks, Ours, Reach!Cull(t), ~slipped' PROVE Ours'
<1>1. tasks[t].at = "culling" /\ Sole(t) /\ OursBy(tasks[t]) /\ TaskOK(tasks[t])
  BY BusyIsSole DEF Reach!Cull, ReachTypes
<1>2. PICK x : x = tasks[t]
  OBVIOUS
<1>3. PICK q : q = [x EXCEPT !.at = "clearing"]
  OBVIOUS
<1>4. x.at = "culling" /\ OursBy(x) /\ TaskOK(x)
  BY <1>1, <1>2
<1>5. q.at = "clearing" /\ q.victim = x.victim /\ q.next = x.next /\ x.victim \in Known
  BY <1>3, <1>4 DEF TaskOK, StopStages
<1>6. UNCHANGED <<mode, domain, link, child, pid, retryTimer, stray, keys, born>> /\ Reach!Kill(x.victim)
  BY <1>2 DEF Reach!Cull, Reach!manager, Reach!world
<1>7. OursStop(x)
  BY <1>4 DEF OursBy, StopStages
<1>8. Reach!Live' = {} /\ exits' \subseteq exits \cup {x.victim}
  BY <1>5, <1>6, <1>7, KillOurs DEF OursStop
<1>9. OursBy(x)'
  BY <1>4, <1>6, <1>8, FewerAgents DEF OursBy, Handled, StopStages
<1>10. OursBy(q)'
  BY <1>4, <1>5, <1>8, <1>9, StagesApart DEF OursBy, OursStop, Handled, StopStages
<1>11. Reach!Step(t, q)
  BY <1>2, <1>3 DEF Reach!Cull
<1>12. QED
  BY <1>1, <1>10, <1>11, SoleMoves

LEMMA ClearOurs == ASSUME ReachConstants, ReachTypes, NEW t \in Reach!Tasks, Ours, Reach!Clear(t) PROVE Ours'
<1>1. tasks[t].at = "clearing" /\ Sole(t) /\ OursBy(tasks[t]) /\ TaskOK(tasks[t])
  BY BusyIsSole DEF Reach!Clear, ReachTypes
<1>2. PICK x : x = tasks[t]
  OBVIOUS
<1>3. x.at = "clearing" /\ OursBy(x) /\ TaskOK(x) /\ OursStop(x) /\ Reach!Live = {}
  BY <1>1, <1>2 DEF OursBy, OursStop, StopStages
<1>4. exits = {} /\ child = Absent /\ pid = Absent /\ link = Reach!Off
  BY <1>2, <1>3, LiveAre DEF Reach!Clear, OursBy, OursStop, Handled
<1>5. UNCHANGED <<mode, domain, exits, born, retryTimer, stray>>
  BY DEF Reach!Clear, Reach!ladder, Reach!world
<1>7. CASE x.next = "start" /\ Reach!StartTunnel(Reach!Forgotten) /\ Reach!Step(t, Reach!Idle)
  <2>1. mode = "tunnel"
    BY <1>3, <1>7 DEF OursStop
  <2>2. OursBy(Reach!Idle)'
    BY <1>3, <1>4, <1>5, <1>7, <2>1, StartOurs
  <2>3. QED
    BY <1>1, <1>7, <2>2, SoleMoves
<1>8. CASE /\ (x.next = "adopt" /\ Reach!BeginAdopt(t)) \/ (x.next = "end" /\ Reach!Step(t, Reach!Idle))
           /\ UNCHANGED <<agents, child, pid, link, polls>>
  <2>1. Reach!Live' = {}
    BY <1>3, <1>8 DEF Reach!Live
  <2>2. PICK q : /\ Reach!Step(t, q)
                 /\ q = Reach!Idle \/ (q = [at |-> "reading"] /\ mode = "tunnel")
    BY <1>3, <1>8 DEF Reach!BeginAdopt, OursStop
  <2>3. q.at = "idle" \/ (q.at = "reading" /\ mode = "tunnel")
    BY <2>2, IdleTaskIs
  <2>4. q.at \notin StopStages /\ q.at # "storing" /\ (q.at \in AdoptStages => q.at = "reading")
    BY <2>3 DEF StopStages, AdoptStages
  <2>5. link'.status = "off"
    BY <1>4, <1>8 DEF Reach!Off
  <2>6. OursIdle'
    BY <1>8, <2>1, <2>5 DEF OursIdle, OursAdopted, Named, OursOff
  <2>7. OursBy(q)'
    BY <1>4, <1>5, <1>8, <2>1, <2>3, <2>4, <2>5, <2>6 DEF OursBy, OursAdopt, Named, Handled
  <2>8. QED
    BY <1>1, <2>2, <2>7, SoleMoves
<1>9. QED
  BY <1>2, <1>7, <1>8 DEF Reach!Clear

LEMMA ReadOurs == ASSUME ReachConstants, ReachTypes, NEW t \in Reach!Tasks, Ours, Reach!Read(t) PROVE Ours'
<1>1. tasks[t].at = "reading" /\ Sole(t) /\ OursBy(tasks[t])
  BY BusyIsSole DEF Reach!Read
<1>2. PICK x : x = tasks[t]
  OBVIOUS
<1>3. x.at = "reading" /\ OursBy(x) /\ OursAdopt(x) /\ x.at \notin StopStages
  BY <1>1, <1>2, StagesApart DEF OursBy, AdoptStages
<1>4. exits = {} /\ child = Absent /\ mode = "tunnel" /\ Reach!Live \subseteq {keys.pid}
  BY <1>3, LiveAre DEF OursBy, OursAdopt, Handled
<1>5. UNCHANGED <<mode, domain, exits, born, retryTimer, stray>>
  BY DEF Reach!Read, Reach!ladder, Reach!world
<1>6. Reach!Alive(keys.pid) <=> keys.pid \in Reach!Live
  BY LiveAre DEF ReachTypes
<1>7. CASE Reach!Alive(keys.pid) /\ keys.url # Absent /\ Reach!Expected(keys.url)
  <2>1. PICK q : q = [at |-> "asking", victim |-> keys.pid, url |-> keys.url]
    OBVIOUS
  <2>2. Reach!Step(t, q) /\ UNCHANGED <<agents, child, pid, link, keys>>
    BY <1>7, <2>1 DEF Reach!Read
  <2>3. q.at = "asking" /\ q.victim = keys.pid /\ q.url = keys.url
    BY <2>1
  <2>4. Reach!Live' = Reach!Live
    BY <2>2 DEF Reach!Live
  <2>5. OursBy(x)'
    BY <1>3, <1>5, <2>2, <2>4, FewerAgents DEF OursBy
  <2>6. OursAdopt(q)'
    BY <1>4, <1>5, <1>7, <2>2, <2>3, <2>4 DEF OursAdopt, Named, Reach!Expected
  <2>7. OursBy(q)'
    BY <1>3, <2>3, <2>5, <2>6, StagesApart DEF OursBy, Handled, StopStages
  <2>8. QED
    BY <1>1, <2>2, <2>7, SoleMoves
<1>8. CASE ~(Reach!Alive(keys.pid) /\ keys.url # Absent /\ Reach!Expected(keys.url))
  <2>1. Reach!Live = {}
    BY <1>3, <1>4, <1>6, <1>8 DEF OursAdopt, Named
  <2>2. Reach!StartTunnel(keys) /\ Reach!Step(t, Reach!Idle)
    BY <1>8 DEF Reach!Read
  <2>3. OursBy(Reach!Idle)'
    BY <1>4, <1>5, <2>1, <2>2, StartOurs DEF ReachTypes
  <2>4. QED
    BY <1>1, <2>2, <2>3, SoleMoves
<1>9. QED
  BY <1>7, <1>8

LEMMA AskOurs == ASSUME ReachConstants, ReachTypes, NEW t \in Reach!Tasks, Ours, Reach!Ask(t) PROVE Ours'
<1>1. tasks[t].at = "asking" /\ Sole(t) /\ OursBy(tasks[t]) /\ TaskOK(tasks[t])
  BY BusyIsSole DEF Reach!Ask, ReachTypes
<1>2. PICK x : x = tasks[t]
  OBVIOUS
<1>3. x.at = "asking" /\ OursBy(x) /\ OursAdopt(x) /\ x.at \notin StopStages /\ x \in [at : {"asking", "purging"}, victim : Known, url : Reach!Urls]
  BY <1>1, <1>2, StagesApart DEF OursBy, AdoptStages, TaskOK
<1>4. /\ UNCHANGED <<mode, domain, child, agents, exits, born, retryTimer, stray>> /\ Reach!Live' = Reach!Live
      /\ child = Absent /\ mode = "tunnel" /\ Reach!Live \subseteq {keys.pid} /\ (Reach!Live # {} => Named)
      /\ x.victim = keys.pid /\ Reach!Expected(x.url)
  BY <1>3 DEF Reach!Ask, Reach!ladder, Reach!world, Reach!Live, OursBy, OursAdopt, Named
<1>5. PICK u : u = Reach!Reached(x.url)
  OBVIOUS
<1>6. u \in Reach!Urls /\ (u # Absent => Reach!Expected(u))
  BY <1>3, <1>4, <1>5, ReachedIs
<1>7. CASE /\ u # Absent /\ pid' = x.victim /\ link' = [status |-> "running", url |-> u]
           /\ keys' \in Reach!Landed([keys EXCEPT !.url = u]) /\ Reach!Step(t, Reach!Idle)
  <2>1. keys'.pid = keys.pid /\ keys'.url \in {keys.url, u}
    BY <1>6, <1>7, UrlLands
  <2>3. OursIdle'
    BY <1>3, <1>4, <1>6, <1>7, <2>1 DEF OursIdle, OursAdopted, Named, OursBy, Reach!Expected
  <2>4. OursBy(Reach!Idle)'
    BY <1>3, <1>4, <1>7, <2>1, <2>3, IdleTaskIs, StagesApart DEF OursBy, Handled
  <2>5. QED
    BY <1>1, <1>7, <2>4, SoleMoves
<1>8. CASE Reach!Step(t, [x EXCEPT !.at = "purging"]) /\ UNCHANGED <<pid, link, keys>>
  <2>1. PICK q : q = [x EXCEPT !.at = "purging"]
    OBVIOUS
  <2>2. q.at = "purging" /\ q.victim = x.victim /\ Reach!Step(t, q)
    BY <1>3, <1>8, <2>1
  <2>3. OursBy(x)'
    BY <1>3, <1>4, <1>8, FewerAgents DEF OursBy
  <2>4. OursAdopt(q)'
    BY <1>4, <1>8, <2>2 DEF OursAdopt, Named
  <2>5. OursBy(q)'
    BY <1>3, <2>2, <2>3, <2>4, StagesApart DEF OursBy, Handled, StopStages
  <2>6. QED
    BY <1>1, <2>2, <2>5, SoleMoves
<1>9. QED
  BY <1>2, <1>5, <1>7, <1>8 DEF Reach!Ask

LEMMA PurgeOurs == ASSUME ReachConstants, ReachTypes, NEW t \in Reach!Tasks, Ours, Reach!Purge(t), ~slipped' PROVE Ours'
<1>1. tasks[t].at = "purging" /\ Sole(t) /\ OursBy(tasks[t]) /\ TaskOK(tasks[t])
  BY BusyIsSole DEF Reach!Purge, ReachTypes
<1>2. PICK x : x = tasks[t]
  OBVIOUS
<1>3. x.at = "purging" /\ OursBy(x) /\ OursAdopt(x) /\ x.at \notin StopStages /\ x.victim \in Known
  BY <1>1, <1>2, StagesApart DEF OursBy, AdoptStages, TaskOK
<1>4. /\ UNCHANGED <<mode, domain, link, child, pid, retryTimer, stray, keys, born>> /\ Reach!Kill(x.victim)
      /\ child = Absent /\ x.victim = keys.pid /\ Reach!Live \subseteq {x.victim} /\ exits = {}
  BY <1>2, <1>3, LiveAre DEF Reach!Purge, Reach!manager, Reach!world, OursBy, OursAdopt, Named, Handled
<1>5. Reach!Live' = {} /\ (exits' = exits \/ (x.victim \in Reach!Live /\ x.victim > born))
  BY <1>3, <1>4, KillOurs
<1>6. exits' = {}
  <2>1. ~(x.victim \in Reach!Live /\ x.victim > born)
    BY <1>3, <1>4, LiveAre DEF OursBy, Handled
  <2>2. QED
    BY <1>4, <1>5, <2>1
<1>7. OursBy(x)'
  BY <1>3, <1>4, <1>5, <1>6, FewerAgents
<1>8. PICK q : q = [at |-> "purged"]
  OBVIOUS
<1>9. q.at = "purged" /\ Reach!Step(t, q)
  BY <1>8 DEF Reach!Purge
<1>10. OursAdopt(q)'
  BY <1>3, <1>4, <1>5, <1>9 DEF OursAdopt, Named
<1>11. OursBy(q)'
  BY <1>3, <1>4, <1>6, <1>7, <1>9, <1>10, StagesApart DEF OursBy, Handled, StopStages
<1>12. QED
  BY <1>1, <1>9, <1>11, SoleMoves

LEMMA ReplaceOurs == ASSUME ReachConstants, ReachTypes, NEW t \in Reach!Tasks, Ours, Reach!Replace(t) PROVE Ours'
<1>1. tasks[t].at = "purged" /\ Sole(t) /\ OursBy(tasks[t])
  BY BusyIsSole DEF Reach!Replace
<1>2. PICK x : x = tasks[t]
  OBVIOUS
<1>3. x.at = "purged" /\ OursBy(x) /\ OursAdopt(x) /\ x.at \notin StopStages
  BY <1>1, <1>2, StagesApart DEF OursBy, AdoptStages
<1>4. exits = {} /\ child = Absent /\ mode = "tunnel" /\ Reach!Live = {}
  BY <1>3, LiveAre DEF OursBy, OursAdopt, Named, Handled
<1>5. UNCHANGED <<mode, domain, exits, born>> /\ Reach!StartTunnel(Reach!Forgotten) /\ Reach!Step(t, Reach!Idle)
  BY DEF Reach!Replace, Reach!world
<1>6. OursBy(Reach!Idle)'
  BY <1>4, <1>5, StartOurs
<1>7. QED
  BY <1>1, <1>5, <1>6, SoleMoves

(* What happens beside the task at work.                                   *)
LEMMA PollOurs == ASSUME ReachConstants, ReachTypes, NEW from, Ours, Reach!Poll(from) PROVE Ours'
<1>1. PICK t \in Reach!Tasks : Sole(t) /\ OursBy(tasks[t])
  BY DEF Ours
<1>2. PICK x : x = tasks[t]
  OBVIOUS
<1>3. OursBy(x)
  BY <1>1, <1>2
<1>4. /\ UNCHANGED <<mode, domain, child, pid, retryTimer, stray, tasks, agents, exits, born>> /\ Reach!Live' = Reach!Live
      /\ from \in polls
  BY DEF Reach!Poll, Reach!world, Reach!Live
<1>5. CASE UNCHANGED <<link, attempts, keys>>
  <2>1. OursBy(x)'
    BY <1>3, <1>4, <1>5, FewerAgents DEF OursBy
  <2>2. QED
    BY <1>1, <1>2, <1>4, <2>1, SoleStays
<1>6. ASSUME link.status = "starting" PROVE x.at \notin StopStages /\ ~OursOff
  BY <1>3, <1>6 DEF OursBy, OursStop, Reach!Off, OursOff
<1>7. CASE /\ link.status = "starting" /\ Reach!Newest(from) # Absent
           /\ link' = [status |-> "running", url |-> Reach!Newest(from)]
           /\ keys' \in Reach!Landed([keys EXCEPT !.url = Reach!Newest(from)])
  <2>1. PICK u : u = Reach!Newest(from)
    OBVIOUS
  <2>2. u \in Reach!Urls /\ Reach!Expected(u) /\ u # Absent
    BY <1>4, <1>7, <2>1, NewestIs
  <2>3. keys'.pid = keys.pid /\ keys'.url \in {keys.url, u}
    BY <1>7, <2>1, <2>2, UrlLands
  <2>4. Named => Named'
    BY <1>4, <2>2, <2>3 DEF Named, Reach!Expected
  <2>5. (OursAdopted => OursAdopted') /\ ~OursOff /\ x.at \notin StopStages
    BY <1>4, <1>6, <1>7, <2>3, <2>4 DEF OursAdopted
  <2>6. x.at = "idle" => OursIdle'
    BY <1>3, <1>4, <2>5 DEF OursBy, OursIdle
  <2>7. x.at \in AdoptStages => OursAdopt(x)'
    BY <1>3, <1>4, <2>3, <2>4 DEF OursBy, OursAdopt, Reach!Expected
  <2>8. x.at = "storing" => OursStoring(x)'
    BY <1>3, <1>4, <2>5 DEF OursBy, OursStoring
  <2>9. OursBy(x)'
    BY <1>3, <1>4, <2>5, <2>6, <2>7, <2>8 DEF OursBy, Handled
  <2>10. QED
    BY <1>1, <1>2, <1>4, <2>9, SoleStays
<1>8. CASE link.status = "starting" /\ link' = [link EXCEPT !.status = "error"] /\ UNCHANGED <<attempts, keys>>
  <2>2. ~OursOff /\ x.at \notin StopStages /\ (OursAdopted => OursAdopted')
    BY <1>4, <1>6, <1>8 DEF OursAdopted, Named, Reach!Expected
  <2>3. x.at = "idle" => OursIdle'
    BY <1>3, <1>4, <2>2 DEF OursBy, OursIdle
  <2>4. x.at \in AdoptStages => OursAdopt(x)'
    BY <1>3, <1>4, <1>8 DEF OursBy, OursAdopt, Named, Reach!Expected
  <2>5. x.at = "storing" => OursStoring(x)'
    BY <1>3, <1>4, <2>2 DEF OursBy, OursStoring
  <2>6. OursBy(x)'
    BY <1>3, <1>4, <1>8, <2>2, <2>3, <2>4, <2>5 DEF OursBy, Handled
  <2>7. QED
    BY <1>1, <1>2, <1>4, <2>6, SoleStays
<1>9. QED
  BY <1>5, <1>7, <1>8 DEF Reach!Poll

LEMMA HandleExitOurs == ASSUME ReachConstants, ReachTypes, NEW a, Ours, Reach!HandleExit(a) PROVE Ours'
<1>1. PICK t \in Reach!Tasks : Sole(t) /\ OursBy(tasks[t])
  BY DEF Ours
<1>2. PICK x : x = tasks[t]
  OBVIOUS
<1>3. OursBy(x)
  BY <1>1, <1>2
<1>4. /\ UNCHANGED <<mode, domain, pid, keys, tasks, agents, born>> /\ Reach!Live' = Reach!Live
      /\ a \in exits /\ exits' = exits \ {a} /\ child' = Absent
  BY DEF Reach!HandleExit, Reach!world, Reach!Live
<1>5. CASE child = Absent
  <2>1. UNCHANGED <<link, child, retryTimer, stray>>
    BY <1>4, <1>5 DEF Reach!HandleExit, ReachTypes
  <2>2. OursBy(x)'
    BY <1>3, <1>4, <2>1, FewerAgents DEF OursBy
  <2>3. QED
    BY <1>1, <1>2, <1>4, <2>2, SoleStays
<1>6. CASE child # Absent
  <2>1. x.at \notin StopStages /\ x.at \notin AdoptStages
    BY <1>3, <1>6 DEF OursBy, OursStop, OursAdopt, Named
  <2>2. a = child /\ exits' = {} /\ a \notin Reach!Live
    BY <1>3, <1>4, <1>6, <2>1, LiveAre DEF OursBy, Handled
  <2>3. Reach!Live = {}
    <3>1. x.at \in {"idle", "storing"}
      BY <1>1, <1>2, <2>1 DEF ReachTypes, TaskOK, Reach!Stages, StopStages, AdoptStages
    <3>2. Reach!Live \subseteq {pid} /\ child = pid
      BY <1>3, <1>6, <3>1 DEF OursBy, OursIdle, OursStoring
    <3>3. QED
      BY <2>2, <3>2
  <2>4. link.status = "off" => link' = link
    BY DEF Reach!HandleExit
  <2>5. OursAdopted => OursAdopted'
    BY <1>4, <2>3 DEF OursAdopted
  <2>6. OursOff => OursOff'
    BY <1>4, <2>3, <2>4 DEF OursOff
  <2>7. x.at = "idle" => OursIdle'
    BY <1>3, <1>4, <2>3, <2>5, <2>6 DEF OursBy, OursIdle
  <2>8. x.at = "storing" => OursStoring(x)'
    BY <1>3, <1>4, <2>3, <2>5, <2>6 DEF OursBy, OursStoring
  <2>9. OursBy(x)'
    BY <1>3, <1>4, <2>1, <2>2, <2>3, <2>7, <2>8 DEF OursBy, Handled
  <2>10. QED
    BY <1>1, <1>2, <1>4, <2>9, SoleStays
<1>7. QED
  BY <1>5, <1>6

LEMMA RetryOurs == ASSUME ReachConstants, ReachTypes, Ours, Reach!RetryFires, ~slipped' PROVE Ours'
<1>0. UNCHANGED <<mode, domain, tasks, exits, born>> /\ exits = {} /\ (retryTimer \/ stray > 0)
  BY DEF Reach!RetryFires, Reach!world
<1>1. CASE link.status = "off"
  <2>1. UNCHANGED <<agents, child, pid, keys, link>> /\ Reach!Live' = Reach!Live
    BY <1>1 DEF Reach!RetryFires, Reach!Live
  <2>2. PICK t \in Reach!Tasks : Sole(t) /\ OursBy(tasks[t])
    BY DEF Ours
  <2>3. PICK x : x = tasks[t]
    OBVIOUS
  <2>4. OursBy(x)
    BY <2>2, <2>3
  <2>5. OursBy(x)'
    BY <1>0, <2>1, <2>4 DEF OursBy, OursStop, OursAdopt, Named, OursAdopted, OursOff, OursStoring, OursIdle, Handled, Reach!Expected
  <2>6. QED
    BY <1>0, <2>2, <2>3, <2>5, SoleStays
<1>2. CASE link.status # "off"
  <2>1. Reach!StartTunnel(keys) /\ Reach!Busy = {} /\ "boot" \in Reach!Tasks
    BY <1>2 DEF Reach!RetryFires, Reach!Tasks
  <2>2. Sole("boot") /\ tasks["boot"].at = "idle" /\ OursBy(Reach!Idle)
    BY <2>1, RestIsSole
  <2>3. /\ Reach!Live \subseteq {child} /\ mode = "tunnel"
        /\ Reach!Idle.at = "idle" /\ Reach!Idle.at \notin StopStages /\ Reach!Idle.at \notin AdoptStages
    BY <1>0, <1>2, <2>2, IdleTaskIs, StagesApart DEF OursBy, OursIdle, OursOff, ReachTypes
  <2>4. OursBy(Reach!Idle)'
    <3>1. CASE child # Absent
      <4>1. UNCHANGED <<agents, child, pid, link>> /\ Reach!Live' = Reach!Live
        BY <2>1, <3>1 DEF Reach!StartTunnel, Reach!Live
      <4>2. QED
        BY <1>0, <2>2, <2>3, <4>1
        DEF OursBy, OursAdopted, Named, OursOff, OursIdle, Handled, Reach!Expected
    <3>2. CASE child = Absent
      <4>1. Reach!Live = {}
        BY <2>3, <3>2, LiveAre
      <4>2. QED
        BY <1>0, <2>1, <2>3, <3>2, <4>1, StartOurs
    <3>3. QED
      BY <3>1, <3>2
  <2>5. PICK x : x = tasks["boot"]
    OBVIOUS
  <2>6. OursBy(x)'
    BY <2>2, <2>3, <2>4, <2>5, StagesApart DEF OursBy, Handled
  <2>7. QED
    BY <1>0, <2>1, <2>2, <2>5, <2>6, SoleStays
<1>3. QED
  BY <1>1, <1>2

(* A stop takes the agent over from the manager.                           *)
LEMMA BeginStopOurs ==
    ASSUME ReachConstants, ReachTypes, NEW t \in Reach!Tasks, NEW next \in Ends, Reach!BeginStop(t, next), Sole(t),
           NEW x, OursBy(x), x.at \in {"idle", "storing"}, Reach!Live \subseteq {pid},
           next \in {"start", "adopt"} => mode = "tunnel",
           UNCHANGED <<mode, domain, agents, exits, born>>
    PROVE  Ours'
<1>1. PICK q : q = [at |-> IF child # Absent THEN "killing" ELSE "culling", victim |-> pid, next |-> next]
  OBVIOUS
<1>2. /\ q.at \in {"killing", "culling"} /\ q.at \in StopStages /\ q.at \notin AdoptStages
      /\ q.victim = pid /\ q.next = next /\ Reach!Step(t, q)
  BY <1>1 DEF Reach!BeginStop, StopStages, AdoptStages
<1>3. child' = Absent /\ pid' = Absent /\ link' = Reach!Off /\ Reach!Live' = Reach!Live
  BY DEF Reach!BeginStop, Reach!Live
<1>4. \A a \in exits \cup Reach!Live : Handled(a, x) => a = pid
  BY LiveAre, StagesApart DEF OursBy, Handled
<1>5. OursStop(q)'
  BY <1>2, <1>3 DEF OursStop
<1>6. OursBy(q)'
  BY <1>2, <1>3, <1>4, <1>5 DEF OursBy, Handled
<1>7. QED
  BY <1>2, <1>6, SoleMoves

LEMMA ProbeStartOurs == ASSUME Ours, Reach!ProbeStart PROVE Ours'
<1>1. PICK t \in Reach!Tasks : Sole(t) /\ OursBy(tasks[t])
  BY DEF Ours
<1>2. PICK x : x = tasks[t]
  OBVIOUS
<1>3. /\ UNCHANGED <<mode, domain, link, child, pid, retryTimer, stray, keys, tasks, agents, exits, born>>
      /\ Reach!Live' = Reach!Live /\ OursBy(x)
  BY <1>1, <1>2 DEF Reach!ProbeStart, Reach!manager, Reach!world, Reach!Live
<1>4. OursBy(x)'
  BY <1>3, FewerAgents DEF OursBy
<1>5. QED
  BY <1>1, <1>2, <1>3, <1>4, SoleStays

LEMMA VerdictOurs == ASSUME ReachConstants, ReachTypes, Ours, Reach!ProbeVerdict, ~slipped' PROVE Ours'
<1>0. UNCHANGED <<mode, domain, keys, agents, exits, born>> /\ probe.url # Absent /\ Reach!Live' = Reach!Live
  BY DEF Reach!ProbeVerdict, Reach!world, ReachTypes, Reach!Live
<1>1. CASE UNCHANGED <<link, child, pid, Reach!ladder, failures, tasks, slipped>>
  <2>1. PICK t \in Reach!Tasks : Sole(t) /\ OursBy(tasks[t])
    BY DEF Ours
  <2>2. PICK x : x = tasks[t]
    OBVIOUS
  <2>3. OursBy(x) /\ UNCHANGED <<link, child, pid, retryTimer, stray, tasks>>
    BY <1>1, <2>1, <2>2 DEF Reach!ladder
  <2>4. OursBy(x)'
    BY <1>0, <2>3, FewerAgents DEF OursBy
  <2>5. QED
    BY <2>1, <2>2, <2>3, <2>4, SoleStays
<1>2. CASE mode = "tunnel" /\ Reach!BeginStop("heal", "adopt") /\ slipped' = (slipped \/ Reach!Busy # {})
  <2>1. Reach!Busy = {} /\ "heal" \in Reach!Tasks /\ "adopt" \in Ends
    BY <1>2 DEF Reach!Tasks, Ends
  <2>2. Sole("heal") /\ OursBy(Reach!Idle) /\ Reach!Idle.at = "idle"
    BY <2>1, RestIsSole, IdleTaskIs
  <2>3. Reach!Live \subseteq {pid}
    BY <2>2 DEF OursBy, OursIdle
  <2>4. QED
    BY <1>0, <1>2, <2>1, <2>2, <2>3, BeginStopOurs
<1>3. CASE /\ mode = "tunnel" /\ link.url = probe.url
           /\ link' = IF Reach!Verdict(probe.url) # probe.status THEN [link EXCEPT !.status = Reach!Verdict(probe.url)] ELSE link
           /\ UNCHANGED <<child, pid, Reach!ladder, tasks, slipped>>
  <2>1. PICK t \in Reach!Tasks : Sole(t) /\ OursBy(tasks[t])
    BY DEF Ours
  <2>2. PICK x : x = tasks[t]
    OBVIOUS
  <2>3. OursBy(x) /\ UNCHANGED <<child, pid, retryTimer, stray, tasks>>
    BY <1>3, <2>1, <2>2 DEF Reach!ladder
  <2>5. x.at \notin StopStages
    BY <1>0, <1>3, <2>3 DEF OursBy, OursStop, Reach!Off
  <2>6. OursAdopted => OursAdopted'
    BY <1>0, <2>3 DEF OursAdopted, Named, Reach!Expected
  <2>7. x.at = "idle" => OursIdle'
    BY <1>0, <1>3, <2>3, <2>6 DEF OursBy, OursIdle
  <2>8. x.at \in AdoptStages => OursAdopt(x)'
    BY <1>0, <2>3 DEF OursBy, OursAdopt, Named, Reach!Expected
  <2>9. x.at = "storing" => OursStoring(x)'
    BY <1>0, <1>3, <2>3, <2>6 DEF OursBy, OursStoring
  <2>10. OursBy(x)'
    BY <1>0, <1>3, <2>3, <2>5, <2>7, <2>8, <2>9 DEF OursBy, Handled
  <2>11. QED
    BY <2>1, <2>2, <2>3, <2>10, SoleStays
<1>4. QED
  BY <1>1, <1>2, <1>3 DEF Reach!ProbeVerdict

LEMMA PutOurs ==
    ASSUME ReachConstants, ReachTypes, Ours, NEW r \in Switches, NEW m \in {"off", "tunnel"}, NEW d \in Hosts,
           Reach!Put(r, m, d), ~slipped'
    PROVE  Ours'
<1>1. /\ UNCHANGED <<link, child, pid, retryTimer, stray, keys, agents, exits, born>> /\ mode' = m /\ domain' = d
      /\ Reach!Busy = {} /\ r \in Reach!Tasks /\ Reach!Live' = Reach!Live
  BY DEF Reach!Put, Reach!ladder, Reach!Tasks, Reach!Live
<1>2. Sole(r) /\ OursBy(Reach!Idle) /\ Reach!Idle.at = "idle"
  BY <1>1, RestIsSole, IdleTaskIs
<1>3. PICK q : q = [at |-> "storing", mode |-> m, switched |-> m # mode, moved |-> d # domain]
  OBVIOUS
<1>4. q.at = "storing" /\ q.mode = m /\ (q.switched <=> m # mode) /\ (q.moved <=> d # domain) /\ Reach!Step(r, q)
  BY <1>3 DEF Reach!Put
<1>5. /\ q.at \notin StopStages /\ q.at \notin AdoptStages /\ q.at # "idle"
      /\ Reach!Idle.at \notin StopStages /\ Reach!Idle.at \notin AdoptStages
  BY <1>2, <1>4, StagesApart
<1>6. OursStoring(q)'
  BY <1>1, <1>2, <1>4 DEF OursBy, OursIdle, OursStoring, OursAdopted, Named, OursOff, Reach!Expected
<1>7. OursBy(q)'
  BY <1>1, <1>2, <1>4, <1>5, <1>6 DEF OursBy, Handled
<1>8. QED
  BY <1>1, <1>2, <1>4, <1>7, SoleMoves

LEMMA StoredOurs == ASSUME ReachConstants, ReachTypes, NEW r \in Switches, Ours, Reach!Stored(r) PROVE Ours'
<1>0. r \in Reach!Tasks /\ tasks[r].at = "storing"
  BY DEF Reach!Stored, Reach!Tasks
<1>1. Sole(r) /\ OursBy(tasks[r]) /\ TaskOK(tasks[r])
  BY <1>0, BusyIsSole DEF ReachTypes
<1>2. PICK x : x = tasks[r]
  OBVIOUS
<1>3. x.at = "storing" /\ OursBy(x) /\ OursStoring(x) /\ x.at \notin StopStages /\ x.at \notin AdoptStages
  BY <1>0, <1>1, <1>2, StagesApart DEF OursBy
<1>4. /\ UNCHANGED <<mode, domain, agents, exits, born>> /\ Reach!Live' = Reach!Live
      /\ keys' = [keys EXCEPT !.mode = x.mode, !.domain = domain] \/ keys' = [keys EXCEPT !.mode = x.mode]
  BY <1>2 DEF Reach!Stored, Reach!world, Reach!Live
<1>5. keys'.pid = keys.pid /\ keys'.url = keys.url /\ Reach!Live \subseteq {pid}
  BY <1>3, <1>4 DEF ReachTypes, Row, OursStoring
<1>6. CASE mode = "tunnel" /\ Reach!BeginStop(r, "start")
  BY <1>0, <1>1, <1>3, <1>4, <1>5, <1>6, BeginStopOurs DEF Ends
<1>7. CASE mode # "tunnel" /\ Reach!BeginStop(r, "end")
  BY <1>0, <1>1, <1>3, <1>4, <1>5, <1>7, BeginStopOurs DEF Ends
<1>8. CASE mode = "tunnel" /\ ~x.moved /\ Reach!BeginAdopt(r) /\ UNCHANGED <<child, pid, link, Reach!ladder>>
  <2>1. UNCHANGED <<child, pid, link, retryTimer, stray>> /\ OursAdopted /\ OursAdopted'
    BY <1>3, <1>4, <1>5, <1>8 DEF Reach!ladder, OursStoring, OursAdopted, Named, Reach!Expected
  <2>2. CASE Reach!Step(r, Reach!Idle)
    <3>1. OursIdle'
      BY <1>4, <1>5, <1>8, <2>1 DEF OursIdle
    <3>2. OursBy(Reach!Idle)'
      BY <1>3, <1>4, <1>5, <2>1, <3>1, IdleTaskIs, StagesApart DEF OursBy, Handled
    <3>3. QED
      BY <1>0, <1>1, <2>2, <3>2, SoleMoves
  <2>3. CASE child = Absent /\ Reach!Step(r, [at |-> "reading"])
    <3>1. PICK q : q = [at |-> "reading"]
      OBVIOUS
    <3>2. q.at = "reading" /\ Reach!Step(r, q) /\ q.at \notin StopStages
      BY <2>3, <3>1 DEF StopStages
    <3>3. OursAdopt(q)'
      <4>1. \A a \in Reach!Live' : a = keys'.pid /\ Named'
        BY <1>4, <2>1, <2>3, LiveAre DEF OursAdopted
      <4>2. QED
        BY <1>4, <1>8, <2>1, <2>3, <3>2, <4>1 DEF OursAdopt
    <3>4. OursBy(q)'
      BY <1>3, <1>4, <1>5, <2>1, <3>2, <3>3 DEF OursBy, Handled
    <3>5. QED
      BY <1>0, <1>1, <3>2, <3>4, SoleMoves
  <2>4. QED
    BY <1>8, <2>2, <2>3 DEF Reach!BeginAdopt
<1>9. CASE mode # "tunnel" /\ ~x.switched /\ Reach!Step(r, Reach!Idle) /\ UNCHANGED <<child, pid, link, Reach!ladder>>
  <2>1. UNCHANGED <<child, pid, link, retryTimer, stray>> /\ mode = "off" /\ OursOff
    BY <1>3, <1>9 DEF Reach!ladder, OursStoring, ReachTypes
  <2>2. OursIdle'
    BY <1>3, <1>4, <1>5, <2>1 DEF OursIdle, OursOff, OursAdopted, Named, OursBy
  <2>3. OursBy(Reach!Idle)'
    BY <1>3, <1>4, <1>5, <2>1, <2>2, IdleTaskIs, StagesApart DEF OursBy, Handled
  <2>4. QED
    BY <1>0, <1>1, <1>9, <2>3, SoleMoves
<1>10. QED
  BY <1>2, <1>6, <1>7, <1>8, <1>9 DEF Reach!Stored

LEMMA RestartOurs == ASSUME ReachConstants, ReachTypes, Ours, Reach!Restart, ~slipped' PROVE Ours'
<1>1. /\ UNCHANGED <<keys, agents>> /\ Reach!Live' = Reach!Live /\ child' = Absent /\ link' = Reach!Off
      /\ exits' = {} /\ born' = Len(agents) /\ retryTimer' = FALSE /\ stray' = 0
      /\ tasks' = Reach!BootTask(mode') /\ Reach!LeadsBack(mode', domain')
  BY DEF Reach!Restart, Reach!Live
<1>2. PICK q : q = IF mode' = "tunnel" THEN [at |-> "reading"] ELSE Reach!Idle
  OBVIOUS
<1>3. \A a \in Reach!Live' : ~(a > born')
  BY <1>1, LiveAre
<1>4. \/ Reach!Live' = {}
      \/ mode' = "tunnel" /\ Reach!Live' = {keys'.pid} /\ Named'
  BY <1>1 DEF Reach!LeadsBack, Named, Reach!Expected
<1>5. OursBy(q)'
  <2>1. CASE mode' = "tunnel"
    <3>1. q.at = "reading" /\ q.at \notin StopStages
      BY <1>2, <2>1 DEF StopStages
    <3>2. OursAdopt(q)'
      BY <1>1, <1>4, <2>1, <3>1 DEF OursAdopt
    <3>3. QED
      BY <1>1, <1>3, <3>1, <3>2 DEF OursBy
  <2>2. CASE mode' # "tunnel"
    <3>1. q.at = "idle" /\ q.at \notin StopStages /\ q.at \notin AdoptStages /\ Reach!Live' = {}
      BY <1>2, <1>4, <2>2, IdleTaskIs, StagesApart
    <3>2. OursIdle'
      BY <1>1, <3>1 DEF OursIdle, OursAdopted, OursOff, Reach!Off
    <3>3. QED
      BY <1>1, <1>3, <3>1, <3>2 DEF OursBy
  <2>3. QED
    BY <2>1, <2>2
<1>6. "boot" \in Reach!Tasks /\ tasks'["boot"] = q /\ Sole("boot")'
  BY <1>1, <1>2, IdleTaskIs DEF Reach!BootTask, Reach!Tasks, Sole
<1>7. OursBy(tasks["boot"])'
  BY <1>5, <1>6
<1>8. QED
  BY <1>6, <1>7 DEF Ours

(* What the agents do.                                                     *)
LEMMA AgentOurs ==
    ASSUME ReachConstants, ReachTypes, Ours, NEW a \in DOMAIN agents, a \in Reach!Live,
           DOMAIN agents' = DOMAIN agents, \A b \in DOMAIN agents \ {a} : agents'[b] = agents[b],
           exits' = exits \/ (a > born /\ exits' = exits \cup {a}),
           UNCHANGED <<mode, domain, link, child, pid, retryTimer, stray, keys, tasks, born>>
    PROVE  Ours'
<1>1. PICK t \in Reach!Tasks : Sole(t) /\ OursBy(tasks[t])
  BY DEF Ours
<1>2. PICK x : x = tasks[t]
  OBVIOUS
<1>3. OursBy(x)
  BY <1>1, <1>2
<1>4. Reach!Live' \subseteq Reach!Live
  BY DEF Reach!Live
<1>5. \A b \in exits' : Handled(b, x)
  BY <1>3 DEF OursBy
<1>6. OursBy(x)'
  BY <1>3, <1>4, <1>5, FewerAgents
<1>7. QED
  BY <1>1, <1>2, <1>6, SoleStays

LEMMA AgentsOurs ==
    ASSUME ReachConstants, ReachTypes, Ours, NEW a \in 1 .. Len(agents), Reach!Prints(a) \/ Reach!Reconnect(a) \/ Reach!Wedge(a) \/ Reach!Exit(a)
    PROVE  Ours'
<1>1. a \in DOMAIN agents /\ a \in Reach!Live /\ DOMAIN agents' = DOMAIN agents
  BY LivingAgent DEF Reach!Prints, Reach!Reconnect, Reach!Wedge, Reach!Exit, Reach!Live, ReachTypes
<1>2. \A b \in DOMAIN agents \ {a} : agents'[b] = agents[b]
  BY <1>1 DEF Reach!Prints, Reach!Reconnect, Reach!Wedge, Reach!Exit, ReachTypes
<1>3. exits' = exits \/ (a > born /\ exits' = exits \cup {a})
  BY DEF Reach!Prints, Reach!Reconnect, Reach!Wedge, Reach!Exit
<1>4. UNCHANGED <<mode, domain, link, child, pid, retryTimer, stray, keys, tasks, born>>
  BY DEF Reach!Prints, Reach!Reconnect, Reach!Wedge, Reach!Exit, Reach!manager, Reach!world
<1>5. QED
  BY <1>1, <1>2, <1>3, <1>4, AgentOurs

LEMMA SlippedStays == ReachTypes /\ [Reach!Next]_Reach!vars /\ slipped => slipped'
<1> SUFFICES ASSUME ReachTypes, [Reach!Next]_Reach!vars, slipped PROVE slipped'
  OBVIOUS
<1>1. \A a : Reach!Kill(a) => slipped'
  BY DEF Reach!Kill, Reach!Smooth
<1>2. QED
  BY <1>1 DEF Reach!Next, Reach!Manage, Reach!Killed, Reach!Cull, Reach!Clear, Reach!Read, Reach!Ask, Reach!Purge, Reach!Replace, Reach!Poll, Reach!HandleExit, Reach!RetryFires, Reach!ProbeStart,
       Reach!ProbeVerdict, Reach!Stored, Reach!StoreFails, Reach!Restart, Reach!Put, Reach!Prints, Reach!Reconnect, Reach!Wedge, Reach!Exit, Reach!Smooth, Reach!vars

LEMMA NextTunnel == ASSUME ReachConstants PROVE TunnelInv /\ [Reach!Next]_Reach!vars => TunnelInv'
<1> SUFFICES ASSUME TunnelInv, [Reach!Next]_Reach!vars PROVE TunnelInv'
  OBVIOUS
<1>1. ReachTypes /\ ReachTypes'
  BY NextReachTypes DEF TunnelInv
<1>2. ASSUME ~slipped' PROVE Ours'
  <2>0. Ours
    BY <1>1, <1>2, SlippedStays DEF TunnelInv
  <2>1. ASSUME NEW t \in Reach!Tasks, Reach!Killed(t) \/ Reach!Cull(t) \/ Reach!Clear(t) \/ Reach!Read(t) \/ Reach!Ask(t) \/ Reach!Purge(t) \/ Reach!Replace(t)
        PROVE  Ours'
    BY <1>1, <1>2, <2>0, <2>1, KilledOurs, CullOurs, ClearOurs, ReadOurs, AskOurs, PurgeOurs, ReplaceOurs
  <2>2. CASE (\E from \in polls : Reach!Poll(from)) \/ (\E a \in exits : Reach!HandleExit(a)) \/ Reach!RetryFires \/ Reach!ProbeStart \/ Reach!ProbeVerdict
    BY <1>1, <1>2, <2>0, <2>2, PollOurs, HandleExitOurs, RetryOurs, ProbeStartOurs, VerdictOurs
  <2>3. ASSUME NEW r \in Switches, Reach!Stored(r) \/ Reach!StoreFails(r) PROVE Ours'
    BY <1>1, <1>2, <2>0, <2>3, StoredOurs DEF Reach!StoreFails
  <2>4. CASE Reach!Restart
    BY <1>1, <1>2, <2>0, <2>4, RestartOurs
  <2>5. ASSUME NEW r \in Switches, NEW m \in {"off", "tunnel"}, NEW d \in Hosts, Reach!Put(r, m, d) PROVE Ours'
    BY <1>1, <1>2, <2>0, <2>5, PutOurs
  <2>6. ASSUME NEW a \in 1 .. Len(agents), Reach!Prints(a) \/ Reach!Reconnect(a) \/ Reach!Wedge(a) \/ Reach!Exit(a) PROVE Ours'
    BY <1>1, <2>0, <2>6, AgentsOurs
  <2>7. CASE UNCHANGED Reach!vars
    <3>1. UNCHANGED <<mode, domain, link, child, pid, retryTimer, stray, keys, tasks, agents, exits, born>> /\ Reach!Live' = Reach!Live
      BY <2>7 DEF Reach!vars, Reach!manager, Reach!world, Reach!Live
    <3>2. QED
      BY <2>0, <3>1 DEF Ours, Sole, OursBy, OursStop, OursAdopt, Named, OursAdopted, OursOff, OursStoring, OursIdle, Handled, Reach!Expected
  <2>8. QED
    BY <2>1, <2>2, <2>3, <2>4, <2>5, <2>6, <2>7 DEF Reach!Next, Reach!Manage, Hosts
<1>3. QED
  BY <1>1, <1>2 DEF TunnelInv

LEMMA InitTunnel == ASSUME ReachConstants, Reach!Init PROVE TunnelInv
BY InitReachTypes, InitOurs DEF TunnelInv

LEMMA TheTunnelIsOurs == ASSUME ReachConstants, TunnelInv PROVE Reach!TunnelIsOurs
<1> SUFFICES ASSUME ~slipped
             PROVE  /\ Reach!Cardinality(Reach!Live) <= 1
                    /\ Reach!Quiet => Reach!Live \subseteq {pid}
                    /\ Reach!Quiet /\ mode = "off" => Reach!Live = {}
  BY DEF Reach!TunnelIsOurs
<1>1. PICK t \in Reach!Tasks : Sole(t) /\ OursBy(tasks[t])
  BY DEF TunnelInv, Ours
<1>2. PICK a : Reach!Live \subseteq {a}
  <2>1. tasks[t].at \in {"idle", "storing"} \cup StopStages \cup AdoptStages
    BY <1>1 DEF TunnelInv, ReachTypes, TaskOK, Reach!Stages, StopStages, AdoptStages
  <2>2. \/ Reach!Live \subseteq {pid} \/ Reach!Live \subseteq {tasks[t].victim} \/ Reach!Live \subseteq {keys.pid}
    BY <1>1, <2>1 DEF OursBy, OursIdle, OursStoring, OursStop, OursAdopt
  <2>3. QED
    BY <2>2
<1>3. Reach!Cardinality(Reach!Live) <= 1
  <2>1. IsFiniteSet({a}) /\ Cardinality({a}) = 1
    BY FS_Singleton
  <2>2. Cardinality(Reach!Live) <= Cardinality({a})
    BY <1>2, <2>1, FS_Subset
  <2>3. Reach!Cardinality(Reach!Live) = Cardinality(Reach!Live)
    BY DEF Reach!Cardinality, Cardinality
  <2>4. QED
    BY <2>1, <2>2, <2>3
<1>4. Reach!Quiet => OursIdle
  BY <1>1 DEF Reach!Quiet, Reach!Busy, OursBy
<1>5. QED
  BY <1>3, <1>4 DEF OursIdle, OursOff

-----------------------------------------------------------------------------
(* The composition: a step of MCDashboard is a step of each part or leaves *)
(* it alone.                                                               *)
LEMMA SettingsSteps == [DashboardNext]_all => [Settings!Next]_Settings!vars
BY DEF DashboardNext, all, settings, Settings!vars

LEMMA LookSteps == [DashboardNext]_all => [Look!Next]_Look!vars
BY DEF DashboardNext, all, look, Look!vars

LEMMA ScreenSteps == [DashboardNext]_all => [Screen!Next]_Screen!vars
BY DEF DashboardNext, all, screen, Screen!vars, Screen!form

LEMMA ReachSteps == [DashboardNext]_all => [Reach!Next]_Reach!vars
BY DEF DashboardNext, all, reach, Reach!vars, Reach!manager, Reach!world

(* However many requests are served at once, and whatever ends or fails    *)
(* under them: a request that says it saved has written every row of its   *)
(* form and its trail, one that refuses has written neither, and the trail *)
(* names no save whose rows were not all written (server/index.ts).        *)
THEOREM AnswersTellWhatWasWritten == DashboardSpec => []AnswersAreTrue
<1>1. DashboardInit => RouteInv
  BY InitRoutes DEF DashboardInit
<1>2. RouteInv /\ [Settings!Next]_Settings!vars => RouteInv'
  BY NextRoutes
<1>3. RouteInv => AnswersAreTrue
  BY RoutesTellTheTruth DEF AnswersAreTrue
<1>4. QED
  BY <1>1, <1>2, <1>3, SettingsSteps, PTL DEF DashboardSpec

(* However saves overlap and whichever calls to Discord fail: between      *)
(* saves, a field that Discord does not show as stored was reported        *)
(* (server/appearance.ts).  And however loads and presses cross: with no   *)
(* save under way, what a settings screen calls saved is the row of the    *)
(* guild in view, but for the slips SettingsForm names (views/settings).   *)
THEOREM OperatorsSeeTheTruth == DashboardSpec => []ScreensTellTheTruth
<1>1. DashboardInit => LookInv /\ FormInv
  BY InitLook, InitForm DEF DashboardInit
<1>2. LookInv /\ [Look!Next]_Look!vars => LookInv'
  BY NextLook
<1>3. FormInv /\ [Screen!Next]_Screen!vars => FormInv'
  BY NextForm
<1>4. LookInv /\ FormInv => ScreensTellTheTruth
  BY LooksAreTold, FormsTellTheTruth DEF ScreensTellTheTruth
<1>5. QED
  BY <1>1, <1>2, <1>3, <1>4, LookSteps, ScreenSteps, PTL DEF DashboardSpec

(* However switches, probes, exits, retries and restarts follow, and at    *)
(* every await of a stop, an adoption and a start: no two agents run at    *)
(* once, with nobody at work the one that runs is the one the manager      *)
(* would stop, and with the reach switched off none does, but for what     *)
(* Tunnel excuses (server/network.ts).                                     *)
THEOREM OneTunnelAtMost == ASSUME ReachConstants PROVE DashboardSpec => []TunnelIsOurs
<1>1. DashboardInit => TunnelInv
  BY InitTunnel DEF DashboardInit
<1>2. TunnelInv /\ [Reach!Next]_Reach!vars => TunnelInv'
  BY NextTunnel
<1>3. TunnelInv => TunnelIsOurs
  BY TheTunnelIsOurs DEF TunnelIsOurs
<1>4. QED
  BY <1>1, <1>2, <1>3, ReachSteps, PTL DEF DashboardSpec

-----------------------------------------------------------------------------
(* The types of every part.                                                *)

DashboardConstants ==
    /\ ReachConstants
    /\ {MaxAsks, MaxFaults, MaxSaves, MaxSlips, MaxEdits, MaxBlunders} \subseteq Nat
    /\ Cleared \in Values

(* The routes.                                                             *)
RouteTypes == session \in {"live", "gone"} /\ asks \in 0 .. MaxAsks /\ faults \in 0 .. MaxFaults

LEMMA InitRouteTypes == ASSUME DashboardConstants, Settings!Init PROVE RouteTypes
BY DEF DashboardConstants, Settings!Init, RouteTypes

LEMMA NextRouteTypes == ASSUME DashboardConstants PROVE RouteTypes /\ [Settings!Next]_Settings!vars => RouteTypes'
<1> SUFFICES ASSUME RouteTypes, [Settings!Next]_Settings!vars PROVE RouteTypes'
  OBVIOUS
<1>0. MaxAsks \in Nat /\ MaxFaults \in Nat
  BY DEF DashboardConstants
<1>1. Settings!Fails => faults' \in 0 .. MaxFaults
  BY <1>0 DEF Settings!Fails, RouteTypes
<1>2. Settings!Fine => faults' \in 0 .. MaxFaults
  BY DEF Settings!Fine, RouteTypes
<1>3. CASE UNCHANGED Settings!vars
  BY <1>3 DEF Settings!vars, RouteTypes
<1>4. CASE Settings!SignedOutElsewhere
  BY <1>1, <1>4 DEF Settings!SignedOutElsewhere, RouteTypes
<1>5. ASSUME NEW r \in Browsers, Settings!Ask(r) PROVE RouteTypes'
  <2>1. asks < MaxAsks /\ asks' = asks + 1 /\ UNCHANGED <<session, faults>>
    BY <1>5 DEF Settings!Ask
  <2>2. asks' \in 0 .. MaxAsks
    BY <1>0, <2>1 DEF RouteTypes
  <2>3. QED
    BY <2>1, <2>2 DEF RouteTypes
<1>6. ASSUME NEW r \in Browsers PROVE Settings!LoadUserGuilds(r) => RouteTypes'
  BY <1>1, <1>2 DEF Settings!LoadUserGuilds, RouteTypes
<1>7. ASSUME NEW r \in Browsers
      PROVE  (\/ Settings!RequireSession(r) \/ Settings!ResolveStanding(r) \/ Settings!RejectTier(r)
              \/ Settings!CheckAtDiscord(r) \/ Settings!SaveRows(r) \/ Settings!AppendAudit(r)
              \/ Settings!ReadView(r) \/ Settings!ReadLists(r)) => RouteTypes'
  BY <1>1, <1>2 DEF Settings!RequireSession, Settings!ResolveStanding, Settings!RejectTier, Settings!CheckAtDiscord,
     Settings!SaveRows, Settings!AppendAudit, Settings!ReadView, Settings!ReadLists, Settings!Throws, RouteTypes
<1>8. ASSUME NEW r \in Browsers PROVE Settings!CheckBody(r) \/ Settings!Taken(r) => RouteTypes'
  BY DEF Settings!CheckBody, Settings!Taken, RouteTypes
<1>9. QED
  BY <1>3, <1>4, <1>5, <1>6, <1>7, <1>8 DEF Settings!Next

LEMMA RoutesAreTyped == ASSUME DashboardConstants PROVE RouteInv /\ RouteTypes => Settings!TypeOK
<1> SUFFICES ASSUME RouteInv, RouteTypes PROVE Settings!TypeOK
  OBVIOUS
<1>1. \A r \in Browsers : served[r].at \in Settings!Steps /\ served[r].answer \in Settings!Answers /\ served[r].body \in Settings!Bodies
  BY DEF RouteInv, Asking
<1>2. PICK n \in Nat : asks = n /\ n <= MaxAsks
  BY DEF RouteInv, RouteTypes
<1>3. MaxAsks \in Nat
  BY DEF DashboardConstants
<1>4. 1 .. n \subseteq 1 .. MaxAsks
  BY <1>2, <1>3
<1>5. \A w \in written : w.ask \in 1 .. MaxAsks
  BY <1>2, <1>4 DEF RouteInv
<1>6. trail \subseteq [ask : 1 .. MaxAsks, of : {"save", "rejection"}]
  BY <1>2, <1>4 DEF RouteInv
<1>7. QED
  BY <1>1, <1>5, <1>6 DEF Settings!TypeOK, RouteTypes

(* The appearance.                                                         *)
Saving == [at : Look!Steps, body : [Look!Fields -> Values], sent : SUBSET Look!Fields, enabled : BOOLEAN,
           previous : Look!Rows, next : Look!Rows, failed : SUBSET Look!Fields, alone : BOOLEAN]

LookTypes ==
    /\ row \in Look!Rows /\ shown \in [Look!Fields -> Values]
    /\ save \in [Saves -> Saving]
    /\ told \in SUBSET Look!Fields
    /\ asked \in 0 .. MaxSaves /\ slips \in 0 .. MaxSlips

LEMMA LooksAreTyped == LookTypes => Look!TypeOK
BY DEF LookTypes, Saving, Look!TypeOK

LEMMA EffectiveIs == ASSUME DashboardConstants, NEW r \in Look!Rows PROVE Look!Effective(r) \in [Look!Fields -> Values]
BY DEF DashboardConstants, Look!Effective, Look!Rows

LEMMA NothingIsSaving == ASSUME DashboardConstants PROVE Look!Nothing \in Saving
<1>1. Cleared \in Values /\ "idle" \in Look!Steps
  BY DEF DashboardConstants, Look!Steps
<1>2. PICK b : b = [f \in Look!Fields |-> Cleared]
  OBVIOUS
<1>3. b \in [Look!Fields -> Values] /\ [enabled |-> TRUE, of |-> b] \in Look!Rows
  BY <1>1, <1>2 DEF Look!Rows
<1>4. QED
  BY <1>1, <1>2, <1>3 DEF Look!Nothing, Saving

LEMMA NextRowIs ==
    ASSUME DashboardConstants, NEW s, save[s] \in Saving, NEW current \in Look!Rows, NEW icon \in Values
    PROVE  Look!NextRow(s, current, icon) \in Look!Rows
<1>1. save[s].enabled \in BOOLEAN /\ save[s].body \in [Look!Fields -> Values] /\ current.of \in [Look!Fields -> Values] /\ Cleared \in Values
  BY DEF Saving, DashboardConstants, Look!Rows
<1>2. PICK o : o = [f \in Look!Fields |->
               CASE f = "roleIconUrl"                                     -> icon
                 [] f \in save[s].sent                                    -> save[s].body[f]
                 [] f \notin save[s].sent /\ f \in {"nickname", "roleColor"} -> Cleared
                 [] OTHER                                                 -> current.of[f]]
  OBVIOUS
<1>3. ASSUME NEW f \in Look!Fields PROVE o[f] \in Values
  BY <1>1, <1>2, <1>3
<1>4. o \in [Look!Fields -> Values]
  BY <1>2, <1>3
<1>5. Look!NextRow(s, current, icon) = [enabled |-> save[s].enabled, of |-> o]
  BY <1>2 DEF Look!NextRow
<1>6. QED
  BY <1>1, <1>4, <1>5 DEF Look!Rows

LEMMA InitLookTypes == ASSUME DashboardConstants, Look!Init PROVE LookTypes
<1>1. row \in Look!Rows /\ shown = Look!Effective(row) /\ told = {} /\ asked = 0 /\ slips = 0
  BY DEF Look!Init
<1>2. save \in [Saves -> Saving]
  BY NothingIsSaving DEF Look!Init
<1>3. 0 \in 0 .. MaxSaves /\ 0 \in 0 .. MaxSlips
  BY DEF DashboardConstants
<1>4. QED
  BY <1>1, <1>2, <1>3, EffectiveIs DEF LookTypes

(* A save goes on in its record.                                           *)
LEMMA SaveMovesTypes ==
    ASSUME LookTypes, NEW s \in Saves, NEW q \in Saving, save' = [save EXCEPT ![s] = q]
    PROVE  save' \in [Saves -> Saving]
BY DEF LookTypes

LEMMA NextLookTypes == ASSUME DashboardConstants PROVE LookTypes /\ [Look!Next]_Look!vars => LookTypes'
<1> SUFFICES ASSUME LookTypes, [Look!Next]_Look!vars PROVE LookTypes'
  OBVIOUS
<1>0. MaxSaves \in Nat /\ MaxSlips \in Nat
  BY DEF DashboardConstants
<1>1. Look!Mishap => slips' \in 0 .. MaxSlips
  BY <1>0 DEF Look!Mishap, LookTypes
<1>2. CASE UNCHANGED Look!vars
  BY <1>2 DEF Look!vars, LookTypes
<1>3. ASSUME NEW s \in Saves
      PROVE  /\ save[s] \in Saving /\ save[s].previous \in Look!Rows /\ save[s].next \in Look!Rows
             /\ save[s].failed \in SUBSET Look!Fields /\ save[s].body \in [Look!Fields -> Values]
             /\ row.of \in [Look!Fields -> Values]
             /\ "roleIconUrl" \in Look!Fields
  BY DEF LookTypes, Saving, Look!Rows, Look!Fields, Look!RoleFields
<1>4. ASSUME NEW s \in Saves, NEW p \in Look!Steps PROVE [save[s] EXCEPT !.at = p] \in Saving
  BY <1>3 DEF Saving
<1>5. ASSUME NEW s \in Saves, NEW p \in Look!Steps, NEW t \in SUBSET Look!Fields
      PROVE  [save[s] EXCEPT !.failed = save[s].failed \cup t, !.at = p] \in Saving
  BY <1>3 DEF Saving
<1>6. ASSUME NEW s \in Saves, NEW p \in Look!Steps, Look!Goto(s, p) PROVE save' \in [Saves -> Saving]
  <2>1. save' = [save EXCEPT ![s] = [save[s] EXCEPT !.at = p]]
    BY <1>6 DEF Look!Goto
  <2>2. QED
    BY <1>4, <2>1, SaveMovesTypes
<1>7. ASSUME NEW s \in Saves, NEW p \in Look!Steps, NEW t \in SUBSET Look!Fields, Look!Fail(s, t, p) PROVE save' \in [Saves -> Saving]
  <2>1. save' = [save EXCEPT ![s] = [save[s] EXCEPT !.failed = save[s].failed \cup t, !.at = p]]
    BY <1>7 DEF Look!Fail
  <2>2. QED
    BY <1>5, <2>1, SaveMovesTypes
<1>8. ASSUME NEW s \in Saves, NEW t, Look!Show(s, t) PROVE shown' \in [Look!Fields -> Values]
  BY <1>3, <1>8, EffectiveIs DEF Look!Show, LookTypes
<1>9. ASSUME NEW s \in Saves, save' = [save EXCEPT ![s] = Look!Nothing] PROVE save' \in [Saves -> Saving]
  BY <1>9, NothingIsSaving, SaveMovesTypes
<1>10. \A p, n : Look!Changed(p, n) \in SUBSET Look!Fields
  BY DEF Look!Changed
<1>11. /\ {"gate", "permission", "store", "member", "role", "write role", "audit", "answer", "read"} \subseteq Look!Steps
  BY DEF Look!Steps
<1>12. ASSUME NEW s \in Saves, Look!Put(s) PROVE LookTypes'
  <2>1. PICK enabled \in BOOLEAN, sent \in TwoForms, v \in Values :
          save' = [t \in Saves |->
                     IF t = s THEN [Look!Nothing EXCEPT !.at = "read", !.enabled = enabled, !.sent = sent, !.alone = Look!Busy = {},
                                                   !.body = [f \in Look!Fields |-> v]]
                     ELSE [save[t] EXCEPT !.alone = FALSE]]
    BY <1>12 DEF Look!Put
  <2>2. sent \in SUBSET Look!Fields
    BY DEF TwoForms, Look!Fields, Look!MemberFields, Look!RoleFields
  <2>3. PICK b : b = [f \in Look!Fields |-> v]
    OBVIOUS
  <2>4. b \in [Look!Fields -> Values]
    BY <2>3
  <2>5. PICK busy \in BOOLEAN : busy = (Look!Busy = {})
    OBVIOUS
  <2>6. [Look!Nothing EXCEPT !.at = "read", !.enabled = enabled, !.sent = sent, !.alone = busy, !.body = b] \in Saving
    BY <1>11, <2>2, <2>4, NothingIsSaving DEF Saving
  <2>7. ASSUME NEW t \in Saves PROVE [save[t] EXCEPT !.alone = FALSE] \in Saving
    BY <1>3 DEF Saving
  <2>8. save' \in [Saves -> Saving]
    BY <2>1, <2>3, <2>5, <2>6, <2>7
  <2>9. asked' \in 0 .. MaxSaves
    <3>1. asked < MaxSaves /\ asked' = asked + 1
      BY <1>12 DEF Look!Put
    <3>2. QED
      BY <1>0, <3>1 DEF LookTypes
  <2>10. QED
    BY <1>12, <2>8, <2>9 DEF Look!Put, LookTypes
<1>13. ASSUME NEW s \in Saves, Look!ReadCurrent(s) PROVE LookTypes'
  <2>1. PICK p \in {"gate", "permission"} :
           save' = [save EXCEPT ![s].previous = row, ![s].at = p, ![s].next = Look!NextRow(s, row, row.of["roleIconUrl"])]
    BY <1>13 DEF Look!ReadCurrent
  <2>2. PICK n : n = Look!NextRow(s, row, row.of["roleIconUrl"])
    OBVIOUS
  <2>3. n \in Look!Rows /\ row \in Look!Rows
    BY <1>3, <2>2, NextRowIs DEF LookTypes
  <2>4. [save[s] EXCEPT !.previous = row, !.at = p, !.next = n] \in Saving
    BY <1>3, <1>11, <2>3 DEF Saving
  <2>5. save' = [save EXCEPT ![s] = [save[s] EXCEPT !.previous = row, !.at = p, !.next = n]]
    BY <2>1, <2>2
  <2>6. save' \in [Saves -> Saving]
    BY <2>4, <2>5, SaveMovesTypes
  <2>7. QED
    BY <1>13, <2>6 DEF Look!ReadCurrent, LookTypes
<1>14. ASSUME NEW s \in Saves, Look!IconGate(s) PROVE LookTypes'
  <2>1. CASE save' = [save EXCEPT ![s].at = "permission", ![s].failed = @ \cup {"roleIconUrl"}]
    <3>1. save' = [save EXCEPT ![s] = [save[s] EXCEPT !.at = "permission", !.failed = save[s].failed \cup {"roleIconUrl"}]]
      BY <2>1
    <3>2. [save[s] EXCEPT !.at = "permission", !.failed = save[s].failed \cup {"roleIconUrl"}] \in Saving
      BY <1>3, <1>11 DEF Saving
    <3>3. save' \in [Saves -> Saving]
      BY <3>1, <3>2, SaveMovesTypes
    <3>4. QED
      BY <1>1, <1>14, <3>3 DEF Look!IconGate, LookTypes
  <2>2. CASE save' = [save EXCEPT ![s].at = "permission",
                                  ![s].next = Look!NextRow(s, save[s].previous, save[s].body["roleIconUrl"])]
    <3>1. PICK n : n = Look!NextRow(s, save[s].previous, save[s].body["roleIconUrl"])
      OBVIOUS
    <3>2. n \in Look!Rows
      BY <1>3, <3>1, NextRowIs
    <3>3. save' = [save EXCEPT ![s] = [save[s] EXCEPT !.at = "permission", !.next = n]]
      BY <2>2, <3>1
    <3>4. [save[s] EXCEPT !.at = "permission", !.next = n] \in Saving
      BY <1>3, <1>11, <3>2 DEF Saving
    <3>5. save' \in [Saves -> Saving]
      BY <3>3, <3>4, SaveMovesTypes
    <3>6. QED
      BY <1>1, <1>14, <3>5 DEF Look!IconGate, LookTypes
  <2>3. QED
    BY <1>14, <2>1, <2>2 DEF Look!IconGate
<1>15. ASSUME NEW s \in Saves, Look!Permission(s) PROVE LookTypes'
  <2>1. save' \in [Saves -> Saving]
    BY <1>6, <1>9, <1>11, <1>15 DEF Look!Permission
  <2>2. QED
    BY <1>1, <1>15, <2>1 DEF Look!Permission, LookTypes
<1>16. ASSUME NEW s \in Saves, Look!Store(s) PROVE LookTypes'
  <2>1. save' \in [Saves -> Saving] /\ row' \in Look!Rows
    BY <1>3, <1>6, <1>9, <1>11, <1>16 DEF Look!Store, LookTypes
  <2>2. QED
    BY <1>1, <1>16, <2>1 DEF Look!Store, LookTypes
<1>17. ASSUME NEW s \in Saves, Look!PatchMember(s) PROVE LookTypes'
  <2>1. save' \in [Saves -> Saving] /\ shown' \in [Look!Fields -> Values]
    <3>1. PICK t : t = Look!Changed(save[s].previous, save[s].next) \cap Look!MemberFields
      OBVIOUS
    <3>2. t \in SUBSET Look!Fields /\ "role" \in Look!Steps
      BY <1>10, <1>11, <3>1
    <3>3. \/ Look!Show(s, t) /\ Look!Goto(s, "role")
          \/ Look!Fail(s, t, "role") /\ UNCHANGED shown
      BY <1>17, <3>1 DEF Look!PatchMember
    <3>4. CASE Look!Show(s, t) /\ Look!Goto(s, "role")
      BY <1>6, <1>8, <3>2, <3>4
    <3>5. CASE Look!Fail(s, t, "role") /\ UNCHANGED shown
      BY <1>7, <3>2, <3>5 DEF LookTypes
    <3>6. QED
      BY <3>3, <3>4, <3>5
  <2>2. QED
    BY <1>1, <1>17, <2>1 DEF Look!PatchMember, LookTypes
<1>18. ASSUME NEW s \in Saves, Look!FindRole(s) PROVE LookTypes'
  <2>1. save' \in [Saves -> Saving]
    <3>1. \/ \E p \in {"audit", "write role"} : Look!Goto(s, p)
          \/ \E t \in SUBSET Look!Fields, p \in {"audit", "write role"} : Look!Fail(s, t, p)
      <4>1. PICK t : t = Look!Changed(save[s].previous, save[s].next) \cap Look!RoleFields
        OBVIOUS
      <4>2. t \in SUBSET Look!Fields /\ {"roleIconUrl"} \in SUBSET Look!Fields
        BY <1>3, <1>10, <4>1
      <4>3. \/ Look!Goto(s, IF t = {} THEN "audit" ELSE "write role")
            \/ Look!Fail(s, t, "audit")
            \/ Look!Fail(s, {"roleIconUrl"}, IF t = {"roleIconUrl"} THEN "audit" ELSE "write role")
        BY <1>18, <4>1 DEF Look!FindRole
      <4>4. \A b \in BOOLEAN : (IF b THEN "audit" ELSE "write role") \in {"audit", "write role"}
        OBVIOUS
      <4>5. QED
        BY <4>2, <4>3, <4>4
    <3>2. QED
      BY <1>6, <1>7, <1>11, <3>1
  <2>2. QED
    BY <1>1, <1>18, <2>1 DEF Look!FindRole, LookTypes
<1>19. ASSUME NEW s \in Saves, Look!PatchRole(s) PROVE LookTypes'
  <2>1. save' \in [Saves -> Saving] /\ shown' \in [Look!Fields -> Values]
    <3>1. PICK t : t = (Look!Changed(save[s].previous, save[s].next) \cap Look!RoleFields) \ save[s].failed
      OBVIOUS
    <3>2. t \in SUBSET Look!Fields /\ "audit" \in Look!Steps
      BY <1>10, <1>11, <3>1
    <3>3. \/ Look!Show(s, t \cup {"roleColor"}) /\ Look!Goto(s, "audit")
          \/ Look!Fail(s, t, "audit") /\ UNCHANGED shown
      BY <1>19, <3>1 DEF Look!PatchRole
    <3>4. CASE Look!Show(s, t \cup {"roleColor"}) /\ Look!Goto(s, "audit")
      BY <1>6, <1>8, <3>2, <3>4
    <3>5. CASE Look!Fail(s, t, "audit") /\ UNCHANGED shown
      BY <1>7, <3>2, <3>5 DEF LookTypes
    <3>6. QED
      BY <3>3, <3>4, <3>5
  <2>2. QED
    BY <1>1, <1>19, <2>1 DEF Look!PatchRole, LookTypes
<1>20. ASSUME NEW s \in Saves, Look!Audit(s) PROVE LookTypes'
  <2>1. save' \in [Saves -> Saving]
    BY <1>6, <1>7, <1>11, <1>20 DEF Look!Audit
  <2>2. QED
    BY <1>1, <1>20, <2>1 DEF Look!Audit, LookTypes
<1>21. ASSUME NEW s \in Saves, Look!Answer(s) PROVE LookTypes'
  <2>1. save' \in [Saves -> Saving] /\ told' \in SUBSET Look!Fields
    BY <1>9, <1>10, <1>21 DEF Look!Answer, LookTypes
  <2>2. QED
    BY <1>21, <2>1 DEF Look!Answer, LookTypes
<1>22. QED
  BY <1>2, <1>12, <1>13, <1>14, <1>15, <1>16, <1>17, <1>18, <1>19, <1>20, <1>21 DEF Look!Next

(* The screen.                                                             *)
Loads   == [guild : Guilds, at : {"sent", "read", "done"}, answer : Screen!Maybe, cancelled : BOOLEAN]
Pressed == {Screen!Ready, [at |-> "done"]} \cup [at : Afloat, mounted : BOOLEAN, guild : Guilds, value : Values]

FormTypes ==
    /\ rows \in [Guilds -> Values] /\ guild \in Guilds
    /\ source \in {"loading", "loaded"} /\ base \in Screen!Maybe /\ draft \in Screen!Maybe
    /\ \A l \in DOMAIN loads : loads[l] \in Loads
    /\ press \in [Presses -> Pressed]
    /\ edits \in 0 .. MaxEdits /\ blunders \in 0 .. MaxBlunders /\ strayed \in BOOLEAN

LEMMA FormsAreTyped == FormTypes => Screen!TypeOK
BY DEF FormTypes, Loads, Pressed, Afloat, Screen!Ready, Screen!TypeOK

LEMMA LoadIs == ASSUME NEW g \in Guilds PROVE Screen!Load(g) \in Loads
BY DEF Screen!Load, Loads, Screen!Maybe

LEMMA InitFormTypes == ASSUME DashboardConstants, Screen!Init PROVE FormTypes
<1>1. Cleared \in Values /\ 0 \in 0 .. MaxEdits /\ 0 \in 0 .. MaxBlunders
  BY DEF DashboardConstants
<1>2. guild \in Guilds /\ loads = <<Screen!Load(guild)>>
  BY DEF Screen!Init
<1>3. \A l \in DOMAIN loads : loads[l] \in Loads
  BY <1>2, LoadIs
<1>4. press \in [Presses -> Pressed]
  BY DEF Screen!Init, Pressed
<1>5. QED
  BY <1>1, <1>2, <1>3, <1>4 DEF Screen!Init, FormTypes, Screen!Maybe

LEMMA ShowsTypes ==
    ASSUME FormTypes, NEW s \in Screen!Maybe, NEW d \in Screen!Maybe, NEW ended, Screen!Shows(s, d, ended)
    PROVE  base' \in Screen!Maybe /\ draft' \in Screen!Maybe /\ press' \in [Presses -> Pressed]
<1>1. ASSUME NEW p \in Presses, p \in Screen!Flying, NEW b \in BOOLEAN
      PROVE  [press[p] EXCEPT !.mounted = press[p].mounted /\ b] \in Pressed
  <2>1. press[p] \in Pressed /\ press[p].at \in Afloat
    BY <1>1 DEF FormTypes, Screen!Flying, Afloat
  <2>2. press[p] \in [at : Afloat, mounted : BOOLEAN, guild : Guilds, value : Values]
    BY <2>1 DEF Pressed, Screen!Ready, Afloat
  <2>3. QED
    BY <1>1, <2>2 DEF Pressed
<1>2. PICK b \in BOOLEAN : b = Screen!Dirty(s, d)
  BY DEF Screen!Dirty
<1>3. press' = [p \in Presses |->
         IF p \in ended THEN [at |-> "done"]
         ELSE IF p \in Screen!Flying THEN [press[p] EXCEPT !.mounted = press[p].mounted /\ b]
         ELSE press[p]]
  BY <1>2 DEF Screen!Shows
<1>4. [at |-> "done"] \in Pressed
  BY DEF Pressed
<1>5. press' \in [Presses -> Pressed]
  BY <1>1, <1>3, <1>4 DEF FormTypes
<1>6. QED
  BY <1>5 DEF Screen!Shows

LEMMA NextFormTypes == ASSUME DashboardConstants PROVE FormTypes /\ [Screen!Next]_Screen!vars => FormTypes'
<1> SUFFICES ASSUME FormTypes, [Screen!Next]_Screen!vars PROVE FormTypes'
  OBVIOUS
<1>0. MaxEdits \in Nat /\ MaxBlunders \in Nat /\ Values \subseteq Screen!Maybe /\ Loading \in Screen!Maybe
  BY DEF DashboardConstants, Screen!Maybe
<1>1. Screen!Mishap => blunders' \in 0 .. MaxBlunders
  BY <1>0 DEF Screen!Mishap, FormTypes
<1>2. Screen!Fine => blunders' \in 0 .. MaxBlunders
  BY DEF Screen!Fine, FormTypes
<1>3. CASE UNCHANGED Screen!vars
  BY <1>3 DEF Screen!vars, Screen!form, FormTypes
<1>4. ASSUME NEW g \in Guilds, Screen!Pick(g) PROVE FormTypes'
  <2>1. ASSUME NEW l \in DOMAIN loads' PROVE loads'[l] \in Loads
    <3>1. loads'[l] = Screen!Load(g) \/ (l \in DOMAIN loads /\ loads'[l] = [loads[l] EXCEPT !.cancelled = TRUE])
      BY <1>4, <2>1 DEF Screen!Pick
    <3>2. l \in DOMAIN loads => [loads[l] EXCEPT !.cancelled = TRUE] \in Loads
      BY DEF FormTypes, Loads
    <3>3. QED
      BY <3>1, <3>2, LoadIs
  <2>2. base' \in Screen!Maybe /\ draft' \in Screen!Maybe /\ press' \in [Presses -> Pressed]
    BY <1>0, <1>4, ShowsTypes DEF Screen!Pick, FormTypes
  <2>3. UNCHANGED <<rows, edits, blunders>> /\ guild' = g /\ source' = "loading" /\ strayed' \in BOOLEAN
    BY <1>4 DEF Screen!Pick
  <2>4. QED
    BY <2>1, <2>2, <2>3 DEF FormTypes
<1>5. ASSUME NEW l \in DOMAIN loads, Screen!Read(l) PROVE FormTypes'
  <2>1. loads[l] \in Loads /\ rows[loads[l].guild] \in Screen!Maybe
    BY <1>0 DEF FormTypes, Loads
  <2>2. PICK a : a = rows[loads[l].guild]
    OBVIOUS
  <2>3. [loads[l] EXCEPT !.at = "read", !.answer = a] \in Loads /\ [loads[l] EXCEPT !.at = "done"] \in Loads
    BY <2>1, <2>2 DEF Loads
  <2>4. \/ loads' = [loads EXCEPT ![l] = [loads[l] EXCEPT !.at = "read", !.answer = a]]
        \/ loads' = [loads EXCEPT ![l] = [loads[l] EXCEPT !.at = "done"]]
    BY <1>5, <2>2 DEF Screen!Read
  <2>5. \A m \in DOMAIN loads' : loads'[m] \in Loads
    BY <2>3, <2>4 DEF FormTypes
  <2>6. UNCHANGED <<rows, guild, source, base, draft, press, edits, strayed>> /\ blunders' \in 0 .. MaxBlunders
    BY <1>1, <1>2, <1>5 DEF Screen!Read, Screen!form
  <2>7. QED
    BY <2>5, <2>6 DEF FormTypes
<1>6. ASSUME NEW l \in DOMAIN loads, Screen!Loaded(l) PROVE FormTypes'
  <2>1. loads[l] \in Loads
    BY DEF FormTypes
  <2>2. [loads[l] EXCEPT !.at = "done"] \in Loads /\ loads[l].answer \in Screen!Maybe
    BY <2>1 DEF Loads
  <2>3. loads' = [loads EXCEPT ![l] = [loads[l] EXCEPT !.at = "done"]]
    BY <1>6 DEF Screen!Loaded
  <2>4. \A m \in DOMAIN loads' : loads'[m] \in Loads
    BY <2>2, <2>3 DEF FormTypes
  <2>5. /\ base' \in Screen!Maybe /\ draft' \in Screen!Maybe /\ press' \in [Presses -> Pressed]
        /\ source' \in {"loading", "loaded"}
    BY <1>6, <2>2, ShowsTypes DEF Screen!Loaded, Screen!form, FormTypes
  <2>6. UNCHANGED <<rows, guild, edits, blunders, strayed>>
    BY <1>6 DEF Screen!Loaded
  <2>7. QED
    BY <2>4, <2>5, <2>6 DEF FormTypes
<1>7. ASSUME NEW v \in Values, Screen!Edit(v) PROVE FormTypes'
  <2>1. base' \in Screen!Maybe /\ draft' \in Screen!Maybe /\ press' \in [Presses -> Pressed]
    <3>1. Screen!Shows(base, v, {}) /\ base \in Screen!Maybe /\ v \in Screen!Maybe
      BY <1>0, <1>7 DEF Screen!Edit, FormTypes
    <3>2. QED
      BY <3>1, ShowsTypes
  <2>2. edits' \in 0 .. MaxEdits
    BY <1>0, <1>7 DEF Screen!Edit, FormTypes
  <2>3. QED
    BY <1>7, <2>1, <2>2 DEF Screen!Edit, FormTypes
<1>8. CASE Screen!Reset
  <2>1. base' \in Screen!Maybe /\ draft' \in Screen!Maybe /\ press' \in [Presses -> Pressed]
    <3>1. Screen!Shows(base, base, {}) /\ base \in Screen!Maybe
      BY <1>8 DEF Screen!Reset, FormTypes
    <3>2. QED
      BY <3>1, ShowsTypes
  <2>2. QED
    BY <1>8, <2>1 DEF Screen!Reset, FormTypes
<1>9. ASSUME NEW p \in Presses, Screen!Save(p) PROVE FormTypes'
  <2>1. draft \in Values /\ guild \in Guilds
    BY <1>9 DEF Screen!Save, Screen!Dirty, FormTypes, Screen!Maybe
  <2>2. [at |-> "sent", mounted |-> TRUE, guild |-> guild, value |-> draft] \in Pressed
    BY <2>1 DEF Pressed, Afloat
  <2>3. press' \in [Presses -> Pressed] /\ strayed' \in BOOLEAN
    BY <1>9, <2>2 DEF Screen!Save, FormTypes
  <2>4. QED
    BY <1>9, <2>3 DEF Screen!Save, Screen!form, FormTypes
<1>10. ASSUME NEW p \in Presses, press[p].at \in Afloat
       PROVE  press[p] \in [at : Afloat, mounted : BOOLEAN, guild : Guilds, value : Values]
  BY <1>10 DEF FormTypes, Pressed, Screen!Ready, Afloat
<1>11. ASSUME NEW p \in Presses, press[p].at \in Afloat, NEW a \in Afloat, press' = [press EXCEPT ![p].at = a]
       PROVE  press' \in [Presses -> Pressed]
  <2>1. [press[p] EXCEPT !.at = a] \in [at : Afloat, mounted : BOOLEAN, guild : Guilds, value : Values]
    BY <1>10, <1>11
  <2>2. press' = [press EXCEPT ![p] = [press[p] EXCEPT !.at = a]]
    BY <1>11
  <2>3. QED
    BY <2>1, <2>2 DEF FormTypes, Pressed
<1>12. ASSUME NEW p \in Presses, Screen!Limited(p) \/ Screen!Resend(p) PROVE FormTypes'
  <2>1. press' \in [Presses -> Pressed]
    BY <1>11, <1>12 DEF Screen!Limited, Screen!Resend, Afloat
  <2>2. QED
    BY <1>1, <1>12, <2>1 DEF Screen!Limited, Screen!Resend, Screen!form, FormTypes
<1>13. ASSUME NEW p \in Presses, Screen!Stores(p) PROVE FormTypes'
  <2>1. press[p].at \in Afloat /\ press' \in [Presses -> Pressed]
    BY <1>11, <1>13 DEF Screen!Stores, Afloat
  <2>2. press[p].guild \in Guilds /\ press[p].value \in Values
    BY <1>10, <2>1
  <2>3. rows' \in [Guilds -> Values]
    BY <1>13, <2>2 DEF Screen!Stores, FormTypes
  <2>4. QED
    BY <1>13, <2>1, <2>3 DEF Screen!Stores, Screen!form, FormTypes
<1>14. ASSUME NEW p \in Presses, Screen!Commits(p) PROVE FormTypes'
  <2>1. press[p].value \in Screen!Maybe
    BY <1>0, <1>10, <1>14 DEF Screen!Commits, Afloat
  <2>2. base' \in Screen!Maybe /\ draft' \in Screen!Maybe /\ press' \in [Presses -> Pressed]
    BY <1>14, <2>1, ShowsTypes DEF Screen!Commits
  <2>3. QED
    BY <1>14, <2>2 DEF Screen!Commits, FormTypes
<1>15. ASSUME NEW p \in Presses, Screen!Fails(p) PROVE FormTypes'
  <2>1. press' \in [Presses -> Pressed] /\ strayed' \in BOOLEAN
    BY <1>15 DEF Screen!Fails, FormTypes, Pressed
  <2>2. QED
    BY <1>1, <1>15, <2>1 DEF Screen!Fails, Screen!form, FormTypes
<1>16. QED
  BY <1>3, <1>4, <1>5, <1>6, <1>7, <1>8, <1>9, <1>12, <1>13, <1>14, <1>15 DEF Screen!Next

(* The sign-in.                                                            *)
LEMMA SignInSteps == [DashboardNext]_all => [Next]_vars
BY DEF DashboardNext, all

LEMMA SignInIsTyped == SignInInv => TypeOK
BY DEF SignInInv, RequestsOK, StoreOK, LoginsOK, TypeOK, Request

DashboardTypes == RouteTypes /\ LookTypes /\ FormTypes

(* Every part of the dashboard keeps its types, in every scene.            *)
THEOREM DashboardIsTyped == ASSUME DashboardConstants PROVE DashboardSpec => []TypesOK
<1>0. ReachConstants
  BY DEF DashboardConstants
<1>1. DashboardInit => SignInInv /\ RouteInv /\ ReachTypes /\ DashboardTypes
  BY <1>0, InitSignInInv, InitRoutes, InitReachTypes, InitRouteTypes, InitLookTypes, InitFormTypes
     DEF DashboardInit, DashboardTypes
<1>2. SignInInv /\ [Next]_vars => SignInInv'
  BY NextSignInInv
<1>3. RouteInv /\ [Settings!Next]_Settings!vars => RouteInv'
  BY NextRoutes
<1>4. ReachTypes /\ [Reach!Next]_Reach!vars => ReachTypes'
  BY <1>0, NextReachTypes
<1>5. DashboardTypes /\ [DashboardNext]_all => DashboardTypes'
  BY SettingsSteps, LookSteps, ScreenSteps, NextRouteTypes, NextLookTypes, NextFormTypes DEF DashboardTypes
<1>6. DashboardInit /\ [][DashboardNext]_all => [](scene \in {"sign in", "settings", "look", "screen", "reach"})
  <2>1. DashboardInit => scene \in {"sign in", "settings", "look", "screen", "reach"}
    BY DEF DashboardInit
  <2>2. scene \in {"sign in", "settings", "look", "screen", "reach"} /\ [DashboardNext]_all
           => (scene \in {"sign in", "settings", "look", "screen", "reach"})'
    BY DEF DashboardNext, all
  <2>3. QED
    BY <2>1, <2>2, PTL
<1>7. scene \in {"sign in", "settings", "look", "screen", "reach"} /\ SignInInv /\ RouteInv /\ ReachTypes /\ DashboardTypes
         => TypesOK
  <2> SUFFICES ASSUME scene \in {"sign in", "settings", "look", "screen", "reach"},
                      SignInInv, RouteInv, ReachTypes, DashboardTypes
               PROVE  TypesOK
    OBVIOUS
  <2>1. TypeOK /\ Settings!TypeOK /\ Look!TypeOK /\ Screen!TypeOK /\ Reach!TypeOK
    BY <1>0, SignInIsTyped, RoutesAreTyped, LooksAreTyped, FormsAreTyped, ReachTypesAre DEF DashboardTypes
  <2>2. QED
    BY <2>1 DEF TypesOK
<1>8. QED
  BY <1>1, <1>2, <1>3, <1>4, <1>5, <1>6, <1>7, SignInSteps, SettingsSteps, ReachSteps, PTL DEF DashboardSpec
================================================================================
