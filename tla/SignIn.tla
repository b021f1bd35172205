------------------------------- MODULE SignIn -------------------------------
(***************************************************************************)
(* Signing in to the dashboard as one Discord account: the OAuth callback, *)
(* the pending login that waits for a code, the authenticator and its      *)
(* recovery codes, and the account routes that replace or remove them      *)
(* (apps/dashboard/server/two-factor.ts, session.ts and the routes of      *)
(* index.ts).  Several requests of the account are served at once; every   *)
(* await on the database is a step.  Transactions are atomic.              *)
(***************************************************************************)
EXTENDS Integers, FiniteSets

CONSTANTS
    Requests,      \* requests being served at the same time
    Pendings,      \* ids of pending logins
    MaxMints,      \* bound: authenticator keys and code batches generated
    CodesEach,     \* recovery codes of a batch
    MaxClock,      \* bound: TOTP time steps
    Drift,         \* TOTP_DRIFT_STEPS
    MaxAttempts,   \* SECOND_FACTOR_MAX_ATTEMPTS
    None

ASSUME SignInBounds ==
    /\ {MaxMints, CodesEach, MaxClock, Drift, MaxAttempts} \subseteq Nat
    /\ MaxAttempts > 0
ASSUME RequestsAreFinite == IsFiniteSet(Requests)

VARIABLES
    clock,         \* the current TOTP time step
    minted,        \* keys generated so far; key m comes with recovery codes <<"recovery", m, n>>
    credential,    \* admin_two_factor of the account
    recovery,      \* admin_two_factor_recovery: the codes whose hashes are stored
    setup,         \* admin_two_factor_setup: the key shown and not confirmed
    pending,       \* admin_two_factor_pending
    signedIn,      \* whether oauth_sessions holds a live session of the account
    req,           \* the request each handler serves
    consumed,      \* codes the store has accepted since the authenticator was last set
    guesses        \* wrong codes given to each pending login

store  == <<credential, recovery, setup>>
vars   == <<clock, minted, store, pending, signedIn, req, consumed, guesses>>

Mints   == 1 .. MaxMints
Codes   == {"totp"} \X Mints \X (0 .. MaxClock) \cup {"recovery"} \X Mints \X (1 .. CodesEach)
Junk    == <<"junk", 0, 0>>
Gone    == [life |-> "gone"]
Live    == [life : {"live"}, attempts : 0 .. MaxAttempts + Cardinality(Requests), mint : 0 .. MaxMints]
Enrolled == [mint : Mints, last : -1 .. MaxClock]
Idle    == [at |-> "idle", route |-> "none", id |-> None, code |-> Junk, mint |-> 0]
Places  == {"idle", "gate", "pend", "issue", "enrolled?", "material", "check", "enrol", "consume",
            "count", "destroy", "forget", "reauth", "begin", "confirm", "disable", "regenerate"}
Routes  == {"none", "callback", "verify", "setup", "confirm", "disable", "regenerate"}

ASSUME NoneIsNoRow == None \notin Pendings \cup {Gone} \cup Live \cup Enrolled

TypeOK ==
    /\ clock \in 0 .. MaxClock /\ minted \in 0 .. MaxMints
    /\ credential \in {None} \cup Enrolled
    /\ recovery \subseteq Codes /\ (recovery # {} => credential # None)
    /\ setup \in 0 .. MaxMints
    /\ pending \in [Pendings -> {None, Gone} \cup Live]
    /\ signedIn \in BOOLEAN
    /\ req \in [Requests -> [at : Places, route : Routes, id : {None} \cup Pendings,
                             code : Codes \cup {Junk}, mint : 0 .. MaxMints]]
    /\ consumed \subseteq Codes
    /\ guesses \in [Pendings -> Nat]

Init ==
    /\ clock = 0 /\ minted = 0
    /\ credential = None /\ recovery = {} /\ setup = 0
    /\ pending = [p \in Pendings |-> None]
    /\ signedIn = FALSE
    /\ req = [r \in Requests |-> Idle]
    /\ consumed = {} /\ guesses = [p \in Pendings |-> 0]

RecoveryOf(m)  == {<<"recovery", m, n>> : n \in 1 .. CodesEach}
Alive(p)       == p # None /\ pending[p] \notin {None, Gone}
Drop(p)        == pending' = [pending EXCEPT ![p] = Gone]
Goto(r, place) == req' = [req EXCEPT ![r].at = place]
GotoBare(r, place) == req' = [req EXCEPT ![r].at = place, ![r].code = Junk, ![r].mint = 0]
Answer(r)      == req' = [req EXCEPT ![r] = Idle]

(* What an operator may type: junk, a recovery code, or a code their app   *)
(* shows for a key they were given.                                        *)
Typed == {Junk} \cup {c \in Codes : c[2] \in 1 .. minted /\ (c[1] = "totp" => c[3] <= clock + Drift)}

(* verifyTotpCode: the time step whose code this is, within the drift.     *)
VerifyTotp(key, code) ==
    IF code[1] = "totp" /\ code[2] = key /\ code[3] \in clock - Drift .. clock + Drift
    THEN code[3] ELSE -1

(* requiresSecondFactor: the platform owner, and whoever owns or may       *)
(* administer a guild; everybody while the guilds cannot be read.          *)
RequiresSecondFactor(owner, guilds) == owner \/ guilds = None \/ "administers" \in guilds

NewMint == minted < MaxMints /\ minted' = minted + 1

-----------------------------------------------------------------------------
(* GET /auth/discord/callback, once Discord has vouched for the account.   *)

(* The session the browser still carries is destroyed before anything else *)
(* is decided.                                                             *)
Callback(r) ==
    /\ req[r] = Idle
    /\ signedIn' \in {FALSE, signedIn}
    /\ req' = [req EXCEPT ![r].at = "gate", ![r].route = "callback"]
    /\ UNCHANGED <<clock, minted, store, pending, consumed, guesses>>

Gate(r) ==
    /\ req[r].at = "gate"
    /\ \E owner \in BOOLEAN, guilds \in {None, {}, {"administers"}} :
          Goto(r, IF RequiresSecondFactor(owner, guilds) /\ credential # None THEN "pend" ELSE "issue")
    /\ UNCHANGED <<clock, minted, store, pending, signedIn, consumed, guesses>>

(* A new leg replaces the pending login the browser may have had.          *)
CreatePending(r) ==
    /\ req[r].at = "pend"
    /\ \E p \in Pendings, previous \in Pendings \cup {None} :
          /\ pending[p] = None /\ previous # p
          /\ pending' = [q \in Pendings |->
                           CASE q = p -> [life |-> "live", attempts |-> 0, mint |-> 0]
                             [] q = previous /\ Alive(q) -> Gone
                             [] OTHER -> pending[q]]
    /\ Answer(r)
    /\ UNCHANGED <<clock, minted, store, signedIn, consumed, guesses>>

(* issueSession, of the callback and of a verified login, which then       *)
(* deletes its pending row.                                                *)
IssueSession(r) ==
    /\ req[r].at = "issue"
    /\ signedIn' = TRUE
    /\ IF req[r].route = "verify" THEN Goto(r, "forget") ELSE Answer(r)
    /\ UNCHANGED <<clock, minted, store, pending, consumed, guesses>>

ForgetPending(r) ==
    /\ req[r].at \in {"forget", "destroy"}
    /\ Drop(req[r].id) /\ Answer(r)
    /\ UNCHANGED <<clock, minted, store, signedIn, consumed, guesses>>

-----------------------------------------------------------------------------
(* POST /api/2fa/verify and GET /api/2fa/enrollment.                       *)

Verify(r) ==
    /\ req[r] = Idle
    /\ \E p \in Pendings, code \in Typed :
          /\ Alive(p)
          /\ req' = [req EXCEPT ![r] = [Idle EXCEPT !.at = IF code = Junk THEN "count" ELSE "enrolled?",
                                                    !.route = "verify", !.id = p, !.code = code]]
    /\ UNCHANGED <<clock, minted, store, pending, signedIn, consumed, guesses>>

CheckEnrolled(r) ==
    /\ req[r].at = "enrolled?"
    /\ Goto(r, IF credential = None THEN "material" ELSE "check")
    /\ UNCHANGED <<clock, minted, store, pending, signedIn, consumed, guesses>>

(* ensureEnrollment keeps the material the row already has.                *)
EnsureEnrollment(p) ==
    IF pending[p].mint # 0
    THEN UNCHANGED <<pending, minted>>
    ELSE NewMint /\ pending' = [pending EXCEPT ![p].mint = minted + 1]

(* The account has no authenticator any more: the login enrols one with    *)
(* the material of its row, or ends if the row is gone.                    *)
VerifyMaterial(r) ==
    /\ req[r].at = "material"
    /\ IF ~Alive(req[r].id)
       THEN GotoBare(r, "destroy") /\ UNCHANGED <<pending, minted>>
       ELSE /\ EnsureEnrollment(req[r].id)
            /\ LET m == pending'[req[r].id].mint
                   ok == VerifyTotp(m, req[r].code) >= 0 \/ req[r].code \in RecoveryOf(m)
               IN  IF ok THEN req' = [req EXCEPT ![r].at = "enrol", ![r].mint = m] ELSE GotoBare(r, "count")
    /\ UNCHANGED <<clock, store, signedIn, consumed, guesses>>

(* confirmEnrollment; a code that lost the race is welcome all the same.   *)
ConfirmEnrollment(r) ==
    /\ req[r].at = "enrol"
    /\ IF credential = None
       THEN /\ credential' = [mint |-> req[r].mint,
                              last |-> IF req[r].code[1] = "totp" THEN req[r].code[3] ELSE -1]
            /\ recovery' = RecoveryOf(req[r].mint) \ {req[r].code}
            /\ consumed' = {req[r].code}
       ELSE UNCHANGED <<credential, recovery, consumed>>
    /\ GotoBare(r, "issue")
    /\ UNCHANGED <<clock, minted, setup, pending, signedIn, guesses>>

(* The screen shows the key and the codes of a login that has to enrol.    *)
ShowEnrollment(p) ==
    /\ Alive(p) /\ credential = None
    /\ EnsureEnrollment(p)
    /\ UNCHANGED <<clock, store, signedIn, req, consumed, guesses>>

(* The credential is read; an app's code is checked against its key.       *)
ReadCredential(r) ==
    /\ req[r].at \in {"check", "reauth"}
    /\ LET refused == IF req[r].at = "check" THEN "count" ELSE "idle"
           bad == req[r].code[1] = "totp" /\ credential # None
                    /\ VerifyTotp(credential.mint, req[r].code) < 0
       IN  IF credential = None \/ (bad /\ refused = "idle") THEN Answer(r)
           ELSE IF bad THEN GotoBare(r, "count") ELSE Goto(r, "consume")
    /\ UNCHANGED <<clock, minted, store, pending, signedIn, consumed, guesses>>

(* Mutant: the counter is compared with <=.                               *)
TakesCounterAgain(code) == code[1] = "totp" /\ credential # None /\ credential.last <= code[3]

(* consumeTotpCounter: only a newer step is taken.                         *)
TakesCounter(code) == code[1] = "totp" /\ credential # None /\ credential.last < code[3]

(* consumeRecoveryCode deletes the code.                                   *)
TakesRecovery(code) == code \in recovery

Accepted(r) == [callback |-> "idle", verify |-> "issue", setup |-> "begin", disable |-> "disable",
                regenerate |-> "regenerate"][req[r].route]

Consume(r) ==
    /\ req[r].at = "consume"
    /\ LET code == req[r].code
       IN  IF TakesCounter(code) \/ TakesRecovery(code)
           THEN /\ credential' = IF code[1] = "totp" THEN [credential EXCEPT !.last = code[3]] ELSE credential
                /\ recovery' = recovery \ {code}
                /\ consumed' = consumed \cup {code}
                /\ GotoBare(r, Accepted(r))
           ELSE /\ IF req[r].route = "verify" THEN GotoBare(r, "count") ELSE Answer(r)
                /\ UNCHANGED <<credential, recovery, consumed>>
    /\ UNCHANGED <<clock, minted, setup, pending, signedIn, guesses>>

(* Mutant: the ceiling is tested before the code is counted.               *)
CountWrongCodeLate(r) ==
    LET p == req[r].id
    IN  /\ req[r].at = "count"
        /\ guesses' = [guesses EXCEPT ![p] = @ + 1]
        /\ IF Alive(p)
           THEN /\ pending' = [pending EXCEPT ![p].attempts = @ + 1]
                /\ IF pending[p].attempts >= MaxAttempts THEN Goto(r, "destroy") ELSE Answer(r)
           ELSE Goto(r, "destroy") /\ UNCHANGED pending
        /\ UNCHANGED <<clock, minted, store, signedIn, consumed>>

(* refuseSecondFactor: the wrong code is counted on the row; the last one  *)
(* destroys the pending login, and so does a row that is already gone.     *)
CountWrongCode(r) ==
    LET p == req[r].id
    IN  /\ req[r].at = "count"
        /\ guesses' = [guesses EXCEPT ![p] = @ + 1]
        /\ IF Alive(p)
           THEN /\ pending' = [pending EXCEPT ![p].attempts = @ + 1]
                /\ IF pending[p].attempts + 1 >= MaxAttempts THEN Goto(r, "destroy") ELSE Answer(r)
           ELSE Goto(r, "destroy") /\ UNCHANGED pending
        /\ UNCHANGED <<clock, minted, store, signedIn, consumed>>

-----------------------------------------------------------------------------
(* The account routes, which need a session.                               *)

(* setup, disable and recovery-codes first ask for a current code, and     *)
(* junk changes nothing; the first authenticator needs none.               *)
AccountChange(r) ==
    /\ req[r] = Idle /\ signedIn
    /\ \/ credential = None
          /\ req' = [req EXCEPT ![r].route = "setup", ![r].at = "begin"]
       \/ \E route \in {"setup", "disable", "regenerate"}, code \in Typed \ {Junk} :
             /\ route = "setup" => credential # None
             /\ req' = [req EXCEPT ![r] = [Idle EXCEPT !.route = route, !.code = code, !.at = "reauth"]]
    /\ UNCHANGED <<clock, minted, store, pending, signedIn, consumed, guesses>>

BeginSetup(r) ==
    /\ req[r].at = "begin"
    /\ NewMint /\ setup' = minted + 1
    /\ Answer(r)
    /\ UNCHANGED <<clock, credential, recovery, pending, signedIn, consumed, guesses>>

(* /me/2fa/confirm: the new key's own code, or one of its recovery codes.  *)
ConfirmStart(r) ==
    /\ req[r] = Idle /\ signedIn /\ setup # 0
    /\ \E code \in Typed :
          /\ VerifyTotp(setup, code) >= 0 \/ code \in RecoveryOf(setup)
          /\ req' = [req EXCEPT ![r] = [Idle EXCEPT !.at = "confirm", !.route = "confirm",
                                                    !.code = code, !.mint = setup]]
    /\ UNCHANGED <<clock, minted, store, pending, signedIn, consumed, guesses>>

(* confirmSetup: the key and the whole set of codes, in one transaction.   *)
ConfirmSetup(r) ==
    /\ req[r].at = "confirm"
    /\ credential' = [mint |-> req[r].mint,
                      last |-> IF req[r].code[1] = "totp" THEN req[r].code[3] ELSE -1]
    /\ recovery' = RecoveryOf(req[r].mint) \ {req[r].code}
    /\ setup' = 0
    /\ consumed' = {req[r].code}
    /\ Answer(r)
    /\ UNCHANGED <<clock, minted, pending, signedIn, guesses>>

(* deleteEnrollment cascades to the codes; deleteSetup follows.            *)
Disable(r) ==
    /\ req[r].at = "disable"
    /\ credential' = None /\ recovery' = {} /\ setup' = 0 /\ consumed' = {}
    /\ Answer(r)
    /\ UNCHANGED <<clock, minted, pending, signedIn, guesses>>

(* Mutant: new codes are stored for an account that has no key any more.   *)
ReplaceRecoveryCodesAnyway(r) ==
    /\ req[r].at = "regenerate"
    /\ NewMint
    /\ recovery' = RecoveryOf(minted + 1)
    /\ Answer(r)
    /\ UNCHANGED <<clock, credential, setup, pending, signedIn, consumed, guesses>>

(* replaceRecoveryCodes fails when the account was disabled meanwhile.     *)
ReplaceRecoveryCodes(r) ==
    /\ req[r].at = "regenerate"
    /\ NewMint
    /\ recovery' = IF credential = None THEN {} ELSE RecoveryOf(minted + 1)
    /\ Answer(r)
    /\ UNCHANGED <<clock, credential, setup, pending, signedIn, consumed, guesses>>

(* Logging out or cancelling: the session and the pending login of the     *)
(* browser go; other browsers' sessions may be left.                       *)
Logout ==
    /\ signedIn' \in {FALSE, signedIn}
    /\ \E p \in {q \in Pendings : Alive(q)} \cup {None} :
          pending' = [q \in Pendings |-> IF q = p THEN Gone ELSE pending[q]]
    /\ UNCHANGED <<clock, minted, store, req, consumed, guesses>>

-----------------------------------------------------------------------------
(* Time: TOTP steps; and rows that expire, unseen by every read from then  *)
(* on and purged by the housekeeping timer.                                *)

Tick ==
    /\ clock < MaxClock /\ clock' = clock + 1
    /\ UNCHANGED <<minted, store, pending, signedIn, req, consumed, guesses>>

Expire ==
    /\ \/ \E p \in Pendings : Alive(p) /\ Drop(p) /\ UNCHANGED <<setup, signedIn>>
       \/ setup # 0 /\ setup' = 0 /\ UNCHANGED <<pending, signedIn>>
       \/ signedIn /\ signedIn' = FALSE /\ UNCHANGED <<pending, setup>>
    /\ UNCHANGED <<clock, minted, credential, recovery, req, consumed, guesses>>

Work(r) ==
    \/ Callback(r) \/ Gate(r) \/ CreatePending(r) \/ IssueSession(r) \/ ForgetPending(r)
    \/ Verify(r) \/ CheckEnrolled(r) \/ VerifyMaterial(r) \/ ConfirmEnrollment(r)
    \/ ReadCredential(r) \/ Consume(r) \/ CountWrongCode(r)
    \/ AccountChange(r) \/ BeginSetup(r) \/ ConfirmStart(r) \/ ConfirmSetup(r)
    \/ Disable(r) \/ ReplaceRecoveryCodes(r)

Next ==
    \/ \E r \in Requests : Work(r)
    \/ \E p \in Pendings : ShowEnrollment(p)
    \/ Logout \/ Tick \/ Expire

Spec == Init /\ [][Next]_vars

-----------------------------------------------------------------------------
(* Between two changes of the authenticator the store takes a code once,   *)
(* whoever sends it: two requests with the same code, typed at the login   *)
(* gate or on the account screen, cannot both be let through by it         *)
(* ("a recovery code is spent with DELETE ... RETURNING so two concurrent  *)
(* requests cannot both win", index.ts).                                   *)
CodesAreTakenOnce ==
    [][\A r \in Requests :
          req[r].at = "consume" /\ req'[r].at = Accepted(r) /\ req[r].route = req'[r].route
              => req[r].code \notin consumed]_vars

(* A pending login takes MaxAttempts wrong codes; only those already being *)
(* served when the last one is counted come on top.                        *)
GuessesAreBounded ==
    \A p \in Pendings : guesses[p] <= MaxAttempts - 1 + Cardinality(Requests)
=============================================================================
