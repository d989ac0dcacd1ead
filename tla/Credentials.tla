------------------------------ MODULE Credentials ------------------------------
(***************************************************************************)
(* What one staff account proves itself with: the password and the count   *)
(* of its wrong answers, the authenticator and the passkeys.  Requests     *)
(* read, verify outside the database and then write; each statement is a   *)
(* step.  A transaction's writes are one step, its locks follow from where *)
(* its request stands.  Between them other requests answer, enrol, remove, *)
(* and an administrator resets.                                            *)
(*                                                                         *)
(* A code is the time step it belongs to, an assertion the sign count it   *)
(* carries; secrets, challenges and signatures are left out, and so is the *)
(* preferred method, which is only a preference.                           *)
(*                                                                         *)
(* Definitions whose names begin with Wrong are not part of the model:     *)
(* each is a plausible mistake that a property below must find.            *)
(***************************************************************************)
EXTENDS Integers, FiniteSets

CONSTANTS
  Req, Row,    \* requests; rows of TotpCredential (a bound on enrolments)
  Passkey,     \* passkeys, also the rows of PasskeyCredential
  None,
  Workloads,   \* the sets of request kinds of this instance
  MaxAttempts, \* of passwordAttemptPolicy
  Window,      \* both windowMilliseconds and blockMilliseconds, in ticks
  MaxTime      \* bound on time

PasswordKinds == {"right", "wrong"}
SetupKinds == {"setupTotp", "setupPasskey"}
RemoveKinds == {"removeTotp", "removePasskey"}
AllKinds == PasswordKinds \cup SetupKinds \cup RemoveKinds
              \cup {"code", "assertion", "confirmTotp", "addPasskey", "resetMfa"}

ASSUME CredentialsAssumption ==
  /\ None \notin Row \cup Passkey \cup Int \cup AllKinds
  /\ IsFiniteSet(Passkey)
  /\ Row \cap Passkey = {}
  /\ Workloads \subseteq SUBSET AllKinds
  /\ MaxAttempts \in Nat \ {0} /\ Window \in Nat \ {0} /\ MaxTime \in Nat

VARIABLES
  workload,  \* the kinds of requests there are
  now,       \* the clock; a time step of the authenticator is a tick
  account,   \* failedAuthCount, failedAuthWindowStartedAt, authBlockedUntil
  totp,      \* the TotpCredential rows of the account
  passkey,   \* its PasskeyCredential rows
  req,       \* each request
  history    \* what properties remember: when the last wrong answer was read, the
             \* wrong answers since the last right one, the requests whose wrong
             \* answers were under way when the block began, the codes and
             \* assertions accepted

vars == <<workload, now, account, totp, passkey, req, history>>

Idle(answer) ==
  [kind |-> None, pc |-> "idle", at |-> 0, row |-> None, rows |-> {}, key |-> None,
   read |-> [count |-> 0, last |-> -1], totp |-> FALSE, answer |-> answer]

\* Wrong answers since the last right one: how many, the earliest, the latest.
NoGuesses == [count |-> 0, first |-> 0, last |-> 0]
Guessed(g, at) ==
  IF g.count = 0 THEN [count |-> 1, first |-> at, last |-> at]
  ELSE [count |-> g.count + 1, first |-> IF at < g.first THEN at ELSE g.first,
                               last |-> IF at > g.last THEN at ELSE g.last]

Init ==
  /\ workload \in Workloads
  /\ now = 0
  /\ account = [count |-> 0, since |-> None, until |-> None]
  /\ totp = [w \in Row |-> [state |-> "none", step |-> 0]]
  /\ passkey = [k \in Passkey |-> [state |-> "none", count |-> 0, last |-> -1]]
  /\ req = [r \in Req |-> Idle("none")]
  /\ history = [wrongAt |-> -Window, guesses |-> NoGuesses, racing |-> {},
                used |-> {}, claims |-> [k \in Passkey |-> {}]]

-------------------------------------------------------------------------------
Active == {w \in Row : totp[w].state = "active"}
Registered == {k \in Passkey : passkey[k].state = "active"}
HasFactor == Active # {} \/ Registered # {}

\* SELECT ... FOR UPDATE of a removal, staff.update of a reset.
Removing(r) == req[r].pc \in {"count", "remove"}
Resetting(r) == req[r].pc \in {"resetTotp", "resetPasskeys"}
StaffLocked == \E r \in Req : Removing(r) \/ Resetting(r)
\* The foreign key of a new row waits for a removal, not for a reset.
KeyLocked == \E r \in Req : Removing(r)
RowLocked(w) == \E r \in Req : req[r].pc = "resetPasskeys" /\ w \in req[r].rows

Goto(r, pc) == req' = [req EXCEPT ![r].pc = pc]
Answer(r, answer) == req' = [req EXCEPT ![r] = Idle(answer)]
Keep == UNCHANGED <<workload, now>>

Start(kind) ==
  CASE kind \in PasswordKinds -> "findStaff"
    [] kind = "code" -> "findTotp"
    [] kind = "assertion" -> "findPasskey"
    [] kind = "confirmTotp" -> "selectTotp"
    [] kind = "addPasskey" -> "insertPasskey"
    [] kind \in SetupKinds -> "findFactors"
    [] OTHER -> "lockStaff"

Begin(r, kind) ==
  /\ req[r].pc = "idle"
  /\ kind \in workload
  /\ \E k \in IF kind \in {"assertion", "addPasskey", "setupPasskey", "removePasskey"}
                THEN Passkey ELSE {None} :
       req' = [req EXCEPT ![r] = [Idle("none") EXCEPT !.kind = kind, !.pc = Start(kind), !.key = k]]
  /\ Keep /\ UNCHANGED <<account, totp, passkey, history>>

-------------------------------------------------------------------------------
(* loginWithPassword *)

FindStaff(r) ==
  /\ req[r].pc = "findStaff"
  /\ IF account.until # None /\ account.until > now
       THEN Answer(r, "blocked")
       ELSE req' = [req EXCEPT ![r].at = now,
                               ![r].pc = IF req[r].kind = "right" THEN "clear" ELSE "fail"]
  /\ Keep /\ UNCHANGED <<account, totp, passkey, history>>

\* recordFailedPasswordAttempt
Counted(a, at) ==
  LET restart == a.since = None \/ a.since <= at - Window
      count == IF restart THEN 1 ELSE a.count + 1
  IN  [count |-> count,
       since |-> IF restart THEN at ELSE a.since,
       until |-> IF count >= MaxAttempts THEN at + Window ELSE None]

Failing == {r \in Req : req[r].pc = "fail"}

RecordFailure(r) ==
  LET after == Counted(account, req[r].at)
  IN  /\ req[r].pc = "fail"
      /\ ~StaffLocked
      /\ account' = after
      /\ history' = [history EXCEPT
                       !.wrongAt = req[r].at, !.guesses = Guessed(@, req[r].at),
                       !.racing = (IF after.until # None THEN Failing ELSE @) \ {r}]
      /\ Answer(r, "refused")
      /\ Keep /\ UNCHANGED <<totp, passkey>>

\* Mutant: a right password clears the count whatever has happened since.
WrongClearFailures(r) ==
  /\ req[r].pc = "clear"
  /\ ~StaffLocked
  /\ account' = [count |-> 0, since |-> None, until |-> None]
  /\ history' = [history EXCEPT !.guesses = NoGuesses]
  /\ Answer(r, "ok")
  /\ Keep /\ UNCHANGED <<totp, passkey>>

\* clearFailedPasswordAttempts; the challenge or the setup that follows only
\* reads.
ClearFailures(r) ==
  /\ req[r].pc = "clear"
  /\ ~StaffLocked
  /\ IF account.until = None \/ account.until <= req[r].at
       THEN /\ account' = [count |-> 0, since |-> None, until |-> None]
            /\ history' = [history EXCEPT !.guesses = NoGuesses]
            /\ Answer(r, "ok")
       ELSE Answer(r, "blocked") /\ UNCHANGED <<account, history>>
  /\ Keep /\ UNCHANGED <<totp, passkey>>

-------------------------------------------------------------------------------
(* completeTotpLogin and verifySecurityTotp: the credential, its code, and    *)
(* consumeTotpTimeStep                                                        *)

FindTotp(r) ==
  /\ req[r].pc = "findTotp"
  /\ IF \E w \in Active : totp[w].step < now
       THEN req' = [req EXCEPT ![r].at = now, ![r].pc = "consume"]
       ELSE Answer(r, "refused")
  /\ Keep /\ UNCHANGED <<account, totp, passkey, history>>

Consume(r) ==
  LET rows == {w \in Active : totp[w].step < req[r].at}
  IN  /\ req[r].pc = "consume"
      /\ ~\E w \in Active : RowLocked(w)
      /\ IF rows # {}
           THEN /\ totp' = [w \in Row |-> IF w \in rows THEN [totp[w] EXCEPT !.step = req[r].at]
                                          ELSE totp[w]]
                /\ history' = [history EXCEPT !.used = @ \cup (rows \X {req[r].at})]
                /\ Answer(r, IF Cardinality(rows) = 1 THEN "ok" ELSE "refused")
           ELSE Answer(r, "refused") /\ UNCHANGED <<totp, history>>
      /\ Keep /\ UNCHANGED <<account, passkey>>

-------------------------------------------------------------------------------
(* verifyPasskeyLogin, verifyPasskeyMfa and verifySecurityPasskeyReauth: the  *)
(* credential, its assertion, and consumePasskeyAuthentication                *)

FindPasskey(r) ==
  /\ req[r].pc = "findPasskey"
  /\ IF req[r].key \in Registered
       THEN req' = [req EXCEPT ![r].read = [count |-> passkey[req[r].key].count,
                                            last |-> passkey[req[r].key].last],
                               ![r].pc = "claim"]
       ELSE Answer(r, "refused")
  /\ Keep /\ UNCHANGED <<account, totp, passkey, history>>

\* Mutant: the time of use alone, without making it later than the last.
WrongUse(read) == now

\* claimPasskeyAuthentication makes the time of use later than the last one.
Use(read) == IF now > read.last THEN now ELSE read.last + 1

\* The authenticator counts its signatures (to MaxTime here) or always says 0.
Claim(r) ==
  LET k == req[r].key
      p == passkey[k]
  IN  /\ req[r].pc = "claim"
      /\ req[r].read.last <= MaxTime  \* bound on uses within one tick
      /\ \E count \in {req[r].read.count, req[r].read.count + 1} :
           /\ count = 0 \/ (count > req[r].read.count /\ count <= MaxTime)
           /\ IF k \in Registered /\ p.count = req[r].read.count /\ p.last = req[r].read.last
                THEN /\ passkey' = [passkey EXCEPT ![k].count = count,
                                                   ![k].last = Use(req[r].read)]
                     /\ history' = [history EXCEPT !.claims[k] = @ \cup {req[r].read}]
                     /\ Answer(r, "ok")
                ELSE Answer(r, "refused") /\ UNCHANGED <<passkey, history>>
      /\ Keep /\ UNCHANGED <<account, totp>>

-------------------------------------------------------------------------------
(* Enrolment, by somebody signed in or to complete a first login *)

\* confirmLoginTotpSetup and finishLoginPasskeySetup ask that there be no factor.
FindFactors(r) ==
  /\ req[r].pc = "findFactors"
  /\ IF HasFactor THEN Answer(r, "refused")
     ELSE Goto(r, IF req[r].kind = "setupTotp" THEN "selectTotp" ELSE "insertPasskey")
  /\ Keep /\ UNCHANGED <<account, totp, passkey, history>>

\* The code has been verified; upsertTotpCredential looks for a row to replace.
SelectTotp(r) ==
  /\ req[r].pc = "selectTotp"
  /\ \E w \in IF Active = {} THEN {None} ELSE Active :
        req' = [req EXCEPT ![r].row = w, ![r].at = now, ![r].pc = "storeTotp"]
  /\ Keep /\ UNCHANGED <<account, totp, passkey, history>>

\* The index TotpCredential_one_active_per_staff_idx refuses a second active row.
\* Mutant: there is no such index.
WrongOnlyActive(w) == TRUE
OnlyActive(w) == Active \subseteq {w}

\* It updates that row, active or not by now, or inserts one.
StoreTotp(r, w) ==
  /\ req[r].pc = "storeTotp"
  /\ IF req[r].row = None THEN totp[w].state = "none" /\ ~KeyLocked ELSE w = req[r].row
  /\ ~\E v \in Row : RowLocked(v)
  /\ IF OnlyActive(w)
       THEN /\ totp' = [totp EXCEPT ![w] = [state |-> "active", step |-> req[r].at]]
            /\ history' = [history EXCEPT !.used =
                             {u \in @ : u[1] # w} \cup {<<w, req[r].at>>}]
            /\ Answer(r, "ok")
       ELSE Answer(r, "failed") /\ UNCHANGED <<totp, history>>
  /\ Keep /\ UNCHANGED <<account, passkey>>

\* createPasskeyCredential; a credential is registered once.
InsertPasskey(r) ==
  /\ req[r].pc = "insertPasskey"
  /\ ~KeyLocked
  /\ IF passkey[req[r].key].state = "none"
       THEN /\ passkey' = [passkey EXCEPT ![req[r].key].state = "active"]
            /\ Answer(r, "ok")
       ELSE Answer(r, "failed") /\ UNCHANGED passkey
  /\ Keep /\ UNCHANGED <<account, totp, history>>

-------------------------------------------------------------------------------
(* deleteTotpCredential, deletePasskeyCredential and resetMfa: transactions   *)
(* that begin with the row of the account                                     *)

\* Mutant: a removal begins without the row of the account.
WrongLockStaff(r) ==
  /\ req[r].pc = "lockStaff"
  /\ Goto(r, IF req[r].kind = "resetMfa" THEN "resetTotp" ELSE "count")
  /\ Keep /\ UNCHANGED <<account, totp, passkey, history>>

LockStaff(r) ==
  /\ req[r].pc = "lockStaff"
  /\ ~StaffLocked
  /\ Goto(r, IF req[r].kind = "resetMfa" THEN "resetTotp" ELSE "count")
  /\ Keep /\ UNCHANGED <<account, totp, passkey, history>>

\* The first two statements: is there what is to be removed, and an authenticator?
Missing(r) ==
  \/ req[r].kind = "removeTotp" /\ Active = {}
  \/ req[r].kind = "removePasskey" /\ req[r].key \notin Registered

Count(r) ==
  /\ req[r].pc = "count"
  /\ IF Missing(r) THEN Answer(r, "refused")
     ELSE req' = [req EXCEPT ![r].totp = Active # {}, ![r].pc = "remove"]
  /\ Keep /\ UNCHANGED <<account, totp, passkey, history>>

\* The passkeys are counted, then the credential is removed if another is left.
LastFactor(r) ==
  IF req[r].kind = "removeTotp" THEN Registered = {}
  ELSE ~req[r].totp /\ Cardinality(Registered) = 1

Remove(r) ==
  LET gone == IF req[r].kind = "removeTotp" THEN Active ELSE {req[r].key}
  IN  /\ req[r].pc = "remove"
      /\ IF LastFactor(r)
           THEN Answer(r, "mfaRequired") /\ UNCHANGED <<totp, passkey>>
           ELSE /\ totp' = [w \in Row |-> IF w \in gone THEN [totp[w] EXCEPT !.state = "deleted"]
                                          ELSE totp[w]]
                /\ passkey' = [k \in Passkey |-> IF k \in gone
                                                   THEN [passkey[k] EXCEPT !.state = "deleted"]
                                                   ELSE passkey[k]]
                /\ Answer(r, "ok")
      /\ Keep /\ UNCHANGED <<account, history>>

\* The rows there are when the statement runs; written, and locked until the
\* transaction commits.
ResetTotp(r) ==
  /\ req[r].pc = "resetTotp"
  /\ req' = [req EXCEPT ![r].rows = Active, ![r].pc = "resetPasskeys"]
  /\ Keep /\ UNCHANGED <<account, totp, passkey, history>>

ResetPasskeys(r) ==
  /\ req[r].pc = "resetPasskeys"
  /\ totp' = [w \in Row |-> IF w \in req[r].rows THEN [totp[w] EXCEPT !.state = "deleted"]
                            ELSE totp[w]]
  /\ passkey' = [k \in Passkey |-> IF k \in Registered
                                     THEN [passkey[k] EXCEPT !.state = "deleted"]
                                     ELSE passkey[k]]
  /\ Answer(r, "ok")
  /\ Keep /\ UNCHANGED <<account, history>>

-------------------------------------------------------------------------------
\* The server stops, or a statement fails: nothing uncommitted stays.
Fail(r) ==
  /\ req[r].pc # "idle"
  /\ history' = [history EXCEPT !.racing = @ \ {r}]
  /\ Answer(r, "failed")
  /\ Keep /\ UNCHANGED <<account, totp, passkey>>

Tick ==
  /\ now < MaxTime
  /\ now' = now + 1
  /\ UNCHANGED <<workload, account, totp, passkey, req, history>>

Next ==
  \/ \E r \in Req :
       \/ \E kind \in AllKinds : Begin(r, kind)
       \/ FindStaff(r) \/ RecordFailure(r) \/ ClearFailures(r)
       \/ FindTotp(r) \/ Consume(r) \/ FindPasskey(r) \/ Claim(r)
       \/ FindFactors(r) \/ SelectTotp(r) \/ InsertPasskey(r)
       \/ \E w \in Row : StoreTotp(r, w)
       \/ LockStaff(r) \/ Count(r) \/ Remove(r) \/ ResetTotp(r) \/ ResetPasskeys(r)
       \/ Fail(r)
  \/ Tick

Spec == Init /\ [][Next]_vars

-------------------------------------------------------------------------------
(* Properties *)

Time == 0 .. MaxTime

\* Rows, requests and history stay within their types.
TypeOK ==
  /\ workload \in Workloads
  /\ now \in Time
  /\ account \in [count : Nat, since : Time \cup {None}, until : Nat \cup {None}]
  /\ totp \in [Row -> [state : {"none", "active", "deleted"}, step : Time]]
  /\ passkey \in [Passkey -> [state : {"none", "active", "deleted"}, count : Nat, last : Int]]
  /\ req \in [Req -> [kind : AllKinds \cup {None},
                      pc : {"idle", "findStaff", "fail", "clear", "findTotp", "consume",
                            "findPasskey", "claim", "findFactors", "selectTotp", "storeTotp",
                            "insertPasskey", "lockStaff", "count", "remove", "resetTotp",
                            "resetPasskeys"},
                      at : Time, row : Row \cup {None}, rows : SUBSET Row,
                      key : Passkey \cup {None}, read : [count : Nat, last : Int],
                      totp : BOOLEAN,
                      answer : {"none", "ok", "refused", "blocked", "failed", "mfaRequired"}]]
  /\ history \in [wrongAt : Int, guesses : [count : Nat, first : Time, last : Time],
                  racing : SUBSET Req, used : SUBSET (Row \X Time),
                  claims : [Passkey -> SUBSET [count : Nat, last : Int]]]

\* While enough wrong answers are counted, the block runs from the last of them.
BlockKept == account.count >= MaxAttempts => account.until = history.wrongAt + Window

\* Wrong answers that all lie within one window are all counted, in one window.
GuessesKept ==
  LET g == history.guesses
  IN  /\ g.count = 0 => account.since = None
      /\ g.count > 0 /\ g.last - g.first < Window =>
           /\ account.count = g.count
           /\ account.since # None
           /\ g.first <= account.since /\ account.since <= g.last

\* While the account is blocked, only those have passed its check that had before.
Blocked == account.until # None /\ account.until > now
RacingKept ==
  \A r \in Req : /\ req[r].pc = "fail" /\ Blocked => r \in history.racing
                 /\ req[r].pc = "clear" => req[r].at <= now

\* The index keeps one authenticator per account.
OneActive == \A v, w \in Active : v = w

\* An accepted code is not later than the step its row remembers.
CodesSpent == \A u \in history.used : u[2] <= totp[u[1]].step

\* A state of a passkey that has been used is older than the passkey's.
ClaimsPast == \A k \in Passkey : \A x \in history.claims[k] : x.last < passkey[k].last

\* What a request runs is what it asked for.
Roles ==
  \A r \in Req :
    LET pc == req[r].pc
        kind == req[r].kind
    IN  /\ kind = "right" => pc \in {"findStaff", "clear"}
        /\ kind = "code" => pc \in {"findTotp", "consume"}
        /\ kind = "assertion" => pc \in {"findPasskey", "claim"}
        /\ pc = "lockStaff" => kind \in RemoveKinds \cup {"resetMfa"}
        /\ Removing(r) => kind \in RemoveKinds
        /\ Resetting(r) => kind = "resetMfa"

\* One transaction at a time has the row of the account.
OneHolder ==
  \A q, r \in Req : (Removing(q) \/ Resetting(q)) /\ (Removing(r) \/ Resetting(r)) => q = r

\* What a removal has found is still there when it counts what is left.
StillThere ==
  \A r \in Req : req[r].pc = "remove" =>
    /\ req[r].kind = "removePasskey" => req[r].key \in Registered
    /\ req[r].totp => Active # {}

\* The inductive invariant.
IInv ==
  /\ TypeOK
  /\ BlockKept /\ GuessesKept /\ RacingKept /\ OneActive /\ CodesSpent /\ ClaimsPast
  /\ Roles /\ OneHolder /\ StillThere

Answered(r, answer) ==
  req[r].pc # "idle" /\ req'[r].pc = "idle" /\ req'[r].answer = answer

\* When MaxAttempts or more wrong answers have been given since the last right one,
\* all within less than a window, a right password is refused for the length of a
\* block after the one recorded last, in whatever order they were recorded.
LimitHolds ==
  [][\A r \in Req : Answered(r, "ok") /\ req[r].kind = "right" =>
       ~(/\ history.guesses.count >= MaxAttempts
         /\ history.guesses.last - history.guesses.first < Window
         /\ req[r].at < history.wrongAt + Window)]_vars

\* A block that has begun is lifted or shortened before its time by one thing only:
\* a wrong answer whose request had passed the check of the block before the block
\* began, and which is recorded after it (such an answer may open a new window).
\* No right password lifts a block, and no request that comes later does.
BlockLasts ==
  [][Blocked /\ (account'.until = None \/ account'.until < account.until) =>
       \E r \in history.racing : req[r].pc = "fail" /\ Answered(r, "refused")]_vars

\* What the count of wrong answers and the block are good for when requests overlap.
BlockHolds == LimitHolds /\ BlockLasts

\* A code lets one request in: none that is accepted carries a step that has been
\* accepted since the authenticator was enrolled, or an earlier one.
CodeUsedOnce ==
  [][\A r \in Req : Answered(r, "ok") /\ req[r].kind = "code" =>
       \A u \in history.used : u[1] \in Active => u[2] < req[r].at]_vars

\* Of the requests that verified their assertions against one and the same state
\* of a passkey, one is let in; the others, and whoever is slower, are refused.
AssertionUsedOnce ==
  [][\A r \in Req : Answered(r, "ok") /\ req[r].kind = "assertion" =>
       \A k \in Passkey : k = req[r].key => req[r].read \notin history.claims[k]]_vars

\* Neither kind of proof lets two requests in.
ProvenOnce == CodeUsedOnce /\ AssertionUsedOnce

\* Nobody is left without a factor but by an administrator's reset: whatever
\* removals and enrolments run at the same time, something remains.
FactorRemains ==
  [][HasFactor /\ ~HasFactor' =>
       \E r \in Req : req[r].kind = "resetMfa" /\ Answered(r, "ok")]_vars
================================================================================
