--------------------------- MODULE CredentialsProofs ---------------------------
(***************************************************************************)
(* The safety properties of Credentials, for any number of requests,       *)
(* enrolments and passkeys and any policy.                                 *)
(*                                                                         *)
(* What a request read before its write may have changed since; IInv says  *)
(* what is left of it: the row of the account keeps removals and resets    *)
(* apart, and what codes and assertions were accepted lies in the past of  *)
(* the rows that they are compared with.                                   *)
(***************************************************************************)
EXTENDS Credentials, FiniteSetTheorems, TLAPS

Pcs == {"idle", "findStaff", "fail", "clear", "findTotp", "consume", "findPasskey", "claim",
        "findFactors", "selectTotp", "storeTotp", "insertPasskey", "lockStaff", "count",
        "remove", "resetTotp", "resetPasskeys"}
Answers == {"none", "ok", "refused", "blocked", "failed", "mfaRequired"}
Read == [count : Nat, last : Int]
RequestRecord ==
  [kind : AllKinds \cup {None}, pc : Pcs, at : Time, row : Row \cup {None}, rows : SUBSET Row,
   key : Passkey \cup {None}, read : Read, totp : BOOLEAN, answer : Answers]
AccountRecord == [count : Nat, since : Time \cup {None}, until : Nat \cup {None}]
TotpRecord == [state : {"none", "active", "deleted"}, step : Time]
PasskeyRecord == [state : {"none", "active", "deleted"}, count : Nat, last : Int]
GuessRecord == [count : Nat, first : Time, last : Time]
HistoryRecord == [wrongAt : Int, guesses : GuessRecord, racing : SUBSET Req,
                  used : SUBSET (Row \X Time), claims : [Passkey -> SUBSET Read]]

LEMMA Types == TypeOK <=>
  /\ workload \in Workloads
  /\ now \in Time
  /\ account \in AccountRecord
  /\ totp \in [Row -> TotpRecord]
  /\ passkey \in [Passkey -> PasskeyRecord]
  /\ req \in [Req -> RequestRecord]
  /\ history \in HistoryRecord
BY DEF TypeOK, Pcs, Answers, Read, RequestRecord, AccountRecord, TotpRecord, PasskeyRecord,
       GuessRecord, HistoryRecord

LEMMA Constants == MaxTime \in Nat /\ Window \in Nat /\ Window > 0 /\ MaxAttempts \in Nat
                   /\ 0 \in Time /\ \A t \in Time : t \in Nat
BY CredentialsAssumption DEF Time

-------------------------------------------------------------------------------
(* Where requests stand *)

\* What Roles says of one request.
Role(q) ==
  /\ q.kind = "right" => q.pc \in {"findStaff", "clear"}
  /\ q.kind = "code" => q.pc \in {"findTotp", "consume"}
  /\ q.kind = "assertion" => q.pc \in {"findPasskey", "claim"}
  /\ q.pc = "lockStaff" => q.kind \in RemoveKinds \cup {"resetMfa"}
  /\ q.pc \in {"count", "remove"} => q.kind \in RemoveKinds
  /\ q.pc \in {"resetTotp", "resetPasskeys"} => q.kind = "resetMfa"

Holding(q) == q.pc \in {"count", "remove", "resetTotp", "resetPasskeys"}

LEMMA RolesEach == Roles <=> \A r \in Req : Role(req[r])
BY DEF Roles, Role, Removing, Resetting

LEMMA HolderEach ==
  /\ OneHolder <=> \A q, r \in Req : Holding(req[q]) /\ Holding(req[r]) => q = r
  /\ StaffLocked <=> \E r \in Req : Holding(req[r])
BY DEF OneHolder, StaffLocked, Holding, Removing, Resetting

\* Request r now stands where new says; it has the account's row rightly.
MovesTo(r, new) ==
  /\ new \in RequestRecord
  /\ req' = [req EXCEPT ![r] = new]
  /\ Role(new)
  /\ Holding(new) => Holding(req[r]) \/ ~StaffLocked

LEMMA Moved ==
  ASSUME IInv, NEW r \in Req, NEW new, MovesTo(r, new)
  PROVE  /\ req' \in [Req -> RequestRecord]
         /\ req'[r] = new
         /\ \A q \in Req : q # r => req'[q] = req[q]
         /\ Roles' /\ OneHolder'
<1>1. req \in [Req -> RequestRecord]
  BY Types DEF IInv
<1>2. /\ req' \in [Req -> RequestRecord]
      /\ req'[r] = new
      /\ \A q \in Req : q # r => req'[q] = req[q]
  BY <1>1 DEF MovesTo
<1>3. Roles'
  <2>1. \A q \in Req : Role(req'[q])
    BY <1>2, RolesEach DEF IInv, MovesTo
  <2> QED
    BY <2>1 DEF Roles, Role, Removing, Resetting
<1>4. OneHolder'
  <2>1. \A p, q \in Req : Holding(req'[p]) /\ Holding(req'[q]) => p = q
    BY <1>2, HolderEach DEF IInv, MovesTo
  <2> QED
    BY <2>1 DEF OneHolder, Holding, Removing, Resetting
<1> QED
  BY <1>2, <1>3, <1>4

LEMMA IdleRecord ==
  ASSUME NEW answer \in Answers
  PROVE  /\ Idle(answer) \in RequestRecord
         /\ Role(Idle(answer)) /\ ~Holding(Idle(answer))
         /\ Idle(answer).pc = "idle" /\ Idle(answer).answer = answer
<1>1. Idle(answer) \in RequestRecord /\ Idle(answer).pc = "idle" /\ Idle(answer).kind = None
  BY Constants DEF Idle, RequestRecord, Pcs, Read
<1>2. None \notin AllKinds
  BY CredentialsAssumption
<1>3. Role(Idle(answer)) /\ ~Holding(Idle(answer))
  BY <1>1, <1>2 DEF Role, Holding, AllKinds, PasswordKinds
<1>4. Idle(answer).answer = answer
  BY DEF Idle
<1> QED
  BY <1>1, <1>3, <1>4

LEMMA Ends ==
  ASSUME NEW r \in Req, NEW answer \in Answers, Answer(r, answer)
  PROVE  MovesTo(r, Idle(answer))
BY IdleRecord DEF Answer, MovesTo

\* The tables have not changed: what is left to show of a step.
LEMMA OnlyMoves ==
  ASSUME IInv, NEW r \in Req, NEW new, MovesTo(r, new),
         UNCHANGED <<workload, now, account, totp, passkey, history>>,
         new.pc = "fail" => ~Blocked, new.pc = "clear" => new.at <= now,
         new.pc = "remove" => /\ new.kind = "removePasskey" => new.key \in Registered
                              /\ new.totp => Active # {}
  PROVE  IInv'
<1>1. /\ req' \in [Req -> RequestRecord]
      /\ req'[r] = new
      /\ \A q \in Req : q # r => req'[q] = req[q]
      /\ Roles' /\ OneHolder'
  BY Moved
<1>2. TypeOK'
  BY <1>1, Types DEF IInv, TypeOK, RequestRecord, Pcs, Answers, Read
<1>3. Active' = Active /\ Registered' = Registered
  BY DEF Active, Registered
<1>4. StillThere'
  BY <1>1, <1>3 DEF IInv, StillThere
<1>5. BlockKept' /\ GuessesKept' /\ CodesSpent' /\ ClaimsPast'
  BY DEF IInv, BlockKept, GuessesKept, CodesSpent, ClaimsPast
<1>6. OneActive'
  BY <1>3 DEF IInv, OneActive
<1>7. RacingKept'
  BY <1>1 DEF IInv, RacingKept, Blocked
<1> QED
  BY <1>1, <1>2, <1>4, <1>5, <1>6, <1>7 DEF IInv

LEMMA JustEnds ==
  ASSUME IInv, NEW r \in Req, NEW answer \in Answers, Answer(r, answer),
         UNCHANGED <<workload, now, account, totp, passkey, history>>
  PROVE  IInv'
<1>1. MovesTo(r, Idle(answer)) /\ Idle(answer).pc = "idle"
  BY Ends, IdleRecord
<1> QED
  BY <1>1, OnlyMoves

-------------------------------------------------------------------------------
(* The reads *)

\* Places that a request comes to by a check, and "idle".
Guarded == {"idle", "fail", "clear", "remove"}

LEMMA BeginMoves ==
  ASSUME IInv, NEW r \in Req, NEW kind \in AllKinds, Begin(r, kind)
  PROVE  \E new : MovesTo(r, new) /\ new.pc \notin Guarded
<1>1. PICK k \in Passkey \cup {None} :
        req' = [req EXCEPT ![r] = [Idle("none") EXCEPT !.kind = kind, !.pc = Start(kind), !.key = k]]
  BY DEF Begin
<1> DEFINE new == [Idle("none") EXCEPT !.kind = kind, !.pc = Start(kind), !.key = k]
<1>2. Start(kind) \in Pcs \ (Guarded \cup {"count", "resetTotp", "resetPasskeys"})
  BY DEF Start, Pcs, Guarded, AllKinds, PasswordKinds, SetupKinds, RemoveKinds
<1>3. new \in RequestRecord /\ new.pc = Start(kind) /\ new.kind = kind
  BY <1>2, IdleRecord DEF RequestRecord, Answers
<1>4. Role(new)
  <2>1. /\ kind = "right" => Start(kind) = "findStaff"
        /\ kind = "code" => Start(kind) = "findTotp"
        /\ kind = "assertion" => Start(kind) = "findPasskey"
        /\ Start(kind) = "lockStaff" => kind \in RemoveKinds \cup {"resetMfa"}
    BY DEF Start, AllKinds, PasswordKinds, SetupKinds, RemoveKinds
  <2> QED
    BY <1>2, <1>3, <2>1 DEF Role, Guarded
<1> HIDE DEF new
<1>5. MovesTo(r, new)
  BY <1>1, <1>2, <1>3, <1>4 DEF MovesTo, Holding, Guarded, new
<1> QED
  BY <1>2, <1>3, <1>5

\* A step of r that goes from its place to pc, remembering something.
LEMMA Changed ==
  ASSUME IInv, NEW r \in Req, NEW new \in RequestRecord, req' = [req EXCEPT ![r] = new],
         new.kind = req[r].kind,
         \/ req[r].pc = "findStaff" /\ new.pc = IF new.kind = "right" THEN "clear" ELSE "fail"
         \/ req[r].pc = "findTotp" /\ new.pc = "consume"
         \/ req[r].pc = "findPasskey" /\ new.pc = "claim"
         \/ req[r].pc = "findFactors" /\ new.pc \in {"selectTotp", "insertPasskey"}
         \/ req[r].pc = "selectTotp" /\ new.pc = "storeTotp"
         \/ req[r].pc = "count" /\ new.pc = "remove"
         \/ req[r].pc = "resetTotp" /\ new.pc = "resetPasskeys"
  PROVE  MovesTo(r, new)
<1>1. Role(req[r])
  BY RolesEach DEF IInv
<1>2. Role(new)
  BY <1>1 DEF Role
<1>3. Holding(new) => Holding(req[r])
  BY DEF Holding
<1> QED
  BY <1>2, <1>3 DEF MovesTo

\* What a step that answers nothing good does: it keeps IInv, moves only r and
\* writes nothing.
Harmless(r) ==
  /\ IInv'
  /\ UNCHANGED <<totp, passkey>>
  /\ \E new : MovesTo(r, new) /\ (new.pc = "idle" => new.answer # "ok")

LEMMA Refused ==
  ASSUME IInv, NEW r \in Req, NEW answer \in Answers \ {"ok"}, Answer(r, answer),
         UNCHANGED <<workload, now, account, totp, passkey, history>>
  PROVE  Harmless(r)
<1>1. MovesTo(r, Idle(answer)) /\ Idle(answer).answer # "ok"
  BY Ends, IdleRecord
<1> QED
  BY <1>1, JustEnds DEF Harmless

LEMMA Proceeds ==
  ASSUME IInv, NEW r \in Req, NEW new, MovesTo(r, new), new.pc \notin Guarded,
         UNCHANGED <<workload, now, account, totp, passkey, history>>
  PROVE  Harmless(r)
BY OnlyMoves DEF Harmless, Guarded

LEMMA BeginHarmless ==
  ASSUME IInv, NEW r \in Req, NEW kind \in AllKinds, Begin(r, kind) PROVE Harmless(r)
<1>1. PICK new : MovesTo(r, new) /\ new.pc \notin Guarded
  BY BeginMoves
<1> QED
  BY <1>1, Proceeds DEF Begin, Keep

LEMMA FindHarmless ==
  ASSUME IInv, NEW r \in Req,
         \/ FindStaff(r) \/ FindTotp(r) \/ FindPasskey(r)
         \/ FindFactors(r) \/ SelectTotp(r)
  PROVE  Harmless(r)
<1>1. /\ req \in [Req -> RequestRecord] /\ req[r] \in RequestRecord
      /\ passkey \in [Passkey -> PasskeyRecord] /\ now \in Time
  BY Types DEF IInv
<1>2. UNCHANGED <<workload, now, account, totp, passkey, history>>
  BY DEF FindStaff, FindTotp, FindPasskey, FindFactors, SelectTotp, Keep
<1>3. CASE Answer(r, "refused") \/ Answer(r, "blocked")
  BY <1>2, <1>3, Refused DEF Answers
<1>4. CASE FindStaff(r) /\ ~Answer(r, "blocked")
  <2> DEFINE new == [req[r] EXCEPT !.at = now,
                                   !.pc = IF req[r].kind = "right" THEN "clear" ELSE "fail"]
  <2>1. /\ new \in RequestRecord /\ req' = [req EXCEPT ![r] = new]
        /\ new.kind = req[r].kind /\ req[r].pc = "findStaff"
        /\ new.pc = IF new.kind = "right" THEN "clear" ELSE "fail"
        /\ new.at = now /\ ~Blocked
    BY <1>1, <1>4 DEF FindStaff, Blocked, RequestRecord, Pcs
  <2>2. new.at <= now
    BY <1>1, <2>1, Constants
  <2> HIDE DEF new
  <2>3. MovesTo(r, new) /\ new.pc \notin {"idle", "remove"}
    BY <2>1, Changed
  <2>4. IInv'
    BY <1>2, <2>1, <2>2, <2>3, OnlyMoves
  <2> QED
    BY <1>2, <2>3, <2>4 DEF Harmless
<1>5. CASE FindTotp(r) /\ ~Answer(r, "refused")
  <2> DEFINE new == [req[r] EXCEPT !.at = now, !.pc = "consume"]
  <2>1. /\ new \in RequestRecord /\ req' = [req EXCEPT ![r] = new]
        /\ new.kind = req[r].kind /\ req[r].pc = "findTotp" /\ new.pc = "consume"
    BY <1>1, <1>5 DEF FindTotp, RequestRecord, Pcs
  <2> HIDE DEF new
  <2> QED
    BY <1>2, <2>1, Changed, Proceeds DEF Guarded
<1>6. CASE FindPasskey(r) /\ ~Answer(r, "refused")
  <2> DEFINE new == [req[r] EXCEPT !.read = [count |-> passkey[req[r].key].count,
                                             last |-> passkey[req[r].key].last],
                                   !.pc = "claim"]
  <2>1. req[r].key \in Passkey /\ req[r].pc = "findPasskey" /\ req' = [req EXCEPT ![r] = new]
    BY <1>6 DEF FindPasskey, Registered
  <2>2. passkey[req[r].key].count \in Nat /\ passkey[req[r].key].last \in Int
    BY <1>1, <2>1 DEF PasskeyRecord
  <2>3. new \in RequestRecord /\ new.kind = req[r].kind /\ new.pc = "claim"
    BY <1>1, <2>2 DEF RequestRecord, Pcs, Read
  <2> HIDE DEF new
  <2> QED
    BY <1>2, <2>1, <2>3, Changed, Proceeds DEF Guarded
<1>7. CASE FindFactors(r) /\ ~Answer(r, "refused")
  <2> DEFINE pc == IF req[r].kind = "setupTotp" THEN "selectTotp" ELSE "insertPasskey"
             new == [req[r] EXCEPT !.pc = pc]
  <2>1. /\ new \in RequestRecord /\ req' = [req EXCEPT ![r] = new]
        /\ new.kind = req[r].kind /\ req[r].pc = "findFactors"
        /\ new.pc \in {"selectTotp", "insertPasskey"}
    BY <1>1, <1>7 DEF FindFactors, Goto, RequestRecord, Pcs
  <2> HIDE DEF new
  <2> QED
    BY <1>2, <2>1, Changed, Proceeds DEF Guarded
<1>8. CASE SelectTotp(r)
  <2>1. PICK w \in Row \cup {None} :
          req' = [req EXCEPT ![r].row = w, ![r].at = now, ![r].pc = "storeTotp"]
    BY <1>8 DEF SelectTotp, Active
  <2> DEFINE new == [req[r] EXCEPT !.row = w, !.at = now, !.pc = "storeTotp"]
  <2>2. /\ new \in RequestRecord /\ req' = [req EXCEPT ![r] = new]
        /\ new.kind = req[r].kind /\ req[r].pc = "selectTotp" /\ new.pc = "storeTotp"
    BY <1>1, <1>8, <2>1 DEF SelectTotp, RequestRecord, Pcs
  <2> HIDE DEF new
  <2> QED
    BY <1>2, <2>2, Changed, Proceeds DEF Guarded
<1> QED
  BY <1>3, <1>4, <1>5, <1>6, <1>7, <1>8

LEMMA LockHarmless ==
  ASSUME IInv, NEW r \in Req, LockStaff(r) \/ Count(r) \/ ResetTotp(r)
  PROVE  Harmless(r)
<1>1. req \in [Req -> RequestRecord] /\ req[r] \in RequestRecord /\ Role(req[r])
  BY Types, RolesEach DEF IInv
<1>2. UNCHANGED <<workload, now, account, totp, passkey, history>>
  BY DEF LockStaff, Count, ResetTotp, Keep
<1>3. CASE LockStaff(r)
  <2> DEFINE new == [req[r] EXCEPT !.pc = IF req[r].kind = "resetMfa" THEN "resetTotp" ELSE "count"]
  <2>1. /\ new \in RequestRecord /\ req' = [req EXCEPT ![r] = new]
        /\ new.pc = IF req[r].kind = "resetMfa" THEN "resetTotp" ELSE "count"
        /\ new.kind = req[r].kind
        /\ req[r].pc = "lockStaff" /\ ~StaffLocked
    BY <1>1, <1>3 DEF LockStaff, Goto, RequestRecord, Pcs
  <2> HIDE DEF new
  <2>2. Role(new)
    BY <1>1, <2>1 DEF Role
  <2> QED
    BY <1>2, <2>1, <2>2, Proceeds DEF MovesTo, Guarded
<1>4. CASE Count(r) /\ Missing(r)
  BY <1>2, <1>4, Refused DEF Count, Answers
<1>5. CASE Count(r) /\ ~Missing(r)
  <2> DEFINE new == [req[r] EXCEPT !.totp = Active # {}, !.pc = "remove"]
  <2>1. /\ new \in RequestRecord /\ req' = [req EXCEPT ![r] = new] /\ req[r].pc = "count"
        /\ new.kind = req[r].kind /\ new.key = req[r].key /\ new.pc = "remove"
        /\ new.totp = (Active # {})
    BY <1>1, <1>5 DEF Count, RequestRecord, Pcs
  <2> HIDE DEF new
  <2>2. MovesTo(r, new)
    BY <2>1, Changed
  <2>3. new.kind = "removePasskey" => new.key \in Registered
    BY <1>5, <2>1 DEF Missing
  <2> QED
    BY <1>2, <2>1, <2>2, <2>3, OnlyMoves DEF Harmless
<1>6. CASE ResetTotp(r)
  <2> DEFINE new == [req[r] EXCEPT !.rows = Active, !.pc = "resetPasskeys"]
  <2>1. Active \subseteq Row
    BY DEF Active
  <2>2. /\ new \in RequestRecord /\ req' = [req EXCEPT ![r] = new] /\ req[r].pc = "resetTotp"
        /\ new.kind = req[r].kind /\ new.pc = "resetPasskeys"
    BY <1>1, <1>6, <2>1 DEF ResetTotp, RequestRecord, Pcs
  <2> HIDE DEF new
  <2> QED
    BY <1>2, <2>2, Changed, Proceeds DEF Guarded
<1> QED
  BY <1>3, <1>4, <1>5, <1>6

-------------------------------------------------------------------------------
(* The password *)

LEMMA CountedType ==
  ASSUME account \in AccountRecord, NEW at \in Time
  PROVE  /\ Counted(account, at) \in AccountRecord
         /\ Counted(account, at).count >= MaxAttempts =>
              Counted(account, at).until = at + Window
<1> DEFINE restart == account.since = None \/ account.since <= at - Window
           count == IF restart THEN 1 ELSE account.count + 1
<1>1. /\ count \in Nat
      /\ (IF restart THEN at ELSE account.since) \in Time \cup {None}
      /\ at + Window \in Nat
  BY Constants DEF AccountRecord
<1>2. Counted(account, at) = [count |-> count,
                              since |-> IF restart THEN at ELSE account.since,
                              until |-> IF count >= MaxAttempts THEN at + Window ELSE None]
  BY DEF Counted
<1> HIDE DEF restart, count
<1> QED
  BY <1>1, <1>2 DEF AccountRecord

\* A step that writes the account, or none of the tables, and ends the request.
LEMMA AccountWritten ==
  ASSUME IInv, NEW r \in Req, NEW answer \in Answers, Answer(r, answer),
         account' \in AccountRecord, history' \in HistoryRecord,
         BlockKept', GuessesKept', RacingKept',
         history'.used = history.used, history'.claims = history.claims,
         UNCHANGED <<workload, now, totp, passkey>>
  PROVE  IInv'
<1>1. /\ req' \in [Req -> RequestRecord] /\ req'[r].pc = "idle"
      /\ \A q \in Req : q # r => req'[q] = req[q]
      /\ Roles' /\ OneHolder'
  BY Ends, Moved, IdleRecord
<1>2. TypeOK'
  BY <1>1, Types DEF IInv, TypeOK, RequestRecord, Pcs, Answers, Read, AccountRecord,
                     GuessRecord, HistoryRecord
<1>3. Active' = Active /\ Registered' = Registered
  BY DEF Active, Registered
<1>4. StillThere' /\ OneActive'
  BY <1>1, <1>3 DEF IInv, StillThere, OneActive
<1>5. CodesSpent' /\ ClaimsPast'
  BY DEF IInv, CodesSpent, ClaimsPast
<1> QED
  BY <1>1, <1>2, <1>4, <1>5 DEF IInv

\* Another wrong answer, counted and remembered: while all lie within one window,
\* the window is not opened anew.
LEMMA GuessCounted ==
  ASSUME IInv, NEW at \in Time,
         account' = Counted(account, at), history' \in HistoryRecord,
         history'.guesses = Guessed(history.guesses, at)
  PROVE  GuessesKept'
<1> DEFINE g == history.guesses
           h == Guessed(g, at)
<1>1. /\ account \in AccountRecord /\ g \in GuessRecord
      /\ \A t \in Time : t \in Nat /\ None # t
  BY Types, Constants, CredentialsAssumption DEF IInv, HistoryRecord
<1>2. CASE g.count = 0
  <2>1. h = [count |-> 1, first |-> at, last |-> at] /\ account.since = None
    BY <1>2 DEF IInv, GuessesKept, Guessed
  <2>2. account'.count = 1 /\ account'.since = at
    BY <2>1 DEF Counted
  <2> QED
    BY <1>1, <2>1, <2>2 DEF GuessesKept
<1>3. CASE g.count > 0
  <2>1. /\ h.count = g.count + 1
        /\ h.first \in Nat /\ h.first <= g.first /\ h.first <= at
        /\ h.last \in Nat /\ h.last >= g.last /\ h.last >= at
    BY <1>1, <1>3 DEF Guessed, GuessRecord
  <2>2. SUFFICES ASSUME h.last - h.first < Window
                 PROVE  /\ account'.count = h.count /\ account'.since # None
                        /\ h.first <= account'.since /\ account'.since <= h.last
    BY <1>1, <1>3, <2>1 DEF GuessesKept, GuessRecord
  <2>3. g.last - g.first < Window
    BY <1>1, <2>1, <2>2, Constants DEF GuessRecord
  <2>4. /\ account.count = g.count /\ account.since \in Nat /\ account.since # None
        /\ g.first <= account.since /\ account.since <= g.last
    BY <1>1, <1>3, <2>3 DEF IInv, GuessesKept, AccountRecord
  <2>5. ~(account.since <= at - Window)
    BY <1>1, <2>1, <2>2, <2>4, Constants DEF GuessRecord
  <2>6. account'.count = account.count + 1 /\ account'.since = account.since
    BY <2>4, <2>5 DEF Counted
  <2> QED
    BY <1>1, <2>1, <2>4, <2>6 DEF GuessRecord
<1> QED
  BY <1>1, <1>2, <1>3 DEF GuessRecord

LEMMA GuessedType ==
  ASSUME NEW g \in GuessRecord, NEW at \in Time
  PROVE  Guessed(g, at) \in GuessRecord
BY DEF Guessed, GuessRecord

LEMMA RecordFailureKeeps == ASSUME IInv, NEW r \in Req, RecordFailure(r) PROVE Harmless(r)
<1> DEFINE at == req[r].at
<1>1. /\ account \in AccountRecord /\ history \in HistoryRecord
      /\ req[r] \in RequestRecord
  BY Types DEF IInv
<1>2. at \in Time
  BY <1>1 DEF RequestRecord
<1>3. /\ account' = Counted(account, at)
      /\ history' = [history EXCEPT
                       !.wrongAt = at, !.guesses = Guessed(@, at),
                       !.racing = (IF account'.until # None THEN Failing ELSE @) \ {r}]
      /\ Answer(r, "refused") /\ UNCHANGED <<workload, now, totp, passkey>>
  BY DEF RecordFailure, Keep
<1>4. Failing \subseteq Req /\ history.racing \subseteq Req
  BY <1>1 DEF Failing, HistoryRecord
<1>5. /\ history' \in HistoryRecord /\ history'.wrongAt = at
      /\ history'.guesses = Guessed(history.guesses, at)
      /\ account'.until # None => history'.racing = Failing \ {r}
      /\ history'.used = history.used /\ history'.claims = history.claims
  <2>1. Guessed(history.guesses, at) \in GuessRecord /\ at \in Int
    BY <1>1, <1>2, GuessedType, Constants DEF HistoryRecord
  <2> HIDE DEF at
  <2> QED
    BY <1>1, <1>3, <1>4, <2>1 DEF HistoryRecord
<1>6. account' \in AccountRecord /\ BlockKept'
  BY <1>1, <1>2, <1>3, <1>5, CountedType DEF BlockKept
<1>7. GuessesKept'
  BY <1>2, <1>3, <1>5, GuessCounted
<1>8. "refused" \in Answers /\ "refused" # "ok"
  BY DEF Answers
<1>9. RacingKept'
  <2>1. /\ req'[r].pc = "idle"
        /\ \A q \in Req : q # r => req'[q] = req[q]
    BY <1>3, <1>8, Ends, Moved, IdleRecord
  <2>2. ASSUME NEW q \in Req, req'[q].pc = "fail", Blocked' PROVE q \in history'.racing
    BY <1>5, <2>1, <2>2 DEF Blocked, Failing
  <2>3. ASSUME NEW q \in Req, req'[q].pc = "clear" PROVE req'[q].at <= now'
    BY <1>3, <2>1, <2>3 DEF IInv, RacingKept
  <2> QED
    BY <2>2, <2>3 DEF RacingKept
<1>10. IInv'
  BY <1>3, <1>5, <1>6, <1>7, <1>8, <1>9, AccountWritten
<1> QED
  BY <1>3, <1>8, <1>10, Ends, IdleRecord DEF Harmless

LEMMA ClearFailuresKeeps == ASSUME IInv, NEW r \in Req, ClearFailures(r) PROVE IInv'
<1>1. history \in HistoryRecord
  BY Types DEF IInv
<1>2. CASE Answer(r, "blocked") /\ UNCHANGED <<account, history>>
  BY <1>2, JustEnds DEF ClearFailures, Keep, Answers
<1>3. CASE /\ account' = [count |-> 0, since |-> None, until |-> None]
           /\ history' = [history EXCEPT !.guesses = NoGuesses]
           /\ Answer(r, "ok")
  <2>1. account' \in AccountRecord
    BY <1>3 DEF AccountRecord
  <2>2. ~(account'.count >= MaxAttempts) /\ ~Blocked'
    BY <1>3, CredentialsAssumption DEF Blocked
  <2>3. /\ history' \in HistoryRecord /\ history'.guesses = NoGuesses
        /\ history'.used = history.used /\ history'.claims = history.claims
    BY <1>1, <1>3, Constants DEF HistoryRecord, GuessRecord, NoGuesses
  <2>4. BlockKept' /\ GuessesKept'
    BY <1>3, <2>2, <2>3 DEF BlockKept, GuessesKept, NoGuesses
  <2>5. "ok" \in Answers /\ UNCHANGED <<workload, now, totp, passkey>>
    BY DEF ClearFailures, Keep, Answers
  <2>6. RacingKept'
    <3>1. /\ req'[r].pc = "idle"
          /\ \A q \in Req : q # r => req'[q] = req[q]
      BY <1>3, <2>5, Ends, Moved, IdleRecord
    <3> QED
      BY <2>2, <2>5, <3>1 DEF IInv, RacingKept
  <2> QED
    BY <1>3, <2>1, <2>3, <2>4, <2>5, <2>6, AccountWritten
<1> QED
  BY <1>2, <1>3 DEF ClearFailures

\* A request that fails is no longer under way.
LEMMA FailHarmless == ASSUME IInv, NEW r \in Req, Fail(r) PROVE Harmless(r)
<1>1. account \in AccountRecord /\ history \in HistoryRecord
  BY Types DEF IInv
<1>2. /\ history' = [history EXCEPT !.racing = @ \ {r}] /\ Answer(r, "failed")
      /\ UNCHANGED <<workload, now, account, totp, passkey>>
  BY DEF Fail, Keep
<1>3. /\ history' \in HistoryRecord /\ history'.racing = history.racing \ {r}
      /\ history'.wrongAt = history.wrongAt /\ history'.guesses = history.guesses
      /\ history'.used = history.used /\ history'.claims = history.claims
  BY <1>1, <1>2 DEF HistoryRecord
<1>4. BlockKept' /\ GuessesKept'
  BY <1>2, <1>3 DEF IInv, BlockKept, GuessesKept
<1>5. "failed" \in Answers /\ "failed" # "ok"
  BY DEF Answers
<1>6. RacingKept'
  <2>1. /\ req'[r].pc = "idle"
        /\ \A q \in Req : q # r => req'[q] = req[q]
    BY <1>2, <1>5, Ends, Moved, IdleRecord
  <2> QED
    BY <1>2, <1>3, <2>1 DEF IInv, RacingKept, Blocked
<1>7. IInv'
  BY <1>1, <1>2, <1>3, <1>4, <1>5, <1>6, AccountWritten
<1> QED
  BY <1>2, <1>5, <1>7, Ends, IdleRecord DEF Harmless

-------------------------------------------------------------------------------
(* Codes, assertions, enrolments and removals *)

\* The step has nothing to do with passwords.
SameGuesses ==
  /\ history'.wrongAt = history.wrongAt
  /\ history'.guesses = history.guesses
  /\ history'.racing = history.racing

\* A step that writes rows of factors and ends the request.  Other requests still
\* find what they have counted, because they keep it or because r alone counts.
LEMMA TablesWritten ==
  ASSUME IInv, NEW r \in Req, NEW answer \in Answers, Answer(r, answer),
         totp' \in [Row -> TotpRecord], passkey' \in [Passkey -> PasskeyRecord],
         history' \in HistoryRecord, SameGuesses,
         UNCHANGED <<workload, now, account>>,
         OneActive', CodesSpent', ClaimsPast',
         \/ Holding(req[r])
         \/ Registered \subseteq Registered' /\ (Active # {} => Active' # {})
  PROVE  IInv'
<1>1. /\ req' \in [Req -> RequestRecord] /\ req'[r].pc = "idle"
      /\ \A q \in Req : q # r => req'[q] = req[q]
      /\ Roles' /\ OneHolder'
  BY Ends, Moved, IdleRecord
<1>2. TypeOK'
  BY <1>1, Types DEF IInv, TypeOK, RequestRecord, Pcs, Answers, Read, TotpRecord,
                     PasskeyRecord, GuessRecord, HistoryRecord
<1>3. StillThere'
  <2> SUFFICES ASSUME NEW q \in Req, req'[q].pc = "remove"
               PROVE  /\ req'[q].kind = "removePasskey" => req'[q].key \in Registered'
                      /\ req'[q].totp => Active' # {}
    BY DEF StillThere
  <2>1. q # r /\ req'[q] = req[q]
    BY <1>1
  <2>2. ~Holding(req[r])
    BY <2>1, HolderEach DEF IInv, Holding
  <2> QED
    BY <2>1, <2>2 DEF IInv, StillThere
<1>4. BlockKept' /\ GuessesKept'
  BY DEF IInv, BlockKept, GuessesKept, SameGuesses
<1>5. RacingKept'
  BY <1>1 DEF IInv, RacingKept, Blocked, SameGuesses
<1> QED
  BY <1>1, <1>2, <1>3, <1>4, <1>5 DEF IInv

LEMMA ConsumeKeeps ==
  ASSUME IInv, NEW r \in Req, Consume(r)
  PROVE  IInv' /\ UNCHANGED passkey /\ Active' = Active
<1> DEFINE rows == {w \in Active : totp[w].step < req[r].at}
           at == req[r].at
<1>1. /\ totp \in [Row -> TotpRecord] /\ passkey \in [Passkey -> PasskeyRecord]
      /\ history \in HistoryRecord /\ req[r] \in RequestRecord
  BY Types DEF IInv
<1>2. at \in Time /\ rows \subseteq Row /\ rows \subseteq Active
  BY <1>1 DEF RequestRecord, Active
<1>3. CASE Answer(r, "refused") /\ UNCHANGED <<totp, history>>
  BY <1>3, JustEnds DEF Consume, Keep, Answers, Active
<1>4. CASE rows # {}
  <2>1. /\ totp' = [w \in Row |-> IF w \in rows THEN [totp[w] EXCEPT !.step = at] ELSE totp[w]]
        /\ history' = [history EXCEPT !.used = @ \cup (rows \X {at})]
        /\ UNCHANGED <<workload, now, account, passkey>>
    BY <1>4 DEF Consume, Keep
  <2>2. PICK answer \in Answers : Answer(r, answer)
    BY <1>4 DEF Consume, Answers
  <2>3. /\ totp' \in [Row -> TotpRecord]
        /\ \A w \in Row : totp'[w].state = totp[w].state
        /\ \A w \in rows : totp'[w].step = at
        /\ \A w \in Row \ rows : totp'[w].step = totp[w].step
    BY <1>1, <1>2, <2>1 DEF TotpRecord
  <2>4. Active' = Active /\ Registered' = Registered
    BY <2>1, <2>3 DEF Active, Registered
  <2>5. /\ history' \in HistoryRecord /\ SameGuesses
        /\ history'.used = history.used \cup (rows \X {at})
        /\ history'.claims = history.claims
    BY <1>1, <1>2, <2>1 DEF HistoryRecord, SameGuesses
  <2>6. CodesSpent'
    <3>1. ASSUME NEW u \in rows \X {at} PROVE u[2] <= totp'[u[1]].step
      <4>1. u[1] \in rows /\ u[2] = at
        OBVIOUS
      <4>2. totp'[u[1]].step = at /\ at \in Nat
        BY <1>2, <2>3, <4>1, Constants
      <4> QED
        BY <4>1, <4>2
    <3>2. ASSUME NEW u \in history.used PROVE u[2] <= totp'[u[1]].step
      <4>1. u[1] \in Row /\ u[2] \in Nat /\ u[2] <= totp[u[1]].step
        BY <1>1, Constants DEF IInv, CodesSpent, HistoryRecord
      <4>2. totp[u[1]].step \in Nat /\ at \in Nat
        BY <1>1, <1>2, <4>1, Constants DEF TotpRecord
      <4>3. totp[u[1]].step <= totp'[u[1]].step
        BY <2>3, <4>1, <4>2
      <4> QED
        BY <2>3, <4>1, <4>2, <4>3
    <3> QED
      BY <2>5, <3>1, <3>2 DEF CodesSpent
  <2>7. OneActive' /\ ClaimsPast'
    BY <2>1, <2>4, <2>5 DEF IInv, OneActive, ClaimsPast
  <2> QED
    BY <1>1, <2>1, <2>2, <2>3, <2>4, <2>5, <2>6, <2>7, TablesWritten
<1> QED
  BY <1>3, <1>4 DEF Consume

LEMMA ClaimKeeps ==
  ASSUME IInv, NEW r \in Req, Claim(r)
  PROVE  IInv' /\ UNCHANGED totp /\ Registered' = Registered
<1> DEFINE k == req[r].key
           read == req[r].read
<1>1. /\ totp \in [Row -> TotpRecord] /\ passkey \in [Passkey -> PasskeyRecord]
      /\ history \in HistoryRecord /\ req[r] \in RequestRecord
      /\ read \in Read /\ now \in Int
  BY Types, Constants DEF IInv, RequestRecord, Time
<1>2. CASE Answer(r, "refused") /\ UNCHANGED <<passkey, history>>
  BY <1>2, JustEnds DEF Claim, Keep, Answers, Registered
<1>3. CASE ~(Answer(r, "refused") /\ UNCHANGED <<passkey, history>>)
  <2>1. PICK count \in {read.count, read.count + 1} :
          /\ k \in Registered /\ passkey[k].last = read.last
          /\ passkey' = [passkey EXCEPT ![k].count = count, ![k].last = Use(read)]
          /\ history' = [history EXCEPT !.claims[k] = @ \cup {read}]
          /\ Answer(r, "ok")
    BY <1>3 DEF Claim
  <2>2. UNCHANGED <<workload, now, account, totp>>
    BY DEF Claim, Keep
  <2>3. k \in Passkey /\ count \in Nat /\ read.last \in Int
    BY <1>1, <2>1 DEF Registered, Read
  <2>4. Use(read) \in Int /\ Use(read) > read.last
    BY <1>1, <2>3 DEF Use
  <2>5. /\ passkey' \in [Passkey -> PasskeyRecord]
        /\ \A x \in Passkey : passkey'[x].state = passkey[x].state
        /\ passkey'[k].last = Use(read)
        /\ \A x \in Passkey \ {k} : passkey'[x] = passkey[x]
    <3> HIDE DEF k, read
    <3>1. passkey[k] \in PasskeyRecord
      BY <1>1, <2>3
    <3> QED
      BY <1>1, <2>1, <2>3, <2>4, <3>1 DEF PasskeyRecord
  <2>6. /\ history' \in HistoryRecord /\ SameGuesses
        /\ history'.used = history.used
        /\ history'.claims[k] = history.claims[k] \cup {read}
        /\ \A x \in Passkey \ {k} : history'.claims[x] = history.claims[x]
    <3> HIDE DEF k, read
    <3> QED
      BY <1>1, <2>1, <2>3 DEF HistoryRecord, SameGuesses
  <2>7. Active' = Active /\ Registered' = Registered
    BY <2>2, <2>5 DEF Active, Registered
  <2>8. ClaimsPast'
    <3>1. ASSUME NEW x \in history.claims[k] PROVE x.last < passkey'[k].last
      <4>1. x.last < read.last /\ x.last \in Int
        BY <1>1, <2>1, <2>3 DEF IInv, ClaimsPast, HistoryRecord, Read
      <4> QED
        BY <2>3, <2>4, <2>5, <4>1
    <3>2. read.last < passkey'[k].last
      BY <2>3, <2>4, <2>5
    <3>3. \A x \in Passkey \ {k} : \A y \in history'.claims[x] : y.last < passkey'[x].last
      BY <2>5, <2>6 DEF IInv, ClaimsPast
    <3> HIDE DEF k, read
    <3> QED
      BY <2>3, <2>6, <3>1, <3>2, <3>3 DEF ClaimsPast
  <2>9. OneActive' /\ CodesSpent'
    BY <2>2, <2>6, <2>7 DEF IInv, OneActive, CodesSpent
  <2> HIDE DEF k, read
  <2> QED
    BY <1>1, <2>1, <2>2, <2>5, <2>6, <2>7, <2>8, <2>9, TablesWritten DEF Answers
<1> QED
  BY <1>2, <1>3

LEMMA StoreTotpKeeps ==
  ASSUME IInv, NEW r \in Req, NEW w \in Row, StoreTotp(r, w)
  PROVE  IInv' /\ UNCHANGED passkey /\ (HasFactor => HasFactor')
<1> DEFINE at == req[r].at
<1>1. /\ totp \in [Row -> TotpRecord] /\ passkey \in [Passkey -> PasskeyRecord]
      /\ history \in HistoryRecord /\ req[r] \in RequestRecord /\ at \in Time
  BY Types DEF IInv, RequestRecord
<1>2. CASE Answer(r, "failed") /\ UNCHANGED <<totp, history>>
  BY <1>2, JustEnds DEF StoreTotp, Keep, Answers, HasFactor, Active, Registered
<1>3. CASE OnlyActive(w)
  <2>1. /\ totp' = [totp EXCEPT ![w] = [state |-> "active", step |-> at]]
        /\ history' = [history EXCEPT !.used = {u \in @ : u[1] # w} \cup {<<w, at>>}]
        /\ Answer(r, "ok")
        /\ UNCHANGED <<workload, now, account, passkey>>
    BY <1>3 DEF StoreTotp, Keep
  <2>2. /\ totp' \in [Row -> TotpRecord]
        /\ totp'[w].state = "active" /\ totp'[w].step = at
        /\ \A v \in Row \ {w} : totp'[v] = totp[v]
    BY <1>1, <2>1 DEF TotpRecord
  <2>3. Active' = {w} /\ Registered' = Registered
    BY <1>3, <2>1, <2>2 DEF OnlyActive, Active, Registered
  <2>4. /\ history' \in HistoryRecord /\ SameGuesses
        /\ history'.used = {u \in history.used : u[1] # w} \cup {<<w, at>>}
        /\ history'.claims = history.claims
    BY <1>1, <2>1 DEF HistoryRecord, SameGuesses
  <2>5. CodesSpent'
    <3>1. \A u \in history.used : u[1] # w => u[2] <= totp'[u[1]].step
      BY <1>1, <2>2 DEF IInv, CodesSpent, HistoryRecord
    <3>2. at <= totp'[w].step
      BY <1>1, <2>2, Constants
    <3> HIDE DEF at
    <3> QED
      BY <2>4, <3>1, <3>2 DEF CodesSpent
  <2>6. OneActive' /\ ClaimsPast'
    BY <2>1, <2>3, <2>4 DEF IInv, OneActive, ClaimsPast
  <2>7. IInv'
    BY <1>1, <2>1, <2>2, <2>3, <2>4, <2>5, <2>6, TablesWritten DEF Answers
  <2> QED
    BY <2>1, <2>3, <2>7 DEF HasFactor
<1> QED
  BY <1>2, <1>3 DEF StoreTotp

LEMMA InsertPasskeyKeeps ==
  ASSUME IInv, NEW r \in Req, InsertPasskey(r)
  PROVE  IInv' /\ (HasFactor => HasFactor')
<1> DEFINE k == req[r].key
<1>1. /\ totp \in [Row -> TotpRecord] /\ passkey \in [Passkey -> PasskeyRecord]
      /\ history \in HistoryRecord
  BY Types DEF IInv
<1>2. CASE Answer(r, "failed") /\ UNCHANGED passkey
  BY <1>2, JustEnds DEF InsertPasskey, Keep, Answers, HasFactor, Active, Registered
<1>3. CASE passkey' = [passkey EXCEPT ![k].state = "active"] /\ Answer(r, "ok")
  <2>1. UNCHANGED <<workload, now, account, totp, history>>
    BY DEF InsertPasskey, Keep
  <2>2. /\ passkey' \in [Passkey -> PasskeyRecord]
        /\ \A x \in Passkey : passkey'[x].last = passkey[x].last
        /\ \A x \in Passkey : passkey[x].state = "active" => passkey'[x].state = "active"
    <3> HIDE DEF k
    <3> QED
      BY <1>1, <1>3 DEF PasskeyRecord
  <2>3. Active' = Active /\ Registered \subseteq Registered'
    BY <2>1, <2>2 DEF Active, Registered
  <2>4. OneActive' /\ CodesSpent' /\ ClaimsPast'
    BY <2>1, <2>2, <2>3 DEF IInv, OneActive, CodesSpent, ClaimsPast
  <2>5. IInv'
    BY <1>1, <1>3, <2>1, <2>2, <2>3, <2>4, TablesWritten DEF Answers, SameGuesses
  <2> QED
    BY <2>3, <2>5 DEF HasFactor
<1> QED
  BY <1>2, <1>3 DEF InsertPasskey

\* Rows that are removed change their state only.
LEMMA RowsRemoved ==
  ASSUME IInv, NEW r \in Req, Holding(req[r]), Answer(r, "ok"),
         NEW goneTotp, NEW gonePasskey,
         totp' = [w \in Row |-> IF w \in goneTotp THEN [totp[w] EXCEPT !.state = "deleted"]
                                ELSE totp[w]],
         passkey' = [k \in Passkey |-> IF k \in gonePasskey
                                         THEN [passkey[k] EXCEPT !.state = "deleted"]
                                         ELSE passkey[k]],
         UNCHANGED <<workload, now, account, history>>
  PROVE  /\ IInv'
         /\ Active' = Active \ goneTotp
         /\ Registered' = Registered \ gonePasskey
<1>1. /\ totp \in [Row -> TotpRecord] /\ passkey \in [Passkey -> PasskeyRecord]
      /\ history \in HistoryRecord
  BY Types DEF IInv
<1>2. /\ totp' \in [Row -> TotpRecord]
      /\ \A w \in Row : totp'[w].step = totp[w].step
      /\ \A w \in Row : totp'[w].state = IF w \in goneTotp THEN "deleted" ELSE totp[w].state
  BY <1>1 DEF TotpRecord
<1>3. /\ passkey' \in [Passkey -> PasskeyRecord]
      /\ \A k \in Passkey : passkey'[k].last = passkey[k].last
      /\ \A k \in Passkey : passkey'[k].state = IF k \in gonePasskey THEN "deleted"
                                                ELSE passkey[k].state
  BY <1>1 DEF PasskeyRecord
<1>4. Active' = Active \ goneTotp
  BY <1>2 DEF Active
<1>5. Registered' = Registered \ gonePasskey
  BY <1>3 DEF Registered
<1>6. OneActive'
  BY <1>4 DEF IInv, OneActive
<1>7. CodesSpent'
  BY <1>1, <1>2 DEF IInv, CodesSpent, HistoryRecord
<1>8. ClaimsPast'
  BY <1>3 DEF IInv, ClaimsPast
<1> QED
  BY <1>1, <1>2, <1>3, <1>4, <1>5, <1>6, <1>7, <1>8, TablesWritten DEF Answers, SameGuesses

\* A removal leaves a factor behind: the other kind, or another passkey.
LEMMA RemoveKeeps ==
  ASSUME IInv, NEW r \in Req, Remove(r)
  PROVE  IInv' /\ (HasFactor => HasFactor')
<1>1. req[r].pc = "remove" /\ Holding(req[r]) /\ req[r].kind \in RemoveKinds
  BY RolesEach DEF Remove, Holding, IInv, Role
<1>2. /\ req[r].kind = "removePasskey" => req[r].key \in Registered
      /\ req[r].totp => Active # {}
  BY <1>1 DEF IInv, StillThere
<1>3. CASE LastFactor(r)
  <2>1. IInv'
    BY <1>3, JustEnds DEF Remove, Keep, Answers
  <2>2. UNCHANGED <<totp, passkey>>
    BY <1>3 DEF Remove
  <2> QED
    BY <2>1, <2>2 DEF HasFactor, Active, Registered
<1>4. CASE ~LastFactor(r)
  <2> DEFINE gone == IF req[r].kind = "removeTotp" THEN Active ELSE {req[r].key}
  <2>0. /\ totp' = [w \in Row |-> IF w \in gone THEN [totp[w] EXCEPT !.state = "deleted"]
                                  ELSE totp[w]]
        /\ passkey' = [k \in Passkey |-> IF k \in gone
                                           THEN [passkey[k] EXCEPT !.state = "deleted"]
                                           ELSE passkey[k]]
        /\ Answer(r, "ok") /\ UNCHANGED <<workload, now, account, history>>
    BY <1>4 DEF Remove, Keep
  <2>1. /\ IInv' /\ Active' = Active \ gone /\ Registered' = Registered \ gone
    <3> HIDE DEF gone
    <3> QED
      BY <1>1, <2>0, RowsRemoved
  <2>2. Active \subseteq Row /\ Registered \subseteq Passkey /\ Row \cap Passkey = {}
    BY CredentialsAssumption DEF Active, Registered
  <2>3. CASE req[r].kind = "removeTotp"
    BY <1>4, <2>1, <2>2, <2>3 DEF LastFactor, HasFactor
  <2>4. CASE req[r].kind = "removePasskey"
    <3>1. IsFiniteSet(Registered)
      BY <2>2, CredentialsAssumption, FS_Subset
    <3>2. ASSUME ~req[r].totp PROVE Registered # {req[r].key}
      <4>1. Cardinality(Registered) # 1
        BY <1>4, <2>4, <3>2 DEF LastFactor
      <4> QED
        BY <3>1, <4>1, FS_Singleton
    <3>3. req[r].key \in Passkey
      BY <1>2, <2>2, <2>4
    <3> QED
      BY <1>2, <2>1, <2>2, <2>4, <3>2, <3>3 DEF HasFactor
  <2> QED
    BY <1>1, <2>3, <2>4 DEF RemoveKinds
<1> QED
  BY <1>3, <1>4

LEMMA ResetPasskeysKeeps ==
  ASSUME IInv, NEW r \in Req, ResetPasskeys(r)
  PROVE  IInv' /\ req[r].kind = "resetMfa" /\ Answered(r, "ok")
<1>1. req[r].pc = "resetPasskeys" /\ Holding(req[r]) /\ req[r].kind = "resetMfa"
  BY RolesEach DEF ResetPasskeys, Holding, IInv, Role
<1>2. IInv'
  BY <1>1, RowsRemoved DEF ResetPasskeys, Keep
<1>3. MovesTo(r, Idle("ok")) /\ Idle("ok").pc = "idle" /\ Idle("ok").answer = "ok"
  BY Ends, IdleRecord DEF ResetPasskeys, Answers
<1> QED
  BY <1>1, <1>2, <1>3, Moved DEF Answered

-------------------------------------------------------------------------------
(* Every step *)

Writes(r) ==
  \/ RecordFailure(r) \/ ClearFailures(r) \/ Consume(r) \/ Claim(r) \/ InsertPasskey(r)
  \/ \E w \in Row : StoreTotp(r, w)
  \/ Remove(r) \/ ResetPasskeys(r)

Reads(r) ==
  \/ \E kind \in AllKinds : Begin(r, kind)
  \/ FindStaff(r) \/ FindTotp(r) \/ FindPasskey(r) \/ FindFactors(r) \/ SelectTotp(r)
  \/ LockStaff(r) \/ Count(r) \/ ResetTotp(r) \/ Fail(r)

LEMMA Steps == Next <=> (\E r \in Req : Reads(r) \/ Writes(r)) \/ Tick
BY DEF Next, Reads, Writes

LEMMA ReadsHarmless == ASSUME IInv, NEW r \in Req, Reads(r) PROVE Harmless(r)
BY BeginHarmless, FindHarmless, LockHarmless, FailHarmless DEF Reads

\* Every write answers its request.
LEMMA WritesAnswer ==
  ASSUME NEW r \in Req, Writes(r)
  PROVE  \E answer \in Answers : Answer(r, answer)
<1>1. CASE RecordFailure(r) \/ ClearFailures(r) \/ Consume(r)
  BY <1>1 DEF RecordFailure, ClearFailures, Consume, Answers
<1>2. CASE Claim(r) \/ InsertPasskey(r) \/ \E w \in Row : StoreTotp(r, w)
  BY <1>2 DEF Claim, InsertPasskey, StoreTotp, Answers
<1>3. CASE Remove(r) \/ ResetPasskeys(r)
  BY <1>3 DEF Remove, ResetPasskeys, Answers
<1> QED
  BY <1>1, <1>2, <1>3 DEF Writes

LEMMA WritesKeep ==
  ASSUME IInv, NEW r \in Req, Writes(r)
  PROVE  /\ IInv'
         /\ HasFactor /\ ~HasFactor' => ResetPasskeys(r)
<1>1. CASE RecordFailure(r) \/ ClearFailures(r)
  <2>1. UNCHANGED <<totp, passkey>>
    BY <1>1 DEF RecordFailure, ClearFailures
  <2> QED
    BY <1>1, <2>1, RecordFailureKeeps, ClearFailuresKeeps
    DEF Harmless, HasFactor, Active, Registered
<1>2. CASE Consume(r)
  BY <1>2, ConsumeKeeps DEF HasFactor, Registered
<1>3. CASE Claim(r)
  BY <1>3, ClaimKeeps DEF HasFactor, Active
<1>4. CASE InsertPasskey(r) \/ \E w \in Row : StoreTotp(r, w)
  BY <1>4, InsertPasskeyKeeps, StoreTotpKeeps
<1>5. CASE Remove(r)
  BY <1>5, RemoveKeeps
<1>6. CASE ResetPasskeys(r)
  BY <1>6, ResetPasskeysKeeps
<1> QED
  BY <1>1, <1>2, <1>3, <1>4, <1>5, <1>6 DEF Writes

LEMMA TickKeeps == ASSUME IInv, Tick PROVE IInv'
<1>1. now' \in Time /\ UNCHANGED <<workload, account, totp, passkey, req, history>>
  BY Types, Constants DEF IInv, Tick, Time
<1>2. TypeOK'
  BY <1>1, Types DEF IInv, TypeOK
<1>3. RacingKept'
  <2>1. now' = now + 1 /\ now \in Nat /\ account \in AccountRecord
    BY Types, Constants DEF IInv, Tick
  <2>2. Blocked' => Blocked
    BY <1>1, <2>1, CredentialsAssumption DEF Blocked, AccountRecord
  <2>3. ASSUME NEW r \in Req, req[r].pc = "clear" PROVE req[r].at <= now'
    <3>1. req[r].at \in Nat /\ req[r].at <= now
      BY <2>3, Types, Constants DEF IInv, RacingKept, RequestRecord
    <3> QED
      BY <2>1, <3>1
  <2> QED
    BY <1>1, <2>2, <2>3 DEF IInv, RacingKept
<1> QED
  BY <1>1, <1>2, <1>3
  DEF IInv, BlockKept, GuessesKept, OneActive, CodesSpent, ClaimsPast, Roles, OneHolder, StillThere,
      Active, Registered, Removing, Resetting

LEMMA InitKeeps == Init => IInv
<1> SUFFICES ASSUME Init PROVE IInv
  OBVIOUS
<1>1. TypeOK
  <2>1. req \in [Req -> RequestRecord]
    BY IdleRecord DEF Init, Answers
  <2>2. /\ account \in AccountRecord /\ totp \in [Row -> TotpRecord]
        /\ passkey \in [Passkey -> PasskeyRecord]
    BY Constants DEF Init, AccountRecord, TotpRecord, PasskeyRecord
  <2>3. history \in HistoryRecord
    BY Constants DEF Init, HistoryRecord, GuessRecord, NoGuesses
  <2> QED
    BY <2>1, <2>2, <2>3, Types, Constants DEF Init
<1>2. \A r \in Req : Role(req[r]) /\ ~Holding(req[r]) /\ req[r].pc = "idle"
  BY IdleRecord DEF Init, Answers
<1>3. Roles /\ OneHolder /\ StillThere
  BY <1>2, RolesEach, HolderEach DEF StillThere
<1>4. BlockKept /\ GuessesKept /\ RacingKept
  BY <1>2, CredentialsAssumption DEF Init, BlockKept, GuessesKept, RacingKept, NoGuesses
<1>5. Active = {} /\ history.used = {} /\ \A k \in Passkey : history.claims[k] = {}
  BY DEF Init, Active
<1> QED
  BY <1>1, <1>3, <1>4, <1>5 DEF IInv, OneActive, CodesSpent, ClaimsPast

LEMMA NextKeeps == IInv /\ [Next]_vars => IInv'
<1> SUFFICES ASSUME IInv, [Next]_vars PROVE IInv'
  OBVIOUS
<1>1. CASE \E r \in Req : Reads(r) \/ Writes(r)
  BY <1>1, ReadsHarmless, WritesKeep DEF Harmless
<1>2. CASE Tick
  BY <1>2, TickKeeps
<1>3. CASE UNCHANGED vars
  BY <1>3, Types
  DEF IInv, vars, TypeOK, BlockKept, GuessesKept, RacingKept, Blocked, OneActive, CodesSpent, ClaimsPast, Roles, OneHolder,
      StillThere, Active, Registered, Removing, Resetting
<1> QED
  BY <1>1, <1>2, <1>3, Steps

\* What requests know of the account and its factors stays as IInv says, however
\* they overlap.
THEOREM Invariant == Spec => []IInv
BY InitKeeps, NextKeeps, PTL DEF Spec

\* Who is told "ok" has just written.
LEMMA WhoAnswers ==
  ASSUME IInv, [Next]_vars, NEW q \in Req, Answered(q, "ok")
  PROVE  Writes(q)
<1>1. req'[q] # req[q]
  BY DEF Answered
<1>2. PICK r \in Req : Reads(r) \/ Writes(r)
  BY <1>1, Steps DEF Tick, vars
<1>3. CASE Reads(r)
  <2>1. PICK new : MovesTo(r, new) /\ (new.pc = "idle" => new.answer # "ok")
    BY <1>3, ReadsHarmless DEF Harmless
  <2> QED
    BY <1>1, <2>1, Moved DEF Answered
<1>4. CASE Writes(r)
  <2>1. PICK answer \in Answers : Answer(r, answer)
    BY <1>4, WritesAnswer
  <2>2. r = q
    BY <1>1, <2>1, Ends, Moved
  <2> QED
    BY <1>4, <2>2
<1> QED
  BY <1>2, <1>3, <1>4

\* What Writes(q) can be, by where q stands.
LEMMA WritesWhere ==
  ASSUME NEW q \in Req, Writes(q)
  PROVE  /\ req[q].pc = "clear" => ClearFailures(q)
         /\ req[q].pc = "consume" => Consume(q)
         /\ req[q].pc = "claim" => Claim(q)
         /\ req[q].pc \notin {"findStaff", "findTotp", "findPasskey"}
BY DEF Writes, RecordFailure, ClearFailures, Consume, Claim, InsertPasskey, StoreTotp, Remove,
       ResetPasskeys

\* A right password is let in by clearing the count, and never while the account is
\* blocked.
LEMMA WhoIsLetIn ==
  ASSUME IInv, [Next]_vars, NEW r \in Req, Answered(r, "ok"), req[r].kind = "right"
  PROVE  account.until = None \/ account.until <= req[r].at
<1>1. ClearFailures(r)
  BY WhoAnswers, WritesWhere, RolesEach DEF IInv, Role
<1>2. ~Answer(r, "blocked")
  <2> SUFFICES ASSUME Answer(r, "blocked") PROVE FALSE
    OBVIOUS
  <2> QED
    BY Ends, Moved, IdleRecord DEF Answered, Answers
<1> QED
  BY <1>1, <1>2 DEF ClearFailures

\* The account is written by wrong answers and by right passwords.
LEMMA WhoWritesAccount ==
  ASSUME [Next]_vars, account' # account
  PROVE  \E r \in Req : RecordFailure(r) \/ ClearFailures(r)
<1>1. PICK r \in Req : Reads(r) \/ Writes(r)
  BY Steps DEF Tick, vars
<1>2. ~Reads(r)
  BY DEF Reads, Begin, FindStaff, FindTotp, FindPasskey, FindFactors, SelectTotp, LockStaff,
         Count, ResetTotp, Fail
<1> QED
  BY <1>1, <1>2
  DEF Writes, Consume, Claim, InsertPasskey, StoreTotp, Remove, ResetPasskeys

\* Wrong answers given within one window, in whatever order they are recorded, keep a
\* right password out for a block; and what lifts a block before its time is a wrong
\* answer that was under way when it began, nothing else.
THEOREM GuessesBlocked == Spec => BlockHolds
<1>1. ASSUME IInv, [Next]_vars, NEW r \in Req, Answered(r, "ok"), req[r].kind = "right",
             history.guesses.count >= MaxAttempts,
             history.guesses.last - history.guesses.first < Window
      PROVE  ~(req[r].at < history.wrongAt + Window)
  <2>1. account.until = None \/ account.until <= req[r].at
    BY <1>1, WhoIsLetIn
  <2>2. account.count >= MaxAttempts
    BY <1>1, Types, CredentialsAssumption DEF IInv, GuessesKept, HistoryRecord, GuessRecord
  <2>3. /\ account.until = history.wrongAt + Window
        /\ history.wrongAt \in Int /\ req[r].at \in Int
    BY <1>1, <2>2, Types, Constants DEF IInv, BlockKept, HistoryRecord, RequestRecord
  <2>4. account.until # None /\ account.until \in Int
    BY <2>3, Constants, CredentialsAssumption
  <2> QED
    BY <2>1, <2>3, <2>4, Constants
<1>2. ASSUME IInv, [Next]_vars, Blocked,
             account'.until = None \/ account'.until < account.until
      PROVE  \E r \in history.racing : req[r].pc = "fail" /\ Answered(r, "refused")
  <2>1. account.until # None /\ account.until \in Int /\ account.until > now /\ now \in Int
    BY <1>2, Types, Constants DEF IInv, Blocked, AccountRecord
  <2>2. account' # account
    BY <1>2, <2>1
  <2>3. PICK r \in Req : RecordFailure(r) \/ ClearFailures(r)
    BY <1>2, <2>2, WhoWritesAccount
  <2>4. ~ClearFailures(r)
    <3> SUFFICES ASSUME ClearFailures(r) PROVE FALSE
      OBVIOUS
    <3>1. account.until <= req[r].at
      BY <2>1, <2>2 DEF ClearFailures
    <3>2. req[r].at <= now /\ req[r].at \in Int
      BY <1>2, Types, Constants DEF ClearFailures, IInv, RacingKept, RequestRecord
    <3> QED
      BY <2>1, <3>1, <3>2
  <2>5. req[r].pc = "fail" /\ Answer(r, "refused")
    BY <2>3, <2>4 DEF RecordFailure
  <2>6. r \in history.racing
    BY <1>2, <2>5 DEF IInv, RacingKept
  <2>7. Answered(r, "refused")
    BY <1>2, <2>5, Ends, Moved, IdleRecord DEF Answered, Answers
  <2> QED
    BY <2>5, <2>6, <2>7
<1>3. IInv /\ [Next]_vars =>
        \A r \in Req : Answered(r, "ok") /\ req[r].kind = "right" =>
          ~(/\ history.guesses.count >= MaxAttempts
            /\ history.guesses.last - history.guesses.first < Window
            /\ req[r].at < history.wrongAt + Window)
  BY <1>1
<1>4. IInv /\ [Next]_vars =>
        (Blocked /\ (account'.until = None \/ account'.until < account.until) =>
           \E r \in history.racing : req[r].pc = "fail" /\ Answered(r, "refused"))
  BY <1>2
<1>5. Spec => LimitHolds
  BY <1>3, Invariant, PTL DEF Spec, LimitHolds
<1>6. Spec => BlockLasts
  BY <1>4, Invariant, PTL DEF Spec, BlockLasts
<1> QED
  BY <1>5, <1>6 DEF BlockHolds

\* A code lets one request in, and so does an assertion.
THEOREM ProofsUsedOnce == Spec => ProvenOnce
<1>1. ASSUME IInv, [Next]_vars, NEW r \in Req, Answered(r, "ok"), req[r].kind = "code",
             NEW u \in history.used, u[1] \in Active
      PROVE  u[2] < req[r].at
  <2>1. Consume(r)
    BY <1>1, WhoAnswers, WritesWhere, RolesEach DEF IInv, Role
  <2>2. PICK w \in Active : totp[w].step < req[r].at
    <3>1. ~Answer(r, "refused")
      <4> SUFFICES ASSUME Answer(r, "refused") PROVE FALSE
        OBVIOUS
      <4> QED
        BY <1>1, Ends, Moved, IdleRecord DEF Answered, Answers
    <3> QED
      BY <2>1, <3>1 DEF Consume
  <2>3. u[1] = w /\ u[2] <= totp[w].step
    BY <1>1, <2>2 DEF IInv, OneActive, CodesSpent
  <2>4. u[2] \in Nat /\ totp[w].step \in Nat /\ req[r].at \in Nat
    BY <1>1, Types, Constants DEF IInv, HistoryRecord, TotpRecord, RequestRecord, Active
  <2> QED
    BY <2>2, <2>3, <2>4
<1>2. ASSUME IInv, [Next]_vars, NEW r \in Req, Answered(r, "ok"), req[r].kind = "assertion",
             NEW k \in Passkey, k = req[r].key
      PROVE  req[r].read \notin history.claims[k]
  <2>1. Claim(r)
    BY <1>2, WhoAnswers, WritesWhere, RolesEach DEF IInv, Role
  <2>2. passkey[k].last = req[r].read.last
    <3>1. ~Answer(r, "refused")
      <4> SUFFICES ASSUME Answer(r, "refused") PROVE FALSE
        OBVIOUS
      <4> QED
        BY <1>2, Ends, Moved, IdleRecord DEF Answered, Answers
    <3> QED
      BY <1>2, <2>1, <3>1 DEF Claim
  <2>3. passkey[k].last \in Int
    BY <1>2, Types DEF IInv, PasskeyRecord
  <2> QED
    BY <1>2, <2>2, <2>3 DEF IInv, ClaimsPast
<1>3. IInv /\ [Next]_vars =>
        \A r \in Req : Answered(r, "ok") /\ req[r].kind = "code" =>
          \A u \in history.used : u[1] \in Active => u[2] < req[r].at
  BY <1>1
<1>4. IInv /\ [Next]_vars =>
        \A r \in Req : Answered(r, "ok") /\ req[r].kind = "assertion" =>
          \A k \in Passkey : k = req[r].key => req[r].read \notin history.claims[k]
  BY <1>2
<1>5. Spec => CodeUsedOnce
  BY <1>3, Invariant, PTL DEF Spec, CodeUsedOnce
<1>6. Spec => AssertionUsedOnce
  BY <1>4, Invariant, PTL DEF Spec, AssertionUsedOnce
<1> QED
  BY <1>5, <1>6 DEF ProvenOnce

\* Removals and enrolments, however they overlap, leave somebody who had a factor
\* with one; only an administrator's reset takes the last.
THEOREM FactorsRemain == Spec => FactorRemains
<1>1. ASSUME IInv, [Next]_vars, HasFactor, ~HasFactor'
      PROVE  \E r \in Req : req[r].kind = "resetMfa" /\ Answered(r, "ok")
  <2>1. ~(UNCHANGED <<totp, passkey>>)
    BY <1>1 DEF HasFactor, Active, Registered
  <2>2. PICK r \in Req : Reads(r) \/ Writes(r)
    BY <2>1, <1>1, Steps DEF Tick, vars
  <2>3. Writes(r)
    BY <1>1, <2>1, <2>2, ReadsHarmless DEF Harmless
  <2> QED
    BY <1>1, <2>3, WritesKeep, ResetPasskeysKeeps
<1> QED
  BY <1>1, Invariant, PTL DEF Spec, FactorRemains
================================================================================
