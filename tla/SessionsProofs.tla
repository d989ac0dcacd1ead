---------------------------- MODULE SessionsProofs ----------------------------
(***************************************************************************)
(* Proofs about Sessions, for every set of accounts, sessions, tokens and  *)
(* requests: the inductive invariant, what follows from it, and that the   *)
(* tables implement SessionChain.  What a request q knows of the rows is   *)
(* Fits(q, session, token); a step of another request keeps it as long as  *)
(* the rows only change as Kept says.                                      *)
(***************************************************************************)
EXTENDS Sessions, TLAPS

\* How rows may change from S and T to S2 and T2 under a request q: owners and
\* the sessions of tokens stay, what is over stays over, what q works with is
\* not pruned, its claim is not touched, and no session is opened that q closes.
Kept(q, S, T, S2, T2) ==
  /\ \A s \in Session : S[s].owner # None => S2[s].owner = S[s].owner
  /\ \A s \in Session : Over(S, s) => Over(S2, s)
  /\ \A s \in Session : s = q.session \/ s \in q.known =>
       (S[s].revoked => S2[s].revoked) /\ (S2[s].gone => S[s].gone)
  /\ \A t \in Token : T[t].session # None => T2[t].session = T[t].session
  /\ \A t \in Token : q.pc = "rotate" /\ t = q.token /\ ~T[t].consumed /\ ~T[t].revoked =>
       ~T2[t].consumed /\ ~T2[t].revoked
  /\ q.pc \in {"closeTokens", "closing"} =>
       \A s \in Session : S2[s].owner = q.staff /\ ~Over(S2, s) =>
          S[s].owner = q.staff /\ ~Over(S, s)

LEMMA Names == None \notin Staff /\ None \notin Session /\ None \notin Token
BY SessionsAssumption

LEMMA FitsKept ==
  ASSUME NEW q \in Request, NEW S, NEW T, NEW S2, NEW T2,
         q.pc # "idle", Fits(q, S, T), Kept(q, S, T, S2, T2)
  PROVE  Fits(q, S2, T2)
<1> USE Names
<1>1. ActsFor(q, S2, T2)
  BY DEF Fits, ActsFor, Kept
<1>2. StoppedIfLate(q, S2)
  <2>1. q.kind \in Calling \cup {"refresh"} => q.session \in Session
    BY DEF Fits, ActsFor
  <2> QED
    BY <2>1 DEF Fits, StoppedIfLate, Kept
<1>3. HasClaim(q, T2)
  <2>1. q.pc = "rotate" => q.token \in Token
    BY DEF Fits, ActsFor
  <2> QED
    BY <2>1 DEF Fits, HasClaim, Kept
<1>4. Revokes(q, S2, T2)
  <2>1. q.todo \subseteq Session /\ q.snapshot \subseteq Token
    BY DEF Request
  <2> QED
    BY <2>1 DEF Fits, Revokes, Kept
<1>5. Knows(q, S2)
  <2>1. q.known \subseteq Session
    BY DEF Request
  <2> QED
    BY <2>1 DEF Fits, Knows, Kept
<1>6. Closes(q, S2, T2)
  <2>1. q.todo \subseteq Session /\ q.snapshot \subseteq Token
    BY DEF Request
  <2> QED
    BY <2>1 DEF Fits, Closes, Kept
<1> QED
  BY <1>1, <1>2, <1>3, <1>4, <1>5, <1>6 DEF Fits

\* What a handler was told does not matter to what it knows.
LEMMA AnswerIsIrrelevant ==
  ASSUME NEW q \in Request, NEW S, NEW T, Fits(q, S, T)
  PROVE  /\ [q EXCEPT !.answer = "none"] \in Request
         /\ Fits([q EXCEPT !.answer = "none"], S, T)
<1> DEFINE a == [q EXCEPT !.answer = "none"]
<1>1. a \in Request
  BY DEF Request
<1>2. /\ a.kind = q.kind /\ a.pc = q.pc /\ a.staff = q.staff /\ a.session = q.session
      /\ a.token = q.token /\ a.todo = q.todo /\ a.target = q.target
      /\ a.snapshot = q.snapshot /\ a.seen = q.seen /\ a.known = q.known /\ a.late = q.late
  BY DEF Request
<1> HIDE DEF a
<1>3. Fits(a, S, T)
  BY <1>2 DEF Fits, ActsFor, StoppedIfLate, HasClaim, Revokes, Knows, Closes
<1> QED
  BY <1>1, <1>3 DEF a

\* A request at rest.
LEMMA AtRest ==
  ASSUME NEW answer \in {"none", "ok", "refused", "replay", "failed"}, NEW S, NEW T
  PROVE  Idle(answer) \in Request /\ Idle(answer).pc = "idle" /\ Fits(Idle(answer), S, T)
BY DEF Idle, Request, Fits

\* A step of one request: the rows stay sound, what it knows afterwards fits, and
\* what the others know is kept.
LEMMA Step ==
  ASSUME IInv, NEW r \in Req, NEW q \in Request, req' = [req EXCEPT ![r] = q],
         staff' \in [Staff -> [active : BOOLEAN, deleted : BOOLEAN]],
         session' \in [Session -> [owner : Staff \cup {None}, revoked : BOOLEAN,
                                   lapsed : BOOLEAN, aged : BOOLEAN, gone : BOOLEAN]],
         token' \in [Token -> [session : Session \cup {None}, consumed : BOOLEAN,
                               revoked : BOOLEAN]],
         RowsFit', Fits(q, session', token'),
         q.pc = "rotate" => \A x \in Req : ~HoldsToken(x, q.token),
         \A x \in Req : x # r /\ req[x].pc # "idle" =>
            Kept(req[x], session, token, session', token')
  PROVE  IInv'
<1>1. req' \in [Req -> Request] /\ req \in [Req -> Request]
  BY DEF IInv, TypeOK
<1>2. TypeOK'
  BY <1>1 DEF TypeOK
<1>3. ASSUME NEW x \in Req PROVE Fits(req'[x], session', token')
  <2>1. CASE x = r
    BY <1>1, <2>1
  <2>2. CASE x # r /\ req[x].pc = "idle"
    BY <1>1, <2>2 DEF Fits
  <2>3. CASE x # r /\ req[x].pc # "idle"
    <3>1. req'[x] = req[x] /\ req[x] \in Request /\ Fits(req[x], session, token)
      BY <1>1, <2>3 DEF IInv
    <3> QED
      BY <2>3, <3>1, FitsKept
  <2> QED
    BY <2>1, <2>2, <2>3
<1>4. ClaimsApart'
  BY <1>1 DEF IInv, ClaimsApart, HoldsToken
<1> QED
  BY <1>2, <1>3, <1>4 DEF IInv

LEMMA KeptSame ==
  ASSUME NEW q, NEW S, NEW T
  PROVE  Kept(q, S, T, S, T)
BY DEF Kept

\* A step that reads the rows, or only changes accounts.
LEMMA LocalStep ==
  ASSUME IInv, NEW r \in Req, NEW q \in Request, req' = [req EXCEPT ![r] = q],
         staff' \in [Staff -> [active : BOOLEAN, deleted : BOOLEAN]],
         UNCHANGED <<session, token>>, Fits(q, session, token),
         q.pc = "rotate" => \A x \in Req : ~HoldsToken(x, q.token)
  PROVE  IInv'
<1>1. RowsFit'
  BY DEF IInv, RowsFit, OneUsableToken, Live, Exists, Usable
<1>2. \A x \in Req : Kept(req[x], session, token, session', token')
  BY KeptSame
<1> QED
  BY <1>1, <1>2, Step DEF IInv, TypeOK

\* A step that only ends a request.
LEMMA EndStep ==
  ASSUME IInv, NEW r \in Req, NEW answer \in {"ok", "refused", "replay", "failed"},
         Answer(r, answer), UNCHANGED <<staff, session, token>>
  PROVE  IInv'
<1>1. /\ Idle(answer) \in Request /\ Fits(Idle(answer), session, token)
      /\ Idle(answer).pc # "rotate"
  BY AtRest
<1> QED
  BY <1>1, LocalStep DEF Answer, IInv, TypeOK

\* A step that only moves a request on.
LEMMA GotoStep ==
  ASSUME IInv, NEW r \in Req, NEW pc, Goto(r, pc), [req[r] EXCEPT !.pc = pc] \in Request,
         Fits([req[r] EXCEPT !.pc = pc], session, token), UNCHANGED <<staff, session, token>>,
         pc = "rotate" => \A x \in Req : ~HoldsToken(x, req[r].token)
  PROVE  IInv'
<1>1. req[r] \in Request
  BY DEF IInv, TypeOK
<1>2. [req[r] EXCEPT !.pc = pc].pc = pc /\ [req[r] EXCEPT !.pc = pc].token = req[r].token
  BY <1>1 DEF Request
<1> QED
  BY <1>2, LocalStep DEF Goto, IInv, TypeOK
-------------------------------------------------------------------------------
(* Steps of a request that change no row *)

\* A request that arrives knows nothing yet, except whether it came too late.
LEMMA BeginStep ==
  ASSUME IInv, NEW r \in Req, NEW kind \in Kinds, NEW p \in Staff \cup {None},
         NEW s \in Session \cup {None}, NEW t \in Token \cup {None}, NEW pc,
         Begin(r, kind, p, s, t, pc),
         pc \in {"issue", "findToken", "findSession", "logout", "closeStaff", "enable"},
         kind \in Calling \cup {"refresh", "logout"} =>
           s \in Session /\ session[s].owner = p /\ p # None,
         kind \in Creating \cup Ending => p \in Staff,
         kind = "refresh" => t \in Token /\ token[t].session = s,
         pc = "findSession" => t = None,
         kind \in Calling <=> pc = "findSession", kind = "refresh" <=> pc = "findToken",
         pc = "issue" => kind = "login", pc = "logout" => kind = "logout",
         pc = "enable" => kind \in Enabling, pc = "closeStaff" => kind \in Ending
  PROVE  IInv'
<1> DEFINE q == [Idle("none") EXCEPT !.kind = kind, !.pc = pc, !.staff = p, !.session = s,
                                     !.token = t, !.late = s # None /\ ~Live(s)]
<1>1. /\ q.kind = kind /\ q.pc = pc /\ q.staff = p /\ q.session = s /\ q.token = t
      /\ q.todo = {} /\ q.target = None /\ q.snapshot = {} /\ q.known = {}
      /\ q.late = (s # None /\ ~Live(s))
  BY DEF Idle
<1>2. q \in Request
  <2>1. Idle("none") \in Request
    BY AtRest
  <2>2. kind \in AllKinds /\ (s # None /\ ~Live(s)) \in BOOLEAN
    BY SessionsAssumption
  <2> DEFINE late == s # None /\ ~Live(s)
  <2>3. late \in BOOLEAN
    BY <2>2
  <2> HIDE DEF late
  <2>4. [Idle("none") EXCEPT !.kind = kind, !.pc = pc, !.staff = p, !.session = s, !.token = t,
                             !.late = late] \in Request
    BY <2>1, <2>2, <2>3, ZenonT(40) DEF Request
  <2> QED
    BY <2>4 DEF late
<1>3. req' = [x \in Req |-> IF x = r THEN q ELSE [req[x] EXCEPT !.answer = "none"]]
  BY DEF Begin
<1> HIDE DEF q
<1>4. Fits(q, session, token)
  <2>1. ActsFor(q, session, token)
    BY <1>1 DEF ActsFor, Calling, Creating, Ending, Enabling
  <2>2. StoppedIfLate(q, session)
    BY <1>1, Names DEF StoppedIfLate, Calling, Live, Exists, Over
  <2>3. HasClaim(q, token) /\ Revokes(q, session, token) /\ Knows(q, session)
        /\ Closes(q, session, token)
    BY <1>1 DEF HasClaim, Revokes, Knows, Closes, Creating
  <2> QED
    BY <2>1, <2>2, <2>3 DEF Fits
<1>5. UNCHANGED <<staff, session, token>>
  BY DEF Begin
<1>6. ASSUME NEW x \in Req PROVE req'[x] \in Request /\ Fits(req'[x], session', token')
  <2>1. req[x] \in Request /\ Fits(req[x], session, token)
    BY DEF IInv, TypeOK
  <2> QED
    BY <1>2, <1>3, <1>4, <1>5, <2>1, AnswerIsIrrelevant
<1>7. req' \in [Req -> Request]
  BY <1>3, <1>6
<1>8. RowsFit'
  BY <1>5 DEF IInv, RowsFit, OneUsableToken, Live, Exists, Usable
<1>9. ClaimsApart'
  <2>1. ASSUME NEW x \in Req, req'[x].pc = "rotate"
        PROVE  req[x].pc = "rotate" /\ req'[x].token = req[x].token
    <3>1. req[x] \in Request
      BY DEF IInv, TypeOK
    <3> QED
      BY <1>1, <1>3, <2>1, <3>1 DEF Request
  <2> QED
    BY <2>1 DEF IInv, ClaimsApart, HoldsToken
<1> QED
  BY <1>5, <1>6, <1>7, <1>8, <1>9 DEF IInv, TypeOK

LEMMA ArriveInv ==
  ASSUME IInv, NEW r \in Req, Arrive(r)
  PROVE  IInv'
<1> USE Names
<1>1. ASSUME NEW p \in Staff, Login(r, p) PROVE IInv'
  <2>1. "login" \in Kinds
    BY <1>1 DEF Login, Begin
  <2> QED
    BY <1>1, <2>1, BeginStep DEF Login, Calling, Creating, Ending
<1>2. ASSUME NEW p \in Staff, NEW kind \in Kinds, Manage(r, kind, p) PROVE IInv'
  BY <1>2, BeginStep DEF Manage, Calling, Creating, Ending, Enabling
<1>3. ASSUME NEW t \in Token, Refresh(r, t) PROVE IInv'
  <2>1. token[t].session \in Session /\ session[token[t].session].owner \in Staff
    BY <1>3 DEF Refresh, IInv, TypeOK, RowsFit
  <2>2. "refresh" \in Kinds
    BY <1>3 DEF Refresh, Begin
  <2> QED
    BY <1>3, <2>1, <2>2, BeginStep DEF Refresh, Calling, Creating, Ending
<1>4. ASSUME NEW s \in Session, Logout(r, s) PROVE IInv'
  <2>1. session[s].owner \in Staff
    BY <1>4 DEF Logout, IInv, TypeOK
  <2>2. "logout" \in Kinds
    BY <1>4 DEF Logout, Begin
  <2> QED
    BY <1>4, <2>1, <2>2, BeginStep DEF Logout, Calling, Creating, Ending
<1>5. ASSUME NEW s \in Session, NEW kind \in Kinds, Call(r, kind, s) PROVE IInv'
  <2>1. session[s].owner \in Staff
    BY <1>5 DEF Call, IInv, TypeOK
  <2> QED
    BY <1>5, <2>1, BeginStep DEF Call, Calling, Creating, Ending
<1> QED
  BY <1>1, <1>2, <1>3, <1>4, <1>5 DEF Arrive

\* Every handler that is under way is described by Fits.
LEMMA Own ==
  ASSUME IInv, NEW r \in Req, req[r].pc # "idle"
  PROVE  /\ req[r] \in Request
         /\ ActsFor(req[r], session, token) /\ StoppedIfLate(req[r], session)
         /\ HasClaim(req[r], token) /\ Revokes(req[r], session, token)
         /\ Knows(req[r], session) /\ Closes(req[r], session, token)
BY DEF IInv, TypeOK, Fits

\* What the other conjuncts of Fits say of a handler that only reads.
LEMMA ReaderFits ==
  ASSUME NEW q \in Request, NEW S, NEW T,
         q.pc \in {"findSession", "findStaff", "recheck", "list", "findToken", "readSession",
                   "check", "claim"},
         ActsFor(q, S, T), StoppedIfLate(q, S), q.known = {}
  PROVE  Fits(q, S, T)
BY DEF Fits, HasClaim, Revokes, Knows, Closes

\* The same request, further on.
SameRequest(q, o) ==
  /\ q.kind = o.kind /\ q.staff = o.staff /\ q.session = o.session /\ q.token = o.token
  /\ q.late = o.late

Readers == {"findSession", "findStaff", "recheck", "list", "findToken", "readSession",
            "check", "claim"}

\* One reading statement after the other.
LEMMA ReadOn ==
  ASSUME IInv, NEW r \in Req, NEW pc \in Readers, NEW seen \in BOOLEAN, req[r].pc \in Readers,
         req' = [req EXCEPT ![r] = [req[r] EXCEPT !.pc = pc, !.seen = seen]],
         UNCHANGED <<staff, session, token>>,
         pc \in {"findStaff", "recheck", "list"} =>
           req[r].kind \in Calling /\ ~req[r].late,
         pc \in {"recheck", "list"} => req[r].kind # "access",
         pc \in {"readSession", "check", "claim"} =>
           req[r].kind = "refresh" /\ ~session[req[r].session].gone,
         pc \in {"readSession", "check"} /\ req[r].late => session[req[r].session].revoked,
         pc = "check" /\ req[r].late => seen,
         pc = "claim" => ~req[r].late,
         pc \notin {"findSession", "findToken"}
  PROVE  IInv'
<1> DEFINE q == [req[r] EXCEPT !.pc = pc, !.seen = seen]
<1>1. req[r].pc # "idle" /\ req[r] \in Request /\ req[r].known = {}
  BY Own DEF Knows, Readers
<1>2. /\ q \in Request /\ q.pc = pc /\ q.seen = seen /\ q.known = {}
      /\ SameRequest(q, req[r])
  <2>1. q \in Request
    <3>1. [req[r] EXCEPT !.pc = pc] \in Request
      BY <1>1 DEF Request, Readers
    <3>2. ASSUME NEW o \in Request PROVE [o EXCEPT !.seen = seen] \in Request
      BY DEF Request
    <3>3. q = [[req[r] EXCEPT !.pc = pc] EXCEPT !.seen = seen]
      OBVIOUS
    <3> QED
      BY <3>1, <3>2, <3>3, Zenon
  <2>2. q.pc = pc /\ q.seen = seen /\ q.known = {}
    BY <1>1 DEF Request
  <2>3. SameRequest(q, req[r])
    BY <1>1 DEF Request, SameRequest
  <2> QED
    BY <2>1, <2>2, <2>3
<1> HIDE DEF q
<1>3. ActsFor(q, session, token)
  BY <1>1, <1>2, Own DEF ActsFor, SameRequest, Readers, Calling
<1>4. StoppedIfLate(q, session)
  BY <1>1, <1>2, Own DEF StoppedIfLate, SameRequest, Readers, Calling
<1>5. Fits(q, session, token)
  BY <1>2, <1>3, <1>4, ReaderFits DEF Readers
<1>6. req' = [req EXCEPT ![r] = q] /\ q.pc # "rotate"
  BY <1>2 DEF q, Readers
<1>7. staff' \in [Staff -> [active : BOOLEAN, deleted : BOOLEAN]]
  BY DEF IInv, TypeOK
<1> QED
  BY <1>2, <1>5, <1>6, <1>7, LocalStep

\* Goto of a handler that only reads.
LEMMA GotoReads ==
  ASSUME IInv, NEW r \in Req, NEW pc, Goto(r, pc)
  PROVE  req' = [req EXCEPT ![r] = [req[r] EXCEPT !.pc = pc, !.seen = req[r].seen]]
<1>1. req[r] \in Request /\ req \in [Req -> Request]
  BY DEF IInv, TypeOK
<1>2. [req[r] EXCEPT !.pc = pc] = [req[r] EXCEPT !.pc = pc, !.seen = req[r].seen]
  <2>1. ASSUME NEW q \in Request PROVE [q EXCEPT !.pc = pc] = [q EXCEPT !.pc = pc, !.seen = q.seen]
    BY DEF Request
  <2> QED
    BY <1>1, <2>1
<1> QED
  BY <1>1, <1>2 DEF Goto

LEMMA FindSessionInv == ASSUME IInv, NEW r \in Req, FindSession(r) PROVE IInv'
<1> DEFINE s == session[req[r].session]
<1>1. req[r].pc = "findSession" /\ UNCHANGED <<staff, session, token>>
  BY DEF FindSession
<1>2. CASE s.gone \/ s.revoked \/ s.lapsed
  BY <1>1, <1>2, EndStep DEF FindSession
<1>3. CASE ~(s.gone \/ s.revoked \/ s.lapsed)
  <2>1. Goto(r, "findStaff")
    BY <1>3 DEF FindSession
  <2>2. req[r].kind \in Calling /\ ~req[r].late /\ req[r].seen \in BOOLEAN
    BY <1>1, <1>3, Own DEF ActsFor, StoppedIfLate, Over, Calling, Request
  <2> QED
    BY <1>1, <2>1, <2>2, GotoReads, ReadOn DEF Readers
<1> QED
  BY <1>2, <1>3

LEMMA FindStaffInv == ASSUME IInv, NEW r \in Req, FindStaff(r) PROVE IInv'
<1>1. req[r].pc = "findStaff" /\ UNCHANGED <<staff, session, token>>
  BY DEF FindStaff
<1>2. req[r].kind \in Calling /\ ~req[r].late /\ req[r].seen \in BOOLEAN
  BY <1>1, Own DEF ActsFor, StoppedIfLate, Request
<1>3. CASE ~staff[req[r].staff].active \/ req[r].kind = "access"
  BY <1>1, <1>3, EndStep DEF FindStaff
<1>4. CASE staff[req[r].staff].active /\ req[r].kind = "change"
  <2>1. Goto(r, "recheck")
    BY <1>4 DEF FindStaff
  <2> QED
    BY <1>1, <1>2, <1>4, <2>1, GotoReads, ReadOn DEF Readers
<1>5. CASE staff[req[r].staff].active /\ req[r].kind = "others"
  <2>1. Goto(r, "list")
    BY <1>5 DEF FindStaff
  <2> QED
    BY <1>1, <1>2, <1>5, <2>1, GotoReads, ReadOn DEF Readers
<1> QED
  BY <1>2, <1>3, <1>4, <1>5 DEF Calling

LEMMA RecheckInv == ASSUME IInv, NEW r \in Req, Recheck(r) PROVE IInv'
<1>1. req[r].pc = "recheck" /\ UNCHANGED <<staff, session, token>>
  BY DEF Recheck
<1>2. /\ req[r].kind \in Calling /\ ~req[r].late /\ req[r].seen \in BOOLEAN
      /\ req[r].kind # "access"
  BY <1>1, Own DEF ActsFor, StoppedIfLate, Request
<1>3. CASE Goto(r, "list")
  BY <1>1, <1>2, <1>3, GotoReads, ReadOn DEF Readers
<1>4. CASE Answer(r, "refused")
  BY <1>1, <1>4, EndStep
<1> QED
  BY <1>3, <1>4 DEF Recheck

LEMMA FindTokenInv == ASSUME IInv, NEW r \in Req, FindToken(r) PROVE IInv'
<1> DEFINE t == token[req[r].token]
           seen == t.consumed \/ t.revoked
<1>1. req[r].pc = "findToken" /\ UNCHANGED <<staff, session, token>>
  BY DEF FindToken
<1>2. /\ req[r].kind = "refresh" /\ req[r].token \in Token /\ t.session = req[r].session
      /\ req[r].late => Over(session, req[r].session)
  BY <1>1, Own DEF ActsFor, StoppedIfLate
<1>3. CASE session[t.session].gone
  BY <1>1, <1>3, EndStep DEF FindToken
<1>4. CASE ~session[t.session].gone
  <2>1. req' = [req EXCEPT ![r] = [req[r] EXCEPT !.pc = "readSession", !.seen = seen]]
    <3>1. req' = [req EXCEPT ![r].seen = seen, ![r].pc = "readSession"]
      BY <1>4 DEF FindToken
    <3>2. req \in [Req -> Request]
      BY DEF IInv, TypeOK
    <3> QED
      BY <3>1, <3>2 DEF Request
  <2>2. seen \in BOOLEAN
    OBVIOUS
  <2> HIDE DEF seen
  <2> QED
    BY <1>1, <1>2, <1>4, <2>1, <2>2, ReadOn DEF Readers, Over
<1> QED
  BY <1>3, <1>4

LEMMA ReadSessionInv == ASSUME IInv, NEW r \in Req, ReadSession(r) PROVE IInv'
<1> DEFINE seen == req[r].seen \/ session[req[r].session].revoked
<1>1. req[r].pc = "readSession" /\ UNCHANGED <<staff, session, token>>
  BY DEF ReadSession
<1>2. /\ req[r].kind = "refresh" /\ ~session[req[r].session].gone
      /\ req[r].late => session[req[r].session].revoked
  BY <1>1, Own DEF ActsFor, StoppedIfLate
<1>3. req' = [req EXCEPT ![r] = [req[r] EXCEPT !.pc = "check", !.seen = seen]]
  <2>1. req \in [Req -> Request]
    BY DEF IInv, TypeOK
  <2> QED
    BY <2>1 DEF ReadSession, Request
<1>4. seen \in BOOLEAN /\ (session[req[r].session].revoked => seen)
  OBVIOUS
<1> HIDE DEF seen
<1> QED
  BY <1>1, <1>2, <1>3, <1>4, ReadOn DEF Readers

-------------------------------------------------------------------------------
(* A handler starts, or goes on, to revoke sessions one by one *)

\* What Revoking makes of a request.
LEMMA RevokingFields ==
  ASSUME NEW r \in Req, req[r] \in Request, NEW S \in SUBSET Session
  PROVE  /\ Revoking(r, S) \in Request /\ SameRequest(Revoking(r, S), req[r])
         /\ Revoking(r, S).todo = S /\ Revoking(r, S).pc = "revoke"
         /\ Revoking(r, S).known = req[r].known
<1> DEFINE q == Revoking(r, S)
<1>1. /\ q.kind = req[r].kind /\ q.staff = req[r].staff /\ q.session = req[r].session
      /\ q.token = req[r].token /\ q.late = req[r].late /\ q.known = req[r].known
      /\ q.todo = S /\ q.pc = "revoke"
  BY DEF Revoking, Request
<1>2. q \in Request
  BY ZenonT(40) DEF Revoking, Request
<1> HIDE DEF q
<1>3. SameRequest(q, req[r])
  BY <1>1 DEF SameRequest
<1> QED
  BY <1>1, <1>2, <1>3 DEF q

LEMMA RevokerFits ==
  ASSUME IInv, NEW r \in Req, req[r].pc # "idle", NEW q \in Request,
         SameRequest(q, req[r]), q.pc = "revoke", q.todo # {},
         \A s \in q.todo : session[s].owner # None,
         q.kind \in {"refresh", "logout", "change", "others"},
         q.kind = "refresh" \/ (q.kind = "change" /\ q.token # None) => q.todo = {q.session},
         q.kind \in Calling => ~q.late, Knows(q, session)
  PROVE  Fits(q, session, token)
<1>1. ActsFor(q, session, token)
  BY Own DEF ActsFor, SameRequest
<1>2. StoppedIfLate(q, session) /\ HasClaim(q, token) /\ Closes(q, session, token)
  BY DEF StoppedIfLate, HasClaim, Closes
<1>3. Revokes(q, session, token)
  BY DEF Revokes
<1> QED
  BY <1>1, <1>2, <1>3 DEF Fits

\* revokeSession of the session the request is about.
LEMMA RevokeOwn ==
  ASSUME IInv, NEW r \in Req, req[r].pc \in {"logout", "check", "claim"},
         req' = [req EXCEPT ![r] = Revoking(r, {req[r].session})],
         UNCHANGED <<staff, session, token>>
  PROVE  IInv'
<1> DEFINE q == Revoking(r, {req[r].session})
<1>1. /\ req[r] \in Request /\ req[r].known = {} /\ req[r].kind \in {"logout", "refresh"}
      /\ req[r].session \in Session /\ session[req[r].session].owner = req[r].staff
      /\ req[r].staff # None
  BY Own DEF Knows, ActsFor
<1>2. /\ q \in Request /\ SameRequest(q, req[r]) /\ q.todo = {req[r].session}
      /\ q.pc = "revoke" /\ q.known = {}
  BY <1>1, RevokingFields
<1> HIDE DEF q
<1>3. Knows(q, session)
  BY <1>2 DEF Knows
<1>4. Fits(q, session, token)
  BY <1>1, <1>2, <1>3, RevokerFits DEF SameRequest, Calling
<1> QED
  BY <1>2, <1>4, LocalStep DEF q, IInv, TypeOK

LEMMA StartLogoutInv == ASSUME IInv, NEW r \in Req, StartLogout(r) PROVE IInv'
BY RevokeOwn DEF StartLogout

LEMMA CheckInv == ASSUME IInv, NEW r \in Req, Check(r) PROVE IInv'
<1> DEFINE p == staff[req[r].staff]
           s == session[req[r].session]
<1>1. req[r].pc = "check" /\ UNCHANGED <<staff, session, token>>
  BY DEF Check
<1>2. CASE Answer(r, "refused")
  BY <1>1, <1>2, EndStep
<1>3. CASE ~p.deleted /\ (req[r].seen \/ s.lapsed \/ s.aged)
  BY <1>1, <1>3, RevokeOwn DEF Check
<1>4. CASE Goto(r, "claim") /\ ~req[r].seen
  <2>1. /\ req[r].kind = "refresh" /\ ~session[req[r].session].gone /\ ~req[r].late
        /\ req[r].seen \in BOOLEAN
    BY <1>1, <1>4, Own DEF ActsFor, StoppedIfLate, Request
  <2> QED
    BY <1>1, <1>4, <2>1, GotoReads, ReadOn DEF Readers
<1> QED
  BY <1>2, <1>3, <1>4 DEF Check

LEMMA ClaimInv == ASSUME IInv, NEW r \in Req, Claim(r) PROVE IInv'
<1> DEFINE t == token[req[r].token]
           q == [req[r] EXCEPT !.pc = "rotate"]
<1>1. req[r].pc = "claim" /\ UNCHANGED <<staff, session, token>>
  BY DEF Claim
<1>2. CASE req' = [req EXCEPT ![r] = Revoking(r, {req[r].session})]
  BY <1>1, <1>2, RevokeOwn
<1>3. CASE Goto(r, "rotate") /\ ~t.consumed /\ ~t.revoked
  <2>1. req[r] \in Request /\ req[r].known = {} /\ req[r].kind = "refresh" /\ ~req[r].late
    BY <1>1, Own DEF Knows, ActsFor, StoppedIfLate
  <2>2. q \in Request /\ q.pc = "rotate" /\ q.known = {} /\ SameRequest(q, req[r])
    BY <2>1 DEF Request, SameRequest
  <2> HIDE DEF q
  <2>3. ActsFor(q, session, token) /\ StoppedIfLate(q, session)
    BY <1>1, <2>1, <2>2, Own DEF ActsFor, StoppedIfLate, SameRequest, Calling
  <2>4. HasClaim(q, token)
    BY <1>3, <2>2 DEF HasClaim, SameRequest
  <2>5. Fits(q, session, token)
    BY <2>2, <2>3, <2>4 DEF Fits, Revokes, Knows, Closes
  <2>6. \A x \in Req : ~HoldsToken(x, req[r].token)
    BY DEF Claim, TokenLocked
  <2> QED
    BY <1>1, <1>3, <2>2, <2>5, <2>6, GotoStep DEF q
<1> QED
  BY <1>2, <1>3 DEF Claim

LEMMA ListInv == ASSUME IInv, NEW r \in Req, List(r) PROVE IInv'
<1> DEFINE all == SessionsOf(req[r].staff)
           others == {s \in all \ {req[r].session} : Live(s)}
           q == [Revoking(r, others) EXCEPT !.known = all]
           w == [Continue(r) EXCEPT !.known = all]
<1>1. req[r].pc = "list" /\ UNCHANGED <<staff, session, token>>
  BY DEF List
<1>2. /\ req[r] \in Request /\ req[r].kind \in {"change", "others"} /\ ~req[r].late
      /\ req[r].staff # None /\ req[r].token = None
  BY <1>1, Own DEF ActsFor, StoppedIfLate, Calling
<1>3. /\ all \in SUBSET Session /\ others \in SUBSET Session
      /\ \A s \in all : session[s].owner # None /\ ~session[s].gone
      /\ \A s \in all : session[s].revoked \/ s = req[r].session \/ s \in others
  BY <1>2 DEF SessionsOf, Live, Exists
<1> HIDE DEF all, others
<1>4. CASE others # {}
  <2>1. req' = [req EXCEPT ![r] = q]
    BY <1>4 DEF List, all, others
  <2>2. /\ q \in Request /\ SameRequest(q, req[r]) /\ q.pc = "revoke" /\ q.todo = others
        /\ q.known = all
    <3>1. Revoking(r, others) \in Request /\ SameRequest(Revoking(r, others), req[r])
          /\ Revoking(r, others).todo = others /\ Revoking(r, others).pc = "revoke"
      BY <1>2, <1>3, RevokingFields
    <3>2. ASSUME NEW o \in Request
          PROVE  LET n == [o EXCEPT !.known = all]
                 IN  /\ n \in Request /\ n.pc = o.pc /\ n.todo = o.todo /\ n.known = all
                     /\ SameRequest(n, o)
      BY <1>3 DEF Request, SameRequest
    <3>3. q.pc = "revoke" /\ q.todo = others /\ q \in Request /\ q.known = all
          /\ SameRequest(q, Revoking(r, others))
      BY <3>1, <3>2, Zenon
    <3> QED
      BY <3>1, <3>3 DEF SameRequest
  <2> HIDE DEF q
  <2>3. Knows(q, session)
    BY <1>2, <1>3, <2>2 DEF Knows, SameRequest
  <2>4. others \subseteq all
    BY DEF others
  <2>5. Fits(q, session, token)
    BY <1>1, <1>2, <1>3, <1>4, <2>2, <2>3, <2>4, RevokerFits DEF SameRequest
  <2> QED
    BY <1>1, <2>1, <2>2, <2>5, LocalStep DEF IInv, TypeOK
<1>5. CASE others = {} /\ req[r].kind = "change"
  <2>1. req' = [req EXCEPT ![r] = w]
    BY <1>5 DEF List, all, others
  <2>2. /\ w \in Request /\ SameRequest(w, req[r]) /\ w.pc = "issue" /\ w.todo = {}
        /\ w.known = all
    <3>1. Continue(r) = [Revoking(r, {}) EXCEPT !.pc = "issue"]
      BY <1>2, <1>5 DEF Continue
    <3>2. /\ Revoking(r, {}) \in Request /\ SameRequest(Revoking(r, {}), req[r])
          /\ Revoking(r, {}).todo = {}
      BY <1>2, RevokingFields
    <3>3. ASSUME NEW o \in Request
          PROVE  LET n == [[o EXCEPT !.pc = "issue"] EXCEPT !.known = all]
                 IN  /\ n \in Request /\ n.pc = "issue" /\ n.todo = o.todo /\ n.known = all
                     /\ SameRequest(n, o)
      BY <1>3, ZenonT(40) DEF Request, SameRequest
    <3>4. /\ w \in Request /\ SameRequest(w, Revoking(r, {})) /\ w.pc = "issue"
          /\ w.todo = {} /\ w.known = all
      BY <3>1, <3>2, <3>3, Zenon
    <3> QED
      BY <3>2, <3>4 DEF SameRequest
  <2> HIDE DEF w
  <2>3. Knows(w, session)
    BY <1>2, <1>3, <1>5, <2>2 DEF Knows, SameRequest
  <2>4. ActsFor(w, session, token)
    BY <1>1, <1>5, <2>2, Own DEF ActsFor, SameRequest, Creating
  <2>5. StoppedIfLate(w, session)
    BY <1>2, <2>2 DEF StoppedIfLate, SameRequest
  <2>6. Fits(w, session, token)
    BY <2>2, <2>3, <2>4, <2>5 DEF Fits, HasClaim, Revokes, Closes
  <2> QED
    BY <1>1, <2>1, <2>2, <2>6, LocalStep DEF IInv, TypeOK
<1>6. CASE others = {} /\ req[r].kind = "others"
  <2>1. Answer(r, "ok")
    BY <1>6 DEF List, all, others, Continue, Answer
  <2> QED
    BY <1>1, <2>1, EndStep
<1> QED
  BY <1>2, <1>4, <1>5, <1>6

LEMMA FindTokensInv == ASSUME IInv, NEW r \in Req, FindTokens(r) PROVE IInv'
<1> DEFINE T == {t \in TokensOf({req[r].target}) : ~token[t].revoked}
           q == [[req[r] EXCEPT !.snapshot = T] EXCEPT !.pc = "revokeTokens"]
<1>1. req[r].pc = "findTokens" /\ UNCHANGED <<staff, session, token>> /\ req[r] \in Request
  BY Own DEF FindTokens
<1>2. T \in SUBSET Token /\ \A t \in T : token[t].session = req[r].target
  BY DEF TokensOf
<1>3. req' = [req EXCEPT ![r] = q]
  BY DEF FindTokens, IInv, TypeOK
<1> HIDE DEF T
<1>4. ASSUME NEW o \in Request
      PROVE  LET n == [[o EXCEPT !.snapshot = T] EXCEPT !.pc = "revokeTokens"]
             IN  /\ n \in Request /\ SameRequest(n, o) /\ n.pc = "revokeTokens"
                 /\ n.todo = o.todo /\ n.target = o.target /\ n.snapshot = T
                 /\ n.known = o.known
  BY <1>2, ZenonT(40) DEF Request, SameRequest
<1>5. /\ q \in Request /\ SameRequest(q, req[r]) /\ q.pc = "revokeTokens"
      /\ q.todo = req[r].todo /\ q.target = req[r].target /\ q.snapshot = T
      /\ q.known = req[r].known
  BY <1>1, <1>4, Zenon
<1> HIDE DEF q
<1>6. ActsFor(q, session, token) /\ StoppedIfLate(q, session)
  BY <1>1, <1>5, Own DEF ActsFor, StoppedIfLate, SameRequest
<1>7. Revokes(q, session, token)
  BY <1>1, <1>2, <1>5, Own DEF Revokes, SameRequest
<1>8. Knows(q, session)
  BY <1>1, <1>5, Own DEF Knows, SameRequest
<1>9. Fits(q, session, token)
  BY <1>5, <1>6, <1>7, <1>8 DEF Fits, HasClaim, Closes
<1> QED
  BY <1>1, <1>3, <1>5, <1>9, LocalStep DEF IInv, TypeOK

-------------------------------------------------------------------------------
(* The statements of the transactions that end an account's sessions, up to   *)
(* their commit                                                               *)

LEMMA CloseStaffInv == ASSUME IInv, NEW r \in Req, CloseStaff(r) PROVE IInv'
<1> DEFINE q == [req[r] EXCEPT !.pc = "closeSessions"]
<1>1. /\ req[r].pc = "closeStaff" /\ UNCHANGED <<staff, session, token>>
      /\ Goto(r, "closeSessions") /\ req[r] \in Request
  BY Own DEF CloseStaff
<1>2. /\ q \in Request /\ SameRequest(q, req[r]) /\ q.pc = "closeSessions"
      /\ q.known = req[r].known
  BY <1>1 DEF Request, SameRequest
<1> HIDE DEF q
<1>3. req[r].kind \in Ending /\ req[r].known = {}
  BY <1>1, Own DEF ActsFor, Knows
<1>4. ActsFor(q, session, token)
  BY <1>1, <1>2, Own DEF ActsFor, SameRequest
<1>5. StoppedIfLate(q, session) /\ Knows(q, session)
  BY <1>2, <1>3 DEF StoppedIfLate, Knows, SameRequest, Ending, Calling
<1>6. Fits(q, session, token)
  BY <1>2, <1>4, <1>5 DEF Fits, HasClaim, Revokes, Closes
<1> QED
  BY <1>1, <1>2, <1>6, GotoStep DEF q

\* A request in a transaction of this kind.
LEMMA CloserFits ==
  ASSUME IInv, NEW r \in Req, req[r].pc \in {"closeSessions", "closeTokens"},
         NEW q \in Request, SameRequest(q, req[r]), q.pc \in {"closeTokens", "closing"},
         q.known = req[r].known, Closes(q, session, token)
  PROVE  Fits(q, session, token)
<1>1. req[r].kind \in Ending /\ req[r].known = {}
  BY Own DEF ActsFor, Knows
<1>2. ActsFor(q, session, token)
  BY Own DEF ActsFor, SameRequest
<1>3. StoppedIfLate(q, session) /\ Knows(q, session)
  BY <1>1 DEF StoppedIfLate, Knows, SameRequest, Ending, Calling
<1> QED
  BY <1>2, <1>3 DEF Fits, HasClaim, Revokes

LEMMA LockSessionsInv ==
  ASSUME IInv, NEW r \in Req, CloseSessions(r), req[r].kind # "resetMfa"
  PROVE  IInv'
<1> DEFINE S == OpenSessions(req[r].staff)
           q == [[req[r] EXCEPT !.todo = S] EXCEPT !.pc = "closeTokens"]
<1>1. /\ req[r].pc = "closeSessions" /\ UNCHANGED <<staff, session, token>>
      /\ req[r] \in Request /\ req[r].staff # None
  BY Own, Names DEF CloseSessions, ActsFor
<1>2. /\ S \in SUBSET Session
      /\ \A s \in S : session[s].owner # None
      /\ \A s \in Session : session[s].owner = req[r].staff /\ ~Over(session, s) => s \in S
  BY <1>1 DEF OpenSessions, SessionsOf, Live, Exists, Over
<1>3. req' = [req EXCEPT ![r] = q]
  BY DEF CloseSessions, IInv, TypeOK
<1> HIDE DEF S
<1>4. ASSUME NEW o \in Request
      PROVE  LET n == [[o EXCEPT !.todo = S] EXCEPT !.pc = "closeTokens"]
             IN  /\ n \in Request /\ SameRequest(n, o) /\ n.pc = "closeTokens"
                 /\ n.todo = S /\ n.known = o.known
  BY <1>2, ZenonT(40) DEF Request, SameRequest
<1>5. /\ q \in Request /\ SameRequest(q, req[r]) /\ q.pc = "closeTokens" /\ q.todo = S
      /\ q.known = req[r].known
  BY <1>1, <1>4, Zenon
<1> HIDE DEF q
<1>6. Closes(q, session, token)
  BY <1>2, <1>5 DEF Closes, SameRequest
<1>7. Fits(q, session, token)
  BY <1>1, <1>5, <1>6, CloserFits
<1> QED
  BY <1>1, <1>3, <1>5, <1>7, LocalStep DEF IInv, TypeOK

LEMMA CloseTokensInv == ASSUME IInv, NEW r \in Req, CloseTokens(r) PROVE IInv'
<1> DEFINE T == {t \in TokensOf(SessionsOf(req[r].staff)) : ~token[t].revoked}
           q == [[req[r] EXCEPT !.snapshot = T] EXCEPT !.pc = "closing"]
<1>1. /\ req[r].pc = "closeTokens" /\ UNCHANGED <<staff, session, token>>
      /\ req[r] \in Request
  BY Own DEF CloseTokens
<1>2. T \in SUBSET Token
  BY DEF TokensOf
<1>3. \A t \in T : /\ token[t].session \in Session
                   /\ token[t].session \in req[r].todo \/ Over(session, token[t].session)
  BY <1>1, Own DEF TokensOf, SessionsOf, Closes
<1>4. req' = [req EXCEPT ![r] = q]
  BY DEF CloseTokens, IInv, TypeOK
<1> HIDE DEF T
<1>5. ASSUME NEW o \in Request
      PROVE  LET n == [[o EXCEPT !.snapshot = T] EXCEPT !.pc = "closing"]
             IN  /\ n \in Request /\ SameRequest(n, o) /\ n.pc = "closing"
                 /\ n.todo = o.todo /\ n.snapshot = T /\ n.known = o.known
  BY <1>2, ZenonT(40) DEF Request, SameRequest
<1>6. /\ q \in Request /\ SameRequest(q, req[r]) /\ q.pc = "closing" /\ q.todo = req[r].todo
      /\ q.snapshot = T /\ q.known = req[r].known
  BY <1>1, <1>5, Zenon
<1> HIDE DEF q
<1>7. Closes(q, session, token)
  BY <1>1, <1>3, <1>6, Own DEF Closes, SameRequest
<1>8. Fits(q, session, token)
  BY <1>1, <1>6, <1>7, CloserFits
<1> QED
  BY <1>1, <1>4, <1>6, <1>8, LocalStep DEF IInv, TypeOK

LEMMA EnableInv == ASSUME IInv, NEW r \in Req, Enable(r) PROVE IInv'
<1>1. /\ Idle("ok") \in Request /\ Fits(Idle("ok"), session, token)
      /\ Idle("ok").pc # "rotate"
  BY AtRest
<1>2. staff' \in [Staff -> [active : BOOLEAN, deleted : BOOLEAN]]
  BY DEF Enable, IInv, TypeOK
<1>3. UNCHANGED <<session, token>> /\ req' = [req EXCEPT ![r] = Idle("ok")]
  BY DEF Enable, Answer
<1> QED
  BY <1>1, <1>2, <1>3, LocalStep

LEMMA FailInv ==
  ASSUME IInv, NEW q \in Req, NEW r \in Req, Stop(r) \/ BreakDeadlock(q, r)
  PROVE  IInv'
<1>1. UNCHANGED <<staff, session, token>>
  BY DEF Stop, BreakDeadlock
<1>2. PICK v \in Req : Answer(v, "failed")
  BY DEF Stop, BreakDeadlock
<1> QED
  BY <1>1, <1>2, EndStep

-------------------------------------------------------------------------------
(* Steps that revoke: sessions S and tokens T become revoked, and nothing     *)
(* else changes in the two tables                                             *)

Revocation(S, T) ==
  /\ session' \in [Session -> [owner : Staff \cup {None}, revoked : BOOLEAN, lapsed : BOOLEAN,
                               aged : BOOLEAN, gone : BOOLEAN]]
  /\ token' \in [Token -> [session : Session \cup {None}, consumed : BOOLEAN,
                           revoked : BOOLEAN]]
  /\ \A s \in Session : /\ session'[s].owner = session[s].owner
                        /\ session'[s].gone = session[s].gone
                        /\ session'[s].revoked <=> session[s].revoked \/ s \in S
  /\ \A t \in Token : /\ token'[t].session = token[t].session
                      /\ token'[t].consumed = token[t].consumed
                      /\ token'[t].revoked <=> token[t].revoked \/ t \in T

\* Tokens are only revoked when their session is over, by then at the latest, and
\* no rotation has claimed them.
LEMMA RevocationKeeps ==
  ASSUME IInv, NEW S \in SUBSET Session, NEW T \in SUBSET Token, Revocation(S, T),
         \A s \in S : session[s].owner # None,
         \A t \in T : /\ token[t].session \in Session
                      /\ token[t].session \in S \/ Over(session, token[t].session)
                      /\ ~TokenLocked(t)
  PROVE  /\ RowsFit'
         /\ \A x \in Req : Kept(req[x], session, token, session', token')
<1> USE Names
<1>1. /\ \A t \in Token :
           /\ token'[t].session = None => ~token'[t].consumed /\ ~token'[t].revoked
           /\ token'[t].session # None => session'[token'[t].session].owner # None
      /\ \A s \in Session :
           session'[s].owner = None => ~session'[s].revoked /\ ~session'[s].gone
  BY DEF IInv, TypeOK, RowsFit, Revocation
<1>2. ASSUME NEW s \in Session, Live(s)'
      PROVE  \E t \in Token : \A u \in Token :
               (Usable(u)' /\ token'[u].session = s) <=> (u = t)
  <2>1. Live(s) /\ s \notin S /\ ~Over(session, s)
    BY <1>2 DEF Live, Exists, Revocation, Over
  <2>2. PICK t \in Token : \A u \in Token : (Usable(u) /\ token[u].session = s) <=> (u = t)
    BY <2>1 DEF IInv, RowsFit, OneUsableToken
  <2>3. \A u \in Token : token[u].session = s => u \notin T
    BY <2>1
  <2>4. \A u \in Token : token[u].session = s => (Usable(u)' <=> Usable(u))
    BY <2>3 DEF Usable, Revocation, IInv, TypeOK
  <2> QED
    BY <2>2, <2>4 DEF Revocation
<1>3. RowsFit'
  BY <1>1, <1>2 DEF RowsFit, OneUsableToken
<1>4. ASSUME NEW x \in Req PROVE Kept(req[x], session, token, session', token')
  <2>1. \A t \in Token : req[x].pc = "rotate" /\ t = req[x].token => t \notin T
    BY DEF TokenLocked, HoldsToken
  <2> QED
    BY <2>1 DEF Kept, Revocation, Over, IInv, TypeOK
<1> QED
  BY <1>3, <1>4

LEMMA RevokeSessionInv ==
  ASSUME IInv, NEW r \in Req, NEW s \in Session, RevokeSession(r, s)
  PROVE  IInv'
<1> DEFINE q == [[req[r] EXCEPT !.target = s] EXCEPT !.pc = "findTokens"]
           S == IF Exists(s) THEN {s} ELSE {}
<1>1. /\ req[r].pc = "revoke" /\ s \in req[r].todo /\ UNCHANGED <<staff, token>>
      /\ session' = [session EXCEPT ![s].revoked = @ \/ Exists(s)]
      /\ req[r] \in Request /\ session[s].owner # None
  BY Own DEF RevokeSession, Revokes
<1>2. Revocation(S, {})
  <2>1. session' \in [Session -> [owner : Staff \cup {None}, revoked : BOOLEAN,
                                 lapsed : BOOLEAN, aged : BOOLEAN, gone : BOOLEAN]]
    BY <1>1, ZenonT(40) DEF IInv, TypeOK, Exists
  <2>2. \A x \in Session : /\ session'[x].owner = session[x].owner
                           /\ session'[x].gone = session[x].gone
                           /\ session'[x].revoked <=> session[x].revoked \/ x \in S
    BY <1>1, ZenonT(40) DEF IInv, TypeOK
  <2>3. token' = token /\ token \in [Token -> [session : Session \cup {None},
                                               consumed : BOOLEAN, revoked : BOOLEAN]]
    BY <1>1 DEF IInv, TypeOK
  <2> HIDE DEF S
  <2> QED
    BY <2>1, <2>2, <2>3 DEF Revocation
<1>3. RowsFit' /\ \A x \in Req : Kept(req[x], session, token, session', token')
  <2>1. S \in SUBSET Session /\ \A x \in S : session[x].owner # None
    BY <1>1
  <2> HIDE DEF S
  <2> QED
    BY <1>2, <2>1, RevocationKeeps
<1>4. Over(session', s) /\ (~session[s].gone => session'[s].revoked)
  BY <1>1, <1>2 DEF Revocation, Over, Exists
<1>5. req' = [req EXCEPT ![r] = q]
  BY DEF RevokeSession, IInv, TypeOK
<1>6. ASSUME NEW o \in Request
      PROVE  LET n == [[o EXCEPT !.target = s] EXCEPT !.pc = "findTokens"]
             IN  /\ n \in Request /\ SameRequest(n, o) /\ n.pc = "findTokens"
                 /\ n.todo = o.todo /\ n.target = s /\ n.known = o.known
  BY ZenonT(40) DEF Request, SameRequest
<1>7. /\ q \in Request /\ SameRequest(q, req[r]) /\ q.pc = "findTokens"
      /\ q.todo = req[r].todo /\ q.target = s /\ q.known = req[r].known
  BY <1>1, <1>6, Zenon
<1> HIDE DEF q, S
<1>8. Fits(req[r], session', token')
  <2>1. req[r] \in Request /\ Fits(req[r], session, token) /\ req[r].pc # "idle"
    BY <1>1 DEF IInv
  <2> QED
    BY <1>3, <2>1, FitsKept
<1>9. ActsFor(q, session', token') /\ StoppedIfLate(q, session')
  BY <1>1, <1>7, <1>8 DEF Fits, ActsFor, StoppedIfLate, SameRequest
<1>10. Revokes(q, session', token')
  BY <1>1, <1>4, <1>7, <1>8 DEF Fits, Revokes, SameRequest
<1>11. Knows(q, session')
  BY <1>1, <1>2, <1>4, <1>7, <1>8 DEF Fits, Knows, SameRequest, Revocation
<1>12. Fits(q, session', token')
  BY <1>7, <1>9, <1>10, <1>11 DEF Fits, HasClaim, Closes
<1>13. TypeOK
  BY DEF IInv
<1> QED
  BY <1>1, <1>2, <1>3, <1>5, <1>7, <1>12, <1>13, Step DEF TypeOK, Revocation

LEMMA RevokeTokensInv == ASSUME IInv, NEW r \in Req, RevokeTokens(r) PROVE IInv'
<1> DEFINE rest == req[r].todo \ {req[r].target}
           T == req[r].snapshot
<1>1. /\ req[r].pc = "revokeTokens" /\ UNCHANGED <<staff, session>>
      /\ \A t \in T : ~TokenLocked(t)
      /\ token' = Revoked(T)
      /\ req' = [req EXCEPT ![r] = IF rest = {} THEN Continue(r) ELSE Revoking(r, rest)]
      /\ req[r] \in Request
      /\ Revokes(req[r], session, token) /\ Knows(req[r], session)
  BY Own DEF RevokeTokens
<1>2. /\ req[r].target \in req[r].todo /\ req[r].todo \subseteq Session /\ T \in SUBSET Token
      /\ Over(session, req[r].target)
      /\ \A t \in T : token[t].session = req[r].target
  BY <1>1 DEF Revokes, Request
<1>3. Revocation({}, T)
  BY <1>1 DEF Revocation, Revoked, IInv, TypeOK
<1>4. RowsFit' /\ \A x \in Req : Kept(req[x], session, token, session', token')
  BY <1>1, <1>2, <1>3, RevocationKeeps
<1>5. Fits(req[r], session', token')
  BY <1>1, <1>4, FitsKept DEF IInv
<1>6. ASSUME NEW q \in Request, Fits(q, session', token'), req' = [req EXCEPT ![r] = q],
             q.pc # "rotate"
      PROVE  IInv'
  <2>1. TypeOK
    BY DEF IInv
  <2> QED
    BY <1>1, <1>3, <1>4, <1>6, <2>1, Step DEF TypeOK, Revocation
<1>7. CASE rest # {}
  <2> DEFINE q == Revoking(r, rest)
  <2>1. /\ q \in Request /\ SameRequest(q, req[r]) /\ q.pc = "revoke" /\ q.todo = rest
        /\ q.known = req[r].known
    BY <1>1, <1>2, RevokingFields
  <2>2. req' = [req EXCEPT ![r] = q]
    BY <1>1, <1>7
  <2> HIDE DEF q
  <2>3. ActsFor(q, session', token') /\ StoppedIfLate(q, session')
    BY <1>1, <1>5, <2>1 DEF Fits, ActsFor, StoppedIfLate, SameRequest
  <2>4. Revokes(q, session', token')
    BY <1>1, <1>2, <1>5, <1>7, <2>1 DEF Fits, Revokes, SameRequest
  <2>5. Knows(q, session')
    BY <1>1, <1>2, <1>5, <2>1 DEF Fits, Knows, SameRequest
  <2>6. Fits(q, session', token')
    BY <2>1, <2>3, <2>4, <2>5 DEF Fits, HasClaim, Closes
  <2> QED
    BY <1>6, <2>1, <2>2, <2>6
<1>8. CASE rest = {} /\ req[r].kind = "change" /\ req[r].token = None
  <2> DEFINE q == [Revoking(r, {}) EXCEPT !.pc = "issue"]
  <2>1. /\ Revoking(r, {}) \in Request /\ SameRequest(Revoking(r, {}), req[r])
        /\ Revoking(r, {}).todo = {} /\ Revoking(r, {}).known = req[r].known
    BY <1>1, RevokingFields
  <2>2. ASSUME NEW o \in Request
        PROVE  LET n == [o EXCEPT !.pc = "issue"]
               IN  /\ n \in Request /\ n.pc = "issue" /\ n.todo = o.todo
                   /\ n.known = o.known /\ SameRequest(n, o)
    BY DEF Request, SameRequest
  <2>3. /\ q \in Request /\ SameRequest(q, Revoking(r, {})) /\ q.pc = "issue"
        /\ q.todo = {} /\ q.known = req[r].known
    BY <2>1, <2>2, Zenon
  <2>4. req' = [req EXCEPT ![r] = q]
    BY <1>1, <1>8 DEF Continue
  <2>5. SameRequest(q, req[r])
    BY <2>1, <2>3 DEF SameRequest
  <2> HIDE DEF q
  <2>6. ActsFor(q, session', token') /\ StoppedIfLate(q, session')
    BY <1>1, <1>5, <1>8, <2>3, <2>5 DEF Fits, ActsFor, StoppedIfLate, SameRequest, Creating
  <2>7. Knows(q, session')
    BY <1>1, <1>2, <1>5, <1>8, <2>3, <2>5 DEF Fits, Knows, SameRequest
  <2>8. Fits(q, session', token')
    BY <2>3, <2>6, <2>7 DEF Fits, HasClaim, Revokes, Closes
  <2> QED
    BY <1>6, <2>3, <2>4, <2>8
<1>9. CASE rest = {} /\ ~(req[r].kind = "change" /\ req[r].token = None)
  <2>1. PICK answer \in {"replay", "ok"} : Continue(r) = Idle(answer)
    BY <1>9 DEF Continue
  <2>2. /\ Continue(r) \in Request /\ Fits(Continue(r), session', token')
        /\ Continue(r).pc # "rotate"
    BY <2>1, AtRest
  <2> QED
    BY <1>1, <1>6, <1>9, <2>2
<1> QED
  BY <1>7, <1>8, <1>9

\* resetMfa revokes the account's open sessions, and leaves their tokens.
LEMMA ResetMfaInv ==
  ASSUME IInv, NEW r \in Req, CloseSessions(r), req[r].kind = "resetMfa"
  PROVE  IInv'
<1> DEFINE S == OpenSessions(req[r].staff)
<1>1. /\ req[r].pc = "closeSessions" /\ UNCHANGED <<staff, token>> /\ req[r].staff # None
      /\ session' = Ended(S) /\ req' = [req EXCEPT ![r] = Idle("ok")]
  BY Own, Names DEF CloseSessions, ActsFor, Answer
<1>2. S \in SUBSET Session /\ \A s \in S : session[s].owner # None
  BY <1>1 DEF OpenSessions, SessionsOf
<1> HIDE DEF S
<1>3. Revocation(S, {})
  BY <1>1, ZenonT(40) DEF Revocation, Ended, IInv, TypeOK
<1>4. RowsFit' /\ \A x \in Req : Kept(req[x], session, token, session', token')
  BY <1>2, <1>3, RevocationKeeps
<1>5. /\ Idle("ok") \in Request /\ Fits(Idle("ok"), session', token')
      /\ Idle("ok").pc # "rotate"
  BY AtRest
<1>6. staff' \in [Staff -> [active : BOOLEAN, deleted : BOOLEAN]]
  BY <1>1 DEF IInv, TypeOK
<1> QED
  BY <1>1, <1>3, <1>4, <1>5, <1>6, Step DEF Revocation

\* What a transaction that ends sessions commits.
LEMMA CommitCloseFacts ==
  ASSUME IInv, NEW r \in Req, CommitClose(r)
  PROVE  /\ Revocation(req[r].todo, req[r].snapshot)
         /\ req[r].todo \in SUBSET Session /\ req[r].snapshot \in SUBSET Token
         /\ \A s \in req[r].todo : session[s].owner # None
         /\ \A t \in req[r].snapshot :
              /\ token[t].session \in Session
              /\ token[t].session \in req[r].todo \/ Over(session, token[t].session)
              /\ ~TokenLocked(t)
<1>1. /\ req[r].pc = "closing" /\ session' = Ended(req[r].todo)
      /\ token' = Revoked(req[r].snapshot)
      /\ \A t \in req[r].snapshot : ~TokenLocked(t)
  BY DEF CommitClose
<1>2. Closes(req[r], session, token) /\ req[r] \in Request
  BY <1>1, Own
<1>3. Revocation(req[r].todo, req[r].snapshot)
  BY <1>1, ZenonT(40) DEF Revocation, Ended, Revoked, IInv, TypeOK
<1> QED
  BY <1>1, <1>2, <1>3 DEF Closes, Request

LEMMA CommitCloseInv == ASSUME IInv, NEW r \in Req, CommitClose(r) PROVE IInv'
<1>1. /\ Revocation(req[r].todo, req[r].snapshot)
      /\ RowsFit' /\ \A x \in Req : Kept(req[x], session, token, session', token')
  BY CommitCloseFacts, RevocationKeeps
<1>2. req' = [req EXCEPT ![r] = Idle("ok")]
  BY DEF CommitClose, Answer
<1>3. /\ Idle("ok") \in Request /\ Fits(Idle("ok"), session', token')
      /\ Idle("ok").pc # "rotate"
  BY AtRest
<1>4. staff' \in [Staff -> [active : BOOLEAN, deleted : BOOLEAN]]
  BY DEF CommitClose, IInv, TypeOK
<1> QED
  BY <1>1, <1>2, <1>3, <1>4, Step DEF Revocation

-------------------------------------------------------------------------------
(* Steps that store rows *)

\* createSession.
LEMMA IssueInv ==
  ASSUME IInv, NEW r \in Req, NEW s \in Session, NEW t \in Token, Issue(r, s, t)
  PROVE  IInv'
<1> USE Names
<1> DEFINE p == req[r].staff
           q == [Revoking(r, {req[r].session}) EXCEPT !.token = t]
<1>1. /\ req[r].pc = "issue" /\ session[s].owner = None /\ token[t].session = None
      /\ ~StaffLocked(p) /\ UNCHANGED staff
      /\ session' = [session EXCEPT ![s].owner = p]
      /\ token' = [token EXCEPT ![t].session = s]
  BY DEF Issue, Unopened, Unused
<1>2. /\ req[r] \in Request /\ req[r].kind \in Creating /\ p \in Staff
      /\ ActsFor(req[r], session, token) /\ StoppedIfLate(req[r], session)
      /\ Knows(req[r], session)
  BY <1>1, Own DEF ActsFor
<1>3. /\ session' \in [Session -> [owner : Staff \cup {None}, revoked : BOOLEAN,
                                   lapsed : BOOLEAN, aged : BOOLEAN, gone : BOOLEAN]]
      /\ token' \in [Token -> [session : Session \cup {None}, consumed : BOOLEAN,
                               revoked : BOOLEAN]]
      /\ \A x \in Session \ {s} : session'[x] = session[x]
      /\ session'[s].owner = p /\ ~session'[s].revoked /\ ~session'[s].gone
      /\ \A u \in Token \ {t} : token'[u] = token[u]
      /\ token'[t].session = s /\ ~token'[t].consumed /\ ~token'[t].revoked
  BY <1>1, <1>2 DEF IInv, TypeOK, RowsFit
<1>4. \A u \in Token : token[u].session # s
  BY <1>1 DEF IInv, RowsFit
<1>5. RowsFit'
  <2>1. ASSUME NEW x \in Session, Live(x)'
        PROVE  \E u \in Token : \A v \in Token :
                 (Usable(v)' /\ token'[v].session = x) <=> (v = u)
    <3>1. CASE x = s
      <4>1. \A v \in Token : (Usable(v)' /\ token'[v].session = s) <=> (v = t)
        BY <1>3, <1>4 DEF Usable
      <4> QED
        BY <3>1, <4>1
    <3>2. CASE x # s
      <4>1. Live(x)
        BY <1>3, <2>1, <3>2 DEF Live, Exists
      <4>2. PICK u \in Token : \A v \in Token :
              (Usable(v) /\ token[v].session = x) <=> (v = u)
        BY <4>1 DEF IInv, RowsFit, OneUsableToken
      <4>3. \A v \in Token : (Usable(v)' /\ token'[v].session = x) <=>
                             (Usable(v) /\ token[v].session = x)
        BY <1>1, <1>3, <3>2 DEF Usable
      <4> QED
        BY <4>2, <4>3
    <3> QED
      BY <3>1, <3>2
  <2>2. \A u \in Token :
          /\ token'[u].session = None => ~token'[u].consumed /\ ~token'[u].revoked
          /\ token'[u].session # None => session'[token'[u].session].owner # None
    <3>1. \A y \in Session : session[y].owner # None \/ y = s => session'[y].owner # None
      BY <1>2, <1>3
    <3>2. \A u \in Token : token'[u].session # None =>
            token'[u].session = s \/ (token[u].session = token'[u].session /\ u # t)
      BY <1>3
    <3>3. \A u \in Token : token[u].session # None =>
            token[u].session \in Session /\ session[token[u].session].owner # None
      BY DEF IInv, TypeOK, RowsFit
    <3>4. \A u \in Token : token'[u].session = None => ~token'[u].consumed /\ ~token'[u].revoked
      BY <1>3 DEF IInv, RowsFit
    <3> QED
      BY <3>1, <3>2, <3>3, <3>4
  <2>3. \A x \in Session : session'[x].owner = None => ~session'[x].revoked /\ ~session'[x].gone
    BY <1>2, <1>3 DEF IInv, RowsFit
  <2> QED
    BY <2>1, <2>2, <2>3 DEF RowsFit, OneUsableToken
<1>6. ASSUME NEW x \in Req, req[x].pc # "idle"
      PROVE  Kept(req[x], session, token, session', token')
  <2>1. /\ Over(session, s) <=> FALSE
        /\ \A y \in Session \ {s} : Over(session', y) <=> Over(session, y)
    BY <1>1, <1>3 DEF Over, IInv, RowsFit
  <2>2. req[x].pc \in {"closeTokens", "closing"} => req[x].staff # p
    BY <1>1 DEF StaffLocked, HoldsStaff
  <2>4. \A u \in Token : req[x].pc = "rotate" /\ u = req[x].token => u # t
    <3>1. req[x].pc = "rotate" => token[req[x].token].session \in Session
      BY Own DEF ActsFor, Calling
    <3> QED
      BY <1>1, <3>1
  <2> QED
    BY <1>1, <1>3, <2>1, <2>2, <2>4 DEF Kept, IInv, RowsFit
<1>7. CASE req[r].kind # "change"
  <2>1. req' = [req EXCEPT ![r] = Idle("ok")]
    BY <1>7 DEF Issue, Answer
  <2>2. /\ Idle("ok") \in Request /\ Fits(Idle("ok"), session', token')
        /\ Idle("ok").pc # "rotate"
    BY AtRest
  <2>3. staff' \in [Staff -> [active : BOOLEAN, deleted : BOOLEAN]]
    BY <1>1 DEF IInv, TypeOK
  <2> QED
    BY <1>3, <1>5, <1>6, <2>1, <2>2, <2>3, Step
<1>8. CASE req[r].kind = "change"
  <2>1. req' = [req EXCEPT ![r] = q]
    BY <1>8 DEF Issue
  <2>2. req[r].session \in Session /\ session[req[r].session].owner = p
    BY <1>2, <1>8 DEF ActsFor, Calling
  <2>3. /\ Revoking(r, {req[r].session}) \in Request
        /\ SameRequest(Revoking(r, {req[r].session}), req[r])
        /\ Revoking(r, {req[r].session}).todo = {req[r].session}
        /\ Revoking(r, {req[r].session}).pc = "revoke"
        /\ Revoking(r, {req[r].session}).known = req[r].known
    BY <1>2, <2>2, RevokingFields
  <2>4. ASSUME NEW o \in Request
        PROVE  LET n == [o EXCEPT !.token = t]
               IN  /\ n \in Request /\ n.pc = o.pc /\ n.todo = o.todo /\ n.known = o.known
                   /\ n.kind = o.kind /\ n.staff = o.staff /\ n.session = o.session
                   /\ n.late = o.late /\ n.token = t
    BY DEF Request
  <2>5. /\ q \in Request /\ q.pc = "revoke" /\ q.todo = {req[r].session}
        /\ q.known = req[r].known /\ q.kind = "change" /\ q.staff = p
        /\ q.session = req[r].session /\ q.late = req[r].late /\ q.token = t
    <3>1. LET n == q IN
          /\ n \in Request /\ n.pc = Revoking(r, {req[r].session}).pc
          /\ n.todo = Revoking(r, {req[r].session}).todo
          /\ n.known = Revoking(r, {req[r].session}).known
          /\ n.kind = Revoking(r, {req[r].session}).kind
          /\ n.staff = Revoking(r, {req[r].session}).staff
          /\ n.session = Revoking(r, {req[r].session}).session
          /\ n.late = Revoking(r, {req[r].session}).late /\ n.token = t
      BY <2>3, <2>4, Zenon
    <3> QED
      BY <1>8, <2>3, <3>1 DEF SameRequest
  <2> HIDE DEF q
  <2>6. Fits(req[r], session', token')
    <3>1. Fits(req[r], session, token) /\ req[r].pc # "idle"
      BY <1>1 DEF IInv
    <3> QED
      BY <1>2, <1>6, <3>1, FitsKept
  <2>7. ActsFor(q, session', token') /\ StoppedIfLate(q, session')
    BY <1>1, <1>8, <2>5, <2>6 DEF Fits, ActsFor, StoppedIfLate, Calling, Creating, Ending
  <2>8. Revokes(q, session', token')
    BY <1>2, <1>3, <2>2, <2>5 DEF Revokes
  <2>9. Knows(q, session')
    BY <1>1, <1>8, <2>5, <2>6 DEF Fits, Knows
  <2>10. Fits(q, session', token')
    BY <2>5, <2>7, <2>8, <2>9 DEF Fits, HasClaim, Closes
  <2>11. staff' \in [Staff -> [active : BOOLEAN, deleted : BOOLEAN]] /\ q.pc # "rotate"
    BY <1>1, <2>5 DEF IInv, TypeOK
  <2> QED
    BY <1>3, <1>5, <1>6, <2>1, <2>5, <2>10, <2>11, Step
<1> QED
  BY <1>7, <1>8

\* A rotation commits: the claimed token was the one usable token of its session, and
\* the next one takes its place.
LEMMA RotateFacts ==
  ASSUME IInv, NEW r \in Req, NEW t \in Token, Rotate(r, t)
  PROVE  LET s == req[r].session
             c == req[r].token
         IN  /\ req[r].pc = "rotate" /\ UNCHANGED staff
             /\ s \in Session /\ session[s].owner # None /\ ~session[s].gone
             /\ c \in Token /\ c # t /\ token[c].session = s /\ Usable(c)
             /\ token[t].session = None
             /\ session' \in [Session -> [owner : Staff \cup {None}, revoked : BOOLEAN,
                                          lapsed : BOOLEAN, aged : BOOLEAN, gone : BOOLEAN]]
             /\ token' \in [Token -> [session : Session \cup {None}, consumed : BOOLEAN,
                                      revoked : BOOLEAN]]
             /\ \A x \in Session : /\ session'[x].owner = session[x].owner
                                   /\ session'[x].revoked = session[x].revoked
                                   /\ session'[x].gone = session[x].gone
             /\ \A u \in Token \ {t, c} : token'[u] = token[u]
             /\ token'[t].session = s /\ ~token'[t].consumed /\ ~token'[t].revoked
             /\ token'[c].session = s /\ token'[c].consumed
             /\ token'[c].revoked = token[c].revoked
<1> USE Names
<1> DEFINE s == req[r].session
           c == req[r].token
<1>1. /\ req[r].pc = "rotate" /\ UNCHANGED staff /\ token[t].session = None
      /\ session' = [session EXCEPT ![s].lapsed = @ /\ session[s].aged]
      /\ token' = [token EXCEPT ![c].consumed = TRUE, ![t].session = s]
  BY DEF Rotate, Unused
<1>2. /\ s \in Session /\ session[s].owner # None /\ ~session[s].gone
      /\ c \in Token /\ token[c].session = s /\ Usable(c)
  BY <1>1, Own DEF ActsFor, StoppedIfLate, HasClaim, Usable
<1>3. c # t
  BY <1>1, <1>2
<1>4. session' \in [Session -> [owner : Staff \cup {None}, revoked : BOOLEAN,
                                lapsed : BOOLEAN, aged : BOOLEAN, gone : BOOLEAN]]
  BY <1>1, <1>2, SMTT(30) DEF IInv, TypeOK
<1>5. \A x \in Session : /\ session'[x].owner = session[x].owner
                         /\ session'[x].revoked = session[x].revoked
                         /\ session'[x].gone = session[x].gone
  BY <1>1, <1>2 DEF IInv, TypeOK
<1>6. token' \in [Token -> [session : Session \cup {None}, consumed : BOOLEAN,
                            revoked : BOOLEAN]]
  <2> DEFINE Rows == [Token -> [session : Session \cup {None}, consumed : BOOLEAN,
                                revoked : BOOLEAN]]
             claimed == [token EXCEPT ![c].consumed = TRUE]
  <2>1. token \in Rows
    BY DEF IInv, TypeOK
  <2>2. claimed \in Rows
    BY <1>2, <2>1
  <2>3. token' = [claimed EXCEPT ![t].session = s]
    BY <1>1
  <2> HIDE DEF claimed
  <2> QED
    BY <1>2, <2>2, <2>3
<1>7. ~token[t].consumed /\ ~token[t].revoked
  BY <1>1 DEF IInv, RowsFit
<1>8. /\ \A u \in Token \ {t, c} : token'[u] = token[u]
      /\ token'[t].session = s /\ ~token'[t].consumed /\ ~token'[t].revoked
      /\ token'[c].session = s /\ token'[c].consumed
      /\ token'[c].revoked = token[c].revoked
  BY <1>1, <1>2, <1>3, <1>7 DEF IInv, TypeOK
<1> QED
  BY <1>1, <1>2, <1>3, <1>4, <1>5, <1>6, <1>8

LEMMA RotateInv ==
  ASSUME IInv, NEW r \in Req, NEW t \in Token, Rotate(r, t)
  PROVE  IInv'
<1> USE Names
<1> DEFINE s == req[r].session
           c == req[r].token
<1>1. /\ req[r].pc = "rotate" /\ UNCHANGED staff
      /\ s \in Session /\ session[s].owner # None
      /\ c \in Token /\ c # t /\ token[c].session = s /\ Usable(c)
      /\ token[t].session = None
      /\ \A x \in Session : /\ session'[x].owner = session[x].owner
                            /\ session'[x].revoked = session[x].revoked
                            /\ session'[x].gone = session[x].gone
      /\ \A u \in Token \ {t, c} : token'[u] = token[u]
      /\ token'[t].session = s /\ ~token'[t].consumed /\ ~token'[t].revoked
      /\ token'[c].session = s /\ token'[c].consumed
  BY RotateFacts
<1>2. /\ session' \in [Session -> [owner : Staff \cup {None}, revoked : BOOLEAN,
                                   lapsed : BOOLEAN, aged : BOOLEAN, gone : BOOLEAN]]
      /\ token' \in [Token -> [session : Session \cup {None}, consumed : BOOLEAN,
                               revoked : BOOLEAN]]
  BY RotateFacts
<1>3. RowsFit'
  <2>1. ASSUME NEW x \in Session, Live(x)'
        PROVE  \E u \in Token : \A v \in Token :
                 (Usable(v)' /\ token'[v].session = x) <=> (v = u)
    <3>1. Live(x)
      BY <1>1, <2>1 DEF Live, Exists
    <3>2. PICK u \in Token : \A v \in Token :
            (Usable(v) /\ token[v].session = x) <=> (v = u)
      BY <3>1 DEF IInv, RowsFit, OneUsableToken
    <3>3. CASE x = s
      <4>1. u = c
        BY <1>1, <3>2, <3>3
      <4>2. \A v \in Token : (Usable(v)' /\ token'[v].session = s) <=> (v = t)
        BY <1>1, <3>2, <3>3, <4>1 DEF Usable
      <4> QED
        BY <3>3, <4>2
    <3>4. CASE x # s
      <4>1. \A v \in Token : (Usable(v)' /\ token'[v].session = x) <=>
                             (Usable(v) /\ token[v].session = x)
        BY <1>1, <3>4 DEF Usable
      <4> QED
        BY <3>2, <4>1
    <3> QED
      BY <3>3, <3>4
  <2>2. \A u \in Token :
          /\ token'[u].session = None => ~token'[u].consumed /\ ~token'[u].revoked
          /\ token'[u].session # None => session'[token'[u].session].owner # None
    <3>1. \A u \in Token \ {t, c} :
            /\ token[u].session = None => ~token[u].consumed /\ ~token[u].revoked
            /\ token[u].session # None =>
                 token[u].session \in Session /\ session[token[u].session].owner # None
      BY DEF IInv, TypeOK, RowsFit
    <3> QED
      BY <1>1, <3>1
  <2>3. \A x \in Session : session'[x].owner = None => ~session'[x].revoked /\ ~session'[x].gone
    BY <1>1 DEF IInv, RowsFit
  <2> QED
    BY <2>1, <2>2, <2>3 DEF RowsFit, OneUsableToken
<1>4. ASSUME NEW x \in Req, x # r, req[x].pc # "idle"
      PROVE  Kept(req[x], session, token, session', token')
  <2>1. req[x].pc = "rotate" => req[x].token # c
    BY <1>1, <1>4 DEF IInv, ClaimsApart, HoldsToken
  <2>2. req[x].pc = "rotate" => req[x].token # t
    BY <1>1, Own DEF ActsFor, Calling, StoppedIfLate
  <2>3. \A y \in Session : Over(session', y) <=> Over(session, y)
    BY <1>1 DEF Over
  <2> QED
    BY <1>1, <2>1, <2>2, <2>3 DEF Kept
<1>5. req' = [req EXCEPT ![r] = Idle("ok")]
  BY DEF Rotate, Answer
<1>6. /\ Idle("ok") \in Request /\ Fits(Idle("ok"), session', token')
      /\ Idle("ok").pc # "rotate"
  BY AtRest
<1>7. staff' \in [Staff -> [active : BOOLEAN, deleted : BOOLEAN]]
  BY <1>1 DEF IInv, TypeOK
<1> QED
  BY <1>2, <1>3, <1>4, <1>5, <1>6, <1>7, Step

-------------------------------------------------------------------------------
(* Steps of nobody's: lifetimes end and rows are pruned *)

LEMMA RowStep ==
  ASSUME IInv, UNCHANGED <<staff, req>>,
         session' \in [Session -> [owner : Staff \cup {None}, revoked : BOOLEAN,
                                   lapsed : BOOLEAN, aged : BOOLEAN, gone : BOOLEAN]],
         token' \in [Token -> [session : Session \cup {None}, consumed : BOOLEAN,
                               revoked : BOOLEAN]],
         RowsFit',
         \A x \in Req : req[x].pc # "idle" => Kept(req[x], session, token, session', token')
  PROVE  IInv'
<1>1. TypeOK' /\ ClaimsApart'
  BY DEF IInv, TypeOK, ClaimsApart, HoldsToken
<1>2. ASSUME NEW x \in Req PROVE Fits(req'[x], session', token')
  <2>1. req[x] \in Request /\ Fits(req[x], session, token)
    BY DEF IInv, TypeOK
  <2>2. CASE req[x].pc = "idle"
    BY <2>2 DEF Fits
  <2>3. CASE req[x].pc # "idle"
    BY <2>1, <2>3, FitsKept
  <2> QED
    BY <2>2, <2>3
<1> QED
  BY <1>1, <1>2 DEF IInv

LEMMA LapseFacts ==
  ASSUME IInv, NEW s \in Session, Lapse(s)
  PROVE  /\ \A x \in Session : /\ session'[x].owner = session[x].owner
                               /\ session'[x].gone = session[x].gone
                               /\ session'[x].revoked = session[x].revoked
         /\ session' \in [Session -> [owner : Staff \cup {None}, revoked : BOOLEAN,
                                      lapsed : BOOLEAN, aged : BOOLEAN, gone : BOOLEAN]]
         /\ UNCHANGED <<staff, token, req>>
<1>1. PICK aged \in BOOLEAN :
        session' = [session EXCEPT ![s].lapsed = TRUE, ![s].aged = aged]
  <2>1. CASE session[s].lapsed
    BY <2>1 DEF Lapse
  <2>2. CASE ~session[s].lapsed
    BY <2>2 DEF Lapse
  <2> QED
    BY <2>1, <2>2
<1>2. UNCHANGED <<staff, token, req>>
  BY DEF Lapse
<1>3. \A x \in Session : /\ session'[x].owner = session[x].owner
                         /\ session'[x].gone = session[x].gone
                         /\ session'[x].revoked = session[x].revoked
  BY <1>1 DEF IInv, TypeOK
<1>4. session' \in [Session -> [owner : Staff \cup {None}, revoked : BOOLEAN,
                                lapsed : BOOLEAN, aged : BOOLEAN, gone : BOOLEAN]]
  BY <1>1, ZenonT(40) DEF IInv, TypeOK
<1> QED
  BY <1>2, <1>3, <1>4

LEMMA LapseInv == ASSUME IInv, NEW s \in Session, Lapse(s) PROVE IInv'
<1>1. Revocation({}, {})
  BY LapseFacts DEF Revocation, IInv, TypeOK
<1>2. RowsFit' /\ \A x \in Req : Kept(req[x], session, token, session', token')
  BY <1>1, RevocationKeeps
<1> QED
  BY <1>1, <1>2, LapseFacts, RowStep DEF Revocation

LEMMA PruneFacts ==
  ASSUME IInv, NEW s \in Session, Prune(s)
  PROVE  /\ session[s].owner # None /\ UNCHANGED <<staff, req>>
         /\ \A r \in Req : req[r].session # s /\ s \notin req[r].todo \cup req[r].known
         /\ session' \in [Session -> [owner : Staff \cup {None}, revoked : BOOLEAN,
                                      lapsed : BOOLEAN, aged : BOOLEAN, gone : BOOLEAN]]
         /\ token' \in [Token -> [session : Session \cup {None}, consumed : BOOLEAN,
                                  revoked : BOOLEAN]]
         /\ \A x \in Session \ {s} : session'[x] = session[x]
         /\ session'[s].owner = session[s].owner /\ session'[s].gone
         /\ \A u \in Token : token[u].session # s => token'[u] = token[u]
         /\ \A u \in Token : token'[u].session = token[u].session
<1>1. /\ session' = [session EXCEPT ![s] =
                      [AbsentSession EXCEPT !.owner = session[s].owner, !.gone = TRUE]]
      /\ token' = [t \in Token |-> IF token[t].session = s
                                   THEN [AbsentToken EXCEPT !.session = s]
                                   ELSE token[t]]
  BY DEF Prune
<1>2. /\ session[s].owner # None /\ UNCHANGED <<staff, req>>
      /\ \A r \in Req : req[r].session # s /\ s \notin req[r].todo \cup req[r].known
  BY DEF Prune, Exists
<1> QED
  BY <1>1, <1>2 DEF IInv, TypeOK, AbsentSession, AbsentToken

LEMMA PruneInv == ASSUME IInv, NEW s \in Session, Prune(s) PROVE IInv'
<1> USE Names
<1>1. RowsFit'
  <2>1. ASSUME NEW x \in Session, Live(x)'
        PROVE  \E u \in Token : \A v \in Token :
                 (Usable(v)' /\ token'[v].session = x) <=> (v = u)
    <3>1. x # s /\ Live(x)
      BY <2>1, PruneFacts DEF Live, Exists
    <3>2. PICK u \in Token : \A v \in Token :
            (Usable(v) /\ token[v].session = x) <=> (v = u)
      BY <3>1 DEF IInv, RowsFit, OneUsableToken
    <3>3. \A v \in Token : (Usable(v)' /\ token'[v].session = x) <=>
                           (Usable(v) /\ token[v].session = x)
      BY <3>1, PruneFacts DEF Usable
    <3> QED
      BY <3>2, <3>3
  <2>2. \A u \in Token :
          /\ token'[u].session = None => ~token'[u].consumed /\ ~token'[u].revoked
          /\ token'[u].session # None => session'[token'[u].session].owner # None
    BY PruneFacts DEF IInv, TypeOK, RowsFit
  <2>3. \A x \in Session : session'[x].owner = None => ~session'[x].revoked /\ ~session'[x].gone
    BY PruneFacts DEF IInv, RowsFit
  <2> QED
    BY <2>1, <2>2, <2>3 DEF RowsFit, OneUsableToken
<1>2. ASSUME NEW x \in Req, req[x].pc # "idle"
      PROVE  Kept(req[x], session, token, session', token')
  <2>1. req[x].pc = "rotate" => token[req[x].token].session = req[x].session
    BY <1>2, Own DEF ActsFor
  <2>2. \A y \in Session : Over(session, y) => Over(session', y)
    BY PruneFacts DEF Over
  <2>3. Over(session', s)
    BY PruneFacts DEF Over
  <2> QED
    BY <2>1, <2>2, <2>3, PruneFacts DEF Kept, Over
<1> QED
  BY <1>1, <1>2, PruneFacts, RowStep

-------------------------------------------------------------------------------
LEMMA InitInv == Init => IInv
<1> SUFFICES ASSUME Init PROVE IInv
  OBVIOUS
<1>1. TypeOK
  <2>1. req \in [Req -> Request]
    BY AtRest DEF Init
  <2> QED
    BY <2>1 DEF Init, TypeOK, AbsentSession, AbsentToken
<1>2. RowsFit
  BY DEF Init, RowsFit, OneUsableToken, Live, Exists, AbsentSession, AbsentToken
<1>3. ClaimsApart /\ \A r \in Req : Fits(req[r], session, token)
  BY AtRest DEF Init, ClaimsApart, Idle
<1> QED
  BY <1>1, <1>2, <1>3 DEF IInv

LEMMA ProceedInv == ASSUME IInv, NEW r \in Req, Proceed(r) PROVE IInv'
<1>1. CASE CloseSessions(r)
  BY <1>1, LockSessionsInv, ResetMfaInv
<1> QED
  BY <1>1, IssueInv, StartLogoutInv, FindSessionInv, FindStaffInv, RecheckInv, ListInv,
     RevokeSessionInv, FindTokensInv, RevokeTokensInv, FindTokenInv, ReadSessionInv, CheckInv,
     ClaimInv, RotateInv, CloseStaffInv, CloseTokensInv, CommitCloseInv, EnableInv DEF Proceed

LEMMA NextInv == IInv /\ [Next]_vars => IInv'
<1> SUFFICES ASSUME IInv, [Next]_vars PROVE IInv'
  OBVIOUS
<1>1. CASE UNCHANGED vars
  BY <1>1 DEF vars, IInv, TypeOK, RowsFit, OneUsableToken, Live, Exists, Usable, ClaimsApart,
              HoldsToken
<1>2. CASE Next
  <2>1. ASSUME NEW r \in Req, Stop(r) PROVE IInv'
    BY <2>1, FailInv
  <2>2. ASSUME NEW q \in Req, NEW r \in Req, BreakDeadlock(q, r) PROVE IInv'
    BY <2>2, FailInv
  <2> QED
    BY <1>2, <2>1, <2>2, ArriveInv, ProceedInv, LapseInv, PruneInv DEF Next
<1> QED
  BY <1>1, <1>2

\* Whatever the requests have read still fits the tables when they go on, in every reachable
\* state, for any number of accounts, sessions, tokens and requests.
THEOREM Invariant == Spec => []IInv
BY InitInv, NextInv, PTL DEF Spec

\* Rotation and revocation never leave an open session with two usable refresh tokens or
\* with none.
THEOREM TokensUnique == Spec => []OneUsableToken
<1>1. IInv => OneUsableToken
  BY DEF IInv, RowsFit
<1> QED
  BY <1>1, Invariant, PTL

-------------------------------------------------------------------------------
(* The tables implement SessionChain *)

CurrentFacts ==
  \A s \in Session :
    /\ session[s].owner = None => Current(s) = None
    /\ session[s].owner # None /\ Over(session, s) => Current(s) = Closed
    /\ \A t \in Token : Live(s) /\ Usable(t) /\ token[t].session = s => Current(s) = t
    /\ Live(s) => \E t \in Token : Usable(t) /\ token[t].session = s

LEMMA CurrentIs == IInv => CurrentFacts
<1> SUFFICES ASSUME IInv, NEW s \in Session
             PROVE  /\ session[s].owner = None => Current(s) = None
                    /\ session[s].owner # None /\ Over(session, s) => Current(s) = Closed
                    /\ \A t \in Token :
                         Live(s) /\ Usable(t) /\ token[t].session = s => Current(s) = t
                    /\ Live(s) => \E t \in Token : Usable(t) /\ token[t].session = s
  BY DEF CurrentFacts
<1>1. CASE ~Live(s)
  BY <1>1 DEF Current, Over, Live, Exists
<1>2. CASE Live(s)
  <2>1. PICK t \in Token : \A u \in Token : (Usable(u) /\ token[u].session = s) <=> (u = t)
    BY <1>2 DEF IInv, RowsFit, OneUsableToken
  <2>2. (CHOOSE u \in Token : Usable(u) /\ token[u].session = s) = t
    BY <2>1
  <2>3. Current(s) = t
    BY <1>2, <2>2 DEF Current, Live, Exists
  <2> QED
    BY <1>2, <2>1, <2>3 DEF Over, Live, Exists
<1> QED
  BY <1>1, <1>2

LEMMA CurrentNext == IInv' => CurrentFacts'
BY CurrentIs, PTL

\* The token that continues a session is the same as long as it is usable.
LEMMA SameCurrent ==
  ASSUME CurrentFacts, CurrentFacts', NEW s \in Session,
         session'[s].owner = session[s].owner, Over(session', s) <=> Over(session, s),
         \A t \in Token : Live(s) /\ Usable(t) /\ token[t].session = s =>
            Usable(t)' /\ token'[t].session = s
  PROVE  Current(s)' = Current(s)
<1>1. CASE session[s].owner = None
  BY <1>1 DEF CurrentFacts
<1>2. CASE session[s].owner # None /\ Over(session, s)
  BY <1>2 DEF CurrentFacts, Over
<1>3. CASE session[s].owner # None /\ ~Over(session, s)
  <2>1. Live(s) /\ Live(s)'
    BY <1>3 DEF Live, Exists, Over
  <2>2. PICK t \in Token : Usable(t) /\ token[t].session = s
    BY <2>1 DEF CurrentFacts
  <2>3. Usable(t)' /\ token'[t].session = s
    BY <2>1, <2>2
  <2>4. Current(s) = t
    BY <2>1, <2>2 DEF CurrentFacts
  <2>5. Current(s)' = t
    BY <2>1, <2>3 DEF CurrentFacts
  <2> QED
    BY <2>4, <2>5
<1> QED
  BY <1>1, <1>2, <1>3

\* Ending sessions, and ending none, closes them.
LEMMA RevocationCloses ==
  ASSUME IInv, IInv', NEW S \in SUBSET Session, NEW T \in SUBSET Token, Revocation(S, T),
         \A s \in S : session[s].owner # None,
         \A t \in T : token[t].session \in S \/ Over(session, token[t].session)
  PROVE  Chain!Next
<1>1. CurrentFacts /\ CurrentFacts'
  BY CurrentIs, CurrentNext
<1>2. \A s \in S : Current(s) # None /\ Current(s)' = Closed
  <2>1. ASSUME NEW s \in S PROVE Current(s) # None
    <3>1. CASE Over(session, s)
      BY <1>1, <3>1, SessionsAssumption DEF CurrentFacts
    <3>2. CASE ~Over(session, s)
      BY <1>1, <3>2, SessionsAssumption DEF CurrentFacts, Live, Exists, Over
    <3> QED
      BY <3>1, <3>2
  <2>2. ASSUME NEW s \in S PROVE Current(s)' = Closed
    <3>1. session'[s].owner # None /\ Over(session', s)
      BY DEF Revocation, Over
    <3> QED
      BY <1>1, <3>1 DEF CurrentFacts
  <2> QED
    BY <2>1, <2>2
<1>3. ASSUME NEW s \in Session, s \notin S PROVE Current(s)' = Current(s)
  <2>1. session'[s].owner = session[s].owner /\ (Over(session', s) <=> Over(session, s))
    BY <1>3 DEF Revocation, Over
  <2>2. ASSUME NEW t \in Token, Live(s), Usable(t), token[t].session = s
        PROVE  Usable(t)' /\ token'[t].session = s
    <3>1. t \notin T
      BY <1>3, <2>2 DEF Live, Exists, Over
    <3> QED
      BY <2>2, <3>1 DEF Revocation, Usable
  <2> QED
    BY <1>1, <2>1, <2>2, SameCurrent
<1>4. (Token \ Unused)' = Token \ Unused
  BY DEF Unused, Revocation
<1>5. Chain!Close(S)
  BY <1>2, <1>3, <1>4 DEF Chain!Close
<1> QED
  BY <1>5 DEF Chain!Next

LEMMA NothingCloses ==
  ASSUME IInv, IInv', UNCHANGED <<session, token>>
  PROVE  Chain!Next
<1>1. Revocation({}, {})
  BY DEF Revocation, IInv, TypeOK
<1> QED
  BY <1>1, RevocationCloses

LEMMA IssueOpens ==
  ASSUME IInv, IInv', NEW r \in Req, NEW s \in Session, NEW t \in Token, Issue(r, s, t)
  PROVE  Chain!Next
<1> USE Names
<1>1. /\ req[r].pc = "issue" /\ session[s].owner = None /\ token[t].session = None
      /\ session' = [session EXCEPT ![s].owner = req[r].staff]
      /\ token' = [token EXCEPT ![t].session = s]
  BY DEF Issue, Unopened, Unused
<1>2. req[r].staff \in Staff
  BY <1>1, Own DEF ActsFor
<1>3. /\ \A x \in Session \ {s} : session'[x] = session[x]
      /\ session'[s].owner # None /\ ~session'[s].revoked /\ ~session'[s].gone
      /\ \A u \in Token \ {t} : token'[u] = token[u]
      /\ token'[t].session = s /\ ~token'[t].consumed /\ ~token'[t].revoked
  BY <1>1, <1>2 DEF IInv, TypeOK, RowsFit
<1>4. CurrentFacts /\ CurrentFacts'
  BY CurrentIs, CurrentNext
<1>5. Current(s) = None /\ Current(s)' = t
  <2>1. Live(s)' /\ Usable(t)'
    BY <1>3 DEF Live, Exists, Usable
  <2> QED
    BY <1>1, <1>3, <1>4, <2>1 DEF CurrentFacts
<1>6. ASSUME NEW x \in Session, x # s PROVE Current(x)' = Current(x)
  <2>1. session'[x] = session[x] /\ (Over(session', x) <=> Over(session, x))
    BY <1>3, <1>6 DEF Over
  <2>2. \A u \in Token : Usable(u) /\ token[u].session = x => Usable(u)' /\ token'[u].session = x
    BY <1>1, <1>3, <1>6 DEF Usable
  <2> QED
    BY <1>4, <2>1, <2>2, SameCurrent
<1>7. t \notin Token \ Unused /\ (Token \ Unused)' = (Token \ Unused) \cup {t}
  BY <1>1, <1>3 DEF Unused
<1>8. Chain!Open(s, t)
  BY <1>5, <1>6, <1>7 DEF Chain!Open
<1> QED
  BY <1>8 DEF Chain!Next

LEMMA RotateRotates ==
  ASSUME IInv, IInv', NEW r \in Req, NEW t \in Token, Rotate(r, t)
  PROVE  Chain!Next
<1> USE Names
<1>1. PICK s \in Session, c \in Token :
      /\ session[s].owner # None
      /\ c # t /\ token[c].session = s /\ Usable(c)
      /\ token[t].session = None
      /\ \A x \in Session : /\ session'[x].owner = session[x].owner
                            /\ session'[x].revoked = session[x].revoked
                            /\ session'[x].gone = session[x].gone
      /\ \A u \in Token \ {t, c} : token'[u] = token[u]
      /\ token'[t].session = s /\ ~token'[t].consumed /\ ~token'[t].revoked
      /\ token'[c].session = s
  <2> DEFINE own == req[r].session
             claimed == req[r].token
  <2> SUFFICES
      /\ own \in Session /\ claimed \in Token /\ session[own].owner # None
      /\ claimed # t /\ token[claimed].session = own /\ Usable(claimed)
      /\ token[t].session = None
      /\ \A x \in Session : /\ session'[x].owner = session[x].owner
                            /\ session'[x].revoked = session[x].revoked
                            /\ session'[x].gone = session[x].gone
      /\ \A u \in Token \ {t, claimed} : token'[u] = token[u]
      /\ token'[t].session = own /\ ~token'[t].consumed /\ ~token'[t].revoked
      /\ token'[claimed].session = own
    OBVIOUS
  <2> QED
    BY RotateFacts
<1>2. CurrentFacts /\ CurrentFacts'
  BY CurrentIs, CurrentNext
<1>3. ASSUME NEW x \in Session, x # s PROVE Current(x)' = Current(x)
  <2>1. session'[x].owner = session[x].owner /\ (Over(session', x) <=> Over(session, x))
    BY <1>1 DEF Over
  <2>2. \A u \in Token : Usable(u) /\ token[u].session = x => Usable(u)' /\ token'[u].session = x
    BY <1>1, <1>3 DEF Usable
  <2> QED
    BY <1>2, <2>1, <2>2, SameCurrent
<1>4. t \notin Token \ Unused /\ (Token \ Unused)' = (Token \ Unused) \cup {t}
  BY <1>1 DEF Unused
<1>5. CASE Over(session, s)
  <2>1. Current(s) = Closed /\ Current(s)' = Closed
    BY <1>1, <1>2, <1>5 DEF CurrentFacts, Over
  <2>2. Chain!IssueTooLate(s, t)
    BY <1>1, <1>3, <1>4, <2>1 DEF Chain!IssueTooLate
  <2> QED
    BY <1>1, <2>2 DEF Chain!Next
<1>6. CASE ~Over(session, s)
  <2>1. Live(s) /\ Live(s)' /\ Usable(t)'
    BY <1>1, <1>6 DEF Over, Live, Exists, Usable
  <2>2. Current(s) = c /\ Current(s)' = t
    BY <1>1, <1>2, <2>1 DEF CurrentFacts
  <2>3. Chain!Rotate(s, t)
    BY <1>1, <1>3, <1>4, <2>2 DEF Chain!Rotate
  <2> QED
    BY <1>1, <2>3 DEF Chain!Next
<1> QED
  BY <1>5, <1>6

LEMMA PruneCloses ==
  ASSUME IInv, IInv', NEW s \in Session, Prune(s)
  PROVE  Chain!Next
<1> USE Names
<1>1. CurrentFacts /\ CurrentFacts'
  BY CurrentIs, CurrentNext
<1>0. /\ session[s].owner # None
      /\ \A x \in Session \ {s} : session'[x] = session[x]
      /\ session'[s].owner = session[s].owner /\ session'[s].gone
      /\ \A u \in Token : token[u].session # s => token'[u] = token[u]
      /\ \A u \in Token : token'[u].session = token[u].session
  BY PruneFacts
<1>2. Current(s) # None /\ Current(s)' = Closed
  <2>1. Current(s)' = Closed
    BY <1>1, <1>0 DEF CurrentFacts, Over
  <2>2. CASE Over(session, s)
    BY <1>0, <1>1, <2>1, <2>2, SessionsAssumption DEF CurrentFacts
  <2>3. CASE ~Over(session, s)
    BY <1>1, <2>1, <2>3, <1>0 DEF CurrentFacts, Over, Live, Exists
  <2> QED
    BY <2>1, <2>2, <2>3
<1>3. ASSUME NEW x \in Session, x # s PROVE Current(x)' = Current(x)
  <2>1. session'[x] = session[x] /\ (Over(session', x) <=> Over(session, x))
    BY <1>3, <1>0 DEF Over
  <2>2. \A u \in Token : Usable(u) /\ token[u].session = x => Usable(u)' /\ token'[u].session = x
    BY <1>3, <1>0 DEF Usable
  <2> QED
    BY <1>1, <2>1, <2>2, SameCurrent
<1>4. (Token \ Unused)' = Token \ Unused
  BY <1>0 DEF Unused
<1>5. Chain!Close({s})
  BY <1>2, <1>3, <1>4 DEF Chain!Close
<1> QED
  BY <1>5 DEF Chain!Next

\* Every other step of a handler reads, or revokes.
LEMMA ProceedChain ==
  ASSUME IInv, IInv', NEW r \in Req, Proceed(r)
  PROVE  Chain!Next
<1>1. ASSUME NEW s \in Session, RevokeSession(r, s) PROVE Chain!Next
  <2> DEFINE S == IF Exists(s) THEN {s} ELSE {}
  <2>1. /\ S \in SUBSET Session /\ \A x \in S : session[x].owner # None
        /\ session' = [session EXCEPT ![s].revoked = @ \/ Exists(s)] /\ UNCHANGED token
    BY <1>1 DEF RevokeSession, Exists
  <2>2. Revocation(S, {})
    BY <2>1 DEF Revocation, IInv, TypeOK
  <2> HIDE DEF S
  <2> QED
    BY <2>1, <2>2, RevocationCloses
<1>2. CASE RevokeTokens(r)
  <2>1. /\ req[r].pc = "revokeTokens" /\ UNCHANGED session
        /\ token' = Revoked(req[r].snapshot)
    BY <1>2 DEF RevokeTokens
  <2>2. /\ req[r].snapshot \in SUBSET Token
        /\ \A t \in req[r].snapshot : Over(session, token[t].session)
    BY <2>1, Own DEF Revokes, Request
  <2>3. Revocation({}, req[r].snapshot)
    BY <2>1 DEF Revocation, Revoked, IInv, TypeOK
  <2> QED
    BY <2>2, <2>3, RevocationCloses
<1>3. CASE CommitClose(r)
  BY <1>3, CommitCloseFacts, RevocationCloses
<1>4. CASE CloseSessions(r) /\ req[r].kind = "resetMfa"
  <2> DEFINE S == OpenSessions(req[r].staff)
  <2>1. /\ req[r].staff # None /\ UNCHANGED token /\ session' = Ended(S)
    BY <1>4, Own, Names DEF CloseSessions, ActsFor
  <2>2. S \in SUBSET Session /\ \A s \in S : session[s].owner # None
    BY <2>1 DEF OpenSessions, SessionsOf
  <2> HIDE DEF S
  <2>3. Revocation(S, {})
    BY <2>1 DEF Revocation, Ended, IInv, TypeOK
  <2> QED
    BY <2>2, <2>3, RevocationCloses
<1>5. CASE \/ CloseSessions(r) /\ req[r].kind # "resetMfa"
           \/ StartLogout(r) \/ FindSession(r) \/ FindStaff(r) \/ Recheck(r) \/ List(r)
           \/ FindTokens(r) \/ FindToken(r) \/ ReadSession(r) \/ Check(r) \/ Claim(r)
           \/ CloseStaff(r) \/ CloseTokens(r) \/ Enable(r)
  <2>1. UNCHANGED <<session, token>>
    BY <1>5 DEF CloseSessions, StartLogout, FindSession, FindStaff, Recheck, List, FindTokens,
                FindToken, ReadSession, Check, Claim, CloseStaff, CloseTokens, Enable
  <2> QED
    BY <2>1, NothingCloses
<1> QED
  BY <1>1, <1>2, <1>3, <1>4, <1>5, IssueOpens, RotateRotates DEF Proceed

LEMMA ChainNext ==
  ASSUME IInv, IInv', [Next]_vars
  PROVE  [Chain!Next]_Chain!vars
<1>1. ASSUME NEW s \in Session, Lapse(s) PROVE Chain!Next
  <2>1. /\ \A x \in Session : /\ session'[x].owner = session[x].owner
                              /\ session'[x].gone = session[x].gone
                              /\ session'[x].revoked = session[x].revoked
        /\ session' \in [Session -> [owner : Staff \cup {None}, revoked : BOOLEAN,
                                     lapsed : BOOLEAN, aged : BOOLEAN, gone : BOOLEAN]]
        /\ UNCHANGED token
    BY <1>1, LapseFacts
  <2>2. Revocation({}, {})
    BY <2>1 DEF Revocation, IInv, TypeOK
  <2> QED
    BY <2>2, RevocationCloses
<1>2. ASSUME NEW r \in Req, Arrive(r) PROVE Chain!Next
  <2>1. UNCHANGED <<session, token>>
    BY <1>2 DEF Arrive, Login, Manage, Refresh, Logout, Call, Begin
  <2> QED
    BY <2>1, NothingCloses
<1>3. ASSUME NEW q \in Req, NEW r \in Req, Stop(r) \/ BreakDeadlock(q, r) PROVE Chain!Next
  <2>1. UNCHANGED <<session, token>>
    BY <1>3 DEF Stop, BreakDeadlock
  <2> QED
    BY <2>1, NothingCloses
<1>4. CASE UNCHANGED vars
  <2>1. UNCHANGED <<session, token>>
    BY <1>4 DEF vars
  <2> QED
    BY <2>1, NothingCloses
<1> QED
  BY <1>1, <1>2, <1>3, <1>4, ProceedChain, PruneCloses DEF Next

LEMMA ChainInit == Init => Chain!Init
<1> SUFFICES ASSUME Init PROVE Chain!Init
  OBVIOUS
<1>1. \A s \in Session : Current(s) = None
  BY DEF Init, AbsentSession, Current
<1>2. Token \ Unused = {}
  BY DEF Init, AbsentToken, Unused
<1> QED
  BY <1>1, <1>2 DEF Chain!Init

\* The two tables, changed statement by statement by concurrent handlers, implement the chain
\* of tokens: a session is handed over to a token never issued before, or closed for good.
THEOREM ChainImplemented == Spec => ChainSpec
<1>1. Init => Chain!Init
  BY ChainInit
<1>2. IInv /\ IInv' /\ [Next]_vars => [Chain!Next]_Chain!vars
  BY ChainNext
<1> QED
  BY <1>1, <1>2, Invariant, PTL DEF Spec, ChainSpec, Chain!Spec

-------------------------------------------------------------------------------
(* How requests end *)

\* The steps of a handler that only go on, to a line of the handler or to nothing but an answer.
Plain(r) ==
  \/ StartLogout(r) \/ FindSession(r) \/ FindStaff(r) \/ Recheck(r) \/ Check(r) \/ Claim(r)
  \/ CloseStaff(r)

\* A step of q changes what q knows, and what no other request knows.
LEMMA OthersGoOn ==
  ASSUME IInv, NEW q \in Req, NEW r \in Req, q # r, Arrive(q) \/ Proceed(q)
  PROVE  req'[r].pc = req[r].pc
<1>1. req \in [Req -> Request] /\ req[r] \in Request
  BY DEF IInv, TypeOK
<1>2. CASE Arrive(q)
  <2>1. req'[r] = [req[r] EXCEPT !.answer = "none"]
    BY <1>2 DEF Arrive, Login, Manage, Refresh, Logout, Call, Begin
  <2> QED
    BY <1>1, <2>1 DEF Request
<1>3. ASSUME NEW n, req' = [req EXCEPT ![q] = n] PROVE req'[r] = req[r]
  BY <1>1, <1>3
<1>4. ASSUME NEW n, Answer(q, n) \/ Goto(q, n) PROVE req'[r] = req[r]
  BY <1>1, <1>4 DEF Answer, Goto
<1>5. CASE Plain(q)
  <2>1. ASSUME StartLogout(q) PROVE req'[r] = req[r]
    BY <1>3, <2>1 DEF StartLogout
  <2>2. ASSUME FindSession(q) PROVE req'[r] = req[r]
    BY <1>4, <2>2 DEF FindSession
  <2>3. ASSUME FindStaff(q) PROVE req'[r] = req[r]
    <3>1. q \in Req /\ req[q].kind \in Calling
      BY <2>3, Own DEF FindStaff, ActsFor
    <3> QED
      BY <1>4, <2>3, <3>1 DEF FindStaff, Calling
  <2>4. ASSUME Recheck(q) PROVE req'[r] = req[r]
    BY <1>4, <2>4 DEF Recheck
  <2>5. ASSUME Check(q) PROVE req'[r] = req[r]
    BY <1>3, <1>4, <2>5 DEF Check
  <2>6. ASSUME Claim(q) PROVE req'[r] = req[r]
    BY <1>3, <1>4, <2>6 DEF Claim
  <2>7. ASSUME CloseStaff(q) PROVE req'[r] = req[r]
    BY <1>4, <2>7 DEF CloseStaff
  <2> QED
    BY <1>5, <2>1, <2>2, <2>3, <2>4, <2>5, <2>6, <2>7 DEF Plain
<1>6. CASE List(q) \/ RevokeTokens(q)
  <2>1. PICK n : req' = [req EXCEPT ![q] = n]
    BY <1>6 DEF List, RevokeTokens
  <2> QED
    BY <1>3, <2>1
<1>7. ASSUME NEW s \in Session, RevokeSession(q, s) PROVE req'[r] = req[r]
  BY <1>1, <1>7 DEF RevokeSession
<1>8. ASSUME FindTokens(q) PROVE req'[r] = req[r]
  BY <1>1, <1>8 DEF FindTokens
<1>9. ASSUME FindToken(q) PROVE req'[r] = req[r]
  BY <1>1, <1>4, <1>9 DEF FindToken
<1>10. ASSUME ReadSession(q) PROVE req'[r] = req[r]
  BY <1>1, <1>10 DEF ReadSession
<1>11. ASSUME NEW s \in Session, NEW t \in Token, Issue(q, s, t) PROVE req'[r] = req[r]
  BY <1>3, <1>4, <1>11 DEF Issue
<1>12. ASSUME NEW t \in Token, Rotate(q, t) PROVE req'[r] = req[r]
  BY <1>4, <1>12 DEF Rotate
<1>13. ASSUME CloseSessions(q) PROVE req'[r] = req[r]
  BY <1>1, <1>4, <1>13 DEF CloseSessions
<1>14. ASSUME CloseTokens(q) PROVE req'[r] = req[r]
  BY <1>1, <1>14 DEF CloseTokens
<1>15. ASSUME CommitClose(q) \/ Enable(q) PROVE req'[r] = req[r]
  BY <1>4, <1>15 DEF CommitClose, Enable
<1> QED
  BY <1>2, <1>5, <1>6, <1>7, <1>8, <1>9, <1>10, <1>11, <1>12, <1>13, <1>14, <1>15
     DEF Proceed, Plain

\* The steps that end a request with an answer other than a refusal or a failure.
LEMMA Finishing ==
  ASSUME IInv, [Next]_vars, NEW r \in Req, NEW a \in {"ok", "replay"}, Answered(r, a)
  PROVE  \/ RevokeTokens(r) \/ List(r)
         \/ /\ a = "ok"
            /\ \/ FindStaff(r) \/ CloseSessions(r) \/ CommitClose(r) \/ Enable(r)
               \/ \E s \in Session, t \in Token : Issue(r, s, t)
               \/ \E t \in Token : Rotate(r, t)
<1>1. /\ req[r].pc # "idle" /\ req'[r].pc = "idle" /\ req'[r].answer = a
      /\ req \in [Req -> Request] /\ req[r] \in Request
  BY DEF Answered, IInv, TypeOK
<1>2. ~Arrive(r)
  BY <1>1 DEF Arrive, Login, Manage, Refresh, Logout, Call, Begin
<1>3. ~UNCHANGED req
  BY <1>1
<1>4. ASSUME NEW v \in Req, Answer(v, "failed") PROVE FALSE
  <2>1. req' = [req EXCEPT ![v] = Idle("failed")]
    BY <1>4 DEF Answer
  <2>2. CASE v = r
    BY <1>1, <2>1, <2>2 DEF Idle
  <2>3. CASE v # r
    BY <1>1, <2>1, <2>3
  <2> QED
    BY <2>2, <2>3
<1>5. PICK q \in Req : Arrive(q) \/ Proceed(q)
  BY <1>3, <1>4 DEF Next, vars, Stop, BreakDeadlock, Lapse, Prune
<1>6. Proceed(r)
  BY <1>1, <1>2, <1>5, OthersGoOn
<1>7. ASSUME NEW x, Answer(r, x) PROVE x = a
  BY <1>1, <1>7 DEF Answer, Idle
<1>8. ASSUME NEW pc, Goto(r, pc) PROVE pc = "idle"
  BY <1>1, <1>8 DEF Goto, Request
<1>9. ASSUME NEW S \in SUBSET Session, req' = [req EXCEPT ![r] = Revoking(r, S)] PROVE FALSE
  BY <1>1, <1>9, RevokingFields
<1>10. req[r].pc \in {"logout", "check", "claim"} => {req[r].session} \in SUBSET Session
  BY <1>1, Own DEF ActsFor
<1>11. ~StartLogout(r)
  BY <1>9, <1>10 DEF StartLogout
<1>12. ~FindSession(r) /\ ~Recheck(r) /\ ~CloseStaff(r)
  BY <1>7, <1>8 DEF FindSession, Recheck, CloseStaff
<1>13. ~Check(r)
  BY <1>7, <1>8, <1>9, <1>10 DEF Check
<1>14. ~Claim(r)
  BY <1>8, <1>9, <1>10 DEF Claim
<1>15. ~FindTokens(r) /\ ~ReadSession(r) /\ ~CloseTokens(r)
  BY <1>1 DEF FindTokens, ReadSession, CloseTokens, Request
<1>16. ~FindToken(r)
  BY <1>1, <1>7 DEF FindToken, Request
<1>17. ASSUME NEW s \in Session, RevokeSession(r, s) PROVE FALSE
  BY <1>1, <1>17 DEF RevokeSession, Request
<1>18. FindStaff(r) => a = "ok"
  <2>1. FindStaff(r) => req[r].kind \in Calling
    BY <1>1, Own DEF FindStaff, ActsFor
  <2> QED
    BY <1>7, <1>8, <2>1 DEF FindStaff, Calling
<1>19. CloseSessions(r) => a = "ok"
  BY <1>1, <1>7 DEF CloseSessions, Request
<1>20. CommitClose(r) \/ Enable(r) => a = "ok"
  BY <1>7 DEF CommitClose, Enable
<1>21. ASSUME NEW t \in Token, Rotate(r, t) PROVE a = "ok"
  BY <1>7, <1>21 DEF Rotate
<1>22. ASSUME NEW s \in Session, NEW t \in Token, Issue(r, s, t) PROVE a = "ok"
  <2>1. CASE req[r].kind # "change"
    BY <1>7, <1>22, <2>1 DEF Issue
  <2>2. CASE req[r].kind = "change"
    <3>1. req' = [req EXCEPT ![r] = [Revoking(r, {req[r].session}) EXCEPT !.token = t]]
      BY <1>22, <2>2 DEF Issue
    <3>2. [Revoking(r, {req[r].session}) EXCEPT !.token = t].pc = "revoke"
      BY <1>1 DEF Revoking, Request
    <3> QED
      BY <1>1, <3>1, <3>2
  <2> QED
    BY <2>1, <2>2
<1> QED
  BY <1>6, <1>11, <1>12, <1>13, <1>14, <1>15, <1>16, <1>17, <1>18, <1>19, <1>20, <1>21, <1>22
     DEF Proceed

\* A request that has revoked its last session, and what it is told.
LEMMA RevokeTokensEnds ==
  ASSUME IInv, NEW r \in Req, NEW a, Answered(r, a), RevokeTokens(r)
  PROVE  /\ req[r].pc = "revokeTokens" /\ req[r] \in Request
         /\ req[r].kind \in {"refresh", "logout", "change", "others"}
         /\ req[r].todo = {req[r].target} /\ Over(session, req[r].target)
         /\ req[r].kind = "refresh" \/ (req[r].kind = "change" /\ req[r].token # None) =>
              req[r].target = req[r].session
         /\ req[r].kind = "change" => req[r].token # None
         /\ a = (IF req[r].kind = "refresh" THEN "replay" ELSE "ok")
         /\ UNCHANGED session /\ token' = Revoked(req[r].snapshot)
<1> DEFINE rest == req[r].todo \ {req[r].target}
<1>1. /\ req[r].pc = "revokeTokens" /\ req[r] \in Request /\ req \in [Req -> Request]
      /\ req'[r].pc = "idle" /\ req'[r].answer = a
      /\ UNCHANGED session /\ token' = Revoked(req[r].snapshot)
      /\ req' = [req EXCEPT ![r] = IF rest = {} THEN Continue(r) ELSE Revoking(r, rest)]
  BY DEF Answered, RevokeTokens, IInv, TypeOK
<1>2. rest \in SUBSET Session
  BY <1>1 DEF Request
<1> HIDE DEF rest
<1>3. rest = {}
  BY <1>1, <1>2, RevokingFields
<1>4. req'[r] = Continue(r)
  BY <1>1, <1>3
<1>5. Continue(r).pc = "idle" /\ Continue(r).answer = a
  BY <1>1, <1>4
<1>6. ~(req[r].kind = "change" /\ req[r].token = None)
  <2>1. [Revoking(r, {}) EXCEPT !.pc = "issue"].pc = "issue"
    BY <1>1 DEF Revoking, Request
  <2> QED
    BY <1>5, <2>1 DEF Continue
<1>7. a = IF req[r].kind = "refresh" THEN "replay" ELSE "ok"
  BY <1>5, <1>6 DEF Continue, Idle
<1>8. Revokes(req[r], session, token)
  BY <1>1, Own
<1>9. /\ req[r].todo = {req[r].target} /\ Over(session, req[r].target)
      /\ req[r].kind \in {"refresh", "logout", "change", "others"}
      /\ req[r].kind = "refresh" \/ (req[r].kind = "change" /\ req[r].token # None) =>
           req[r].target = req[r].session
  BY <1>1, <1>3, <1>8 DEF Revokes, rest
<1> QED
  BY <1>1, <1>6, <1>7, <1>9

\* A request that finds no other session to revoke.
LEMMA ListEnds ==
  ASSUME IInv, NEW r \in Req, NEW a, Answered(r, a), List(r)
  PROVE  a = "ok" /\ req[r].kind = "others" /\ req[r].pc = "list" /\ req[r].known = {}
<1> DEFINE all == SessionsOf(req[r].staff)
           others == {s \in all \ {req[r].session} : Live(s)}
<1>1. /\ req[r].pc = "list" /\ req[r] \in Request /\ req \in [Req -> Request]
      /\ req'[r].pc = "idle" /\ req'[r].answer = a
  BY DEF Answered, List, IInv, TypeOK
<1>2. /\ req[r].kind \in {"change", "others"} /\ req[r].token = None /\ req[r].known = {}
  BY <1>1, Own DEF ActsFor, Knows, Calling
<1>3. others \in SUBSET Session
  BY DEF SessionsOf
<1>4. req'[r] = IF others # {} THEN [Revoking(r, others) EXCEPT !.known = all]
                ELSE IF req[r].kind = "change" THEN [Continue(r) EXCEPT !.known = all]
                ELSE Continue(r)
  BY <1>1 DEF List
<1> HIDE DEF others, all
<1>5. [Revoking(r, others) EXCEPT !.known = all].pc = "revoke"
  BY <1>1 DEF Revoking, Request
<1>6. CASE req[r].kind = "change"
  <2>1. [Continue(r) EXCEPT !.known = all].pc = "issue"
    BY <1>1, <1>2, <1>6 DEF Continue, Revoking, Request
  <2> QED
    BY <1>1, <1>4, <1>5, <1>6, <2>1
<1>7. CASE req[r].kind = "others"
  <2>1. req'[r] = Continue(r)
    BY <1>1, <1>4, <1>5, <1>7
  <2>2. a = "ok"
    BY <1>1, <1>7, <2>1 DEF Continue, Idle
  <2> QED
    BY <1>1, <1>2, <1>7, <2>2
<1> QED
  BY <1>2, <1>6, <1>7

\* The other steps that end a request, by the kinds of requests that take them.
LEMMA OthersEnd ==
  ASSUME IInv, NEW r \in Req, Answered(r, "ok")
  PROVE  /\ FindStaff(r) => req[r].pc = "findStaff" /\ req[r].kind \in Calling
         /\ Enable(r) => req[r].kind \in Enabling
         /\ CommitClose(r) => req[r].pc = "closing" /\ req[r].kind \in Ending
         /\ CloseSessions(r) => req[r].kind = "resetMfa" /\ req[r].pc = "closeSessions"
         /\ \A s \in Session, t \in Token : Issue(r, s, t) => req[r].kind = "login"
         /\ \A t \in Token : Rotate(r, t) => req[r].kind = "refresh" /\ req[r].pc = "rotate"
<1>1. /\ req[r].pc # "idle" /\ req[r] \in Request /\ req \in [Req -> Request]
      /\ req'[r].pc = "idle" /\ req'[r].answer = "ok"
  BY DEF Answered, IInv, TypeOK
<1>2. /\ ActsFor(req[r], session, token)
  BY <1>1, Own
<1>3. /\ FindStaff(r) => req[r].pc = "findStaff" /\ req[r].kind \in Calling
      /\ Enable(r) => req[r].kind \in Enabling
      /\ CommitClose(r) => req[r].pc = "closing" /\ req[r].kind \in Ending
      /\ \A t \in Token : Rotate(r, t) => req[r].kind = "refresh" /\ req[r].pc = "rotate"
  BY <1>2 DEF FindStaff, Enable, CommitClose, Rotate, ActsFor
<1>4. CloseSessions(r) => req[r].kind = "resetMfa" /\ req[r].pc = "closeSessions"
  BY <1>1 DEF CloseSessions, Request
<1>5. ASSUME NEW s \in Session, NEW t \in Token, Issue(r, s, t), req[r].kind = "change"
      PROVE  FALSE
  <2>1. req' = [req EXCEPT ![r] = [Revoking(r, {req[r].session}) EXCEPT !.token = t]]
    BY <1>5 DEF Issue
  <2>2. [Revoking(r, {req[r].session}) EXCEPT !.token = t].pc = "revoke"
    BY <1>1 DEF Revoking, Request
  <2> QED
    BY <1>1, <2>1, <2>2
<1>6. ASSUME NEW s \in Session, NEW t \in Token, Issue(r, s, t) PROVE req[r].kind = "login"
  BY <1>2, <1>5, <1>6 DEF Issue, ActsFor, Creating
<1> QED
  BY <1>3, <1>4, <1>6

LEMMA StaysOutStep ==
  ASSUME IInv, [Next]_vars, NEW r \in Req, Answered(r, "ok"),
         req[r].kind \in Calling \cup {"refresh"}
  PROVE  ~req[r].late
<1>1. req[r].pc # "idle" /\ StoppedIfLate(req[r], session)
  BY Own DEF Answered
<1>2. CASE RevokeTokens(r)
  <2>1. req[r].pc = "revokeTokens" /\ req[r].kind # "refresh"
    BY <1>2, RevokeTokensEnds
  <2> QED
    BY <1>1, <2>1 DEF StoppedIfLate
<1>3. CASE List(r)
  <2>1. req[r].pc = "list" /\ req[r].kind = "others"
    BY <1>3, ListEnds
  <2> QED
    BY <1>1, <2>1 DEF StoppedIfLate, Calling
<1>4. CASE FindStaff(r)
  BY <1>1, <1>4, OthersEnd DEF StoppedIfLate
<1>5. ASSUME NEW t \in Token, Rotate(r, t) PROVE ~req[r].late
  BY <1>1, <1>5, OthersEnd DEF StoppedIfLate
<1> QED
  BY <1>2, <1>3, <1>4, <1>5, Finishing, OthersEnd DEF Calling, Ending, Enabling

LEMMA ReplayStep ==
  ASSUME IInv, [Next]_vars, NEW r \in Req, Answered(r, "replay")
  PROVE  /\ \A s \in Session : s = req[r].session => ~Live(s)'
         /\ \A t \in req[r].snapshot : ~Usable(t)'
<1>1. CASE RevokeTokens(r)
  <2>1. /\ req[r] \in Request /\ req[r].kind = "refresh"
        /\ Over(session, req[r].session) /\ UNCHANGED session
        /\ token' = Revoked(req[r].snapshot)
    BY <1>1, RevokeTokensEnds
  <2>2. \A s \in Session : s = req[r].session => ~Live(s)'
    BY <2>1 DEF Over, Live, Exists
  <2>3. req[r].snapshot \subseteq Token
    BY <2>1 DEF Request
  <2>4. \A t \in req[r].snapshot : token'[t].revoked
    BY <2>1, <2>3 DEF Revoked, IInv, TypeOK
  <2> QED
    BY <2>2, <2>4 DEF Usable
<1>2. CASE List(r)
  BY <1>2, ListEnds
<1> QED
  BY <1>1, <1>2, Finishing

LEMMA EndingStep ==
  ASSUME IInv, [Next]_vars, NEW r \in Req, Answered(r, "ok"), req[r].kind \in Ending
  PROVE  \A s \in SessionsOf(req[r].staff) : session'[s].revoked
<1> USE Names
<1>1. /\ req[r].pc # "idle" /\ req[r].staff \in Staff /\ req[r] \in Request
      /\ session \in [Session -> [owner : Staff \cup {None}, revoked : BOOLEAN,
                                  lapsed : BOOLEAN, aged : BOOLEAN, gone : BOOLEAN]]
  BY Own DEF Answered, ActsFor, IInv, TypeOK
<1>2. CASE CommitClose(r)
  <2>1. session' = Ended(req[r].todo) /\ req[r].pc = "closing"
    BY <1>2 DEF CommitClose
  <2>2. \A s \in Session : session[s].owner = req[r].staff /\ ~Over(session, s) => s \in req[r].todo
    BY <1>1, <2>1, Own DEF Closes
  <2> QED
    BY <1>1, <2>1, <2>2 DEF Ended, SessionsOf, Over
<1>3. CASE CloseSessions(r)
  <2>1. session' = Ended(OpenSessions(req[r].staff))
    BY <1>3, OthersEnd DEF CloseSessions
  <2> QED
    BY <1>1, <2>1 DEF Ended, OpenSessions, SessionsOf, Live, Exists
<1>4. ~RevokeTokens(r)
  BY RevokeTokensEnds DEF Ending
<1>5. ~List(r)
  BY ListEnds DEF Ending
<1> QED
  BY <1>2, <1>3, <1>4, <1>5, Finishing, OthersEnd DEF Calling, Ending, Enabling

LEMMA OwnEndingStep ==
  ASSUME IInv, [Next]_vars, NEW r \in Req, Answered(r, "ok"),
         req[r].kind \in {"change", "others"}
  PROVE  \A s \in req[r].known : \/ req[r].kind = "others" /\ s = req[r].session
                                 \/ session'[s].revoked
<1>1. Knows(req[r], session) /\ req[r].pc # "idle"
  BY Own DEF Answered
<1>2. CASE RevokeTokens(r)
  <2>1. /\ req[r].pc = "revokeTokens" /\ UNCHANGED session
        /\ req[r].todo = {req[r].target}
        /\ req[r].kind = "change" => req[r].target = req[r].session
    BY <1>2, RevokeTokensEnds
  <2> QED
    BY <1>1, <2>1 DEF Knows
<1>3. CASE List(r)
  BY <1>3, ListEnds
<1>4. CASE FindStaff(r)
  <2>1. req[r].pc = "findStaff"
    BY <1>4, OthersEnd
  <2> QED
    BY <1>1, <2>1 DEF Knows
<1> QED
  BY <1>2, <1>3, <1>4, Finishing, OthersEnd DEF Ending, Enabling

\* Whatever is under way when a session is revoked, no later request of it is served.
THEOREM NoneServedAfter == Spec => RevokedStaysOut
<1>1. IInv /\ [Next]_vars =>
        [\A r \in Req : Answered(r, "ok") /\ req[r].kind \in Calling \cup {"refresh"} =>
           ~req[r].late]_vars
  BY StaysOutStep
<1> QED
  BY <1>1, Invariant, PTL DEF Spec, RevokedStaysOut

\* An account that is suspended, archived or reset keeps no session, and a changed password
\* none of those there were.
THEOREM EndingIsComplete == Spec => EndingEndsAll
<1>1. IInv /\ [Next]_vars =>
        [\A r \in Req : Answered(r, "ok") =>
           /\ req[r].kind \in Ending => \A s \in SessionsOf(req[r].staff) : session'[s].revoked
           /\ req[r].kind \in {"change", "others"} =>
                \A s \in req[r].known : \/ req[r].kind = "others" /\ s = req[r].session
                                        \/ session'[s].revoked]_vars
  BY EndingStep, OwnEndingStep
<1> QED
  BY <1>1, Invariant, PTL DEF Spec, EndingEndsAll

\* A token that is presented twice closes its session.
THEOREM ReplayEnds == Spec => ReplayCloses
<1>1. IInv /\ [Next]_vars =>
        [\A r \in Req : Answered(r, "replay") =>
           /\ \A s \in Session : s = req[r].session => ~Live(s)'
           /\ \A t \in req[r].snapshot : ~Usable(t)']_vars
  BY ReplayStep
<1> QED
  BY <1>1, Invariant, PTL DEF Spec, ReplayCloses
================================================================================
