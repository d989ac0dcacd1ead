------------------------------- MODULE Sessions -------------------------------
(***************************************************************************)
(* Staff sessions and refresh tokens: apps/api/src/modules/auth and the    *)
(* staff operations that end sessions.  A request runs a handler whose     *)
(* statements are separate steps.  Statements that PostgreSQL commits one  *)
(* by one change the tables at once; a transaction holds row locks, which  *)
(* follow from where its request stands, and changes the tables when it    *)
(* commits.                                                                *)
(*                                                                         *)
(* Passwords, factors and cookies are data that nothing here tells apart;  *)
(* the identity of a token stands for its signed claims and its hash.      *)
(*                                                                         *)
(* Definitions whose names begin with Wrong are not part of the model:     *)
(* each is a plausible mistake that a property below must find.            *)
(***************************************************************************)
EXTENDS FiniteSets, Naturals

CONSTANTS
  Staff, Session, Token, Req,
  None,        \* no session, no staff member, no token
  Closed,      \* what SessionChain calls a session that is over
  Kinds,       \* the operations requests ask for in this instance
  Passing,     \* the sessions whose lifetimes may run out in this instance
  Unreliable   \* the requests whose server process may stop

Creating == {"login", "change"}
Calling == {"access", "change", "others"}
Ending == {"suspend", "delete", "setPassword", "resetMfa"}
Enabling == {"activate", "restore"}
AllKinds == Creating \cup Calling \cup Ending \cup Enabling \cup {"refresh", "logout"}

ASSUME SessionsAssumption ==
  /\ None \notin Staff \cup Session \cup Token
  /\ Closed \notin Token \cup {None}
  /\ Kinds \subseteq AllKinds
  /\ Passing \subseteq Session
  /\ Unreliable \subseteq Req

VARIABLES
  staff,    \* each account: status and soft deletion
  session,  \* the AuthSession table
  token,    \* the RefreshToken table
  req       \* each request slot: the handler it runs and the handler's locals

vars == <<staff, session, token, req>>

AbsentSession == [owner |-> None, revoked |-> FALSE, lapsed |-> FALSE, aged |-> FALSE,
                  gone |-> FALSE]
AbsentToken == [session |-> None, consumed |-> FALSE, revoked |-> FALSE]

\* A request at rest; "answer" is what the last one on this slot was told.
Idle(answer) ==
  [kind |-> None, pc |-> "idle", staff |-> None, session |-> None, token |-> None,
   todo |-> {}, target |-> None, snapshot |-> {}, seen |-> FALSE,
   known |-> {}, late |-> FALSE, answer |-> answer]

Init ==
  /\ staff = [p \in Staff |-> [active |-> TRUE, deleted |-> FALSE]]
  /\ session = [s \in Session |-> AbsentSession]
  /\ token = [t \in Token |-> AbsentToken]
  /\ req = [r \in Req |-> Idle("none")]

-------------------------------------------------------------------------------
(* Rows and locks *)

Exists(s) == session[s].owner # None /\ ~session[s].gone
Live(s) == Exists(s) /\ ~session[s].revoked
SessionsOf(p) == {s \in Session : session[s].owner = p /\ ~session[s].gone}
TokensOf(S) == {t \in Token : token[t].session \in S}

\* A rotation holds the token it has claimed; a transaction that ends sessions
\* holds the account from its first statement and the sessions from its second.
HoldsToken(r, t) == req[r].pc = "rotate" /\ req[r].token = t
HoldsSession(r, s) == req[r].pc \in {"closeTokens", "closing"} /\ s \in req[r].todo
HoldsStaff(r, p) ==
  req[r].pc \in {"closeSessions", "closeTokens", "closing"} /\ req[r].staff = p

\* Mutant: a rotation reads the token it claims without locking its row.
WrongTokenLocked(t) == FALSE
TokenLocked(t) == \E r \in Req : HoldsToken(r, t)
SessionLocked(s) == \E r \in Req : HoldsSession(r, s)
StaffLocked(p) == \E r \in Req : HoldsStaff(r, p)

Goto(r, pc) == req' = [req EXCEPT ![r].pc = pc]
Answer(r, answer) == req' = [req EXCEPT ![r] = Idle(answer)]
Revoking(r, S) ==
  [req[r] EXCEPT !.todo = S, !.target = None, !.snapshot = {}, !.seen = FALSE,
                 !.pc = "revoke"]

\* Every request that may still store a row has one to store it in (the bound
\* on sessions and tokens).
Unused == {t \in Token : token[t].session = None}
Unopened == {s \in Session : session[s].owner = None}
Storing(kinds) == {r \in Req : req[r].kind \in kinds}
RoomFor(kind) ==
  /\ kind \in Creating \cup {"refresh"} =>
        Cardinality(Storing(Creating \cup {"refresh"})) < Cardinality(Unused)
  /\ kind \in Creating => Cardinality(Storing(Creating)) < Cardinality(Unopened)

-------------------------------------------------------------------------------
(* Requests arrive.  "late" and "known" are history: the session was already  *)
(* over, and the sessions there were when a request listed them.              *)

Begin(r, kind, p, s, t, pc) ==
  /\ req[r].pc = "idle"
  /\ kind \in Kinds
  /\ RoomFor(kind)
  /\ req' = [q \in Req |->
       IF q = r
         THEN [Idle("none") EXCEPT !.kind = kind, !.pc = pc, !.staff = p, !.session = s,
                                   !.token = t, !.late = s # None /\ ~Live(s)]
         ELSE [req[q] EXCEPT !.answer = "none"]]
  /\ UNCHANGED <<staff, session, token>>

\* The last check of every login: findStaffById and ensureActiveStaff.
Login(r, p) ==
  /\ staff[p].active /\ ~staff[p].deleted
  /\ Begin(r, "login", p, None, None, "issue")

Refresh(r, t) ==
  /\ token[t].session # None
  /\ Begin(r, "refresh", session[token[t].session].owner, token[t].session, t, "findToken")

\* A call that presents an access token of session s.
Call(r, kind, s) ==
  /\ kind \in Calling
  /\ session[s].owner # None
  /\ Begin(r, kind, session[s].owner, s, None, "findSession")

\* logoutWithRefreshToken verifies the token and looks nothing up; ending one
\* of one's other sessions looks up whether there is one.
Logout(r, s) ==
  /\ session[s].owner # None
  /\ Begin(r, "logout", session[s].owner, s, None, "logout")

StartLogout(r) ==
  /\ req[r].pc = "logout"
  /\ req' = [req EXCEPT ![r] = Revoking(r, {req[r].session})]
  /\ UNCHANGED <<staff, session, token>>

\* The staff handlers first read the account; deleted ones are not found,
\* and only a deleted one is restored.
Manage(r, kind, p) ==
  /\ kind \in Ending \cup Enabling
  /\ staff[p].deleted = (kind = "restore")
  /\ Begin(r, kind, p, None, None, IF kind \in Ending THEN "closeStaff" ELSE "enable")

-------------------------------------------------------------------------------
(* createSession: the session, its first token and lastLoginAt in one         *)
(* transaction, which waits for the account's row.                            *)

\* Mutant: a login does not wait for the account's row.
WrongIssue(r, s, t) ==
  /\ req[r].pc = "issue"
  /\ s \in Unopened /\ t \in Unused
  /\ session' = [session EXCEPT ![s].owner = req[r].staff]
  /\ token' = [token EXCEPT ![t].session = s]
  /\ IF req[r].kind = "change"
       THEN req' = [req EXCEPT ![r] = [Revoking(r, {req[r].session}) EXCEPT !.token = t]]
       ELSE Answer(r, "ok")
  /\ UNCHANGED staff

Issue(r, s, t) ==
  /\ req[r].pc = "issue"
  /\ s \in Unopened /\ t \in Unused
  /\ ~StaffLocked(req[r].staff)
  /\ session' = [session EXCEPT ![s].owner = req[r].staff]
  /\ token' = [token EXCEPT ![t].session = s]
  /\ IF req[r].kind = "change"
       THEN req' = [req EXCEPT ![r] = [Revoking(r, {req[r].session}) EXCEPT !.token = t]]
       ELSE Answer(r, "ok")
  /\ UNCHANGED staff

-------------------------------------------------------------------------------
(* authenticateAccessToken, then what a call does with it. *)

FindSession(r) ==
  /\ req[r].pc = "findSession"
  /\ LET s == session[req[r].session]
     IN  IF s.gone \/ s.revoked \/ s.lapsed THEN Answer(r, "refused") ELSE Goto(r, "findStaff")
  /\ UNCHANGED <<staff, session, token>>

\* The session is read with its account, deleted or not.
FindStaff(r) ==
  /\ req[r].pc = "findStaff"
  /\ IF ~staff[req[r].staff].active THEN Answer(r, "refused")
     ELSE CASE req[r].kind = "access" -> Answer(r, "ok")
            [] req[r].kind = "change" -> Goto(r, "recheck")
            [] req[r].kind = "others" -> Goto(r, "list")
  /\ UNCHANGED <<staff, session, token>>

\* changePassword reads the account again before it stores the password.
Recheck(r) ==
  /\ req[r].pc = "recheck"
  /\ IF staff[req[r].staff].active /\ ~staff[req[r].staff].deleted
       THEN Goto(r, "list")
       ELSE Answer(r, "refused")
  /\ UNCHANGED <<staff, session, token>>

\* After the last session of the list: changePassword issues a session, and
\* after that revokes the one it was called from.
Continue(r) ==
  IF req[r].kind = "change" /\ req[r].token = None
    THEN [Revoking(r, {}) EXCEPT !.pc = "issue"]
    ELSE Idle(IF req[r].kind = "refresh" THEN "replay" ELSE "ok")

List(r) ==
  /\ req[r].pc = "list"
  /\ LET all == SessionsOf(req[r].staff)
         others == {s \in all \ {req[r].session} : Live(s)}
     IN  req' = [req EXCEPT ![r] =
                   IF others # {} THEN [Revoking(r, others) EXCEPT !.known = all]
                   ELSE IF req[r].kind = "change" THEN [Continue(r) EXCEPT !.known = all]
                   ELSE Continue(r)]
  /\ UNCHANGED <<staff, session, token>>

-------------------------------------------------------------------------------
(* revokeSession of the repository: the session and then its tokens, each     *)
(* committed by itself.  The second statement sees the tokens of the moment   *)
(* it began and waits for those a rotation holds.                             *)

RevokeSession(r, s) ==
  /\ req[r].pc = "revoke"
  /\ s \in req[r].todo
  /\ ~SessionLocked(s)
  /\ session' = [session EXCEPT ![s].revoked = @ \/ Exists(s)]
  /\ req' = [req EXCEPT ![r].target = s, ![r].pc = "findTokens"]
  /\ UNCHANGED <<staff, token>>

FindTokens(r) ==
  /\ req[r].pc = "findTokens"
  /\ req' = [req EXCEPT ![r].snapshot = {t \in TokensOf({req[r].target}) : ~token[t].revoked},
                        ![r].pc = "revokeTokens"]
  /\ UNCHANGED <<staff, session, token>>

Revoked(T) == [t \in Token |-> [token[t] EXCEPT !.revoked = @ \/ t \in T]]

RevokeTokens(r) ==
  /\ req[r].pc = "revokeTokens"
  /\ \A t \in req[r].snapshot : ~TokenLocked(t)
  /\ token' = Revoked(req[r].snapshot)
  /\ LET rest == req[r].todo \ {req[r].target}
     IN  req' = [req EXCEPT ![r] = IF rest = {} THEN Continue(r)
                                   ELSE Revoking(r, rest)]
  /\ UNCHANGED <<staff, session>>

-------------------------------------------------------------------------------
(* refreshSession: findRefreshToken reads the token, its session and then the *)
(* account; the checks; replaceRefreshToken claims the token, writes the      *)
(* session and stores the next token in one transaction.                      *)

FindToken(r) ==
  /\ req[r].pc = "findToken"
  /\ LET t == token[req[r].token]
     IN  IF session[t.session].gone
           THEN Answer(r, "refused")
           ELSE req' = [req EXCEPT ![r].seen = t.consumed \/ t.revoked, ![r].pc = "readSession"]
  /\ UNCHANGED <<staff, session, token>>

\* Mutant: only the token is looked at, not its session.
WrongReadSession(r) ==
  /\ req[r].pc = "readSession"
  /\ Goto(r, "check")
  /\ UNCHANGED <<staff, session, token>>

ReadSession(r) ==
  /\ req[r].pc = "readSession"
  /\ req' = [req EXCEPT ![r].seen = @ \/ session[req[r].session].revoked, ![r].pc = "check"]
  /\ UNCHANGED <<staff, session, token>>

Check(r) ==
  /\ req[r].pc = "check"
  /\ LET p == staff[req[r].staff]
         s == session[req[r].session]
     IN  IF p.deleted THEN Answer(r, "refused")
         ELSE IF req[r].seen \/ s.lapsed \/ s.aged
           THEN req' = [req EXCEPT ![r] = Revoking(r, {req[r].session})]
         ELSE IF ~p.active THEN Answer(r, "refused")
         ELSE Goto(r, "claim")
  /\ UNCHANGED <<staff, session, token>>

\* Mutants: the claim trusts the check; or a lost claim is only refused.
WrongClaim(r) ==
  /\ req[r].pc = "claim"
  /\ ~TokenLocked(req[r].token)
  /\ Goto(r, "rotate")
  /\ UNCHANGED <<staff, session, token>>

WrongLostClaim(r) ==
  /\ req[r].pc = "claim"
  /\ ~TokenLocked(req[r].token)
  /\ LET t == token[req[r].token]
     IN  IF Exists(t.session) /\ ~t.consumed /\ ~t.revoked
           THEN Goto(r, "rotate")
           ELSE Answer(r, "replay")
  /\ UNCHANGED <<staff, session, token>>

Claim(r) ==
  /\ req[r].pc = "claim"
  /\ ~TokenLocked(req[r].token)
  /\ LET t == token[req[r].token]
     IN  IF Exists(t.session) /\ ~t.consumed /\ ~t.revoked
           THEN Goto(r, "rotate")
           ELSE req' = [req EXCEPT ![r] = Revoking(r, {req[r].session})]
  /\ UNCHANGED <<staff, session, token>>

\* Mutant: a rotation writes the session as it read it, open.
WrongRotate(r, t) ==
  /\ req[r].pc = "rotate"
  /\ t \in Unused
  /\ LET s == req[r].session
     IN  /\ ~SessionLocked(s)
         /\ session' = [session EXCEPT ![s].lapsed = @ /\ session[s].aged, ![s].revoked = FALSE]
         /\ token' = [token EXCEPT ![req[r].token].consumed = TRUE, ![t].session = s]
  /\ Answer(r, "ok")
  /\ UNCHANGED staff

\* The new expiry never passes the end of the session's absolute lifetime.
Rotate(r, t) ==
  /\ req[r].pc = "rotate"
  /\ t \in Unused
  /\ LET s == req[r].session
     IN  /\ ~SessionLocked(s)
         /\ session' = [session EXCEPT ![s].lapsed = @ /\ session[s].aged]
         /\ token' = [token EXCEPT ![req[r].token].consumed = TRUE, ![t].session = s]
  /\ Answer(r, "ok")
  /\ UNCHANGED staff

-------------------------------------------------------------------------------
(* updateStaff to a status other than active, deleteStaff, setPassword and    *)
(* resetMfa: one transaction over the account, its sessions and (but for      *)
(* resetMfa) their tokens, in this order.                                     *)

CloseStaff(r) ==
  /\ req[r].pc = "closeStaff"
  /\ ~StaffLocked(req[r].staff)
  /\ Goto(r, "closeSessions")
  /\ UNCHANGED <<staff, session, token>>

Ended(S) == [s \in Session |-> [session[s] EXCEPT !.revoked = @ \/ s \in S]]
OpenSessions(p) == {s \in SessionsOf(p) : Live(s)}

CloseSessions(r) ==
  /\ req[r].pc = "closeSessions"
  /\ IF req[r].kind = "resetMfa"
       THEN /\ session' = Ended(OpenSessions(req[r].staff))
            /\ Answer(r, "ok")
       ELSE /\ req' = [req EXCEPT ![r].todo = OpenSessions(req[r].staff), ![r].pc = "closeTokens"]
            /\ UNCHANGED session
  /\ UNCHANGED <<staff, token>>

CloseTokens(r) ==
  /\ req[r].pc = "closeTokens"
  /\ req' = [req EXCEPT ![r].snapshot =
                          {t \in TokensOf(SessionsOf(req[r].staff)) : ~token[t].revoked},
                        ![r].pc = "closing"]
  /\ UNCHANGED <<staff, session, token>>

CommitClose(r) ==
  /\ req[r].pc = "closing"
  /\ \A t \in req[r].snapshot : ~TokenLocked(t)
  /\ LET p == req[r].staff
     IN  staff' = CASE req[r].kind = "suspend" -> [staff EXCEPT ![p].active = FALSE]
                    [] req[r].kind = "delete" ->
                         [staff EXCEPT ![p] = [active |-> FALSE, deleted |-> TRUE]]
                    [] OTHER -> staff
  /\ session' = Ended(req[r].todo)
  /\ token' = Revoked(req[r].snapshot)
  /\ Answer(r, "ok")

\* updateStaff to active, and restoreStaff, which leaves the account inactive.
Enable(r) ==
  /\ req[r].pc = "enable"
  /\ LET p == req[r].staff
     IN  /\ ~StaffLocked(p)
         /\ staff' = IF req[r].kind = "activate"
                       THEN [staff EXCEPT ![p].active = TRUE]
                       ELSE [staff EXCEPT ![p] = [active |-> FALSE, deleted |-> FALSE]]
  /\ Answer(r, "ok")
  /\ UNCHANGED <<session, token>>

-------------------------------------------------------------------------------
(* What happens around the requests *)

\* PostgreSQL aborts one of two transactions that wait for each other: the
\* rotation q has a token that r wants and wants a session that r has.
Deadlocked(q, r) ==
  /\ req[q].pc = "rotate" /\ req[r].pc = "closing"
  /\ req[q].token \in req[r].snapshot /\ req[q].session \in req[r].todo

BreakDeadlock(q, r) ==
  /\ Deadlocked(q, r)
  /\ \E victim \in {q, r} : Answer(victim, "failed")
  /\ UNCHANGED <<staff, session, token>>

\* The process that serves r stops: its transaction is rolled back, what it
\* has committed statement by statement stays.
Stop(r) ==
  /\ r \in Unreliable
  /\ req[r].pc # "idle"
  /\ Answer(r, "failed")
  /\ UNCHANGED <<staff, session, token>>

\* expiresAt passes, or the end of the absolute lifetime, which is no earlier.
Lapse(s) ==
  /\ s \in Passing
  /\ Exists(s)
  /\ ~session[s].aged
  /\ \E aged \in IF session[s].lapsed THEN {TRUE} ELSE BOOLEAN :
        session' = [session EXCEPT ![s].lapsed = TRUE, ![s].aged = aged]
  /\ UNCHANGED <<staff, token, req>>

\* The pruner deletes sessions that ended 30 days ago and, by the foreign key,
\* their tokens: no request that knows of one is still running.  A deleted row
\* keeps its identifier, which is never used again.
Prune(s) ==
  /\ s \in Passing
  /\ Exists(s)
  /\ session[s].revoked \/ session[s].lapsed
  /\ \A r \in Req : req[r].session # s /\ s \notin req[r].todo \cup req[r].known
  /\ session' = [session EXCEPT ![s] =
                   [AbsentSession EXCEPT !.owner = session[s].owner, !.gone = TRUE]]
  /\ token' = [t \in Token |-> IF token[t].session = s
                                THEN [AbsentToken EXCEPT !.session = s]
                                ELSE token[t]]
  /\ UNCHANGED <<staff, req>>

-------------------------------------------------------------------------------
Arrive(r) ==
  \/ \E p \in Staff : Login(r, p) \/ \E kind \in Kinds : Manage(r, kind, p)
  \/ \E t \in Token : Refresh(r, t)
  \/ \E s \in Session : Logout(r, s) \/ \E kind \in Kinds : Call(r, kind, s)

Proceed(r) ==
  \/ \E s \in Session, t \in Token : Issue(r, s, t)
  \/ StartLogout(r) \/ FindSession(r) \/ FindStaff(r) \/ Recheck(r) \/ List(r)
  \/ \E s \in Session : RevokeSession(r, s)
  \/ FindTokens(r) \/ RevokeTokens(r)
  \/ FindToken(r) \/ ReadSession(r) \/ Check(r) \/ Claim(r)
  \/ \E t \in Token : Rotate(r, t)
  \/ CloseStaff(r) \/ CloseSessions(r) \/ CloseTokens(r) \/ CommitClose(r) \/ Enable(r)

Next ==
  \/ \E r \in Req : Arrive(r) \/ Proceed(r) \/ Stop(r)
  \/ \E q, r \in Req : BreakDeadlock(q, r)
  \/ \E s \in Session : Lapse(s) \/ Prune(s)

Spec == Init /\ [][Next]_vars

-------------------------------------------------------------------------------
(* Properties *)

Request ==
  [kind : AllKinds \cup {None},
   pc : {"idle", "logout", "issue", "findSession", "findStaff", "recheck", "list",
         "revoke", "findTokens", "revokeTokens", "findToken", "readSession", "check",
         "claim", "rotate", "closeStaff", "closeSessions", "closeTokens", "closing", "enable"},
   staff : Staff \cup {None}, session : Session \cup {None}, token : Token \cup {None},
   todo : SUBSET Session, target : Session \cup {None}, snapshot : SUBSET Token,
   seen : BOOLEAN, known : SUBSET Session, late : BOOLEAN,
   answer : {"none", "ok", "refused", "replay", "failed"}]

\* Every table and every handler's locals stay within their types.
TypeOK ==
  /\ staff \in [Staff -> [active : BOOLEAN, deleted : BOOLEAN]]
  /\ session \in [Session -> [owner : Staff \cup {None}, revoked : BOOLEAN, lapsed : BOOLEAN,
                              aged : BOOLEAN, gone : BOOLEAN]]
  /\ token \in [Token -> [session : Session \cup {None}, consumed : BOOLEAN, revoked : BOOLEAN]]
  /\ req \in [Req -> Request]

Usable(t) == token[t].session # None /\ ~token[t].consumed /\ ~token[t].revoked

Current(s) ==
  IF session[s].owner = None THEN None
  ELSE IF session[s].revoked \/ session[s].gone THEN Closed
  ELSE CHOOSE t \in Token : Usable(t) /\ token[t].session = s

Chain == INSTANCE SessionChain WITH
           current <- [s \in Session |-> Current(s)],
           issued <- Token \ Unused

\* A session that is neither revoked nor pruned has exactly one token that can
\* be exchanged: rotation and revocation never leave it with two or with none.
OneUsableToken ==
  \A s \in Session : Live(s) =>
    \E t \in Token : \A u \in Token : (Usable(u) /\ token[u].session = s) <=> (u = t)

\* The rows by themselves.
RowsFit ==
  /\ \A t \in Token :
       /\ token[t].session = None => ~token[t].consumed /\ ~token[t].revoked
       /\ token[t].session # None => session[token[t].session].owner # None
  /\ \A s \in Session : session[s].owner = None => ~session[s].revoked /\ ~session[s].gone
  /\ OneUsableToken

\* What a request q knows of the session rows S and the token rows T while others
\* change them: whom it acts for, ...
Over(S, s) == S[s].revoked \/ S[s].gone
ActsFor(q, S, T) ==
  /\ q.kind \in Calling \cup {"refresh", "logout"} =>
       q.session \in Session /\ S[q.session].owner = q.staff /\ q.staff # None
  /\ q.kind \in Creating \cup Ending => q.staff \in Staff
  /\ q.kind = "refresh" => q.token \in Token /\ T[q.token].session = q.session
  /\ q.pc \in {"findToken", "readSession", "check", "claim", "rotate"} => q.kind = "refresh"
  /\ q.pc \in {"findSession", "findStaff", "recheck", "list"} =>
       q.kind \in Calling /\ q.token = None
  /\ q.pc \in {"recheck", "list"} => q.kind # "access"
  /\ q.pc = "issue" => q.kind \in Creating
  /\ q.pc = "logout" => q.kind = "logout"
  /\ q.pc = "enable" => q.kind \in Enabling
  /\ q.pc \in {"closeStaff", "closeSessions", "closeTokens", "closing"} => q.kind \in Ending

\* ... that it goes no further when it came too late, ...
StoppedIfLate(q, S) ==
  /\ q.kind \in Calling /\ q.late => q.pc = "findSession" /\ Over(S, q.session)
  /\ q.kind = "refresh" =>
       /\ q.pc = "findToken" /\ q.late => Over(S, q.session)
       /\ q.pc \in {"readSession", "check", "claim", "rotate"} => ~S[q.session].gone
       /\ q.pc \in {"readSession", "check"} /\ q.late => S[q.session].revoked
       /\ q.pc = "check" /\ q.late => q.seen
       /\ q.pc \in {"claim", "rotate"} => ~q.late

\* ... that the token it has claimed is usable, ...
HasClaim(q, T) ==
  q.pc = "rotate" => ~T[q.token].consumed /\ ~T[q.token].revoked

\* ... which sessions it still has to revoke and which it has revoked, ...
Revokes(q, S, T) ==
  q.pc \in {"revoke", "findTokens", "revokeTokens"} =>
    /\ q.kind \in {"refresh", "logout", "change", "others"}
    /\ q.todo # {} /\ \A s \in q.todo : S[s].owner # None
    /\ q.kind = "refresh" \/ (q.kind = "change" /\ q.token # None) => q.todo = {q.session}
    /\ q.pc # "revoke" => q.target \in q.todo /\ Over(S, q.target)
    /\ q.pc = "revokeTokens" => \A t \in q.snapshot : T[t].session = q.target
Knows(q, S) ==
  /\ q.known # {} =>
       /\ q.kind \in {"change", "others"}
       /\ q.pc \in {"issue", "revoke", "findTokens", "revokeTokens"}
  /\ \A s \in q.known :
       /\ S[s].owner # None /\ ~S[s].gone
       /\ S[s].revoked \/ s = q.session \/ (s \in q.todo /\ q.pc # "issue")
       /\ q.pc \in {"findTokens", "revokeTokens"} /\ s = q.target => S[s].revoked
  /\ q.kind = "change" /\ q.pc = "issue" => q.token = None

\* ... and that it has locked all that is open.
Closes(q, S, T) ==
  q.pc \in {"closeTokens", "closing"} =>
    /\ \A s \in q.todo : S[s].owner # None
    /\ \A s \in Session : S[s].owner = q.staff /\ ~Over(S, s) => s \in q.todo
    /\ q.pc = "closing" =>
         \A t \in q.snapshot :
            T[t].session \in Session /\ (T[t].session \in q.todo \/ Over(S, T[t].session))

Fits(q, S, T) ==
  q.pc # "idle" =>
    /\ ActsFor(q, S, T) /\ StoppedIfLate(q, S) /\ HasClaim(q, T)
    /\ Revokes(q, S, T) /\ Knows(q, S) /\ Closes(q, S, T)

\* A token is claimed by one rotation at a time.
ClaimsApart ==
  \A q, r \in Req : req[q].pc = "rotate" /\ HoldsToken(r, req[q].token) => q = r

\* What every handler has read still fits the tables when it goes on: the
\* inductive invariant of this module.
IInv ==
  /\ TypeOK
  /\ RowsFit /\ ClaimsApart
  /\ \A r \in Req : Fits(req[r], session, token)

\* The tables implement the chain of tokens that SessionChain describes: hand
\* over to a fresh token, or close for good.
ChainSpec == Chain!Spec

Answered(r, answer) ==
  req[r].pc # "idle" /\ req'[r].pc = "idle" /\ req'[r].answer = answer

\* A request that arrives after its session was revoked is never served,
\* neither a call nor a refresh, whatever was under way when it was revoked.
RevokedStaysOut ==
  [][\A r \in Req : Answered(r, "ok") /\ req[r].kind \in Calling \cup {"refresh"} =>
       ~req[r].late]_vars

\* Whatever ends sessions ends those there are: suspending or archiving an
\* account, setting its password or resetting its factors revokes every session
\* the account has at that moment; changing one's password those there were when
\* it began, its own included; ending the others all of those but its own.
EndingEndsAll ==
  [][\A r \in Req : Answered(r, "ok") =>
       /\ req[r].kind \in Ending => \A s \in SessionsOf(req[r].staff) : session'[s].revoked
       /\ req[r].kind \in {"change", "others"} =>
            \A s \in req[r].known : \/ req[r].kind = "others" /\ s = req[r].session
                                    \/ session'[s].revoked]_vars

\* A refresh answered as a replay, because its token was used before or by
\* somebody at the same time, leaves the session over and none of the tokens it
\* had when it was closed usable.
ReplayCloses ==
  [][\A r \in Req : Answered(r, "replay") =>
       /\ \A s \in Session : s = req[r].session => ~Live(s)'
       /\ \A t \in req[r].snapshot : ~Usable(t)']_vars
================================================================================
