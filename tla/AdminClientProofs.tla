--------------------------- MODULE AdminClientProofs ---------------------------
(***************************************************************************)
(* For any number of tabs, calls and tokens: with Web Locks the tabs of a  *)
(* browser never lose their session to each other.                         *)
(***************************************************************************)
EXTENDS AdminClient, TLAPS

USE DEF Undisturbed

RefreshRecord ==
  [pc : {"none", "acquire", "write", "verify", "state", "rotate", "answer", "release"},
   token : Token \cup {None}, result : BOOLEAN]

\* Where a tab goes next, given that it goes somewhere.
LEMMA AfterGoto ==
  ASSUME refresh \in [Tab -> RefreshRecord], NEW b \in Tab,
         NEW pc \in {"none", "acquire", "write", "verify", "state", "rotate", "answer", "release"},
         Goto(b, pc)
  PROVE  /\ refresh' \in [Tab -> RefreshRecord]
         /\ refresh'[b] = [refresh[b] EXCEPT !.pc = pc]
         /\ refresh'[b].pc = pc /\ refresh'[b].result = refresh[b].result
         /\ \A d \in Tab : d # b => refresh'[d] = refresh[d]
BY DEF Goto, RefreshRecord

LEMMA AfterFinish ==
  ASSUME refresh \in [Tab -> RefreshRecord], NEW b \in Tab, NEW result \in BOOLEAN,
         Finish(b, result)
  PROVE  /\ refresh' \in [Tab -> RefreshRecord]
         /\ refresh'[b].pc = "release" /\ refresh'[b].result = result
         /\ \A d \in Tab : d # b => refresh'[d] = refresh[d]
BY DEF Finish, RefreshRecord

LEMMA AtRestType == AtRest \in RefreshRecord /\ AtRest.pc = "none"
BY DEF AtRest, RefreshRecord

LEMMA Types == TypeOK <=>
  /\ current \in [{Theirs} -> Token \cup {None, Closed}] /\ issued \subseteq Token
  /\ mode \in Modes
  /\ jar \in [refresh : Token \cup {None}, access : {"valid", "expired", "none"}]
  /\ lock \in Tab \cup {None}
  /\ lease \in [owner : Tab \cup {None}, over : BOOLEAN]
  /\ refresh \in [Tab -> RefreshRecord]
  /\ expired \subseteq Tab
  /\ call \in [Call -> {"idle", "waiting", "served", "rejected", "refreshing", "resend",
                        "expired"}]
  /\ faults \subseteq Faults
BY DEF TypeOK, Chain!TypeOK, RefreshRecord

-------------------------------------------------------------------------------
(* One step keeps the invariant *)

CallPcs == {"idle", "waiting", "served", "rejected", "refreshing", "resend", "expired"}

\* One call has moved, not to be sent again, and to its end only if it may.
LEMMA CallsMove ==
  ASSUME IInv, NEW c \in Call, NEW pc \in CallPcs \ {"resend"}, Settle(c, pc),
         pc = "expired" => expired # {} \/ ~Undisturbed,
         UNCHANGED <<server, mode, jar, lock, lease, refresh, expired, faults>>
  PROVE  IInv'
<1>1. call \in [Call -> CallPcs] /\ call' \in [Call -> CallPcs]
  BY Types DEF IInv, Settle, CallPcs
<1>2. TypeOK'
  BY <1>1, Types DEF IInv, server, TypeOK, Chain!TypeOK, CallPcs
<1>3. (Serialized /\ CookieCurrent)'
  BY DEF IInv, Serialized, CookieCurrent, At, server
<1>4. RefreshHelps'
  BY <1>1 DEF IInv, RefreshHelps, At, Settle, server
<1>5. SessionSurvives'
  BY <1>1 DEF IInv, SessionSurvives, Over, Settle, server
<1> QED
  BY <1>2, <1>3, <1>4, <1>5 DEF IInv

LEMMA BeginKeeps == ASSUME IInv, NEW c \in Call, Begin(c) PROVE IInv'
<1>1. CASE TabOf[c] \in expired
  BY <1>1, CallsMove DEF Begin, CallPcs
<1>2. CASE TabOf[c] \notin expired
  BY <1>2, CallsMove DEF Begin, CallPcs
<1> QED
  BY <1>1, <1>2

LEMMA SendKeeps == ASSUME IInv, NEW c \in Call, Send(c) PROVE IInv'
<1>1. CASE Authenticated
  BY <1>1, CallsMove DEF Send, CallPcs
<1>2. CASE ~Authenticated
  BY <1>2, CallsMove DEF Send, CallPcs
<1> QED
  BY <1>1, <1>2

LEMMA AgainKeeps == ASSUME IInv, NEW c \in Call, Again(c) PROVE IInv'
BY CallsMove DEF Again, CallPcs

\* Only where the tab stands has changed, and it does not stand at an end.
LEMMA TabMoves ==
  ASSUME IInv, NEW b \in Tab, refresh' \in [Tab -> RefreshRecord],
         \A d \in Tab : d # b => refresh'[d] = refresh[d],
         refresh[b].pc # "answer", refresh'[b].pc \notin {"answer", "release"},
         mode = "locks" => /\ refresh'[b].pc \notin {"write", "verify"}
                           /\ refresh'[b].pc \notin {"none", "acquire"} => lock' = b,
         mode = "locks" => lock' = lock \/ lock = None,
         lock' \in Tab \cup {None},
         lease' \in [owner : Tab \cup {None}, over : BOOLEAN],
         faults' \subseteq Faults, faults \subseteq faults',
         UNCHANGED <<server, mode, jar, expired>>,
         call' \in [Call -> CallPcs],
         \A c \in Call : call'[c] \in {"resend", "expired"} => call'[c] = call[c]
  PROVE  IInv'
<1>1. TypeOK'
  BY Types DEF IInv, server, TypeOK, Chain!TypeOK, CallPcs, RefreshRecord
<1>2. Serialized'
  BY AdminClientAssumption DEF IInv, Serialized, At, server
<1>3. CookieCurrent'
  BY DEF IInv, CookieCurrent, At, server
<1>4. RefreshHelps'
  BY DEF IInv, RefreshHelps, At, server
<1>5. SessionSurvives'
  BY DEF IInv, SessionSurvives, Over, server
<1> QED
  BY <1>1, <1>2, <1>3, <1>4, <1>5 DEF IInv

LEMMA RejectKeeps == ASSUME IInv, NEW c \in Call, Reject(c) PROVE IInv'
<1> DEFINE b == TabOf[c]
<1>0. b \in Tab
  BY AdminClientAssumption
<1>1. call' \in [Call -> CallPcs] /\ \A d \in Call : call'[d] \in {"resend", "expired"} => call'[d] = call[d]
  BY Types DEF Reject, Settle, IInv, CallPcs
<1>2. refresh' \in [Tab -> RefreshRecord] /\ \A d \in Tab : d # b => refresh'[d] = refresh[d]
  BY <1>0, Types, AtRestType DEF Reject, IInv, RefreshRecord
<1>3. CASE refresh[b].pc = "none"
  <2>1. refresh'[b].pc = "acquire"
    BY <1>0, <1>3, Types, AtRestType DEF Reject, IInv, RefreshRecord
  <2> QED
    BY <1>0, <1>1, <1>2, <1>3, <2>1, TabMoves, Types DEF Reject, IInv, server
<1>4. CASE refresh[b].pc # "none"
  BY <1>4, CallsMove DEF Reject, CallPcs
<1> QED
  BY <1>3, <1>4

LEMMA ResendKeeps == ASSUME IInv, NEW c \in Call, Resend(c) PROVE IInv'
<1>1. CASE Authenticated
  BY <1>1, CallsMove DEF Resend, CallPcs
<1>2. CASE ~Authenticated
  <2>1. ~Undisturbed
    BY <1>2 DEF Resend, IInv, RefreshHelps, Authenticated, SessionSurvives
  <2>2. TypeOK'
    <3>1. TabOf[c] \in Tab /\ expired' \subseteq Tab
      BY <1>2, Types, AdminClientAssumption DEF Resend, IInv
    <3>2. call' \in [Call -> CallPcs]
      BY <1>2, Types DEF Resend, Settle, IInv, CallPcs
    <3> QED
      BY <1>2, <3>1, <3>2, Types DEF Resend, IInv, server, TypeOK, Chain!TypeOK, CallPcs
  <2>3. Serialized'
    BY DEF Resend, IInv, Serialized, At, server
  <2> QED
    BY <2>1, <2>2, <2>3 DEF Resend, IInv, CookieCurrent, RefreshHelps, SessionSurvives
<1> QED
  BY <1>1, <1>2

LEMMA LockKeeps ==
  ASSUME IInv, NEW b \in Tab,
         \/ AcquireLock(b) \/ SeeLease(b) \/ WriteLease(b) \/ VerifyLease(b)
         \/ Unserialized(b)
  PROVE  IInv'
<1> USE Types DEF IInv, server
<1>1. call \in [Call -> CallPcs]
  BY DEF CallPcs
<1>2. CASE AcquireLock(b)
  <2>1. Goto(b, "state") /\ refresh[b].pc = "acquire"
    BY <1>2 DEF AcquireLock, At
  <2> QED
    BY <1>1, <1>2, <2>1, AfterGoto, TabMoves DEF AcquireLock
<1>3. CASE SeeLease(b)
  <2>1. Goto(b, "write") /\ refresh[b].pc = "acquire" /\ mode = "lease"
    BY <1>3 DEF SeeLease, At
  <2> QED
    BY <1>1, <1>3, <2>1, AfterGoto, TabMoves DEF SeeLease
<1>4. CASE WriteLease(b)
  <2>1. Goto(b, "verify") /\ refresh[b].pc = "write" /\ mode # "locks"
    BY <1>4 DEF WriteLease, At, Serialized
  <2>2. lease' \in [owner : Tab \cup {None}, over : BOOLEAN]
    BY <1>4 DEF WriteLease
  <2> QED
    BY <1>1, <1>4, <2>1, <2>2, AfterGoto, TabMoves DEF WriteLease
<1>5. CASE VerifyLease(b)
  <2>1. refresh[b].pc = "verify" /\ mode # "locks" /\ (Goto(b, "state") \/ Goto(b, "acquire"))
    BY <1>5 DEF VerifyLease, At, Serialized
  <2> QED
    BY <1>1, <1>5, <2>1, AfterGoto, TabMoves DEF VerifyLease
<1>6. CASE Unserialized(b)
  <2>1. Goto(b, "state") /\ refresh[b].pc = "acquire" /\ mode = "none"
    BY <1>6 DEF Unserialized, At
  <2> QED
    BY <1>1, <1>6, <2>1, AfterGoto, TabMoves DEF Unserialized
<1> QED
  BY <1>2, <1>3, <1>4, <1>5, <1>6

\* The lock makes the tab the only one past asking for it.
LEMMA Alone ==
  ASSUME IInv, NEW b \in Tab, refresh[b].pc \notin {"none", "acquire"}, mode = "locks"
  PROVE  \A d \in Tab : d # b => refresh[d].pc \in {"none", "acquire"}
BY DEF IInv, Serialized

LEMMA ReadStateKeeps == ASSUME IInv, NEW b \in Tab, ReadState(b) PROVE IInv'
<1> USE Types DEF IInv, server
<1>1. call \in [Call -> CallPcs]
  BY DEF CallPcs
<1>2. CASE ~Authenticated
  <2>1. Goto(b, "rotate") /\ refresh[b].pc = "state" /\ (mode = "locks" => lock = b)
    BY <1>2 DEF ReadState, At, Serialized
  <2> QED
    BY <1>1, <2>1, AfterGoto, TabMoves DEF ReadState
<1>3. CASE Authenticated
  <2>1. Finish(b, TRUE) /\ refresh[b].pc = "state"
    BY <1>3 DEF ReadState, At
  <2>2. /\ refresh' \in [Tab -> RefreshRecord]
        /\ refresh'[b].pc = "release" /\ refresh'[b].result = TRUE
        /\ \A d \in Tab : d # b => refresh'[d] = refresh[d]
    BY <2>1, AfterFinish
  <2>3. TypeOK'
    BY <2>2 DEF ReadState, TypeOK, Chain!TypeOK, RefreshRecord
  <2>4. Serialized'
    BY <2>1, <2>2 DEF ReadState, Serialized, At
  <2>5. CookieCurrent'
    BY <2>1, <2>2 DEF ReadState, CookieCurrent, At
  <2>6. RefreshHelps'
    BY <1>3, <2>2 DEF ReadState, RefreshHelps, At, Authenticated
  <2>7. SessionSurvives'
    BY DEF ReadState, SessionSurvives, Over
  <2> QED
    BY <2>3, <2>4, <2>5, <2>6, <2>7
<1> QED
  BY <1>2, <1>3

LEMMA RotateKeeps == ASSUME IInv, NEW b \in Tab, Rotate(b) PROVE IInv'
<1> USE Types DEF IInv, server
<1>1. At(b, "rotate") /\ UNCHANGED <<mode, jar, lock, lease, expired, call, faults>>
  BY DEF Rotate
<1>2. /\ refresh' \in [Tab -> RefreshRecord] /\ refresh'[b].pc = "answer"
      /\ \A d \in Tab : d # b => refresh'[d] = refresh[d]
      /\ current' \in [{Theirs} -> Token \cup {None, Closed}] /\ issued' \subseteq Token
  <2>1. CASE \E t \in Token : Chain!Rotate(Theirs, t) /\ refresh' = [refresh EXCEPT ![b] = [pc |-> "answer", token |-> t, result |-> TRUE]]
    BY <2>1 DEF Chain!Rotate, RefreshRecord
  <2>2. CASE Chain!Close({Theirs}) /\ Goto(b, "answer")
    BY <2>2, AfterGoto DEF Chain!Close
  <2>3. CASE Goto(b, "answer") /\ UNCHANGED server
    BY <2>3, AfterGoto
  <2> QED
    BY <2>1, <2>2, <2>3 DEF Rotate
<1>3. ASSUME Undisturbed
      PROVE  /\ current'[Theirs] \in Token /\ refresh'[b].result
             /\ refresh'[b].token = current'[Theirs]
  <2>1. \A d \in Tab : ~At(d, "answer")
    BY <1>1, <1>3, Alone DEF At
  <2>2. jar.refresh = current[Theirs] /\ current[Theirs] \in Token
    BY <1>3, <2>1 DEF CookieCurrent
  <2>3. PICK t \in Token : /\ Chain!Rotate(Theirs, t)
                           /\ refresh' = [refresh EXCEPT ![b] = [pc |-> "answer", token |-> t, result |-> TRUE]]
    BY <2>2, AdminClientAssumption DEF Rotate
  <2> QED
    BY <2>3 DEF Chain!Rotate, RefreshRecord
<1>4. TypeOK'
  BY <1>1, <1>2 DEF TypeOK, Chain!TypeOK, RefreshRecord
<1>5. Serialized'
  BY <1>1, <1>2 DEF Serialized, At
<1>6. CookieCurrent'
  BY <1>1, <1>2, <1>3, Alone DEF CookieCurrent, At
<1>7. RefreshHelps'
  BY <1>1, <1>2 DEF RefreshHelps, At
<1>8. SessionSurvives'
  BY <1>1, <1>3, AdminClientAssumption DEF SessionSurvives, Over
<1> QED
  BY <1>4, <1>5, <1>6, <1>7, <1>8

LEMMA AnswerKeeps == ASSUME IInv, NEW b \in Tab, Answer(b) PROVE IInv'
<1> USE Types DEF IInv, server
<1>1. refresh[b] \in RefreshRecord /\ refresh[b].result \in BOOLEAN
  BY DEF RefreshRecord
<1>2. /\ refresh' \in [Tab -> RefreshRecord]
      /\ refresh'[b].pc = "release" /\ refresh'[b].result = refresh[b].result
      /\ \A d \in Tab : d # b => refresh'[d] = refresh[d]
  BY <1>1, AfterFinish DEF Answer
<1>3. jar' \in [refresh : Token \cup {None}, access : {"valid", "expired", "none"}]
  BY <1>1 DEF Answer, RefreshRecord
<1>4. TypeOK'
  BY <1>2, <1>3 DEF Answer, TypeOK, Chain!TypeOK, RefreshRecord
<1>5. Serialized'
  BY <1>2 DEF Answer, Serialized, At
<1>6. ASSUME Undisturbed
      PROVE  /\ refresh[b].result
             /\ jar' = [refresh |-> current[Theirs], access |-> "valid"]
  BY <1>6 DEF Answer, CookieCurrent, At
<1>7. CookieCurrent'
  BY <1>2, <1>6, Alone DEF Answer, CookieCurrent, At
<1>8. RefreshHelps'
  BY <1>2, <1>6 DEF Answer, RefreshHelps, At
<1>9. SessionSurvives'
  BY DEF Answer, SessionSurvives, Over
<1> QED
  BY <1>4, <1>5, <1>7, <1>8, <1>9

LEMMA ReleaseKeeps == ASSUME IInv, NEW b \in Tab, Release(b) PROVE IInv'
<1> USE Types DEF IInv, server
<1>1. /\ refresh' \in [Tab -> RefreshRecord] /\ refresh'[b].pc = "none"
      /\ \A d \in Tab : d # b => refresh'[d] = refresh[d]
  BY AtRestType DEF Release
<1>2. call' \in [Call -> CallPcs]
  BY DEF Release, CallPcs
<1>3. lock' \in Tab \cup {None} /\ lease' \in [owner : Tab \cup {None}, over : BOOLEAN]
  BY DEF Release, NoLease
<1>4. TypeOK'
  BY <1>1, <1>2, <1>3 DEF Release, TypeOK, Chain!TypeOK, RefreshRecord, CallPcs
<1>5. Serialized'
  BY <1>1, Alone DEF Release, Serialized, At
<1>6. CookieCurrent'
  BY <1>1 DEF Release, CookieCurrent, At
<1>7. ASSUME Undisturbed
      PROVE  /\ jar.access = "valid" /\ expired' = expired
             /\ \A c \in Call : call'[c] = "expired" => call[c] = "expired"
  <2>1. refresh[b].result /\ jar.access = "valid"
    BY <1>7 DEF Release, RefreshHelps
  <2> QED
    BY <2>1 DEF Release
<1>8. RefreshHelps'
  BY <1>1, <1>7 DEF Release, RefreshHelps, At
<1>9. SessionSurvives'
  BY <1>7 DEF Release, SessionSurvives, Over
<1> QED
  BY <1>4, <1>5, <1>6, <1>8, <1>9

LEMMA ExpiryKeeps == ASSUME IInv, ExpireAccess \/ ExpireLease PROVE IInv'
<1> USE Types DEF IInv, server
<1>1. CASE ExpireAccess
  <2>1. jar' = [jar EXCEPT !.access = "expired"] /\ jar'.refresh = jar.refresh
    BY <1>1 DEF ExpireAccess
  <2>2. /\ UNCHANGED <<server, mode, lock, lease, refresh, expired, call, faults>>
        /\ \A b \in Tab : refresh[b].pc = "none"
        /\ \A c \in Call : call[c] # "resend"
    BY <1>1 DEF ExpireAccess, Refreshing
  <2>3. TypeOK'
    BY <2>1, <2>2 DEF TypeOK, Chain!TypeOK
  <2> QED
    BY <2>1, <2>2, <2>3
    DEF Serialized, CookieCurrent, RefreshHelps, SessionSurvives, Over, At
<1>2. CASE ExpireLease
  <2>1. /\ UNCHANGED <<server, mode, jar, lock, refresh, expired, call, faults>>
        /\ lease' \in [owner : Tab \cup {None}, over : BOOLEAN]
    BY <1>2 DEF ExpireLease
  <2>2. TypeOK'
    BY <2>1 DEF TypeOK, Chain!TypeOK
  <2> QED
    BY <2>1, <2>2 DEF Serialized, CookieCurrent, RefreshHelps, SessionSurvives, Over, At
<1> QED
  BY <1>1, <1>2

LEMMA AfterMay ==
  ASSUME faults \subseteq Faults, NEW fault, May(fault)
  PROVE  faults' \subseteq Faults /\ faults \subseteq faults' /\ fault \in faults'
BY DEF May

\* A tab that cannot read the state rotates; it holds the lock.
LEMMA UnreadKeeps == ASSUME IInv, NEW b \in Tab, UnreadState(b) PROVE IInv'
<1> USE Types DEF IInv, server
<1>1. call \in [Call -> CallPcs]
  BY DEF CallPcs
<1>2. Goto(b, "rotate") /\ refresh[b].pc = "state" /\ (mode = "locks" => lock = b)
  BY DEF UnreadState, At, Serialized
<1>3. faults' \subseteq Faults /\ faults \subseteq faults'
  BY AfterMay DEF UnreadState
<1> QED
  BY <1>1, <1>2, <1>3, AfterGoto, TabMoves DEF UnreadState

\* After any other fault only the types and the lock matter.
LEMMA FaultKeeps ==
  ASSUME IInv, NEW b \in Tab, LoseAnswer(b) \/ CloseTab(b)
  PROVE  IInv'
<1> USE Types DEF IInv, server
<1>1. faults' \subseteq Faults /\ ~(faults' \subseteq {"unread"})
  <2>1. May("lose") \/ May("close")
    BY DEF LoseAnswer, CloseTab
  <2> QED
    BY <2>1, AfterMay
<1>2. CASE LoseAnswer(b)
  <2>1. /\ refresh' \in [Tab -> RefreshRecord] /\ refresh'[b].pc = "release"
        /\ \A d \in Tab : d # b => refresh'[d] = refresh[d]
    BY <1>2, AfterFinish DEF LoseAnswer
  <2>2. TypeOK'
    BY <1>1, <1>2, <2>1 DEF LoseAnswer, TypeOK, Chain!TypeOK, RefreshRecord
  <2>3. Serialized'
    BY <1>2, <2>1 DEF LoseAnswer, Serialized, At
  <2> QED
    BY <1>1, <2>2, <2>3 DEF CookieCurrent, RefreshHelps, SessionSurvives
<1>3. CASE CloseTab(b)
  <2>1. /\ refresh' \in [Tab -> RefreshRecord] /\ refresh'[b].pc = "none"
        /\ \A d \in Tab : d # b => refresh'[d] = refresh[d]
    BY <1>3, AtRestType DEF CloseTab
  <2>2. TypeOK'
    BY <1>1, <1>3, <2>1 DEF CloseTab, TypeOK, Chain!TypeOK, RefreshRecord
  <2>3. Serialized'
    BY <1>3, <2>1 DEF CloseTab, Serialized, At
  <2> QED
    BY <1>1, <2>2, <2>3 DEF CookieCurrent, RefreshHelps, SessionSurvives
<1> QED
  BY <1>2, <1>3

LEMMA RevokeKeeps == ASSUME IInv, Revoke PROVE IInv'
<1> USE Types DEF IInv, server
<1>1. faults' \subseteq Faults /\ ~(faults' \subseteq {"unread"})
  BY AfterMay DEF Revoke
<1>2. TypeOK'
  BY <1>1 DEF Revoke, Chain!Close, TypeOK, Chain!TypeOK, RefreshRecord
<1>3. Serialized'
  BY DEF Revoke, Serialized, At
<1> QED
  BY <1>1, <1>2, <1>3 DEF CookieCurrent, RefreshHelps, SessionSurvives

-------------------------------------------------------------------------------
LEMMA InitKeeps == Init => IInv
<1> SUFFICES ASSUME Init PROVE IInv
  OBVIOUS
<1>1. TypeOK
  BY Types, AtRestType, AdminClientAssumption DEF Init, NoLease
<1>2. current[Theirs] = First
  BY DEF Init
<1>3. \A b \in Tab : refresh[b].pc = "none"
  BY AtRestType DEF Init
<1> QED
  BY <1>1, <1>2, <1>3, AdminClientAssumption
  DEF Init, IInv, Serialized, CookieCurrent, RefreshHelps, SessionSurvives, Over, At

LEMMA NextKeeps == IInv /\ [Next]_vars => IInv'
<1> SUFFICES ASSUME IInv, [Next]_vars PROVE IInv'
  OBVIOUS
<1>1. CASE \E c \in Call : Begin(c) \/ CallStep(c) \/ Again(c)
  BY <1>1, BeginKeeps, SendKeeps, RejectKeeps, ResendKeeps, AgainKeeps DEF CallStep
<1>2. CASE \E b \in Tab : RefreshStep(b)
  BY <1>2, LockKeeps, ReadStateKeeps, RotateKeeps, AnswerKeeps, ReleaseKeeps DEF RefreshStep
<1>3. CASE \E b \in Tab : LoseAnswer(b) \/ CloseTab(b)
  BY <1>3, FaultKeeps
<1>4. CASE \E b \in Tab : UnreadState(b)
  BY <1>4, UnreadKeeps
<1>5. CASE ExpireAccess \/ ExpireLease
  BY <1>5, ExpiryKeeps
<1>6. CASE Revoke
  BY <1>6, RevokeKeeps
<1>7. CASE UNCHANGED vars
  BY <1>7 DEF IInv, vars, server, TypeOK, Chain!TypeOK, Serialized, CookieCurrent, RefreshHelps,
              SessionSurvives, Over, At
<1> QED
  BY <1>1, <1>2, <1>3, <1>4, <1>5, <1>6, <1>7 DEF Next

\* Who holds the lock, what the cookie is worth and what a refresh has brought
\* stay related as IInv says, whatever the tabs do.
THEOREM Invariant == Spec => []IInv
BY InitKeeps, NextKeeps, PTL DEF Spec

\* With Web Locks a session that nobody ends, whose answers arrive and whose tabs
\* stay open goes on, and no call is told that it has expired: for any number of
\* tabs, calls and refreshes.
THEOREM SessionsSurvive == Spec => []SessionSurvives
BY Invariant, PTL DEF IInv
================================================================================
