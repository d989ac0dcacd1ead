------------------------------ MODULE AdminClient ------------------------------
(***************************************************************************)
(* The admin application's API client (apps/admin/src/lib/api/client.ts):  *)
(* the tabs of one browser share the cookies of one session and try to     *)
(* refresh it once.  The API server is the abstract SessionChain, which    *)
(* Sessions implements: the token that continues the session is exchanged  *)
(* for the next one, any other closes the session.                         *)
(*                                                                         *)
(* A tab is one client with one shared refreshRequest; its calls are the   *)
(* requests of its pages.  A request to the server is one step and its     *)
(* answer another, so that answers arrive late.  CSRF tokens and bodies    *)
(* are left out.                                                           *)
(*                                                                         *)
(* Definitions whose names begin with Wrong are not part of the model:     *)
(* each is a plausible mistake that a property below must find.            *)
(***************************************************************************)
EXTENDS Naturals, FiniteSets

CONSTANTS
  Tab, Call,
  TabOf,      \* the tab each call belongs to
  Token,      \* refresh tokens (a bound on the number of refreshes)
  First,      \* the token of the login
  None, Closed,
  Modes,      \* subset of {"locks", "lease", "none"}: Web Locks, else localStorage, or neither
  Faults      \* subset of AllFaults: what else may happen, once each

AllFaults == {"unread", "lose", "close", "revoke"}

ASSUME AdminClientAssumption ==
  /\ TabOf \in [Call -> Tab]
  /\ First \in Token
  /\ None \notin Token \cup Tab /\ Closed \notin Token \cup {None}
  /\ Modes \subseteq {"locks", "lease", "none"}
  /\ Faults \subseteq AllFaults

VARIABLES
  current, issued,  \* the server, as SessionChain has it
  mode,             \* what refreshes are serialized with
  jar,              \* the cookies: refresh token, and state of the access token
  lock,             \* the tab holding the Web Lock
  lease,            \* the record in localStorage
  refresh,          \* each tab's refreshRequest: where it is, and what it has received
  expired,          \* the tabs whose sessionExpiryHandled is set
  call,             \* where each call is
  faults            \* the faults there have been

server == <<current, issued>>
vars == <<current, issued, mode, jar, lock, lease, refresh, expired, call, faults>>

Theirs == "session"    \* the one session of this browser
Chain == INSTANCE SessionChain WITH Session <- {Theirs}

NoLease == [owner |-> None, over |-> FALSE]
AtRest == [pc |-> "none", token |-> None, result |-> FALSE]

Init ==
  /\ current = [s \in {Theirs} |-> First]
  /\ issued = {First}
  /\ mode \in Modes
  /\ jar = [refresh |-> First, access |-> "expired"]
  /\ lock = None
  /\ lease = NoLease
  /\ refresh = [b \in Tab |-> AtRest]
  /\ expired = {}
  /\ call = [c \in Call |-> "idle"]
  /\ faults = {}

Over == current[Theirs] = Closed
Authenticated == jar.access = "valid" /\ ~Over

-------------------------------------------------------------------------------
(* request: wait for the tab's refresh, send, on 401 refresh and send again *)

Settle(c, pc) == call' = [call EXCEPT ![c] = pc]

Begin(c) ==
  /\ call[c] = "idle"
  /\ IF TabOf[c] \in expired THEN Settle(c, "expired") ELSE Settle(c, "waiting")
  /\ UNCHANGED <<server, mode, jar, lock, lease, refresh, expired, faults>>

\* The server answers with the cookies of this moment.
Send(c) ==
  /\ call[c] = "waiting"
  /\ refresh[TabOf[c]].pc = "none"
  /\ Settle(c, IF Authenticated THEN "served" ELSE "rejected")
  /\ UNCHANGED <<server, mode, jar, lock, lease, refresh, expired, faults>>

\* Mutant: every 401 starts a refresh of its own, also beside one under way.
WrongReject(c) ==
  /\ call[c] = "rejected"
  /\ Settle(c, "refreshing")
  /\ refresh' = [refresh EXCEPT ![TabOf[c]] = [AtRest EXCEPT !.pc = "acquire"]]
  /\ UNCHANGED <<server, mode, jar, lock, lease, expired, faults>>

\* 401: refreshSession starts a refresh or joins the one of the tab.
Reject(c) ==
  LET b == TabOf[c]
  IN  /\ call[c] = "rejected"
      /\ Settle(c, "refreshing")
      /\ refresh' = IF refresh[b].pc = "none"
                      THEN [refresh EXCEPT ![b] = [AtRest EXCEPT !.pc = "acquire"]]
                      ELSE refresh
      /\ UNCHANGED <<server, mode, jar, lock, lease, expired, faults>>

Resend(c) ==
  /\ call[c] = "resend"
  /\ IF Authenticated
       THEN Settle(c, "served") /\ UNCHANGED expired
       ELSE Settle(c, "expired") /\ expired' = expired \cup {TabOf[c]}
  /\ UNCHANGED <<server, mode, jar, lock, lease, refresh, faults>>

-------------------------------------------------------------------------------
(* refreshSession of one tab *)

At(b, pc) == refresh[b].pc = pc
Goto(b, pc) == refresh' = [refresh EXCEPT ![b].pc = pc]

\* Mutant: the lock is only asked for, not waited for.
WrongAcquireLock(b) ==
  /\ mode = "locks" /\ At(b, "acquire")
  /\ lock' = b
  /\ Goto(b, "state")
  /\ UNCHANGED <<server, mode, jar, lease, expired, call, faults>>

\* navigator.locks.request
AcquireLock(b) ==
  /\ mode = "locks" /\ At(b, "acquire") /\ lock = None
  /\ lock' = b
  /\ Goto(b, "state")
  /\ UNCHANGED <<server, mode, jar, lease, expired, call, faults>>

\* Mutant: a lease that has run out is respected for ever.
WrongSeeLease(b) ==
  /\ mode = "lease" /\ At(b, "acquire")
  /\ lease.owner = None
  /\ Goto(b, "write")
  /\ UNCHANGED <<server, mode, jar, lock, lease, expired, call, faults>>

\* waitForStorageLease: look, write, look again; each is one access to storage.
SeeLease(b) ==
  /\ mode = "lease" /\ At(b, "acquire")
  /\ lease.owner = None \/ lease.over
  /\ Goto(b, "write")
  /\ UNCHANGED <<server, mode, jar, lock, lease, expired, call, faults>>

WriteLease(b) ==
  /\ At(b, "write")
  /\ lease' = [owner |-> b, over |-> FALSE]
  /\ Goto(b, "verify")
  /\ UNCHANGED <<server, mode, jar, lock, expired, call, faults>>

VerifyLease(b) ==
  /\ At(b, "verify")
  /\ Goto(b, IF lease.owner = b THEN "state" ELSE "acquire")
  /\ UNCHANGED <<server, mode, jar, lock, lease, expired, call, faults>>

\* Without localStorage, or when it throws, nothing is waited for.
Unserialized(b) ==
  /\ mode = "none" /\ At(b, "acquire")
  /\ Goto(b, "state")
  /\ UNCHANGED <<server, mode, jar, lock, lease, expired, call, faults>>

Finish(b, result) ==
  refresh' = [refresh EXCEPT ![b] = [pc |-> "release", token |-> None, result |-> result]]

\* readAuthState: another tab may have refreshed the session by now.
ReadState(b) ==
  /\ At(b, "state")
  /\ IF Authenticated THEN Finish(b, TRUE) ELSE Goto(b, "rotate")
  /\ UNCHANGED <<server, mode, jar, lock, lease, expired, call, faults>>

\* rotateSession: the server exchanges the token it expects, and closes the
\* session for any other.
Rotate(b) ==
  /\ At(b, "rotate")
  /\ \/ /\ jar.refresh # None /\ current[Theirs] = jar.refresh
        /\ \E t \in Token :
              /\ Chain!Rotate(Theirs, t)
              /\ refresh' = [refresh EXCEPT ![b] = [pc |-> "answer", token |-> t, result |-> TRUE]]
     \/ /\ jar.refresh # None /\ current[Theirs] # jar.refresh
        /\ Chain!Close({Theirs})
        /\ Goto(b, "answer")
     \/ /\ jar.refresh = None
        /\ Goto(b, "answer")
        /\ UNCHANGED server
  /\ UNCHANGED <<mode, jar, lock, lease, expired, call, faults>>

\* The answer stores the new cookies, or clears them.
Answer(b) ==
  /\ At(b, "answer")
  /\ jar' = IF refresh[b].result THEN [refresh |-> refresh[b].token, access |-> "valid"]
            ELSE [refresh |-> None, access |-> "none"]
  /\ Finish(b, refresh[b].result)
  /\ UNCHANGED <<server, mode, lock, lease, expired, call, faults>>

\* The calls that share the refresh go on; without success they report the end
\* of the session, once per tab.
Release(b) ==
  LET joined == {c \in Call : TabOf[c] = b /\ call[c] = "refreshing"}
  IN  /\ At(b, "release")
      /\ lock' = IF lock = b THEN None ELSE lock
      /\ lease' = IF lease.owner = b THEN NoLease ELSE lease
      /\ call' = [c \in Call |-> IF c \notin joined THEN call[c]
                                 ELSE IF refresh[b].result THEN "resend" ELSE "expired"]
      /\ expired' = IF joined # {} /\ ~refresh[b].result THEN expired \cup {b} ELSE expired
      /\ refresh' = [refresh EXCEPT ![b] = AtRest]
      /\ UNCHANGED <<server, mode, jar, faults>>

-------------------------------------------------------------------------------
(* Around the clients *)

Refreshing == {b \in Tab : refresh[b].pc # "none"}
Spare == Cardinality(Token \ issued) >= Cardinality(Tab)  \* every tab may refresh once more

\* The access token expires between two uses; it outlives a refresh and the
\* retry that follows it.
ExpireAccess ==
  /\ jar.access = "valid" /\ Spare
  /\ Refreshing = {} /\ \A c \in Call : call[c] # "resend"
  /\ jar' = [jar EXCEPT !.access = "expired"]
  /\ UNCHANGED <<server, mode, lock, lease, refresh, expired, call, faults>>

\* Ten seconds pass: longer than the consecutive statements that take the lease,
\* perhaps not as long as a refresh.
ExpireLease ==
  /\ lease.owner # None /\ ~lease.over
  /\ \A b \in Tab : ~At(b, "write") /\ ~At(b, "verify")
  /\ lease' = [lease EXCEPT !.over = TRUE]
  /\ UNCHANGED <<server, mode, jar, lock, refresh, expired, call, faults>>

\* A page asks again for what it shows.
Again(c) ==
  /\ call[c] = "served" /\ Spare
  /\ Settle(c, "idle")
  /\ UNCHANGED <<server, mode, jar, lock, lease, refresh, expired, faults>>

May(fault) == fault \in Faults \ faults /\ faults' = faults \cup {fault}

\* readAuthState fails, and the tab rotates although the session is authenticated.
UnreadState(b) ==
  /\ May("unread") /\ Spare
  /\ At(b, "state") /\ Authenticated
  /\ Goto(b, "rotate")
  /\ UNCHANGED <<server, mode, jar, lock, lease, expired, call>>

\* The answer to a refresh is lost: fetch rejects.
LoseAnswer(b) ==
  /\ May("lose")
  /\ At(b, "answer")
  /\ Finish(b, FALSE)
  /\ UNCHANGED <<server, mode, jar, lock, lease, expired, call>>

\* The tab is closed: the browser frees its Web Lock, its lease stays behind.
CloseTab(b) ==
  /\ May("close")
  /\ b \in Refreshing
  /\ refresh' = [refresh EXCEPT ![b] = AtRest]
  /\ lock' = IF lock = b THEN None ELSE lock
  /\ call' = [c \in Call |-> IF TabOf[c] = b THEN "expired" ELSE call[c]]
  /\ expired' = expired \cup {b}
  /\ UNCHANGED <<server, mode, jar, lease>>

\* Somebody else ends the session.
Revoke ==
  /\ May("revoke")
  /\ Chain!Close({Theirs})
  /\ UNCHANGED <<mode, jar, lock, lease, refresh, expired, call>>

-------------------------------------------------------------------------------
CallStep(c) == Send(c) \/ Reject(c) \/ Resend(c)
RefreshStep(b) ==
  \/ AcquireLock(b) \/ SeeLease(b) \/ WriteLease(b) \/ VerifyLease(b) \/ Unserialized(b)
  \/ ReadState(b) \/ Rotate(b) \/ Answer(b) \/ Release(b)

Next ==
  \/ \E c \in Call : Begin(c) \/ CallStep(c) \/ Again(c)
  \/ \E b \in Tab : RefreshStep(b) \/ UnreadState(b) \/ LoseAnswer(b) \/ CloseTab(b)
  \/ ExpireAccess \/ ExpireLease \/ Revoke

Spec == Init /\ [][Next]_vars

\* What has begun goes on, the lock is granted, a lease nobody releases runs out.
FairSpec ==
  /\ Spec
  /\ \A c \in Call : WF_vars(CallStep(c))
  /\ \A b \in Tab : WF_vars(RefreshStep(b))
  /\ WF_vars(ExpireLease)

-------------------------------------------------------------------------------
(* Properties *)

\* Every tab and call is somewhere in the code above.
TypeOK ==
  /\ Chain!TypeOK
  /\ mode \in Modes
  /\ jar \in [refresh : Token \cup {None}, access : {"valid", "expired", "none"}]
  /\ lock \in Tab \cup {None}
  /\ lease \in [owner : Tab \cup {None}, over : BOOLEAN]
  /\ refresh \in [Tab -> [pc : {"none", "acquire", "write", "verify", "state", "rotate",
                                "answer", "release"},
                          token : Token \cup {None}, result : BOOLEAN]]
  /\ expired \subseteq Tab
  /\ call \in [Call -> {"idle", "waiting", "served", "rejected", "refreshing", "resend",
                        "expired"}]
  /\ faults \subseteq Faults

\* With Web Locks, only the tab that holds the lock is past asking for it.
Serialized ==
  mode = "locks" =>
    \A b \in Tab : /\ ~At(b, "write") /\ ~At(b, "verify")
                   /\ refresh[b].pc \notin {"none", "acquire"} => lock = b

\* With Web Locks, and before anything else has failed than a read of the state.
Undisturbed == mode = "locks" /\ faults \subseteq {"unread"}

\* Until something goes wrong, the cookie is the token the server expects, except
\* while an answer is on its way that carries the next one.
CookieCurrent ==
  Undisturbed =>
    /\ current[Theirs] \in Token
    /\ \A b \in Tab : At(b, "answer") => refresh[b].result /\ refresh[b].token = current[Theirs]
    /\ (\A b \in Tab : ~At(b, "answer")) => jar.refresh = current[Theirs]

\* Until then, a refresh that is over has succeeded, and who sends its request
\* again is let in.
RefreshHelps ==
  Undisturbed =>
    /\ \A b \in Tab : At(b, "release") => refresh[b].result /\ jar.access = "valid"
    /\ \A c \in Call : call[c] = "resend" => jar.access = "valid"

\* With Web Locks, tabs never present one refresh token twice: unless an answer
\* is lost, a tab is closed or somebody ends it, the session goes on, and every
\* call that meets an expired access token shares one refresh and is served, also
\* when a tab cannot read the state and refreshes once more than it need.
SessionSurvives ==
  Undisturbed =>
    /\ ~Over
    /\ expired = {} /\ \A c \in Call : call[c] # "expired"

\* The inductive invariant.
IInv == TypeOK /\ Serialized /\ CookieCurrent /\ RefreshHelps /\ SessionSurvives

\* With either or with neither, every call is served or told that the session has
\* expired, even when a tab is closed while it holds the lock or the lease.
EveryCallSettles == \A c \in Call : call[c] = "waiting" ~> call[c] \in {"served", "expired"}
================================================================================
