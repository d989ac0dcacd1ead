----------------------------- MODULE SessionChain -----------------------------
(***************************************************************************)
(* What a staff session promises, without saying how it is stored.  A      *)
(* session is opened once, is continued by exactly one refresh token at a  *)
(* time, hands over to a token never issued before, and once closed stays  *)
(* closed.  A token may still be handed out for a session that has been    *)
(* closed; nothing can be done with it.                                    *)
(***************************************************************************)
CONSTANTS
  Session, Token,
  None, Closed  \* neither is a token; who instantiates this module assumes so

VARIABLES
  current,  \* the token that continues each session, None before it is opened
  issued    \* the tokens ever handed out

vars == <<current, issued>>

TypeOK ==
  /\ current \in [Session -> Token \cup {None, Closed}]
  /\ issued \subseteq Token

Init ==
  /\ current = [s \in Session |-> None]
  /\ issued = {}

Open(s, t) ==
  /\ current[s] = None
  /\ t \notin issued
  /\ current' = [current EXCEPT ![s] = t]
  /\ issued' = issued \cup {t}

Rotate(s, t) ==
  /\ current[s] \in Token
  /\ t \notin issued
  /\ current' = [current EXCEPT ![s] = t]
  /\ issued' = issued \cup {t}

\* Revoking one session, or every session of an account at once.
Close(S) ==
  /\ \A s \in S : current[s] # None
  /\ current' = [s \in Session |-> IF s \in S THEN Closed ELSE current[s]]
  /\ UNCHANGED issued

IssueTooLate(s, t) ==
  /\ current[s] = Closed
  /\ t \notin issued
  /\ issued' = issued \cup {t}
  /\ UNCHANGED current

Next ==
  \/ \E s \in Session, t \in Token : Open(s, t) \/ Rotate(s, t) \/ IssueTooLate(s, t)
  \/ \E S \in SUBSET Session : Close(S)

Spec == Init /\ [][Next]_vars
================================================================================
