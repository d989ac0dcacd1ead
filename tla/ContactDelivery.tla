--------------------------- MODULE ContactDelivery ---------------------------
(***************************************************************************)
(* From a visitor's form to the shop's mailbox: InquiryForm and            *)
(* ContactForm, the contact worker that accepts their requests, and its    *)
(* queue consumer.  Turnstile, the queue and the mail service are modelled *)
(* from how the worker uses and configures them: a Turnstile token can be  *)
(* verified once, the queue delivers in batches at least once, delivers a  *)
(* message again when it is retried or its batch fails, and moves it to    *)
(* the dead-letter queue after its last attempt.                           *)
(*                                                                         *)
(* Each call of another service is answered in one of the ways its caller  *)
(* tells apart; a call that throws may have had its effect all the same.   *)
(* What a request says, its origin and its format are left out.            *)
(*                                                                         *)
(* Definitions whose names begin with Wrong are not part of the model:     *)
(* each is a plausible mistake that a property below must find.            *)
(***************************************************************************)
EXTENDS Naturals, FiniteSets

CONSTANTS
  Form,       \* the forms visitors have open
  Request,    \* requests, also the messages the worker enqueues (bound on submissions)
  Foreign,    \* messages that are not of the worker's making
  None,
  MaxToken,   \* bound on the tokens one form is given
  MaxRetries, \* max_retries of the queue
  BatchSize   \* max_batch_size of the queue

Message == Request \cup Foreign

ASSUME ContactAssumption ==
  /\ Request \cap Foreign = {}
  /\ None \notin Form \cup Request
  /\ MaxToken \in Nat /\ MaxRetries \in Nat
  /\ BatchSize \in Nat \ {0}

VARIABLES
  form,     \* each form: what it holds and shows
  request,  \* each request: where the worker is with it
  spent,    \* the tokens that Turnstile has verified
  message,  \* each message: where the queue has it, attempts and mails
  batches   \* the batches being consumed

vars == <<form, request, spent, message, batches>>

Init ==
  /\ form = [f \in Form |-> [token |-> 0, given |-> 0, sent |-> None, shown |-> "nothing"]]
  /\ request = [q \in Request |-> [pc |-> "unsent", token |-> <<None, 0>>]]
  /\ spent = {}
  /\ message = [m \in Message |-> [pc |-> "none", attempts |-> 0, mails |-> 0, doubt |-> FALSE]]
  /\ batches = {}

-------------------------------------------------------------------------------
(* The form.  Its token is the number of the last one its widget was given. *)

\* handleTurnstileVerification; the widget renews a token that expires.
GiveToken(f) ==
  /\ form[f].given < MaxToken
  /\ form' = [form EXCEPT ![f].token = form[f].given + 1, ![f].given = @ + 1]
  /\ UNCHANGED <<request, spent, message, batches>>

\* handleTurnstileExpiration and handleTurnstileError
DropToken(f) ==
  /\ form[f].token # 0
  /\ form' = [form EXCEPT ![f].token = 0]
  /\ UNCHANGED <<request, spent, message, batches>>

\* handleSubmit with valid fields; the button is disabled while it waits.
Submit(f, q) ==
  /\ form[f].sent = None /\ form[f].token # 0
  /\ request[q].pc = "unsent"
  /\ form' = [form EXCEPT ![f].sent = q, ![f].shown = "nothing"]
  /\ request' = [request EXCEPT ![q] = [pc |-> "read", token |-> <<f, form[f].token>>]]
  /\ UNCHANGED <<spent, message, batches>>

\* Mutant: the token stays in the form.
WrongShown(f, shown) == form' = [form EXCEPT ![f].sent = None, ![f].shown = shown]

\* The end of handleSubmit: a widget of the next generation brings a new token.
Shown(f, shown) ==
  form' = [form EXCEPT ![f].sent = None, ![f].shown = shown, ![f].token = 0]

Settle(f) ==
  /\ form[f].sent # None
  /\ \/ request[form[f].sent].pc = "accepted" /\ Shown(f, "success")
     \/ request[form[f].sent].pc = "rejected" /\ Shown(f, "error")
  /\ UNCHANGED <<request, spent, message, batches>>

\* The answer is lost, or fifteen seconds pass; the worker may still go on.
GiveUp(f) ==
  /\ form[f].sent # None
  /\ Shown(f, "error")
  /\ UNCHANGED <<request, spent, message, batches>>

-------------------------------------------------------------------------------
(* The worker: rate limit, body, human verification, queue *)

Goto(q, pc) == request' = [request EXCEPT ![q].pc = pc]

\* The limiter and the body's validation pass or refuse the request; it is
\* refused too when the configuration or the limiter fails, or the worker stops.
Read(q) ==
  /\ request[q].pc = "read"
  /\ \E pc \in {"verify", "rejected"} : Goto(q, pc)
  /\ UNCHANGED <<form, spent, message, batches>>

\* Siteverify: a spent token fails; without an answer within five seconds
\* the request is rejected although the token may be spent.
Verify(q) ==
  /\ request[q].pc = "verify"
  /\ \/ /\ request[q].token \notin spent
        /\ spent' = spent \cup {request[q].token}
        /\ \E pc \in {"enqueue", "rejected"} : Goto(q, pc)
     \/ Goto(q, "rejected") /\ UNCHANGED spent
  /\ UNCHANGED <<form, message, batches>>

Enqueue(q) ==
  /\ request[q].pc = "enqueue"
  /\ \/ /\ message' = [message EXCEPT ![q].pc = "queued"]
        /\ \E pc \in {"accepted", "rejected"} : Goto(q, pc)
     \/ Goto(q, "rejected") /\ UNCHANGED message
  /\ UNCHANGED <<form, spent, batches>>

\* A message of another producer, or of another version of this one.
Intrude(m) ==
  /\ m \in Foreign
  /\ message[m].pc = "none"
  /\ message' = [message EXCEPT ![m].pc = "queued"]
  /\ UNCHANGED <<form, request, spent, batches>>

-------------------------------------------------------------------------------
(* The consumer *)

Queued == {m \in Message : message[m].pc = "queued"}

\* queue and the synchronous start of deliverQueuedMessage, which retries what it
\* cannot parse.
Consume(B) ==
  /\ B \subseteq Queued /\ B # {} /\ Cardinality(B) <= BatchSize
  /\ batches' = batches \cup {B}
  /\ message' = [m \in Message |->
       IF m \in B
         THEN [message[m] EXCEPT !.pc = IF m \in Foreign THEN "retry" ELSE "send",
                                 !.attempts = @ + 1]
         ELSE message[m]]
  /\ UNCHANGED <<form, request, spent>>

\* Mutants: the message is retried after its mail; acknowledged whatever happens.
WrongSendEmail(m) ==
  /\ message[m].pc = "send"
  /\ message' = [message EXCEPT ![m].pc = "retry", ![m].mails = @ + 1]
  /\ UNCHANGED <<form, request, spent, batches>>

WrongSendFails(m) ==
  /\ message[m].pc = "send"
  /\ message' = [message EXCEPT ![m].pc = "ack"]
  /\ UNCHANGED <<form, request, spent, batches>>

\* sendEmail, and at once ack or retry; "doubt" remembers a mail that was sent
\* by a call that threw.
SendEmail(m) ==
  /\ message[m].pc = "send"
  /\ message' = [message EXCEPT ![m].pc = "ack", ![m].mails = @ + 1]
  /\ UNCHANGED <<form, request, spent, batches>>

SendFails(m) ==
  /\ message[m].pc = "send"
  /\ \E sent \in BOOLEAN :
        message' = [message EXCEPT ![m].pc = "retry",
                                   ![m].mails = IF sent THEN @ + 1 ELSE @,
                                   ![m].doubt = @ \/ sent]
  /\ UNCHANGED <<form, request, spent, batches>>

\* Mutants: one attempt too many; no dead-letter queue.
WrongTakenBack(m) == IF message[m].attempts > MaxRetries + 1 THEN "dead" ELSE "queued"
WrongLastAttempt(m) == IF message[m].attempts > MaxRetries THEN "none" ELSE "queued"

\* The queue takes a message back that was not acknowledged.
TakenBack(m) == IF message[m].attempts > MaxRetries THEN "dead" ELSE "queued"

\* Promise.all resolves: the queue applies what each message was marked with.
EndBatch(B) ==
  /\ B \in batches
  /\ \A m \in B : message[m].pc \in {"ack", "retry"}
  /\ message' = [m \in Message |->
       IF m \in B
         THEN [message[m] EXCEPT !.pc = IF @ = "ack" THEN "done" ELSE TakenBack(m)]
         ELSE message[m]]
  /\ batches' = batches \ {B}
  /\ UNCHANGED <<form, request, spent>>

\* The configuration cannot be read, or the worker stops: every message of the
\* batch is delivered again, those whose mail has been sent too.
FailBatch(B) ==
  /\ B \in batches
  /\ message' = [m \in Message |->
       IF m \in B
         THEN [message[m] EXCEPT !.pc = TakenBack(m), !.doubt = @ \/ message[m].mails > 0]
         ELSE message[m]]
  /\ batches' = batches \ {B}
  /\ UNCHANGED <<form, request, spent>>

-------------------------------------------------------------------------------
Next ==
  \/ \E f \in Form :
       \/ GiveToken(f) \/ DropToken(f) \/ Settle(f) \/ GiveUp(f)
       \/ \E q \in Request : Submit(f, q)
  \/ \E q \in Request : Read(q) \/ Verify(q) \/ Enqueue(q)
  \/ \E m \in Message : Intrude(m) \/ SendEmail(m) \/ SendFails(m)
  \/ \E B \in SUBSET Message : Consume(B) \/ EndBatch(B) \/ FailBatch(B)

Spec == Init /\ [][Next]_vars

\* The fetch has a timeout, a handler that runs goes on, and the queue delivers
\* what it holds.
FairSpec ==
  /\ Spec
  /\ \A f \in Form : WF_vars(GiveUp(f))
  /\ \A q \in Request : WF_vars(Read(q) \/ Verify(q) \/ Enqueue(q))
  /\ \A m \in Message :
       /\ WF_vars(SendEmail(m) \/ SendFails(m))
       /\ WF_vars(\E B \in SUBSET Message : m \in B /\ Consume(B))
       /\ WF_vars(\E B \in batches : m \in B /\ EndBatch(B))

-------------------------------------------------------------------------------
(* Properties *)

\* Every form, request and message is somewhere in the code above.
TypeOK ==
  /\ form \in [Form -> [token : 0 .. MaxToken, given : 0 .. MaxToken,
                        sent : Request \cup {None}, shown : {"nothing", "success", "error"}]]
  /\ request \in [Request -> [pc : {"unsent", "read", "verify", "enqueue", "accepted",
                                    "rejected"},
                              token : (Form \cup {None}) \X (0 .. MaxToken)]]
  /\ spent \subseteq Form \X (1 .. MaxToken)
  /\ message \in [Message -> [pc : {"none", "queued", "send", "ack", "retry", "done",
                                    "dead"},
                              attempts : 0 .. MaxRetries + 1, mails : 0 .. MaxRetries + 1,
                              doubt : BOOLEAN]]
  /\ batches \subseteq SUBSET Message

\* A form never presents a token twice: after an error, a lost answer or a
\* timeout, the visitor's next attempt is not turned away for the last one's token.
FreshToken ==
  \A q \in Request :
    /\ request[q].pc \in {"read", "verify"} => request[q].token \notin spent
    /\ \A p \in Request : request[p].token = request[q].token =>
         p = q \/ request[q].pc = "unsent"

\* What has been accepted is never lost: until it has been mailed it is in the
\* queue, in a batch or in the dead-letter queue.
AcceptedIsKept ==
  /\ \A q \in Request : request[q].pc = "accepted" => message[q].pc # "none"
  /\ \A m \in Message :
       /\ message[m].pc \in {"ack", "done"} => message[m].mails > 0
       /\ message[m].pc \in {"send", "ack", "retry"} => \E B \in batches : m \in B

\* A message is mailed once, unless a call that threw had sent it or a batch
\* failed after it; however often it is retried, and never when it is not ours.
MailedOnce ==
  \A m \in Message :
    /\ message[m].mails <= IF m \in Foreign THEN 0 ELSE message[m].attempts
    /\ ~message[m].doubt => message[m].mails <= 1

\* A form does not wait for ever, and what it has seen accepted is mailed or
\* put aside in the dead-letter queue, in the face of any failure.
SubmissionsEnd ==
  /\ \A f \in Form : form[f].sent # None ~> form[f].sent = None
  /\ \A q \in Request :
       request[q].pc = "accepted" ~> message[q].mails > 0 \/ message[q].pc = "dead"
-------------------------------------------------------------------------------
(* The inductive invariant behind the safety properties *)

\* Every request has a token of its own, which its form was once given.
TokensGiven ==
  /\ \A q \in Request :
       IF request[q].pc = "unsent" THEN request[q].token = <<None, 0>>
       ELSE \E f \in Form : \E n \in 1 .. form[f].given : request[q].token = <<f, n>>
  /\ \A p, q \in Request : request[p].token = request[q].token =>
       p = q \/ request[q].pc = "unsent"

\* What a form may submit next is new.
NextTokenNew ==
  \A f \in Form :
    /\ form[f].token <= form[f].given
    /\ form[f].sent = None =>
         \A q \in Request : request[q].token # <<f, form[f].token>>

\* A spent token is that of a request that has been verified.
SpentOnRequest ==
  \A t \in spent : \E q \in Request :
    request[q].token = t /\ request[q].pc \in {"enqueue", "accepted", "rejected"}

\* A message exists once its request has been accepted.
NotYetMessage ==
  \A q \in Request :
    request[q].pc \in {"unsent", "read", "verify", "enqueue"} => message[q].pc = "none"

\* What is known of a message by where it is.
MessageKept ==
  \A m \in Message :
    /\ message[m].pc = "none" => message[m].attempts = 0 /\ message[m].mails = 0
    /\ message[m].pc = "queued" => message[m].attempts <= MaxRetries
    /\ message[m].pc = "send" => message[m].mails < message[m].attempts
    /\ message[m].pc \in {"none", "queued", "send", "retry", "dead"} /\ ~message[m].doubt =>
         message[m].mails = 0
    /\ m \in Foreign => message[m].pc \notin {"send", "ack", "done"}

\* What is in a batch has been in the queue.
BatchesReal == \A B \in batches : \A m \in B : message[m].pc # "none"

\* The inductive invariant.
IInv ==
  /\ TypeOK /\ FreshToken /\ AcceptedIsKept /\ MailedOnce
  /\ TokensGiven /\ NextTokenNew /\ SpentOnRequest /\ NotYetMessage /\ MessageKept
  /\ BatchesReal
===============================================================================
