------------------------------- MODULE ContactProofs -------------------------------
(***************************************************************************)
(* The safety properties of ContactDelivery, for any number of forms,      *)
(* requests, messages, tokens and retries.                                 *)
(*                                                                         *)
(* The argument has two halves that meet in Enqueue.  Up to the queue, a   *)
(* token belongs to one request: a form gives it up with the answer        *)
(* (NextTokenNew).  From the queue on, where a message is tells how often  *)
(* it can have been mailed (MessageKept).                                  *)
(***************************************************************************)
EXTENDS ContactDelivery, TLAPS

FormRecord == [token : 0 .. MaxToken, given : 0 .. MaxToken,
               sent : Request \cup {None}, shown : {"nothing", "success", "error"}]
RequestRecord == [pc : {"unsent", "read", "verify", "enqueue", "accepted", "rejected"},
                  token : (Form \cup {None}) \X (0 .. MaxToken)]
MessageRecord == [pc : {"none", "queued", "send", "ack", "retry", "done", "dead"},
                  attempts : 0 .. MaxRetries + 1, mails : 0 .. MaxRetries + 1,
                  doubt : BOOLEAN]

\* What IInv says of the forms, the requests and the tokens.
Front ==
  /\ form \in [Form -> FormRecord]
  /\ request \in [Request -> RequestRecord]
  /\ spent \subseteq Form \X (1 .. MaxToken)
  /\ FreshToken /\ TokensGiven /\ NextTokenNew /\ SpentOnRequest

\* What it says of one message, wherever the others are.
Sound(m) ==
  /\ message[m] \in MessageRecord
  /\ message[m].pc \in {"ack", "done"} => message[m].mails > 0
  /\ message[m].mails <= IF m \in Foreign THEN 0 ELSE message[m].attempts
  /\ ~message[m].doubt => message[m].mails <= 1
  /\ message[m].pc = "none" => message[m].attempts = 0 /\ message[m].mails = 0
  /\ message[m].pc = "queued" => message[m].attempts <= MaxRetries
  /\ message[m].pc = "send" => message[m].mails < message[m].attempts
  /\ message[m].pc \in {"none", "queued", "send", "retry", "dead"} /\ ~message[m].doubt =>
       message[m].mails = 0
  /\ m \in Foreign => message[m].pc \notin {"send", "ack", "done"}

\* A message that is being consumed is in a batch.
InBatch(m) ==
  message[m].pc \in {"send", "ack", "retry"} => \E B \in batches : m \in B

Back ==
  /\ message \in [Message -> MessageRecord]
  /\ batches \subseteq SUBSET Message
  /\ \A m \in Message : Sound(m) /\ InBatch(m)
  /\ BatchesReal

\* Where the two halves meet.
Between ==
  \A q \in Request :
    IF request[q].pc = "accepted" THEN message[q].pc # "none"
    ELSE request[q].pc # "rejected" => message[q].pc = "none"

LEMMA Halves == IInv <=> Front /\ Back /\ Between
<1>1. TypeOK <=> /\ form \in [Form -> FormRecord]
                 /\ request \in [Request -> RequestRecord]
                 /\ spent \subseteq Form \X (1 .. MaxToken)
                 /\ message \in [Message -> MessageRecord]
                 /\ batches \subseteq SUBSET Message
  BY DEF TypeOK, FormRecord, RequestRecord, MessageRecord
<1>2. ASSUME message \in [Message -> MessageRecord]
      PROVE  (\A m \in Message : Sound(m) /\ InBatch(m)) <=>
               /\ MailedOnce /\ MessageKept
               /\ \A m \in Message :
                    /\ message[m].pc \in {"ack", "done"} => message[m].mails > 0
                    /\ InBatch(m)
  BY <1>2 DEF Sound, MailedOnce, MessageKept
<1>3. ASSUME request \in [Request -> RequestRecord]
      PROVE  Between <=>
               /\ \A q \in Request : request[q].pc = "accepted" => message[q].pc # "none"
               /\ NotYetMessage
  BY <1>3 DEF Between, NotYetMessage, RequestRecord
<1> QED
  BY <1>1, <1>2, <1>3 DEF IInv, Front, Back, AcceptedIsKept, InBatch

-----------------------------------------------------------------------------
LEMMA FrontInit == Init => Front
<1> SUFFICES ASSUME Init PROVE Front
  OBVIOUS
<1>1. /\ \A f \in Form : form[f] = [token |-> 0, given |-> 0, sent |-> None, shown |-> "nothing"]
      /\ \A q \in Request : request[q] = [pc |-> "unsent", token |-> <<None, 0>>]
      /\ spent = {}
  BY DEF Init
<1>2. form \in [Form -> FormRecord] /\ request \in [Request -> RequestRecord]
  BY ContactAssumption DEF Init, FormRecord, RequestRecord
<1>3. FreshToken /\ TokensGiven /\ SpentOnRequest
  BY <1>1 DEF FreshToken, TokensGiven, SpentOnRequest
<1>4. NextTokenNew
  BY <1>1, ContactAssumption DEF NextTokenNew
<1> QED
  BY <1>1, <1>2, <1>3, <1>4 DEF Front

LEMMA BackInit == Init => Back
<1> SUFFICES ASSUME Init PROVE Back
  OBVIOUS
<1>1. \A m \in Message :
        message[m] = [pc |-> "none", attempts |-> 0, mails |-> 0, doubt |-> FALSE]
  BY DEF Init
<1>2. message \in [Message -> MessageRecord] /\ batches = {}
  BY ContactAssumption DEF Init, MessageRecord
<1>3. \A m \in Message : Sound(m) /\ InBatch(m)
  BY <1>1, <1>2, ContactAssumption DEF Sound, InBatch
<1> QED
  BY <1>2, <1>3 DEF Back, BatchesReal

LEMMA BetweenInit == Init => Between
BY DEF Init, Between, Message
-----------------------------------------------------------------------------
(* The forms *)

\* Requests carry tokens that were given, and these count from one.
LEMMA NoZeroToken ==
  ASSUME Front, NEW q \in Request, NEW f \in Form
  PROVE  request[q].token # <<f, 0>>
BY ContactAssumption DEF Front, TokensGiven

\* A form that changes takes nothing back, and has a new token or waits.
LEMMA FormStep ==
  ASSUME Front, NEW f \in Form,
         form' \in [Form -> FormRecord], \A g \in Form \ {f} : form'[g] = form[g],
         UNCHANGED <<request, spent>>,
         form[f].given <= form'[f].given, form'[f].token <= form'[f].given,
         form'[f].sent = None => \A q \in Request : request[q].token # <<f, form'[f].token>>
  PROVE  Front'
<1>1. \A g \in Form :
        form[g].given \in Nat /\ form'[g].given \in Nat /\ form[g].given <= form'[g].given
  BY ContactAssumption DEF Front, FormRecord
<1>2. \A g \in Form : 1 .. form[g].given \subseteq 1 .. form'[g].given
  BY <1>1
<1>3. TokensGiven'
  BY <1>2 DEF Front, TokensGiven
<1>4. NextTokenNew'
  BY DEF Front, NextTokenNew
<1>5. FreshToken' /\ SpentOnRequest'
  BY DEF Front, FreshToken, SpentOnRequest
<1> QED
  BY <1>3, <1>4, <1>5 DEF Front

LEMMA GiveTokenFront == ASSUME Front, NEW f \in Form, GiveToken(f) PROVE Front'
<1> DEFINE new == form[f].given + 1
<1>1. form[f] \in FormRecord /\ form[f].given < MaxToken
  BY DEF Front, GiveToken
<1>2. form'[f].token = new /\ form'[f].given = new
  BY <1>1 DEF GiveToken, Front, FormRecord
<1>3. form' \in [Form -> FormRecord] /\ \A g \in Form \ {f} : form'[g] = form[g]
  BY <1>1, ContactAssumption DEF GiveToken, Front, FormRecord
<1>4. \A q \in Request : request[q].token # <<f, new>>
  <2> SUFFICES ASSUME NEW q \in Request, request[q].token = <<f, new>>
               PROVE  FALSE
    OBVIOUS
  <2>1. CASE request[q].pc = "unsent"
    BY <2>1, ContactAssumption DEF Front, TokensGiven
  <2>2. CASE request[q].pc # "unsent"
    <3>1. PICK g \in Form : \E n \in 1 .. form[g].given : request[q].token = <<g, n>>
      BY <2>2 DEF Front, TokensGiven
    <3>2. PICK n \in 1 .. form[g].given : request[q].token = <<g, n>>
      BY <3>1
    <3>3. g = f /\ n = new
      BY <3>2
    <3> QED
      BY <1>1, <3>2, <3>3, ContactAssumption DEF FormRecord
  <2> QED
    BY <2>1, <2>2
<1>5. form[f].given <= form'[f].given /\ form'[f].token <= form'[f].given
  BY <1>1, <1>2, ContactAssumption DEF FormRecord
<1> HIDE DEF new
<1> QED
  BY <1>2, <1>3, <1>4, <1>5, FormStep DEF GiveToken

\* After an answer, an error or a timeout the form is left without a token.
LEMMA EmptiedFront ==
  ASSUME Front, NEW f \in Form, form'[f].token = 0, form'[f].given = form[f].given,
         form' \in [Form -> FormRecord], \A g \in Form \ {f} : form'[g] = form[g],
         UNCHANGED <<request, spent>>
  PROVE  Front'
<1>1. form[f].given <= form'[f].given /\ form'[f].token <= form'[f].given
  BY ContactAssumption DEF Front, FormRecord
<1> QED
  BY <1>1, NoZeroToken, FormStep

LEMMA DropTokenFront == ASSUME Front, NEW f \in Form, DropToken(f) PROVE Front'
<1>1. form'[f].token = 0 /\ form'[f].given = form[f].given
  BY DEF DropToken, Front, FormRecord
<1>2. form' \in [Form -> FormRecord] /\ \A g \in Form \ {f} : form'[g] = form[g]
  BY ContactAssumption DEF DropToken, Front, FormRecord
<1> QED
  BY <1>1, <1>2, EmptiedFront DEF DropToken

LEMMA ShownFront ==
  ASSUME Front, NEW f \in Form, NEW answer \in {"success", "error"}, Shown(f, answer),
         UNCHANGED <<request, spent>>
  PROVE  Front'
<1>1. form[f] \in FormRecord
  BY DEF Front
<1>2. form' = [form EXCEPT ![f] = form'[f]]
  BY DEF Shown, Front
<1>3. form'[f] = [[[form[f] EXCEPT !.sent = None] EXCEPT !.shown = answer] EXCEPT !.token = 0]
  BY DEF Shown, Front
<1>4. form'[f] = [token |-> 0, given |-> form[f].given, sent |-> None, shown |-> answer]
  BY <1>1, <1>3 DEF FormRecord
<1>5. form'[f] \in FormRecord
  BY <1>1, <1>4, ContactAssumption DEF FormRecord
<1> QED
  BY <1>2, <1>4, <1>5, EmptiedFront DEF Front

LEMMA SettleFront == ASSUME Front, NEW f \in Form, Settle(f) \/ GiveUp(f) PROVE Front'
BY ShownFront DEF Settle, GiveUp

\* A submission takes the form's token along, which nobody else has.
LEMMA SubmitFront ==
  ASSUME Front, NEW f \in Form, NEW q \in Request, Submit(f, q) PROVE Front'
<1> DEFINE t == <<f, form[f].token>>
<1>1. /\ form[f] \in FormRecord /\ form[f].sent = None /\ form[f].token # 0
      /\ form[f].token <= form[f].given /\ request[q].pc = "unsent" /\ UNCHANGED spent
  BY DEF Submit, Front, NextTokenNew
<1>2. \A p \in Request : request[p].token # t
  BY <1>1 DEF Front, NextTokenNew
<1>3. t \notin spent
  BY <1>2 DEF Front, SpentOnRequest
<1>4. /\ form' \in [Form -> FormRecord]
      /\ form'[f].token = form[f].token /\ form'[f].given = form[f].given /\ form'[f].sent = q
      /\ \A g \in Form \ {f} : form'[g] = form[g]
  BY <1>1 DEF Submit, Front, FormRecord
<1>5. /\ request' \in [Request -> RequestRecord]
      /\ request'[q].pc = "read" /\ request'[q].token = t
      /\ \A p \in Request \ {q} : request'[p] = request[p]
  BY <1>1 DEF Submit, Front, FormRecord, RequestRecord
<1>6. \E n \in 1 .. form[f].given : t = <<f, n>>
  BY <1>1, ContactAssumption DEF FormRecord
<1>7. \A g \in Form : form'[g].given = form[g].given /\ form'[g].token = form[g].token
  BY <1>4
<1>8. \A g \in Form \ {f} : \A n : t # <<g, n>>
  OBVIOUS
<1> HIDE DEF t
<1>9. FreshToken'
  BY <1>1, <1>2, <1>3, <1>5 DEF Front, FreshToken
<1>10. TokensGiven'
  <2>1. ASSUME NEW p \in Request
        PROVE  IF request'[p].pc = "unsent" THEN request'[p].token = <<None, 0>>
               ELSE \E g \in Form : \E n \in 1 .. form'[g].given : request'[p].token = <<g, n>>
    BY <1>5, <1>6, <1>7 DEF Front, TokensGiven
  <2>2. \A p, r \in Request : request'[p].token = request'[r].token =>
          p = r \/ request'[r].pc = "unsent"
    BY <1>2, <1>5 DEF Front, TokensGiven
  <2> QED
    BY <2>1, <2>2 DEF TokensGiven
<1>11. NextTokenNew'
  <2> SUFFICES ASSUME NEW g \in Form
               PROVE  /\ form'[g].token <= form'[g].given
                      /\ form'[g].sent = None =>
                           \A p \in Request : request'[p].token # <<g, form'[g].token>>
    BY DEF NextTokenNew
  <2>1. form'[g].token <= form'[g].given
    BY <1>7 DEF Front, NextTokenNew
  <2>2. CASE g = f
    BY <1>4, <2>1, <2>2, ContactAssumption
  <2>3. CASE g # f
    <3>1. form'[g] = form[g] /\ t # <<g, form[g].token>>
      BY <1>4, <1>8, <2>3
    <3> QED
      BY <1>5, <2>1, <3>1 DEF Front, NextTokenNew
  <2> QED
    BY <2>2, <2>3
<1>12. SpentOnRequest'
  BY <1>1, <1>5 DEF Front, SpentOnRequest
<1> QED
  BY <1>1, <1>4, <1>5, <1>9, <1>10, <1>11, <1>12 DEF Front

-----------------------------------------------------------------------------
(* The worker *)

\* A request goes on; at most its own token is spent, and then it has been verified.
LEMMA RequestMoves ==
  ASSUME Front, NEW q \in Request, request[q].pc # "unsent",
         NEW pc \in {"verify", "enqueue", "accepted", "rejected"}, Goto(q, pc),
         UNCHANGED form,
         \/ spent' = spent
         \/ pc # "verify" /\ spent' = spent \cup {request[q].token},
         pc = "verify" => request[q].pc = "read"
  PROVE  Front'
<1>1. /\ request' \in [Request -> RequestRecord]
      /\ request'[q].pc = pc /\ request'[q].token = request[q].token
      /\ \A p \in Request \ {q} : request'[p] = request[p]
  BY DEF Goto, Front, RequestRecord
<1>2. \A p \in Request : /\ request'[p].token = request[p].token
                         /\ request'[p].pc = "unsent" <=> request[p].pc = "unsent"
  BY <1>1
<1>3. spent' \subseteq Form \X (1 .. MaxToken)
  <2>1. PICK g \in Form : \E n \in 1 .. form[g].given : request[q].token = <<g, n>>
    BY DEF Front, TokensGiven
  <2>2. form[g].given \in 0 .. MaxToken
    BY DEF Front, FormRecord
  <2>3. request[q].token \in Form \X (1 .. MaxToken)
    BY <2>1, <2>2, ContactAssumption
  <2> QED
    BY <2>3 DEF Front
<1>4. TokensGiven' /\ NextTokenNew'
  BY <1>2 DEF Front, TokensGiven, NextTokenNew
<1>5. FreshToken'
  BY <1>1, <1>2 DEF Front, FreshToken
<1>6. SpentOnRequest'
  <2> SUFFICES ASSUME NEW t \in spent'
               PROVE  \E p \in Request : /\ request'[p].token = t
                                         /\ request'[p].pc \in {"enqueue", "accepted", "rejected"}
    BY DEF SpentOnRequest
  <2>1. CASE t \in spent
    <3>1. PICK p \in Request : /\ request[p].token = t
                               /\ request[p].pc \in {"enqueue", "accepted", "rejected"}
      BY <2>1 DEF Front, SpentOnRequest
    <3> QED
      BY <1>1, <3>1
  <2>2. CASE t \notin spent
    BY <1>1, <2>2
  <2> QED
    BY <2>1, <2>2
<1> QED
  BY <1>1, <1>3, <1>4, <1>5, <1>6 DEF Front

LEMMA ReadFront == ASSUME Front, NEW q \in Request, Read(q) PROVE Front'
<1>1. PICK pc \in {"verify", "rejected"} : Goto(q, pc)
  BY DEF Read
<1> QED
  BY <1>1, RequestMoves DEF Read

LEMMA VerifyFront == ASSUME Front, NEW q \in Request, Verify(q) PROVE Front'
<1>1. CASE spent' = spent \cup {request[q].token}
           /\ \E pc \in {"enqueue", "rejected"} : Goto(q, pc)
  BY <1>1, RequestMoves DEF Verify
<1>2. CASE Goto(q, "rejected") /\ UNCHANGED spent
  BY <1>2, RequestMoves DEF Verify
<1> QED
  BY <1>1, <1>2 DEF Verify

LEMMA EnqueueFront == ASSUME Front, NEW q \in Request, Enqueue(q) PROVE Front'
<1>1. PICK pc \in {"accepted", "rejected"} : Goto(q, pc)
  BY DEF Enqueue
<1> QED
  BY <1>1, RequestMoves DEF Enqueue

-----------------------------------------------------------------------------
(* The queue and its consumer *)

\* One message moves on within its batch, or into the queue.
LEMMA MessageMoves ==
  ASSUME Back, NEW m \in Message, NEW r \in MessageRecord,
         message' = [message EXCEPT ![m] = r], UNCHANGED batches,
         r.pc # "none", Sound(m)', InBatch(m)'
  PROVE  Back'
<1>1. message' \in [Message -> MessageRecord]
  BY DEF Back
<1>2. \A n \in Message \ {m} : message'[n] = message[n]
  BY DEF Back
<1>3. \A n \in Message : Sound(n)' /\ InBatch(n)'
  BY <1>2 DEF Back, Sound, InBatch
<1>4. BatchesReal'
  BY <1>2 DEF Back, BatchesReal
<1> QED
  BY <1>1, <1>3, <1>4 DEF Back

LEMMA QueuedBack ==
  ASSUME Back, NEW m \in Message, message[m].pc = "none",
         message' = [message EXCEPT ![m].pc = "queued"], UNCHANGED batches
  PROVE  Back'
<1> DEFINE r == [message[m] EXCEPT !.pc = "queued"]
<1>1. message[m] \in MessageRecord /\ Sound(m)
  BY DEF Back
<1>2. /\ r \in MessageRecord /\ r.pc = "queued" /\ r.attempts = message[m].attempts
      /\ r.mails = message[m].mails /\ r.doubt = message[m].doubt
  BY <1>1 DEF MessageRecord
<1>3. message' = [message EXCEPT ![m] = r] /\ message'[m] = r
  BY DEF Back
<1> HIDE DEF r
<1>4. Sound(m)' /\ InBatch(m)'
  BY <1>1, <1>2, <1>3, ContactAssumption DEF Sound, InBatch
<1> QED
  BY <1>2, <1>3, <1>4, MessageMoves

LEMMA EnqueueBack == ASSUME Back, Between, NEW q \in Request, Enqueue(q) PROVE Back'
<1>1. message[q].pc = "none" /\ q \in Message
  BY DEF Between, Enqueue, Message
<1>2. CASE message' = [message EXCEPT ![q].pc = "queued"]
  BY <1>1, <1>2, QueuedBack DEF Enqueue
<1>3. CASE UNCHANGED message
  BY <1>3 DEF Enqueue, Back, Sound, InBatch, BatchesReal
<1> QED
  BY <1>2, <1>3 DEF Enqueue

LEMMA IntrudeBack == ASSUME Back, NEW m \in Message, Intrude(m) PROVE Back'
BY QueuedBack DEF Intrude

LEMMA SendEmailBack == ASSUME Back, NEW m \in Message, SendEmail(m) PROVE Back'
<1> DEFINE r == [message[m] EXCEPT !.pc = "ack", !.mails = @ + 1]
<1>1. message[m] \in MessageRecord /\ message[m].pc = "send" /\ Sound(m) /\ InBatch(m)
  BY DEF Back, SendEmail
<1>2. message[m].mails < message[m].attempts /\ message[m].attempts \in 0 .. MaxRetries + 1
      /\ message[m].mails \in 0 .. MaxRetries + 1
  BY <1>1 DEF Sound, MessageRecord
<1>3. message[m].mails + 1 \in 0 .. MaxRetries + 1
  BY <1>2, ContactAssumption
<1>4. /\ r \in MessageRecord /\ r.pc = "ack" /\ r.attempts = message[m].attempts
      /\ r.mails = message[m].mails + 1 /\ r.doubt = message[m].doubt
  BY <1>1, <1>3 DEF MessageRecord
<1>5. message' = [message EXCEPT ![m] = r] /\ message'[m] = r
  BY DEF Back, SendEmail
<1> HIDE DEF r
<1>6. Sound(m)' /\ InBatch(m)'
  BY <1>1, <1>2, <1>4, <1>5, ContactAssumption DEF Sound, InBatch, SendEmail
<1> QED
  BY <1>4, <1>5, <1>6, MessageMoves DEF SendEmail

LEMMA SendFailsBack == ASSUME Back, NEW m \in Message, SendFails(m) PROVE Back'
<1>1. PICK sent \in BOOLEAN :
        message' = [message EXCEPT ![m].pc = "retry",
                                   ![m].mails = IF sent THEN @ + 1 ELSE @,
                                   ![m].doubt = @ \/ sent]
  BY DEF SendFails
<1> DEFINE n == IF sent THEN message[m].mails + 1 ELSE message[m].mails
           r == [message[m] EXCEPT !.pc = "retry", !.mails = n, !.doubt = @ \/ sent]
<1>2. message[m] \in MessageRecord /\ message[m].pc = "send" /\ Sound(m) /\ InBatch(m)
  BY DEF Back, SendFails
<1>3. message[m].mails < message[m].attempts /\ message[m].attempts \in 0 .. MaxRetries + 1
      /\ message[m].mails \in 0 .. MaxRetries + 1
  BY <1>2 DEF Sound, MessageRecord
<1>4. n \in 0 .. MaxRetries + 1 /\ n <= message[m].attempts
  BY <1>3, ContactAssumption
<1>5. /\ r \in MessageRecord /\ r.pc = "retry" /\ r.attempts = message[m].attempts
      /\ r.mails = n /\ r.doubt = (message[m].doubt \/ sent)
  BY <1>2, <1>4 DEF MessageRecord
<1>6. message' = [message EXCEPT ![m] = r] /\ message'[m] = r
  BY <1>1 DEF Back
<1> HIDE DEF r
<1>7. Sound(m)' /\ InBatch(m)'
  BY <1>2, <1>3, <1>4, <1>5, <1>6, ContactAssumption DEF Sound, InBatch, SendFails
<1> QED
  BY <1>5, <1>6, <1>7, MessageMoves DEF SendFails

LEMMA ConsumeBack == ASSUME Back, NEW B \in SUBSET Message, Consume(B) PROVE Back'
<1> SUFFICES ASSUME NEW m \in Message
             PROVE  message'[m] \in MessageRecord /\ Sound(m)' /\ InBatch(m)'
  <2>1. \A m \in Message : message'[m].pc = "none" => m \notin B /\ message'[m] = message[m]
    BY DEF Consume, Back, MessageRecord
  <2>2. BatchesReal'
    BY <2>1 DEF Consume, Back, BatchesReal
  <2> QED
    BY <2>2 DEF Consume, Back
<1>1. message[m] \in MessageRecord /\ Sound(m) /\ InBatch(m) /\ batches' = batches \cup {B}
  BY DEF Back, Consume
<1>2. CASE m \notin B
  BY <1>1, <1>2 DEF Consume, Sound, InBatch
<1>3. CASE m \in B
  <2> DEFINE a == message[m].attempts + 1
             pc == IF m \in Foreign THEN "retry" ELSE "send"
  <2>1. message[m].pc = "queued"
    BY <1>3 DEF Consume, Queued
  <2>2. /\ message[m].attempts \in 0 .. MaxRetries + 1 /\ message[m].attempts <= MaxRetries
        /\ message[m].mails \in 0 .. MaxRetries + 1
        /\ message[m].mails <= IF m \in Foreign THEN 0 ELSE message[m].attempts
    BY <1>1, <2>1 DEF Sound, MessageRecord
  <2>3. /\ a \in 0 .. MaxRetries + 1
        /\ message[m].mails <= a
        /\ IF m \in Foreign THEN message[m].mails = 0 ELSE message[m].mails < a
    BY <2>2, ContactAssumption
  <2>4. message'[m] = [message[m] EXCEPT !.pc = pc, !.attempts = a]
    BY <1>3 DEF Consume
  <2>5. /\ message'[m] \in MessageRecord
        /\ message'[m].pc = pc /\ message'[m].attempts = a
        /\ message'[m].mails = message[m].mails /\ message'[m].doubt = message[m].doubt
    BY <1>1, <2>3, <2>4 DEF MessageRecord
  <2>6. Sound(m)' /\ InBatch(m)'
    BY <1>1, <1>3, <2>1, <2>3, <2>5 DEF Sound, InBatch
  <2> QED
    BY <2>5, <2>6
<1> QED
  BY <1>2, <1>3

\* A message that the queue takes back has an attempt left or is put aside.
LEMMA TakenBackSound ==
  ASSUME NEW m \in Message, Sound(m), NEW doubt \in BOOLEAN,
         doubt \/ message[m].mails = 0, message[m].doubt => doubt,
         message'[m] = [message[m] EXCEPT !.pc = TakenBack(m), !.doubt = doubt]
  PROVE  Sound(m)' /\ message'[m].pc \in {"queued", "dead"}
<1>1. /\ message[m].attempts \in 0 .. MaxRetries + 1
      /\ TakenBack(m) \in {"queued", "dead"}
      /\ TakenBack(m) = "queued" => message[m].attempts <= MaxRetries
  BY ContactAssumption DEF TakenBack, Sound, MessageRecord
<1>2. /\ message'[m] \in MessageRecord /\ message'[m].pc = TakenBack(m)
      /\ message'[m].attempts = message[m].attempts
      /\ message'[m].mails = message[m].mails /\ message'[m].doubt = doubt
  BY <1>1 DEF Sound, MessageRecord
<1> QED
  BY <1>1, <1>2 DEF Sound

\* A batch that ends leaves the messages of other batches alone.
LEMMA BatchEnds ==
  ASSUME Back, NEW B \in SUBSET Message, batches' = batches \ {B},
         DOMAIN message' = Message, message' = [m \in Message |-> message'[m]],
         \A m \in Message \ B : message'[m] = message[m],
         \A m \in B : Sound(m)' /\ message'[m].pc \in {"done", "queued", "dead"}
  PROVE  Back'
<1>1. \A m \in Message : Sound(m)'
  BY DEF Back, Sound
<1>2. message' \in [Message -> MessageRecord]
  BY <1>1 DEF Sound
<1>3. \A m \in Message : InBatch(m)'
  BY DEF Back, InBatch
<1>4. BatchesReal'
  BY DEF Back, BatchesReal
<1> QED
  BY <1>1, <1>2, <1>3, <1>4 DEF Back

LEMMA EndBatchBack == ASSUME Back, NEW B \in SUBSET Message, EndBatch(B) PROVE Back'
<1>1. ASSUME NEW m \in B
      PROVE  Sound(m)' /\ message'[m].pc \in {"done", "queued", "dead"}
  <2>1. m \in Message /\ message[m] \in MessageRecord /\ Sound(m) /\ message[m].pc \in {"ack", "retry"}
    BY DEF Back, EndBatch
  <2>2. CASE message[m].pc = "ack"
    <3>1. message'[m] = [message[m] EXCEPT !.pc = "done"]
      BY <2>1, <2>2 DEF EndBatch
    <3>2. /\ message'[m] \in MessageRecord /\ message'[m].pc = "done"
          /\ message'[m].attempts = message[m].attempts
          /\ message'[m].mails = message[m].mails /\ message'[m].doubt = message[m].doubt
      BY <2>1, <3>1 DEF MessageRecord
    <3> QED
      BY <2>1, <2>2, <3>2 DEF Sound
  <2>3. CASE message[m].pc = "retry"
    <3>1. message'[m] = [message[m] EXCEPT !.pc = TakenBack(m)]
      BY <2>1, <2>3 DEF EndBatch
    <3>2. [message[m] EXCEPT !.pc = TakenBack(m)]
            = [message[m] EXCEPT !.pc = TakenBack(m), !.doubt = message[m].doubt]
      BY <2>1 DEF MessageRecord
    <3>3. message[m].doubt \in BOOLEAN /\ (message[m].doubt \/ message[m].mails = 0)
      BY <2>1, <2>3 DEF Sound, MessageRecord
    <3> QED
      BY <2>1, <3>1, <3>2, <3>3, TakenBackSound
  <2> QED
    BY <2>1, <2>2, <2>3
<1>2. /\ \A m \in Message \ B : message'[m] = message[m]
      /\ DOMAIN message' = Message /\ message' = [m \in Message |-> message'[m]]
      /\ batches' = batches \ {B}
  BY DEF EndBatch
<1> QED
  BY <1>1, <1>2, BatchEnds

LEMMA FailBatchBack == ASSUME Back, NEW B \in SUBSET Message, FailBatch(B) PROVE Back'
<1>1. ASSUME NEW m \in B
      PROVE  Sound(m)' /\ message'[m].pc \in {"done", "queued", "dead"}
  <2> DEFINE doubt == message[m].doubt \/ message[m].mails > 0
  <2>1. m \in Message /\ message[m] \in MessageRecord /\ Sound(m)
    BY DEF Back
  <2>2. message'[m] = [message[m] EXCEPT !.pc = TakenBack(m), !.doubt = doubt]
    BY <2>1 DEF FailBatch
  <2>3. message[m].mails \in Nat
    BY <2>1, ContactAssumption DEF MessageRecord
  <2>4. doubt \in BOOLEAN /\ (doubt \/ message[m].mails = 0) /\ (message[m].doubt => doubt)
    BY <2>3
  <2> HIDE DEF doubt
  <2> QED
    BY <2>1, <2>2, <2>4, TakenBackSound
<1>2. /\ \A m \in Message \ B : message'[m] = message[m]
      /\ DOMAIN message' = Message /\ message' = [m \in Message |-> message'[m]]
      /\ batches' = batches \ {B}
  BY DEF FailBatch
<1> QED
  BY <1>1, <1>2, BatchEnds

-----------------------------------------------------------------------------
(* Between the two: a message exists only once its request reaches the queue *)

LEMMA RequestBetween ==
  ASSUME Front, Between, NEW q \in Request,
         \/ \E f \in Form : Submit(f, q)
         \/ Read(q) \/ Verify(q)
  PROVE  Between'
<1>1. request \in [Request -> RequestRecord]
  BY DEF Front
<1>2. ASSUME NEW f \in Form, Submit(f, q) PROVE Between'
  <2>1. /\ request[q].pc = "unsent" /\ UNCHANGED message /\ request'[q].pc = "read"
        /\ \A p \in Request \ {q} : request'[p] = request[p]
    BY <1>1, <1>2 DEF Submit
  <2> QED
    BY <2>1 DEF Between
<1>3. ASSUME request[q].pc \in {"read", "verify"}, UNCHANGED message,
             NEW pc \in {"verify", "enqueue", "rejected"}, Goto(q, pc)
      PROVE  Between'
  <2>1. request'[q].pc = pc /\ \A p \in Request \ {q} : request'[p] = request[p]
    BY <1>1, <1>3 DEF Goto, RequestRecord
  <2> QED
    BY <1>3, <2>1 DEF Between
<1>4. CASE Read(q)
  BY <1>3, <1>4 DEF Read
<1>5. CASE Verify(q)
  BY <1>3, <1>5 DEF Verify
<1> QED
  BY <1>2, <1>4, <1>5

LEMMA EnqueueBetween ==
  ASSUME Front, Back, Between, NEW q \in Request, Enqueue(q) PROVE Between'
<1>1. q \in Message
  BY DEF Message
<1>2. /\ \A p \in Request \ {q} : request'[p] = request[p] /\ message'[p].pc = message[p].pc
      /\ \/ request'[q].pc = "accepted" /\ message'[q].pc = "queued"
         \/ request'[q].pc = "rejected"
  BY <1>1 DEF Enqueue, Goto, Front, Back, RequestRecord, MessageRecord, Message
<1> QED
  BY <1>2 DEF Between

\* The queue makes no message of a request, and forgets none.
LEMMA QueueBetween ==
  ASSUME Back, Between,
         \/ \E m \in Message : Intrude(m) \/ SendEmail(m) \/ SendFails(m)
         \/ \E B \in SUBSET Message : Consume(B) \/ EndBatch(B) \/ FailBatch(B)
  PROVE  Between'
<1> SUFFICES UNCHANGED request /\ \A q \in Request : message'[q].pc = "none" <=> message[q].pc = "none"
  BY DEF Between
<1>1. UNCHANGED request
  BY DEF Intrude, SendEmail, SendFails, Consume, EndBatch, FailBatch
<1>2. \A q \in Request : q \in Message /\ q \notin Foreign
  BY ContactAssumption DEF Message
<1>3. ASSUME NEW m \in Message, Intrude(m) \/ SendEmail(m) \/ SendFails(m)
      PROVE  \A q \in Request : message'[q].pc = "none" <=> message[q].pc = "none"
  <2>1. CASE Intrude(m)
    BY <1>2, <2>1 DEF Intrude, Back
  <2>2. CASE SendEmail(m)
    BY <1>2, <2>2 DEF SendEmail, Back, MessageRecord
  <2>3. CASE SendFails(m)
    <3>1. PICK sent \in BOOLEAN :
            message' = [message EXCEPT ![m].pc = "retry",
                                       ![m].mails = IF sent THEN @ + 1 ELSE @,
                                       ![m].doubt = @ \/ sent]
      BY <2>3 DEF SendFails
    <3> DEFINE n == IF sent THEN message[m].mails + 1 ELSE message[m].mails
               d == message[m].doubt \/ sent
    <3>2. message'[m] = [message[m] EXCEPT !.pc = "retry", !.mails = n, !.doubt = d]
      BY <3>1 DEF Back
    <3> HIDE DEF n, d
    <3>3. message'[m].pc = "retry" /\ message[m].pc = "send"
      BY <2>3, <3>2 DEF SendFails, Back, MessageRecord
    <3>4. \A x \in Message \ {m} : message'[x] = message[x]
      BY <3>1 DEF Back
    <3> QED
      BY <1>2, <3>3, <3>4
  <2> QED
    BY <1>3, <2>1, <2>2, <2>3
<1>4. ASSUME NEW B \in SUBSET Message, Consume(B)
      PROVE  \A q \in Request : message'[q].pc = "none" <=> message[q].pc = "none"
  BY <1>2, <1>4 DEF Consume, Queued, Back, MessageRecord
<1>5. ASSUME NEW B \in SUBSET Message, EndBatch(B) \/ FailBatch(B)
      PROVE  \A q \in Request : message'[q].pc = "none" <=> message[q].pc = "none"
  <2>1. B \in batches /\ \A m \in B : message[m].pc # "none"
    BY <1>5 DEF EndBatch, FailBatch, Back, BatchesReal
  <2>2. ASSUME NEW m \in B
        PROVE  message'[m].pc \in {"done", "queued", "dead"}
    <3>1. m \in Message /\ message[m] \in MessageRecord
          /\ TakenBack(m) \in {"queued", "dead"}
      BY DEF Back, TakenBack
    <3>2. CASE EndBatch(B)
      BY <3>1, <3>2 DEF EndBatch, MessageRecord
    <3>3. CASE FailBatch(B)
      BY <3>1, <3>3 DEF FailBatch, MessageRecord
    <3> QED
      BY <1>5, <3>2, <3>3
  <2>3. \A m \in Message \ B : message'[m] = message[m]
    BY <1>5 DEF EndBatch, FailBatch
  <2> QED
    BY <1>2, <2>1, <2>2, <2>3
<1> QED
  BY <1>1, <1>3, <1>4, <1>5

-----------------------------------------------------------------------------
(* The invariant *)

LEMMA FrontKept == ASSUME Front, UNCHANGED <<form, request, spent>> PROVE Front'
BY DEF Front, FreshToken, TokensGiven, NextTokenNew, SpentOnRequest

LEMMA BackKept == ASSUME Back, UNCHANGED <<message, batches>> PROVE Back'
BY DEF Back, Sound, InBatch, BatchesReal

LEMMA BetweenKept == ASSUME Between, UNCHANGED <<request, message>> PROVE Between'
BY DEF Between

LEMMA Step == ASSUME Front, Back, Between, [Next]_vars PROVE Front' /\ Back' /\ Between'
<1>1. ASSUME NEW f \in Form, GiveToken(f) PROVE Front' /\ Back' /\ Between'
  BY <1>1, GiveTokenFront, BackKept, BetweenKept DEF GiveToken
<1>2. ASSUME NEW f \in Form, DropToken(f) PROVE Front' /\ Back' /\ Between'
  BY <1>2, DropTokenFront, BackKept, BetweenKept DEF DropToken
<1>3. ASSUME NEW f \in Form, NEW q \in Request, Submit(f, q) PROVE Front' /\ Back' /\ Between'
  BY <1>3, SubmitFront, BackKept, RequestBetween DEF Submit
<1>4. ASSUME NEW f \in Form, Settle(f) \/ GiveUp(f) PROVE Front' /\ Back' /\ Between'
  BY <1>4, SettleFront, BackKept, BetweenKept DEF Settle, GiveUp
<1>5. ASSUME NEW q \in Request, Read(q) PROVE Front' /\ Back' /\ Between'
  BY <1>5, ReadFront, BackKept, RequestBetween DEF Read
<1>6. ASSUME NEW q \in Request, Verify(q) PROVE Front' /\ Back' /\ Between'
  BY <1>6, VerifyFront, BackKept, RequestBetween DEF Verify
<1>7. ASSUME NEW q \in Request, Enqueue(q) PROVE Front' /\ Back' /\ Between'
  BY <1>7, EnqueueFront, EnqueueBack, EnqueueBetween
<1>8. ASSUME NEW m \in Message, Intrude(m) PROVE Front' /\ Back' /\ Between'
  BY <1>8, FrontKept, IntrudeBack, QueueBetween DEF Intrude
<1>9. ASSUME NEW m \in Message, SendEmail(m) PROVE Front' /\ Back' /\ Between'
  BY <1>9, FrontKept, SendEmailBack, QueueBetween DEF SendEmail
<1>10. ASSUME NEW m \in Message, SendFails(m) PROVE Front' /\ Back' /\ Between'
  BY <1>10, FrontKept, SendFailsBack, QueueBetween DEF SendFails
<1>11. ASSUME NEW B \in SUBSET Message, Consume(B) PROVE Front' /\ Back' /\ Between'
  BY <1>11, FrontKept, ConsumeBack, QueueBetween DEF Consume
<1>12. ASSUME NEW B \in SUBSET Message, EndBatch(B) PROVE Front' /\ Back' /\ Between'
  BY <1>12, FrontKept, EndBatchBack, QueueBetween DEF EndBatch
<1>13. ASSUME NEW B \in SUBSET Message, FailBatch(B) PROVE Front' /\ Back' /\ Between'
  BY <1>13, FrontKept, FailBatchBack, QueueBetween DEF FailBatch
<1>14. CASE UNCHANGED vars
  BY <1>14, FrontKept, BackKept, BetweenKept DEF vars
<1> QED
  BY <1>1, <1>2, <1>3, <1>4, <1>5, <1>6, <1>7, <1>8, <1>9, <1>10, <1>11, <1>12, <1>13, <1>14
     DEF Next

\* In every reachable state each token belongs to one request, and where a message
\* is tells how often it has been tried and mailed.
THEOREM Invariant == Spec => []IInv
<1>1. Init => IInv
  BY FrontInit, BackInit, BetweenInit, Halves
<1>2. IInv /\ [Next]_vars => IInv'
  <2> SUFFICES ASSUME Front, Back, Between, [Next]_vars PROVE IInv'
    BY Halves
  <2>1. Front' /\ Back' /\ Between'
    BY Step
  <2>2. IInv' <=> Front' /\ Back' /\ Between'
    BY Halves, PTL
  <2> QED
    BY <2>1, <2>2
<1> QED
  BY <1>1, <1>2, PTL DEF Spec

\* A form never presents a token twice, however its attempts end.
THEOREM TokensFresh == Spec => []FreshToken
<1>1. IInv => FreshToken
  BY DEF IInv
<1> QED
  BY <1>1, Invariant, PTL

\* What the worker has accepted is in the queue, in a batch, mailed or put aside,
\* through retries and failing batches.
THEOREM NothingLost == Spec => []AcceptedIsKept
<1>1. IInv => AcceptedIsKept
  BY DEF IInv
<1> QED
  BY <1>1, Invariant, PTL

\* Only a call that threw, or a batch that failed, lets a message be mailed twice.
THEOREM MailsCounted == Spec => []MailedOnce
<1>1. IInv => MailedOnce
  BY DEF IInv
<1> QED
  BY <1>1, Invariant, PTL
================================================================================
