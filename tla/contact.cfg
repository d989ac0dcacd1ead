SPECIFICATION FairSpec
CONSTANTS
  None = None
  Form = {f1}
  Request = {q1, q2}
  Foreign = {x1}
  MaxToken = 2
  MaxRetries = 1
  BatchSize = 2
INVARIANTS IInv FreshToken AcceptedIsKept MailedOnce
PROPERTIES SubmissionsEnd
CHECK_DEADLOCK FALSE
