SPECIFICATION Spec
CONSTANTS
  Emails = {email}
  WhatsApps = {}
  Senders = {s1}
  Retriers = {r1, r2}
  InitCredits = 2
  MaxRetries = 4
  Amounts = {}
  Ops = {}
  MaxRequests = 1
  MaxCredits = 1

INVARIANT AcceptedOnce
CHECK_DEADLOCK FALSE
