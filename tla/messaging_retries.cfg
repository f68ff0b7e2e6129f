SPECIFICATION FairSpec
CONSTANTS
  Emails = {email}
  WhatsApps = {whatsapp}
  Senders = {s1}
  Retriers = {r1, r2}
  InitCredits = 1
  MaxRetries = 4
  Amounts = {}
  Ops = {"settings"}
  MaxRequests = 1
  MaxCredits = 1
INVARIANTS TypeOK GivenUpLate
PROPERTY RetriesEnd
CHECK_DEADLOCK FALSE
