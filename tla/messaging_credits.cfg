SPECIFICATION Spec
CONSTANTS
  Emails = {email}
  WhatsApps = {whatsapp}
  Senders = {s1, s2}
  Retriers = {r1}
  InitCredits = 1
  MaxRetries = 2
  Amounts = {1}
  Ops = {"topup", "settings", "crash"}
  MaxRequests = 2
  MaxCredits = 2
INVARIANT CreditsConserved
PROPERTY CreditSpec
CHECK_DEADLOCK FALSE
