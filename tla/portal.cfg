SPECIFICATION Spec
CONSTANTS
  Cands = {c1}
  NoOne = NoOne
  Browsers = {b1, b2}
  Apps = {a1}
  Mobiles = {m1, m2}
  Passwords = {m1, m2}
  NoPassword = NoPassword
  FormAddresses = {}
  MaxCodes = 1
  MaxConsents = 1
INVARIANTS TypeOK ConsentGate DefaultPasswordReplaced UsedOnce
SYMMETRY Alike
CHECK_DEADLOCK FALSE
