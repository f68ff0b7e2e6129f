SPECIFICATION Spec
CONSTANTS
  acme = acme
  bolt = bolt
  m1 = m1
  m2 = m2
  role1 = role1
  role2 = role2
  Cands = {c1, c2}
  Companies = {acme, bolt}
  NoCompany = NoCompany
  Roles = {role1, role2}
  Mobiles = {m1, m2}
  Forms <- MCForms
  Limit = 1
  Requests = {r1}
  MaxEmployers = 2
  MaxPlacements = 2
  MaxSaves = 3

PROPERTY PlacementKept
CHECK_DEADLOCK FALSE
