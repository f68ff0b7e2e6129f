SPECIFICATION Spec
CONSTANTS
  basic = basic
  pro = pro
  Orgs = {o1}
  Plans <- MCPlans
  NoPlan = NoPlan
  NoDate = NoDate
  Price <- MCPrice
  PlanCredits <- MCPlanCredits
  Schedulers = {j1, j2}
  Requests = {r1}
  GraceDays = 1
  CycleDays = 3
  RenewWindow = 1
  SelfServeDays = 1
  ReminderDays = {1}
  Ops = {"choose", "generate", "crash", "markPaid"}
  InitPlans = {basic}
  InitExpiry = {2}
  InitCredits = 0
  FormDays = {}
  FormPayments = {}
  MaxExpiry = 3
  MaxDay = 2
  MaxInvoices = 2
INVARIANTS OneOpenJobInvoice UnitsOfWorkConsistent
PROPERTY RegisterSpec
CHECK_DEADLOCK FALSE
