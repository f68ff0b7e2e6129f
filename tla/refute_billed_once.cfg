SPECIFICATION Spec
CONSTANTS
  basic = basic
  pro = pro
  Orgs = {o1}
  Plans <- MCPlans
  NoPlan = NoPlan
  NoDate = NoDate
  Price <- MCPrice
  PlanCredits <- MCPlanCredits
  Schedulers = {j1}
  Requests = {r1}
  GraceDays = 1
  CycleDays = 3
  RenewWindow = 1
  SelfServeDays = 0
  ReminderDays = {}
  Ops = {"cycle"}
  InitPlans = {basic}
  InitExpiry = {1}
  InitCredits = 0
  FormDays = {}
  FormPayments = {}
  MaxExpiry = 3
  MaxDay = 1
  MaxInvoices = 2
INVARIANTS BilledOnce
CHECK_DEADLOCK FALSE
