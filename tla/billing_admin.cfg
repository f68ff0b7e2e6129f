SPECIFICATION Spec
CONSTANTS
  basic = basic
  pro = pro
  Orgs = {o1, o2}
  Plans <- MCPlans
  NoPlan = NoPlan
  NoDate = NoDate
  Price <- MCPrice
  PlanCredits <- MCPlanCredits
  Schedulers = {j1}
  Requests = {r1}
  GraceDays = 1
  CycleDays = 3
  RenewWindow = 1
  SelfServeDays = 1
  ReminderDays = {}
  Ops = {"cycle", "subscribe", "delete"}
  InitPlans = {basic}
  InitExpiry = {2}
  InitCredits = 0
  FormDays = {}
  FormPayments = {"PAID"}
  MaxExpiry = 3
  MaxDay = 1
  MaxInvoices = 2
INVARIANTS TypeOK
PROPERTIES DeletedStaysDeleted
CHECK_DEADLOCK FALSE
