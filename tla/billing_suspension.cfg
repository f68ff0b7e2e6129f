SPECIFICATION FairSpec
CONSTANTS
  basic = basic
  pro = pro
  Orgs = {o1}
  Plans <- MCPlans
  NoPlan = NoPlan
  NoDate = NoDate
  Price <- MCPrice
  PlanCredits <- MCPlanCredits
  Schedulers = {j1}
  Requests = {r1}
  GraceDays = 0
  CycleDays = 3
  RenewWindow = 1
  SelfServeDays = 0
  ReminderDays = {}
  Ops = {"extend", "suspend", "activate", "dashboard", "edit"}
  InitPlans = {basic}
  InitExpiry = {1}
  InitCredits = 0
  FormDays = {1}
  FormPayments = {}
  MaxExpiry = 4
  MaxDay = 4
  MaxInvoices = 4
PROPERTIES LapsedLosesAccess
CHECK_DEADLOCK FALSE
