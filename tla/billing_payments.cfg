SPECIFICATION FairSpec
CONSTANTS
  basic = basic
  pro = pro
  Orgs = {o1}
  Plans <- MCPlans
  NoPlan = NoPlan
  NoDate = NoDate
  Price <- MCPrice
  PlanCredits <- MCPlanCredits
  Schedulers = {j1}
  Requests = {r1, r2}
  GraceDays = 1
  CycleDays = 3
  RenewWindow = 1
  SelfServeDays = 0
  ReminderDays = {}
  Ops = {"choose", "pay", "payOnline", "webhook", "sync"}
  InitPlans = {basic}
  InitExpiry = {4}
  InitCredits = 0
  FormDays = {}
  FormPayments = {}
  MaxExpiry = 3
  MaxDay = 2
  MaxInvoices = 2
INVARIANTS GrantedOnce OnePendingPurchase
PROPERTIES PaymentIsRecorded
CHECK_DEADLOCK FALSE
