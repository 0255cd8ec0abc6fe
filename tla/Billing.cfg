\* Two requests at once, one of which may die.
\* The clock, the rows and the crashes run out, so the system may stop.
SPECIFICATION Spec
CONSTANTS
  r1 = r1
  r2 = r2
  topUp = topUp
  purchase = purchase
  second = second
  notice = notice
  pro = pro
  low = low
  Requests = {r1, r2}
  TopUps = {topUp}
  Purchases = {purchase}
  Notices = {notice}
  PlanOf <- NamedPlan
  PaidPlans = {pro, low}
  Free = Free
  Switches = {}
  None = None
  Price = 1
  Period = 2
  MaxTime = 2
  MaxRows = 4
  MaxCrashes = 1
CHECK_DEADLOCK FALSE
SYMMETRY RequestSymmetry
INVARIANTS TypeOK TopUpCreditedOnce PaidPurchaseGranted NoticeAppliedOnce OverlapBounded
PROPERTIES ImplementsPayments
