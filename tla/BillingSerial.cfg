\* One request at a time, which may die: what sequences of requests do.
\* The clock, the rows and the crashes run out, so the system may stop.
SPECIFICATION Spec
CONSTANTS
  r1 = r1
  r2 = r2
  topUp = topUp
  purchase = purchase
  second = second
  notice = notice
  pro = pro
  low = low
  Requests = {r1}
  TopUps = {topUp}
  Purchases = {purchase}
  Notices = {notice}
  PlanOf <- NamedPlan
  PaidPlans = {pro, low}
  Free = Free
  Switches = {low}
  None = None
  Price = 1
  Period = 2
  MaxTime = 5
  MaxRows = 5
  MaxCrashes = 1
CHECK_DEADLOCK FALSE
INVARIANTS OneSubscription
PROPERTIES RenewalBuysTime
