\* Two requests find the same subscription lapsed.
SPECIFICATION Spec
CONSTANTS
  r1 = r1
  r2 = r2
  topUp = topUp
  purchase = purchase
  second = second
  notice = notice
  pro = pro
  low = low
  Requests = {r1, r2}
  TopUps = {topUp}
  Purchases = {purchase}
  Notices = {}
  PlanOf <- NamedPlan
  PaidPlans = {pro, low}
  Free = Free
  Switches = {}
  None = None
  Price = 1
  Period = 2
  MaxTime = 2
  MaxRows = 4
  MaxCrashes = 0
INVARIANTS RenewalDebitedOnce
