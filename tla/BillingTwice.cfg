\* A webhook and a refresh of the same paid purchase overlap.
SPECIFICATION Spec
CONSTANTS
  r1 = r1
  r2 = r2
  topUp = topUp
  purchase = purchase
  second = second
  notice = notice
  pro = pro
  low = low
  Requests = {r1, r2}
  TopUps = {}
  Purchases = {purchase}
  Notices = {}
  PlanOf <- NamedPlan
  PaidPlans = {pro, low}
  Free = Free
  Switches = {}
  None = None
  Price = 1
  Period = 2
  MaxTime = 0
  MaxRows = 4
  MaxCrashes = 0
INVARIANTS GrantedOnce
