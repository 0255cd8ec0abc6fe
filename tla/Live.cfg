\* Requests that are served go on, and what is repeated until it works gets its turn.
\* One billing request and one worker may die.  What can happen runs out, so the system may stop.
SPECIFICATION LiveSpec
CONSTANTS
  r1 = r1
  r2 = r2
  purchase = purchase
  pro = pro
  low = low
  u1 = u1
  u2 = u2
  s1 = s1
  g1 = g1
  Bot = Bot
  i1 = i1
  c1 = c1
  Scheduler = Scheduler
  Requests = {r1, r2}
  TopUps = {}
  Purchases = {purchase}
  Notices = {}
  PlanOf <- ProPurchase
  PaidPlans = {pro, low}
  Free = Free
  Switches = {}
  None = None
  Price = 1
  Period = 2
  MaxTime = 0
  MaxRows = 5
  MaxCrashes = 1
CHECK_DEADLOCK FALSE
PROPERTIES PaymentArrives Admitted PendingEnds QueuedJobsEnd
