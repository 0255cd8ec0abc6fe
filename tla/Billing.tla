------------------------------- MODULE Billing -------------------------------
(***************************************************************************)
(* Invoices, subscriptions and the ledger of one organization:             *)
(* app/services/crypto_bot_service.py, billing_service.py and              *)
(* ledger_service.py, as the requests of app/routers/billing.py run them.  *)
(*                                                                         *)
(* Requests overlap.  A step is a statement or a commit of one request at  *)
(* read committed isolation: a statement sees what others have committed,  *)
(* what a request read before may be stale, and an UPDATE waits for the    *)
(* transaction that has updated the same row.  The ledger is counted in    *)
(* units that one top-up credits.                                          *)
(***************************************************************************)
EXTENDS Integers, Sequences, FiniteSets

CONSTANTS
  Requests,      \* requests being served
  TopUps,        \* invoices of type balance_topup
  Purchases,     \* invoices of type plan_purchase
  Notices,       \* webhook events of another provider that name a plan
  PlanOf,        \* the plan that a purchase or a notice names
  PaidPlans,     \* plans with a price
  Free,          \* the plan without one
  Switches,      \* plans that users switch to without paying at once
  None,          \* no row, no period end, no subject
  Price,         \* price_monthly, the same for all paid plans
  Period,        \* MONTHLY_PERIOD_DAYS
  MaxTime,       \* bound: the time at which the clock stops
  MaxRows,       \* bound: subscriptions ever inserted
  MaxCrashes     \* bound: requests lost to the death of their process

Plans    == PaidPlans \union {Free}
Invoices == TopUps \union Purchases
Rows     == 1 .. MaxRows
Time     == 0 .. MaxTime

ASSUME BillingAssumption ==
  /\ TopUps \intersect Purchases = {} /\ Notices \intersect Invoices = {}
  /\ Plans \intersect (Invoices \union Notices) = {}
  /\ Free \notin PaidPlans /\ Switches \subseteq Plans
  /\ PlanOf \in [Purchases \union Notices -> Plans]
  /\ \A i \in Purchases : PlanOf[i] \in PaidPlans
  /\ None \notin Invoices \union Notices \union Plans \union Int
  /\ Price \in Nat \ {0} /\ Period \in Nat \ {0}
  /\ MaxTime \in Nat /\ MaxRows \in Nat /\ MaxCrashes \in Nat

VARIABLES
  now,         \* the clock
  settled,     \* invoices the provider has received the payment of
  invoice,     \* payment_invoices.status; "none" before the row is inserted
  paidEvents,  \* number of billing events payment.invoice_paid of an invoice
  credits,     \* number of ledger credits whose source is the invoice
  debits,      \* ledger debits for renewals: each names a row and its period end
  balance,     \* get_balance: the sum of the ledger
  plan, state, ends,  \* subscriptions: plan_id, status, current_period_end
  rows,        \* the largest id of a subscription
  seen,        \* billing_webhook_events of the other provider
  granted,     \* switches committed on behalf of a purchase or a notice
  at,          \* where a request stands
  subject,     \* what it is about
  unchanged,   \* the status it read is already the one it has to write
  row, base,   \* the active subscription it read, and the period end it saw
  asOf,        \* the time it read
  crashes      \* requests lost so far

ledger  == <<credits, debits, balance>>
payment == <<settled, invoice, paidEvents>>
subs    == <<plan, state, ends, rows>>
notices == <<seen, granted>>
request == <<at, subject, unchanged, row, base, asOf>>
vars == <<now, payment, ledger, subs, notices, request, crashes>>

\* The positions of a request.  An invoice is locked while it is being granted.
Granting  == {"granting", "crediting", "adding", "noting"}
Switching == {"extending", "replacing"}
Renewing  == {"funding", "sourcing", "debiting", "renewing", "expiring"}
Positions == {"idle", "asking", "recording", "noticing", "switching", "defaulting"}
               \union Granting \union Switching \union Renewing

TypeOK ==
  /\ now \in Time /\ settled \subseteq Invoices
  /\ invoice \in [Invoices -> {"none", "active", "paid"}]
  /\ paidEvents \in [Invoices -> Nat] /\ credits \in [TopUps -> Nat]
  /\ debits \in Seq([row : Rows, base : Nat])
  /\ balance \in Int
  /\ plan \in [Rows -> Plans]
  /\ state \in [Rows -> {"none", "active", "replaced", "expired"}]
  /\ ends \in [Rows -> Nat \union {None}] /\ rows \in 0 .. MaxRows
  /\ seen \subseteq Notices /\ granted \in [Purchases \union Notices -> Nat]
  /\ at \in [Requests -> Positions]
  /\ subject \in [Requests -> Invoices \union Notices \union Plans \union {None}]
  /\ unchanged \in [Requests -> BOOLEAN]
  /\ row \in [Requests -> Rows \union {None}]
  /\ base \in [Requests -> Nat \union {None}] /\ asOf \in [Requests -> Time]
  /\ crashes \in 0 .. MaxCrashes

Init ==
  /\ now = 0 /\ settled = {}
  /\ invoice = [i \in Invoices |-> "none"]
  /\ paidEvents = [i \in Invoices |-> 0] /\ credits = [i \in TopUps |-> 0]
  /\ debits = <<>> /\ balance = 0
  /\ plan = [s \in Rows |-> Free] /\ state = [s \in Rows |-> "none"]
  /\ ends = [s \in Rows |-> None] /\ rows = 0
  /\ seen = {} /\ granted = [x \in Purchases \union Notices |-> 0]
  /\ at = [r \in Requests |-> "idle"] /\ subject = [r \in Requests |-> None]
  /\ unchanged = [r \in Requests |-> FALSE]
  /\ row = [r \in Requests |-> None] /\ base = [r \in Requests |-> None]
  /\ asOf = [r \in Requests |-> 0] /\ crashes = 0

-----------------------------------------------------------------------------
(* The life of a request.                                                    *)

Begin(r, position, x) ==
  /\ at[r] = "idle"
  /\ at' = [at EXCEPT ![r] = position]
  /\ subject' = [subject EXCEPT ![r] = x]

Goto(r, position) ==
  /\ at' = [at EXCEPT ![r] = position]
  /\ UNCHANGED subject

\* The response is sent, or the request fails; the session is closed.
Finish(r) ==
  /\ at' = [at EXCEPT ![r] = "idle"]
  /\ subject' = [subject EXCEPT ![r] = None]
  /\ unchanged' = [unchanged EXCEPT ![r] = FALSE]
  /\ row' = [row EXCEPT ![r] = None]
  /\ base' = [base EXCEPT ![r] = None]
  /\ asOf' = [asOf EXCEPT ![r] = 0]

\* What a request read of the subscriptions, and the time it read.
Remember(r, s) ==
  /\ row' = [row EXCEPT ![r] = s]
  /\ base' = [base EXCEPT ![r] = IF s = None THEN None ELSE ends[s]]
  /\ asOf' = [asOf EXCEPT ![r] = now]

KeepRead == UNCHANGED <<unchanged, row, base, asOf>>

\* The process dies: what was not committed is rolled back.
Crash(r) ==
  /\ at[r] # "idle" /\ crashes < MaxCrashes
  /\ crashes' = crashes + 1
  /\ Finish(r)
  /\ UNCHANGED <<now, payment, ledger, subs, notices>>

-----------------------------------------------------------------------------
(* Subscriptions: switch_subscription_plan and ensure_default_subscription.  *)

Active == {s \in Rows : state[s] = "active"}

\* get_active_subscription.  updated_at is the start of the transaction that
\* wrote the row, so which of several active rows comes first is left open.
CurrentRows == IF Active = {} THEN {None} ELSE Active

\* Faulty: the period is added to the old end, however long ago that was.
NextFromOldEnd(end, t) == IF end = None THEN t + Period ELSE end + Period

\* _next_period_end.
NextPeriodEnd(end, t) ==
  IF end # None /\ end > t THEN end + Period ELSE t + Period

\* Faulty: the invoice's own code is taken for that of the plan.
SubjectAsPlan(x) == x

\* The plan that the switch is to: named by the purchase, the notice or the user.
WantedPlan(x) == IF x \in Purchases \union Notices THEN PlanOf[x] ELSE x

\* A new active row, which takes the place of row s if there is one.
Insert(p, end, s, verdict) ==
  /\ rows < MaxRows
  /\ rows' = rows + 1
  /\ plan' = [plan EXCEPT ![rows'] = p]
  /\ ends' = [ends EXCEPT ![rows'] = end]
  /\ state' = [t \in Rows |-> IF t = rows' THEN "active"
                              ELSE IF t = s THEN verdict ELSE state[t]]

Extend(s, end) ==
  /\ ends' = [ends EXCEPT ![s] = end]
  /\ UNCHANGED <<plan, state, rows>>

StartSwitch(r, p) ==
  /\ p \in Switches
  /\ Begin(r, "switching", p)
  /\ KeepRead
  /\ UNCHANGED <<now, payment, ledger, subs, notices, crashes>>

\* The read of switch_subscription_plan, which does nothing more when the plan
\* is the current one and there is no period to add.
ReadSubscription(r) ==
  /\ at[r] \in {"switching", "granting"}
  /\ \E s \in CurrentRows :
       IF s # None /\ plan[s] = WantedPlan(subject[r])
       THEN IF subject[r] \in Purchases
            THEN Goto(r, "extending") /\ Remember(r, s) /\ UNCHANGED unchanged
            ELSE Finish(r)
       ELSE Goto(r, "replacing") /\ Remember(r, s) /\ UNCHANGED unchanged
  /\ UNCHANGED <<now, payment, ledger, subs, notices, crashes>>

\* The period end of the row that replaces the one that was read: a month for
\* a purchase, otherwise what is left of the old period.
NewPeriodEnd(r) ==
  IF subject[r] \in Purchases THEN NextPeriodEnd(None, asOf[r])
  ELSE IF base[r] # None /\ base[r] > asOf[r] THEN base[r] ELSE None

\* Faulty: the old row stays active.
InsertBeside(r) == Insert(WantedPlan(subject[r]), NewPeriodEnd(r), None, "replaced")

Replace(r) == Insert(WantedPlan(subject[r]), NewPeriodEnd(r), row[r], "replaced")

\* The commit of switch_subscription_plan.  It commits the invoice's new status
\* as well, and so ends the transaction that had its row locked.
CommitSwitch(r) ==
  /\ \/ at[r] = "extending" /\ Extend(row[r], NextPeriodEnd(base[r], asOf[r]))
     \/ at[r] = "replacing" /\ Replace(r)
  /\ IF subject[r] \in Purchases \union Notices
     THEN granted' = [granted EXCEPT ![subject[r]] = @ + 1]
     ELSE UNCHANGED granted
  /\ IF subject[r] \in Purchases
     THEN /\ invoice' = [invoice EXCEPT ![subject[r]] = "paid"]
          /\ Goto(r, "recording") /\ KeepRead
     ELSE Finish(r) /\ UNCHANGED invoice
  /\ UNCHANGED <<now, settled, paidEvents, ledger, seen, crashes>>

\* ensure_default_subscription.
StartDefault(r) ==
  /\ Active = {}
  /\ Begin(r, "defaulting", None)
  /\ KeepRead
  /\ UNCHANGED <<now, payment, ledger, subs, notices, crashes>>

CommitDefault(r) ==
  /\ at[r] = "defaulting"
  /\ Insert(Free, None, None, "active")
  /\ Finish(r)
  /\ UNCHANGED <<now, payment, ledger, notices, crashes>>

-----------------------------------------------------------------------------
(* Invoices: creation, refresh_invoice_status and apply_webhook_update.      *)

\* create_balance_topup_invoice, create_plan_purchase_invoice.
CreateInvoice(i) ==
  /\ invoice[i] = "none"
  /\ invoice' = [invoice EXCEPT ![i] = "active"]
  /\ UNCHANGED <<now, settled, paidEvents, ledger, subs, notices, request, crashes>>

\* The user pays, at the provider.
Settle(i) ==
  /\ invoice[i] # "none"
  /\ settled' = settled \union {i}
  /\ UNCHANGED <<now, invoice, paidEvents, ledger, subs, notices, request, crashes>>

\* A viewer asks for a refresh, or the provider delivers its webhook, for the
\* first time or again: the row is read.
LoadInvoice(r, i) ==
  /\ invoice[i] # "none"
  /\ Begin(r, "asking", i)
  /\ unchanged' = [unchanged EXCEPT ![r] = invoice[i] = "paid"]
  /\ UNCHANGED <<row, base, asOf>>
  /\ UNCHANGED <<now, payment, ledger, subs, notices, crashes>>

\* Faulty: any billing event of the invoice counts, that of its creation too.
HasAnyEvent(i) == invoice[i] # "none"

\* Faulty: the event of a plan purchase is looked for under the type of a top-up.
HasTopUpEvent(i) == i \in TopUps /\ paidEvents[i] > 0

\* has_billing_event.
HasPaidEvent(i) == paidEvents[i] > 0

\* Faulty: the session does not flush before it queries.
NobodyWaits(r) == TRUE

\* The query of has_billing_event flushes the UPDATE of the invoice, if its
\* status changes, and that waits until no other transaction has the row.
FlushPasses(r) ==
  unchanged[r] \/ \A q \in Requests :
    q # r /\ at[q] \in Granting \union Switching /\ subject[q] = subject[r] =>
      unchanged[q]

\* The provider's answer is that the invoice is not paid, and nothing changes.
NotPaid(r) ==
  /\ at[r] = "asking" /\ subject[r] \notin settled
  /\ Finish(r)
  /\ UNCHANGED <<now, payment, ledger, subs, notices, crashes>>

\* The answer is that it is paid.
ApplyPaid(r) ==
  /\ at[r] = "asking" /\ subject[r] \in settled /\ FlushPasses(r)
  /\ IF HasPaidEvent(subject[r])
     THEN invoice' = [invoice EXCEPT ![subject[r]] = "paid"] /\ Finish(r)
     ELSE /\ Goto(r, IF subject[r] \in TopUps THEN "crediting" ELSE "granting")
          /\ KeepRead /\ UNCHANGED invoice
  /\ UNCHANGED <<now, settled, paidEvents, ledger, subs, notices, crashes>>

\* has_source_entry: a credit of this invoice.
CheckCredit(r) ==
  /\ at[r] = "crediting"
  /\ Goto(r, IF credits[subject[r]] > 0 THEN "noting" ELSE "adding")
  /\ KeepRead
  /\ UNCHANGED <<now, payment, ledger, subs, notices, crashes>>

\* The credit, unless it is there, the event, and the commit of all.
CommitTopUp(r) ==
  /\ at[r] \in {"adding", "noting"}
  /\ LET i == subject[r]
     IN  /\ IF at[r] = "adding"
            THEN /\ credits' = [credits EXCEPT ![i] = @ + 1]
                 /\ balance' = balance + 1
            ELSE UNCHANGED <<credits, balance>>
         /\ invoice' = [invoice EXCEPT ![i] = "paid"]
         /\ paidEvents' = [paidEvents EXCEPT ![i] = @ + 1]
  /\ Finish(r)
  /\ UNCHANGED <<now, settled, debits, subs, notices, crashes>>

\* The event of a purchase, and the last commit.
RecordPaid(r) ==
  /\ at[r] = "recording"
  /\ paidEvents' = [paidEvents EXCEPT ![subject[r]] = @ + 1]
  /\ Finish(r)
  /\ UNCHANGED <<now, settled, invoice, ledger, subs, notices, crashes>>

-----------------------------------------------------------------------------
(* Webhooks of other providers: process_webhook_event, then the switch.      *)

\* Faulty: no unique constraint on the provider and its event.
NeverConflicts(n) == FALSE

\* uq_billing_event_provider_external_id refuses the row.
Conflicts(n) == n \in seen

\* The look for the event finds none.
StartNotice(r, n) ==
  /\ n \notin seen
  /\ Begin(r, "noticing", n)
  /\ KeepRead
  /\ UNCHANGED <<now, payment, ledger, subs, notices, crashes>>

\* The insert and its commit; the switch follows, in a transaction of its own.
CommitNotice(r) ==
  /\ at[r] = "noticing"
  /\ IF Conflicts(subject[r])
     THEN Finish(r) /\ UNCHANGED seen
     ELSE Goto(r, "switching") /\ KeepRead /\ seen' = seen \union {subject[r]}
  /\ UNCHANGED <<now, payment, ledger, subs, granted, crashes>>

-----------------------------------------------------------------------------
(* Renewal: reconcile_subscription, which any request that needs the plan of *)
(* its organization calls.                                                   *)

\* A paid subscription that has ended.
Lapsed(s, t) == ends[s] # None /\ ends[s] <= t /\ plan[s] \in PaidPlans

StartRenewal(r) ==
  /\ \E s \in Active : Lapsed(s, now) /\ Remember(r, s)
  /\ Begin(r, "funding", None)
  /\ UNCHANGED unchanged
  /\ UNCHANGED <<now, payment, ledger, subs, notices, crashes>>

\* Faulty: a balance that is not overdrawn is taken for enough.
NotOverdrawn == balance >= 0

EnoughFunds == balance >= Price

CheckFunds(r) ==
  /\ at[r] = "funding"
  /\ Goto(r, IF EnoughFunds THEN "sourcing" ELSE "expiring")
  /\ KeepRead
  /\ UNCHANGED <<now, payment, ledger, subs, notices, crashes>>

\* has_source_entry: a debit for this row and this period end.
CheckSource(r) ==
  /\ at[r] = "sourcing"
  /\ Goto(r, IF \E k \in DOMAIN debits : debits[k] = [row |-> row[r], base |-> base[r]]
             THEN "renewing" ELSE "debiting")
  /\ KeepRead
  /\ UNCHANGED <<now, payment, ledger, subs, notices, crashes>>

\* The debit, unless it is there, the new period end, and the commit of both.
CommitRenewal(r) ==
  /\ \/ /\ at[r] = "debiting"
        /\ debits' = Append(debits, [row |-> row[r], base |-> base[r]])
        /\ balance' = balance - Price
     \/ at[r] = "renewing" /\ UNCHANGED <<debits, balance>>
  /\ Extend(row[r], NextPeriodEnd(base[r], asOf[r]))
  /\ Finish(r)
  /\ UNCHANGED <<now, payment, credits, notices, crashes>>

\* The downgrade to the free plan.
CommitExpiry(r) ==
  /\ at[r] = "expiring"
  /\ Insert(Free, None, row[r], "expired")
  /\ Finish(r)
  /\ UNCHANGED <<now, payment, ledger, notices, crashes>>

\* A request is over long before the clock moves twice.
Tick ==
  /\ now < MaxTime
  /\ \A r \in Requests : at[r] \in Switching \union Renewing => asOf[r] = now
  /\ now' = now + 1
  /\ UNCHANGED <<payment, ledger, subs, notices, request, crashes>>

-----------------------------------------------------------------------------

RequestStep(r) ==
  \/ ReadSubscription(r) \/ CommitSwitch(r) \/ CommitDefault(r)
  \/ NotPaid(r) \/ ApplyPaid(r) \/ CheckCredit(r) \/ CommitTopUp(r) \/ RecordPaid(r)
  \/ CommitNotice(r)
  \/ CheckFunds(r) \/ CheckSource(r) \/ CommitRenewal(r) \/ CommitExpiry(r)

Arrival(r) ==
  \/ \E p \in Switches : StartSwitch(r, p)
  \/ StartDefault(r)
  \/ \E i \in Invoices : LoadInvoice(r, i)
  \/ \E n \in Notices : StartNotice(r, n)
  \/ StartRenewal(r)

Next ==
  \/ \E r \in Requests : Arrival(r) \/ RequestStep(r) \/ Crash(r)
  \/ \E i \in Invoices : CreateInvoice(i) \/ Settle(i)
  \/ Tick

Spec == Init /\ [][Next]_vars

\* A request that is being served goes on, and the provider repeats the webhook
\* of a payment until the payment is on record.
FairSpec ==
  /\ Spec
  /\ \A r \in Requests : WF_vars(RequestStep(r))
  /\ \A i \in Invoices :
       SF_vars(i \in settled /\ paidEvents[i] = 0 /\ \E r \in Requests : LoadInvoice(r, i))

-----------------------------------------------------------------------------
(* Properties.                                                               *)

\* A top-up is credited once, at the moment its invoice becomes paid, however
\* webhooks, their repetitions and refreshes overlap.  The two look-ups before
\* the credit would not do: it is the UPDATE flushed by the first that keeps
\* another request from looking before this one has committed.
TopUpCreditedOnce ==
  \A i \in TopUps :
    credits[i] = (IF invoice[i] = "paid" THEN 1 ELSE 0) /\ paidEvents[i] = credits[i]

\* A purchase is never shown as paid, or recorded, before its plan was granted,
\* whatever dies between the two commits: the user always gets what was paid.
PaidPurchaseGranted ==
  \A i \in Purchases : invoice[i] = "paid" \/ paidEvents[i] > 0 => granted[i] > 0

\* A notice of another provider switches the plan at most once, although it may
\* be delivered twice at the same time.
NoticeAppliedOnce == \A n \in Notices : granted[n] <= 1

\* While requests do not overlap there is one active subscription, however many
\* switches, purchases, renewals and downgrades there were and wherever one died.
OneSubscription == Cardinality(Active) <= 1

\* A renewal buys time that is not over yet, also when the subscription ended long
\* ago and when another request renews it at the same time.
RenewalBuysTime ==
  [][\A k \in DOMAIN debits' \ DOMAIN debits : ends'[debits'[k].row] > now]_vars

-----------------------------------------------------------------------------
(* What is promised to those who pay.                                        *)

\* What a request has taken up and has not made good yet, or None.
Giving ==
  [r \in Requests |->
     IF at[r] \in Granting \union Switching /\ subject[r] \in Invoices
     THEN subject[r] ELSE None]

\* The purchase whose plan a request has granted and not recorded yet, or None.
Owing == [r \in Requests |-> IF at[r] = "recording" THEN subject[r] ELSE None]

\* How often an invoice was made good: credited or granted.
Given == [i \in Invoices |-> IF i \in TopUps THEN credits[i] ELSE granted[i]]

Paid == {i \in Invoices : invoice[i] = "paid"}

Pay == INSTANCE Payments WITH
         Handlers <- Requests, Nothing <- None, received <- settled, given <- Given,
         recorded <- paidEvents, paid <- Paid, giving <- Giving, owing <- Owing,
         lost <- crashes

\* Whatever overlaps and dies, a payment is taken up only while it is not on record,
\* a top-up is credited, recorded and shown in one step by one request, and a purchase
\* is granted before it is shown and recorded.
ImplementsPayments == Pay!Spec

\* A webhook and its repetitions may grant a purchase more than once, but no more
\* often than there are requests at one time and requests that died.
GrantsBounded == \A i \in Purchases : granted[i] <= Cardinality(Requests) + crashes

\* Requests that reconcile one lapsed subscription may each debit it, but each once:
\* the period is never found lapsed again.
DebitsBounded ==
  \A j \in DOMAIN debits :
    Cardinality({k \in DOMAIN debits : debits[k] = debits[j]}) <= Cardinality(Requests)

\* All of them may have seen the same funds, so the balance falls short of a price
\* for each but one.
OverdraftBounded == balance >= Price - Cardinality(Requests) * Price

\* What requests that overlap can cost, the user and the service, has a bound: it is in the
\* number of requests at one time, and not in how many there have been.
OverlapBounded == GrantsBounded /\ DebitsBounded /\ OverdraftBounded

\* A payment that the provider has received reaches the invoice and its record.
PaymentArrives == \A i \in Invoices : i \in settled ~> paidEvents[i] > 0

\* tests/test_billing_contracts.py: a plan purchase applies once.
GrantedOnce == \A i \in Purchases : granted[i] <= 1

\* The source of a renewal's debit names the row and the period it pays for, so
\* that the period is paid for once.
RenewalDebitedOnce ==
  \A j, k \in DOMAIN debits : debits[j] = debits[k] => j = k
=============================================================================
