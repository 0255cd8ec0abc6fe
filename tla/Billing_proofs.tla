--------------------------- MODULE Billing_proofs ---------------------------
(***************************************************************************)
(* Proofs about Billing.  The types come first, with what a request at a   *)
(* position is about (About); then, for top-ups, purchases and notices,    *)
(* what the database says while a request is under way; then, for requests *)
(* that are served one at a time, the one active subscription; and what a  *)
(* renewal buys.  On these rest the refinement of Payments, one lemma for  *)
(* each action, and the bounds of what overlap can cost, by counting the   *)
(* requests that stand where they may still grant, debit or spend.         *)
(***************************************************************************)
EXTENDS Billing, FiniteSetTheorems, TLAPS

-----------------------------------------------------------------------------
(* Types.                                                                    *)

\* The period end computed for a subscription is a time.
LEMMA NextPeriodEndType ==
  ASSUME NEW end \in Nat \union {None}, NEW t \in Time
  PROVE  NextPeriodEnd(end, t) \in Nat
BY BillingAssumption DEF NextPeriodEnd, Time

\* The initial values have their types.
LEMMA TypeInit == Init => TypeOK
BY BillingAssumption DEF Init, TypeOK, Time, Positions, Plans, Rows, Invoices

RequestType ==
  /\ at \in [Requests -> Positions]
  /\ subject \in [Requests -> Invoices \union Notices \union Plans \union {None}]
  /\ unchanged \in [Requests -> BOOLEAN]
  /\ row \in [Requests -> Rows \union {None}]
  /\ base \in [Requests -> Nat \union {None}]
  /\ asOf \in [Requests -> Time]

SubsType ==
  /\ plan \in [Rows -> Plans]
  /\ state \in [Rows -> {"none", "active", "replaced", "expired"}]
  /\ ends \in [Rows -> Nat \union {None}] /\ rows \in 0 .. MaxRows

PaymentType ==
  /\ settled \subseteq Invoices
  /\ invoice \in [Invoices -> {"none", "active", "paid"}]
  /\ paidEvents \in [Invoices -> Nat]

LedgerType ==
  /\ credits \in [TopUps -> Nat]
  /\ debits \in Seq([row : Rows, base : Nat])
  /\ balance \in Int

NoticesType ==
  /\ seen \subseteq Notices /\ granted \in [Purchases \union Notices -> Nat]

\* The type invariant is that of its groups of variables.
LEMMA TypeGroups ==
  TypeOK <=> /\ RequestType /\ SubsType /\ PaymentType /\ LedgerType /\ NoticesType
             /\ now \in Time /\ crashes \in 0 .. MaxCrashes
BY DEF TypeOK, RequestType, SubsType, PaymentType, LedgerType, NoticesType

\* And so in the next state.
LEMMA TypeNext ==
  /\ RequestType' /\ SubsType' /\ PaymentType' /\ LedgerType' /\ NoticesType'
  /\ now' \in Time /\ crashes' \in 0 .. MaxCrashes
  => TypeOK'
BY DEF TypeOK, RequestType, SubsType, PaymentType, LedgerType, NoticesType

\* A group that a step leaves alone keeps its types.
LEMMA GroupKept ==
  /\ RequestType /\ UNCHANGED request => RequestType'
  /\ SubsType /\ UNCHANGED subs => SubsType'
  /\ PaymentType /\ UNCHANGED payment => PaymentType'
  /\ LedgerType /\ UNCHANGED ledger => LedgerType'
  /\ NoticesType /\ UNCHANGED notices => NoticesType'
BY DEF RequestType, SubsType, PaymentType, LedgerType, NoticesType,
       request, subs, payment, ledger, notices

\* Moving, ending and beginning keep the types of the requests.
LEMMA RequestMoves ==
  ASSUME RequestType, NEW r \in Requests
  PROVE  /\ Finish(r) => RequestType'
         /\ \A p \in Positions : Goto(r, p) /\ KeepRead => RequestType'
         /\ \A p \in Positions, s \in Rows \union {None} :
              SubsType /\ now \in Time /\ Goto(r, p) /\ Remember(r, s)
                /\ UNCHANGED unchanged => RequestType'
         /\ \A p \in Positions, x \in Invoices \union Notices \union Plans \union {None} :
              Begin(r, p, x) /\ KeepRead => RequestType'
<1>1. 0 \in Time BY BillingAssumption DEF Time
<1>2. Finish(r) => RequestType' BY <1>1 DEF RequestType, Finish, Positions
<1>3. ASSUME NEW p \in Positions, Goto(r, p), KeepRead PROVE RequestType'
  BY <1>3 DEF RequestType, Goto, KeepRead
<1>4. ASSUME NEW p \in Positions, NEW s \in Rows \union {None}, SubsType, now \in Time,
             Goto(r, p), Remember(r, s), UNCHANGED unchanged
      PROVE  RequestType'
  BY <1>4 DEF RequestType, SubsType, Goto, Remember
<1>5. ASSUME NEW p \in Positions,
             NEW x \in Invoices \union Notices \union Plans \union {None},
             Begin(r, p, x), KeepRead
      PROVE  RequestType'
  BY <1>5 DEF RequestType, Begin, KeepRead
<1> QED BY <1>2, <1>3, <1>4, <1>5

\* A new row, and a new period end, keep the types of the subscriptions.
LEMMA SubsMoves ==
  ASSUME SubsType
  PROVE  /\ \A p \in Plans, end \in Nat \union {None}, s \in Rows \union {None},
               v \in {"active", "replaced", "expired"} :
               Insert(p, end, s, v) => SubsType'
         /\ \A s \in Rows, end \in Nat : Extend(s, end) => SubsType'
<1>1. ASSUME NEW p \in Plans, NEW end \in Nat \union {None}, NEW s \in Rows \union {None},
             NEW v \in {"active", "replaced", "expired"}, Insert(p, end, s, v)
      PROVE  SubsType'
  <2>1. rows' \in 0 .. MaxRows BY <1>1, BillingAssumption DEF Insert, SubsType
  <2>2. state' \in [Rows -> {"none", "active", "replaced", "expired"}]
    BY <1>1 DEF Insert, SubsType
  <2> QED BY <1>1, <2>1, <2>2 DEF Insert, SubsType
<1>2. ASSUME NEW s \in Rows, NEW end \in Nat, Extend(s, end) PROVE SubsType'
  BY <1>2 DEF Extend, SubsType
<1> QED BY <1>1, <1>2

-----------------------------------------------------------------------------
(* Positions and subjects.                                                   *)

\* What a request at a position is about.
About(r) ==
  /\ at[r] \in {"asking", "recording"} \union Granting =>
       subject[r] \in Invoices /\ invoice[subject[r]] # "none"
  /\ at[r] \in {"crediting", "adding", "noting"} => subject[r] \in TopUps
  /\ at[r] \in {"granting", "extending", "recording"} => subject[r] \in Purchases
  /\ at[r] = "noticing" => subject[r] \in Notices
  /\ at[r] = "switching" => subject[r] \in Notices \union Plans
  /\ at[r] \in {"switching", "replacing"} =>
       subject[r] \in Purchases \union Notices \union Plans
  /\ at[r] = "extending" => row[r] \in Rows
  /\ at[r] \in Renewing => row[r] \in Rows /\ base[r] \in Nat

Typed == TypeOK /\ \A r \in Requests : About(r)

\* A step of one request leaves the others where they are.
OthersKept(r) ==
  \A q \in Requests : q # r =>
    /\ at'[q] = at[q] /\ subject'[q] = subject[q] /\ unchanged'[q] = unchanged[q]
    /\ row'[q] = row[q] /\ base'[q] = base[q] /\ asOf'[q] = asOf[q]

\* An invoice stays in the table.
InvoicesStay == \A i \in Invoices : invoice[i] # "none" => invoice'[i] # "none"

\* Only the request that takes a step moves.
LEMMA Frame ==
  ASSUME TypeOK, NEW r \in Requests, Arrival(r) \/ RequestStep(r) \/ Crash(r)
  PROVE  OthersKept(r)
<1> USE DEF TypeOK, OthersKept
<1>1. CASE Arrival(r)
  BY <1>1 DEF Arrival, StartSwitch, StartDefault, LoadInvoice, StartNotice, StartRenewal,
              Begin, KeepRead, Remember
<1>2. CASE ReadSubscription(r)
  BY <1>2 DEF ReadSubscription, Goto, Remember, Finish
<1>3. CASE CommitSwitch(r)
  BY <1>3 DEF CommitSwitch, Goto, KeepRead, Finish
<1>4. CASE CommitDefault(r) \/ NotPaid(r) \/ CommitTopUp(r) \/ RecordPaid(r)
           \/ CommitRenewal(r) \/ CommitExpiry(r) \/ Crash(r)
  BY <1>4 DEF CommitDefault, NotPaid, CommitTopUp, RecordPaid, CommitRenewal,
              CommitExpiry, Crash, Finish
<1>5. CASE ApplyPaid(r) \/ CheckCredit(r) \/ CommitNotice(r) \/ CheckFunds(r)
           \/ CheckSource(r)
  BY <1>5 DEF ApplyPaid, CheckCredit, CommitNotice, CheckFunds, CheckSource, Goto,
              KeepRead, Finish
<1> QED BY <1>1, <1>2, <1>3, <1>4, <1>5 DEF RequestStep

\* A request keeps what it is about while others move and invoices stay.
LEMMA OthersAbout ==
  ASSUME NEW r, NEW q \in Requests, q # r, OthersKept(r), InvoicesStay, About(q)
  PROVE  About(q)'
BY DEF OthersKept, InvoicesStay, About

\* A request that is idle is about nothing.
LEMMA IdleAbout ==
  ASSUME TypeOK, NEW r \in Requests, Finish(r)
  PROVE  About(r)'
BY DEF TypeOK, Finish, About, Granting, Renewing

\* An arriving request is of the type and about what its position says.
LEMMA TypedArrival ==
  ASSUME Typed, NEW r \in Requests, Arrival(r)
  PROVE  TypeOK' /\ About(r)' /\ InvoicesStay
<1> USE BillingAssumption DEF About, Granting, Renewing, InvoicesStay
<1>0. RequestType /\ SubsType /\ PaymentType /\ LedgerType /\ NoticesType
      /\ now \in Time /\ crashes \in 0 .. MaxCrashes
  BY TypeGroups DEF Typed
<1>1. ASSUME NEW p \in Switches, StartSwitch(r, p) PROVE TypeOK' /\ About(r)' /\ InvoicesStay
  <2>1. RequestType' BY <1>0, <1>1, RequestMoves DEF StartSwitch, Positions
  <2>2. About(r)' BY <1>0, <1>1 DEF StartSwitch, Begin, RequestType
  <2>5. UNCHANGED <<now, payment, ledger, subs, notices, crashes>> BY <1>1 DEF StartSwitch
  <2>6. TypeOK' BY <1>0, <2>1, <2>5, GroupKept, TypeNext
  <2>7. InvoicesStay BY <2>5 DEF payment
  <2> QED BY <2>2, <2>6, <2>7
<1>2. CASE StartDefault(r)
  <2>1. RequestType' BY <1>0, <1>2, RequestMoves DEF StartDefault, Positions
  <2>2. About(r)' BY <1>0, <1>2 DEF StartDefault, Begin, RequestType
  <2>5. UNCHANGED <<now, payment, ledger, subs, notices, crashes>> BY <1>2 DEF StartDefault
  <2>6. TypeOK' BY <1>0, <2>1, <2>5, GroupKept, TypeNext
  <2>7. InvoicesStay BY <2>5 DEF payment
  <2> QED BY <2>2, <2>6, <2>7
<1>3. ASSUME NEW i \in Invoices, LoadInvoice(r, i) PROVE TypeOK' /\ About(r)' /\ InvoicesStay
  <2>1. RequestType'
    BY <1>0, <1>3 DEF LoadInvoice, Begin, RequestType, Positions, PaymentType
  <2>2. About(r)'
    BY <1>0, <1>3 DEF LoadInvoice, Begin, RequestType, payment
  <2>5. UNCHANGED <<now, payment, ledger, subs, notices, crashes>> BY <1>3 DEF LoadInvoice
  <2>6. TypeOK' BY <1>0, <2>1, <2>5, GroupKept, TypeNext
  <2>7. InvoicesStay BY <2>5 DEF payment
  <2> QED BY <2>2, <2>6, <2>7
<1>4. ASSUME NEW n \in Notices, StartNotice(r, n) PROVE TypeOK' /\ About(r)' /\ InvoicesStay
  <2>1. RequestType' BY <1>0, <1>4, RequestMoves DEF StartNotice, Positions
  <2>2. About(r)' BY <1>0, <1>4 DEF StartNotice, Begin, RequestType
  <2>5. UNCHANGED <<now, payment, ledger, subs, notices, crashes>> BY <1>4 DEF StartNotice
  <2>6. TypeOK' BY <1>0, <2>1, <2>5, GroupKept, TypeNext
  <2>7. InvoicesStay BY <2>5 DEF payment
  <2> QED BY <2>2, <2>6, <2>7
<1>5. CASE StartRenewal(r)
  <2>1. PICK s \in Active : Lapsed(s, now) /\ Remember(r, s) BY <1>5 DEF StartRenewal
  <2>2. s \in Rows /\ ends[s] \in Nat /\ s # None
    BY <1>0, <2>1 DEF Active, Lapsed, SubsType, Rows
  <2>3. RequestType'
    BY <1>0, <1>5, <2>1, <2>2 DEF StartRenewal, Begin, Remember, RequestType, Positions
  <2>4. About(r)' BY <1>0, <1>5, <2>1, <2>2 DEF StartRenewal, Begin, Remember, RequestType
  <2>5. UNCHANGED <<now, payment, ledger, subs, notices, crashes>> BY <1>5 DEF StartRenewal
  <2>6. TypeOK' BY <1>0, <2>3, <2>5, GroupKept, TypeNext
  <2>7. InvoicesStay BY <2>5 DEF payment
  <2> QED BY <2>4, <2>6, <2>7
<1> QED BY <1>1, <1>2, <1>3, <1>4, <1>5 DEF Arrival, Begin

\* The plan and the period end of a switch are what they should be.
LEMMA SwitchTypes ==
  ASSUME Typed, NEW r \in Requests,
         at[r] \in {"switching", "granting", "extending", "replacing"}
  PROVE  /\ WantedPlan(subject[r]) \in Plans
         /\ NewPeriodEnd(r) \in Nat \union {None}
         /\ NextPeriodEnd(base[r], asOf[r]) \in Nat
<1>1. RequestType BY TypeGroups DEF Typed
<1>2. base[r] \in Nat \union {None} /\ asOf[r] \in Time BY <1>1 DEF RequestType
<1>3. subject[r] \in Purchases \union Notices \union Plans
  BY DEF Typed, About, Granting
<1>4. WantedPlan(subject[r]) \in Plans BY <1>3, BillingAssumption DEF WantedPlan
<1>5. NextPeriodEnd(None, asOf[r]) \in Nat BY <1>2, NextPeriodEndType
<1>6. NextPeriodEnd(base[r], asOf[r]) \in Nat BY <1>2, NextPeriodEndType
<1> QED BY <1>2, <1>4, <1>5, <1>6 DEF NewPeriodEnd

\* So is a step of the switches.
LEMMA TypedSwitch ==
  ASSUME Typed, NEW r \in Requests,
         ReadSubscription(r) \/ CommitSwitch(r) \/ CommitDefault(r)
  PROVE  TypeOK' /\ About(r)' /\ InvoicesStay
<1> USE BillingAssumption DEF Granting, Switching, Renewing
<1>0. RequestType /\ SubsType /\ PaymentType /\ LedgerType /\ NoticesType
      /\ now \in Time /\ crashes \in 0 .. MaxCrashes /\ About(r) /\ TypeOK
  BY TypeGroups DEF Typed
<1>1. CASE ReadSubscription(r)
  <2>1. UNCHANGED <<now, payment, ledger, subs, notices, crashes>>
    BY <1>1 DEF ReadSubscription
  <2>2. subject[r] \in Purchases \union Notices \union Plans
    BY <1>0, <1>1 DEF ReadSubscription, About
  <2>3. PICK s \in CurrentRows :
          \/ Finish(r)
          \/ /\ s # None /\ subject[r] \in Purchases /\ Goto(r, "extending")
             /\ Remember(r, s) /\ UNCHANGED unchanged
          \/ Goto(r, "replacing") /\ Remember(r, s) /\ UNCHANGED unchanged
    BY <1>1 DEF ReadSubscription
  <2>4. s \in Rows \union {None} BY DEF CurrentRows, Active
  <2>5. RequestType' BY <1>0, <2>3, <2>4, RequestMoves DEF Positions
  <2>6. About(r)'
    BY <1>0, <2>2, <2>3, <2>4, IdleAbout DEF About, Goto, Remember, RequestType
  <2> QED BY <1>0, <2>1, <2>5, <2>6, GroupKept, TypeNext DEF InvoicesStay, payment
<1>2. CASE CommitSwitch(r)
  <2>1. at[r] \in {"extending", "replacing"} BY <1>2 DEF CommitSwitch
  <2>2. SubsType'
    BY <1>0, <1>2, <2>1, SwitchTypes, SubsMoves
    DEF CommitSwitch, About, Replace, RequestType
  <2>3. PaymentType' /\ InvoicesStay /\ LedgerType' /\ now' \in Time
        /\ crashes' \in 0 .. MaxCrashes
    BY <1>0, <1>2, GroupKept
    DEF CommitSwitch, PaymentType, InvoicesStay, Finish, Goto
  <2>4. NoticesType' BY <1>0, <1>2 DEF CommitSwitch, NoticesType
  <2>5. RequestType' BY <1>0, <1>2, RequestMoves DEF CommitSwitch, Positions
  <2>6. About(r)'
    BY <1>0, <1>2, IdleAbout
    DEF CommitSwitch, About, Goto, RequestType, PaymentType, Invoices
  <2> QED BY <2>2, <2>3, <2>4, <2>5, <2>6, TypeNext
<1>3. CASE CommitDefault(r)
  <2>1. UNCHANGED <<now, payment, ledger, notices, crashes>> BY <1>3 DEF CommitDefault
  <2>2. SubsType' BY <1>0, <1>3, SubsMoves DEF CommitDefault, Plans
  <2>3. RequestType' /\ About(r)'
    BY <1>0, <1>3, RequestMoves, IdleAbout DEF CommitDefault
  <2> QED BY <1>0, <2>1, <2>2, <2>3, GroupKept, TypeNext DEF InvoicesStay, payment
<1> QED BY <1>1, <1>2, <1>3

\* So is a step of an invoice or of a notice.
LEMMA TypedPayment ==
  ASSUME Typed, NEW r \in Requests,
         \/ NotPaid(r) \/ ApplyPaid(r) \/ CheckCredit(r) \/ CommitTopUp(r)
         \/ RecordPaid(r) \/ CommitNotice(r)
  PROVE  TypeOK' /\ About(r)' /\ InvoicesStay
<1> USE BillingAssumption DEF Granting, Switching, Renewing
<1>0. RequestType /\ SubsType /\ PaymentType /\ LedgerType /\ NoticesType
      /\ now \in Time /\ crashes \in 0 .. MaxCrashes /\ About(r) /\ TypeOK
  BY TypeGroups DEF Typed
<1>1. CASE NotPaid(r)
  <2>1. UNCHANGED <<now, payment, ledger, subs, notices, crashes>> BY <1>1 DEF NotPaid
  <2>2. RequestType' /\ About(r)' BY <1>0, <1>1, RequestMoves, IdleAbout DEF NotPaid
  <2> QED BY <1>0, <2>1, <2>2, GroupKept, TypeNext DEF InvoicesStay, payment
<1>2. CASE ApplyPaid(r)
  <2>1. UNCHANGED <<now, settled, paidEvents, ledger, subs, notices, crashes>>
    BY <1>2 DEF ApplyPaid
  <2>2. subject[r] \in Invoices /\ invoice[subject[r]] # "none"
    BY <1>0, <1>2 DEF ApplyPaid, About
  <2>3. invoice' = invoice \/ invoice' = [invoice EXCEPT ![subject[r]] = "paid"]
    BY <1>2 DEF ApplyPaid
  <2>4. PaymentType' /\ InvoicesStay
    BY <1>0, <2>1, <2>2, <2>3 DEF PaymentType, InvoicesStay
  <2>5. RequestType' BY <1>0, <1>2, RequestMoves DEF ApplyPaid, Positions
  <2>6. About(r)'
    BY <1>0, <1>2, <2>2, IdleAbout
    DEF ApplyPaid, About, Goto, RequestType, PaymentType, Invoices
  <2> QED BY <1>0, <2>1, <2>4, <2>5, <2>6, GroupKept, TypeNext
<1>3. CASE CheckCredit(r)
  <2>1. UNCHANGED <<now, payment, ledger, subs, notices, crashes>> BY <1>3 DEF CheckCredit
  <2>2. RequestType' BY <1>0, <1>3, RequestMoves DEF CheckCredit, Positions
  <2>3. About(r)'
    BY <1>0, <1>3 DEF CheckCredit, About, Goto, RequestType, payment, Invoices
  <2> QED BY <1>0, <2>1, <2>2, <2>3, GroupKept, TypeNext DEF InvoicesStay, payment
<1>4. CASE CommitTopUp(r)
  <2>1. subject[r] \in TopUps /\ subject[r] \in Invoices
    BY <1>0, <1>4 DEF CommitTopUp, About, Invoices
  <2>2. UNCHANGED <<now, settled, debits, subs, notices, crashes>> BY <1>4 DEF CommitTopUp
  <2>3. PaymentType' /\ InvoicesStay
    BY <1>0, <1>4, <2>1 DEF CommitTopUp, PaymentType, InvoicesStay
  <2>4. LedgerType' BY <1>0, <1>4, <2>1 DEF CommitTopUp, LedgerType
  <2>5. RequestType' /\ About(r)' BY <1>0, <1>4, RequestMoves, IdleAbout DEF CommitTopUp
  <2> QED BY <1>0, <2>2, <2>3, <2>4, <2>5, GroupKept, TypeNext
<1>5. CASE RecordPaid(r)
  <2>1. subject[r] \in Invoices BY <1>0, <1>5 DEF RecordPaid, About
  <2>2. UNCHANGED <<now, settled, invoice, ledger, subs, notices, crashes>>
    BY <1>5 DEF RecordPaid
  <2>3. PaymentType' /\ InvoicesStay
    BY <1>0, <1>5, <2>1, <2>2 DEF RecordPaid, PaymentType, InvoicesStay
  <2>4. RequestType' /\ About(r)' BY <1>0, <1>5, RequestMoves, IdleAbout DEF RecordPaid
  <2> QED BY <1>0, <2>2, <2>3, <2>4, GroupKept, TypeNext
<1>6. CASE CommitNotice(r)
  <2>1. UNCHANGED <<now, payment, ledger, subs, granted, crashes>> BY <1>6 DEF CommitNotice
  <2>2. subject[r] \in Notices BY <1>0, <1>6 DEF CommitNotice, About
  <2>3. NoticesType' BY <1>0, <1>6, <2>2 DEF CommitNotice, NoticesType
  <2>4. RequestType' BY <1>0, <1>6, RequestMoves DEF CommitNotice, Positions
  <2>5. About(r)'
    BY <1>0, <1>6, <2>2, IdleAbout DEF CommitNotice, About, Goto, RequestType
  <2> QED BY <1>0, <2>1, <2>3, <2>4, <2>5, GroupKept, TypeNext DEF InvoicesStay, payment
<1> QED BY <1>1, <1>2, <1>3, <1>4, <1>5, <1>6

\* So is a step of a renewal.
LEMMA TypedRenewal ==
  ASSUME Typed, NEW r \in Requests,
         CheckFunds(r) \/ CheckSource(r) \/ CommitRenewal(r) \/ CommitExpiry(r)
  PROVE  TypeOK' /\ About(r)' /\ InvoicesStay
<1> USE BillingAssumption DEF Granting, Switching, Renewing
<1>0. RequestType /\ SubsType /\ PaymentType /\ LedgerType /\ NoticesType
      /\ now \in Time /\ crashes \in 0 .. MaxCrashes /\ About(r) /\ TypeOK
  BY TypeGroups DEF Typed
<1>1. CASE CheckFunds(r) \/ CheckSource(r)
  <2>1. UNCHANGED <<now, payment, ledger, subs, notices, crashes>>
    BY <1>1 DEF CheckFunds, CheckSource
  <2>2. RequestType' BY <1>0, <1>1, RequestMoves DEF CheckFunds, CheckSource, Positions
  <2>3. About(r)'
    BY <1>0, <1>1 DEF CheckFunds, CheckSource, About, Goto, KeepRead, RequestType
  <2> QED BY <1>0, <2>1, <2>2, <2>3, GroupKept, TypeNext DEF InvoicesStay, payment
<1>2. CASE CommitRenewal(r)
  <2>1. UNCHANGED <<now, payment, credits, notices, crashes>> BY <1>2 DEF CommitRenewal
  <2>2. row[r] \in Rows /\ base[r] \in Nat /\ asOf[r] \in Time
    BY <1>0, <1>2 DEF CommitRenewal, About, RequestType
  <2>3. NextPeriodEnd(base[r], asOf[r]) \in Nat BY <2>2, NextPeriodEndType
  <2>4. SubsType' BY <1>0, <1>2, <2>2, <2>3, SubsMoves DEF CommitRenewal
  <2>5. LedgerType'
    <3>1. CASE UNCHANGED <<debits, balance>> BY <1>0, <2>1, <3>1 DEF LedgerType
    <3>2. CASE /\ debits' = Append(debits, [row |-> row[r], base |-> base[r]])
               /\ balance' = balance - Price
      <4>1. [row |-> row[r], base |-> base[r]] \in [row : Rows, base : Nat] BY <2>2
      <4>2. debits' \in Seq([row : Rows, base : Nat]) BY <1>0, <3>2, <4>1 DEF LedgerType
      <4> QED BY <1>0, <2>1, <3>2, <4>2 DEF LedgerType
    <3> QED BY <1>2, <3>1, <3>2 DEF CommitRenewal
  <2>6. RequestType' /\ About(r)' BY <1>0, <1>2, RequestMoves, IdleAbout DEF CommitRenewal
  <2> QED BY <1>0, <2>1, <2>4, <2>5, <2>6, GroupKept, TypeNext DEF InvoicesStay, payment
<1>3. CASE CommitExpiry(r)
  <2>1. UNCHANGED <<now, payment, ledger, notices, crashes>> BY <1>3 DEF CommitExpiry
  <2>2. row[r] \in Rows BY <1>0, <1>3 DEF CommitExpiry, About
  <2>3. SubsType' BY <1>0, <1>3, <2>2, SubsMoves DEF CommitExpiry, Plans
  <2>4. RequestType' /\ About(r)' BY <1>0, <1>3, RequestMoves, IdleAbout DEF CommitExpiry
  <2> QED BY <1>0, <2>1, <2>3, <2>4, GroupKept, TypeNext DEF InvoicesStay, payment
<1> QED BY <1>1, <1>2, <1>3

\* What no request does: the user orders and pays, and time passes.
LEMMA TypedOutside ==
  ASSUME Typed, (\E i \in Invoices : CreateInvoice(i) \/ Settle(i)) \/ Tick
  PROVE  Typed'
<1>0. RequestType /\ SubsType /\ PaymentType /\ LedgerType /\ NoticesType
      /\ now \in Time /\ crashes \in 0 .. MaxCrashes
  BY TypeGroups DEF Typed
<1>1. ASSUME NEW i \in Invoices, CreateInvoice(i) \/ Settle(i) PROVE Typed'
  <2>1. UNCHANGED <<now, ledger, subs, notices, request, crashes>>
    BY <1>1 DEF CreateInvoice, Settle
  <2>2. PaymentType' /\ InvoicesStay
    BY <1>0, <1>1 DEF CreateInvoice, Settle, PaymentType, InvoicesStay
  <2>3. TypeOK' BY <1>0, <2>1, <2>2, GroupKept, TypeNext
  <2>4. \A q \in Requests : About(q)'
    BY <2>1, <2>2 DEF Typed, About, InvoicesStay, request
  <2> QED BY <2>3, <2>4 DEF Typed
<1>2. CASE Tick
  <2>1. UNCHANGED <<payment, ledger, subs, notices, request, crashes>> BY <1>2 DEF Tick
  <2>2. now' \in Time BY <1>0, <1>2, BillingAssumption DEF Tick, Time
  <2>3. TypeOK' BY <1>0, <2>1, <2>2, GroupKept, TypeNext
  <2>4. \A q \in Requests : About(q)' BY <2>1 DEF Typed, About, payment, request
  <2> QED BY <2>3, <2>4 DEF Typed
<1> QED BY <1>1, <1>2

\* Types and subjects are kept by every step.
LEMMA TypedStep == Typed /\ [Next]_vars => Typed'
<1> SUFFICES ASSUME Typed, [Next]_vars PROVE Typed' OBVIOUS
<1>1. ASSUME NEW r \in Requests, Arrival(r) \/ RequestStep(r) \/ Crash(r) PROVE Typed'
  <2>1. TypeOK' /\ About(r)' /\ InvoicesStay
    <3>1. CASE Arrival(r) BY <3>1, TypedArrival
    <3>2. CASE RequestStep(r)
      BY <3>2, TypedSwitch, TypedPayment, TypedRenewal DEF RequestStep
    <3>3. CASE Crash(r)
      <4>1. RequestType' /\ About(r)'
        BY <3>3, RequestMoves, IdleAbout, TypeGroups DEF Typed, Crash
      <4>2. UNCHANGED <<now, payment, ledger, subs, notices>> BY <3>3 DEF Crash
      <4>3. crashes' \in 0 .. MaxCrashes
        BY <3>3, BillingAssumption DEF Typed, TypeOK, Crash
      <4>4. TypeOK' BY <4>1, <4>2, <4>3, GroupKept, TypeGroups, TypeNext DEF Typed
      <4> QED BY <4>1, <4>2, <4>4 DEF InvoicesStay, payment
    <3> QED BY <1>1, <3>1, <3>2, <3>3
  <2>2. \A q \in Requests : q # r => About(q)'
    BY <1>1, <2>1, Frame, OthersAbout DEF Typed
  <2> QED BY <2>1, <2>2 DEF Typed
<1>2. CASE UNCHANGED vars
  <2>1. UNCHANGED <<now, payment, ledger, subs, notices, request, crashes>> BY <1>2 DEF vars
  <2>2. TypeOK' BY <2>1, GroupKept, TypeGroups, TypeNext DEF Typed
  <2>3. \A q \in Requests : About(q)' BY <2>1 DEF Typed, About, payment, request
  <2> QED BY <2>2, <2>3 DEF Typed
<1> QED BY <1>1, <1>2, TypedOutside DEF Next

\* Every variable has its type and every request is about what its position says
\* (crypto_bot_service.py, billing_service.py), in every execution.
THEOREM TypeCorrect == Spec => []TypeOK
<1>1. Init => Typed
  BY TypeInit DEF Init, Typed, About, Granting, Renewing
<1>2. Typed => TypeOK BY DEF Typed
<1> QED BY <1>1, <1>2, TypedStep, PTL DEF Spec

-----------------------------------------------------------------------------
(* Top-ups.                                                                  *)

Crediting == {"crediting", "adding", "noting"}

\* A request that found the invoice paid is about a paid invoice still; one that
\* is on its way to a credit has the only changed, unpaid copy of the row, and
\* so never finds the credit that it looks for.
CreditAlone ==
  /\ \A r \in Requests : at[r] = "asking" /\ unchanged[r] => invoice[subject[r]] = "paid"
  /\ \A r \in Requests : at[r] \in Crediting =>
       at[r] # "noting" /\ ~unchanged[r] /\ invoice[subject[r]] = "active"
  /\ \A q, r \in Requests :
       at[q] \in Crediting /\ at[r] \in Crediting /\ subject[q] = subject[r] => q = r

\* Finishing, and the steps that are not about top-ups, leave the credits of all
\* others alone.
LEMMA CreditAway ==
  ASSUME Typed, TopUpCreditedOnce, CreditAlone, NEW r \in Requests, OthersKept(r),
         \A i \in TopUps : /\ invoice'[i] = invoice[i] /\ credits'[i] = credits[i]
                          /\ paidEvents'[i] = paidEvents[i],
         \A i \in Invoices : invoice[i] = "paid" => invoice'[i] = "paid",
         at'[r] \notin Crediting \union {"asking"}
  PROVE  TopUpCreditedOnce' /\ CreditAlone'
<1>1. TopUpCreditedOnce' BY DEF TopUpCreditedOnce
<1>2. \A q \in Requests : at'[q] \in Crediting \union {"asking"} =>
        /\ q # r /\ at'[q] = at[q] /\ subject'[q] = subject[q]
        /\ unchanged'[q] = unchanged[q]
  BY DEF OthersKept
<1>3. \A q \in Requests :
        /\ at[q] \in Crediting => subject[q] \in TopUps
        /\ at[q] = "asking" => subject[q] \in Invoices
  BY DEF Typed, About, Crediting
<1>4. \A q \in Requests : at'[q] = "asking" /\ unchanged'[q] =>
        invoice'[subject'[q]] = "paid"
  BY <1>2, <1>3 DEF CreditAlone
<1>5. \A q \in Requests : at'[q] \in Crediting =>
        at'[q] # "noting" /\ ~unchanged'[q] /\ invoice'[subject'[q]] = "active"
  BY <1>2, <1>3 DEF CreditAlone
<1>6. \A p, q \in Requests :
        at'[p] \in Crediting /\ at'[q] \in Crediting /\ subject'[p] = subject'[q] => p = q
  BY <1>2 DEF CreditAlone
<1> QED BY <1>1, <1>4, <1>5, <1>6 DEF CreditAlone

\* An arriving request reads the status as it is.
LEMMA CreditArrival ==
  ASSUME Typed, TopUpCreditedOnce, CreditAlone, NEW r \in Requests, Arrival(r)
  PROVE  TopUpCreditedOnce' /\ CreditAlone'
<1>0. RequestType /\ OthersKept(r) BY TypeGroups, Frame DEF Typed
<1>1. UNCHANGED <<invoice, credits, paidEvents>>
  BY DEF Arrival, StartSwitch, StartDefault, LoadInvoice, StartNotice, StartRenewal,
         payment, ledger
<1>2. ASSUME NEW i \in Invoices, LoadInvoice(r, i) PROVE CreditAlone'
  <2>1. /\ at'[r] = "asking" /\ subject'[r] = i
        /\ unchanged'[r] => invoice[i] = "paid"
    BY <1>0, <1>2 DEF LoadInvoice, Begin, RequestType
  <2>2. \A q \in Requests : at'[q] \in Crediting => q # r
    BY <2>1 DEF Crediting
  <2>3. \A q \in Requests : at'[q] = "asking" /\ unchanged'[q] =>
          invoice'[subject'[q]] = "paid"
    <3> SUFFICES ASSUME NEW q \in Requests, at'[q] = "asking", unchanged'[q]
        PROVE  invoice'[subject'[q]] = "paid"
      OBVIOUS
    <3>1. CASE q = r BY <1>1, <2>1, <3>1
    <3>2. CASE q # r BY <1>0, <1>1, <3>2 DEF CreditAlone, OthersKept
    <3> QED BY <3>1, <3>2
  <2>4. \A q \in Requests : at'[q] \in Crediting =>
          at'[q] # "noting" /\ ~unchanged'[q] /\ invoice'[subject'[q]] = "active"
    BY <1>0, <1>1, <2>2 DEF CreditAlone, OthersKept
  <2>5. \A p, q \in Requests :
          at'[p] \in Crediting /\ at'[q] \in Crediting /\ subject'[p] = subject'[q]
            => p = q
    BY <1>0, <2>2 DEF CreditAlone, OthersKept
  <2> QED BY <2>3, <2>4, <2>5 DEF CreditAlone
<1>3. CASE ~\E i \in Invoices : LoadInvoice(r, i)
  <2>1. at'[r] \notin Crediting \union {"asking"}
    BY <1>0, <1>3 DEF Arrival, StartSwitch, StartDefault, StartNotice, StartRenewal,
                      Begin, RequestType, Crediting
  <2> QED BY <1>0, <1>1, <2>1, CreditAway
<1>4. TopUpCreditedOnce' BY <1>1 DEF TopUpCreditedOnce
<1> QED BY <1>2, <1>3, <1>4

\* The flush keeps a request that found the invoice unpaid waiting until no other
\* is on its way to the credit.
LEMMA CreditApply ==
  ASSUME Typed, TopUpCreditedOnce, CreditAlone, NEW r \in Requests, ApplyPaid(r)
  PROVE  TopUpCreditedOnce' /\ CreditAlone'
<1>0. RequestType /\ PaymentType /\ OthersKept(r) 
  BY TypeGroups, Frame DEF Typed, RequestStep
<1>1. /\ at[r] = "asking" /\ FlushPasses(r)
      /\ UNCHANGED <<settled, paidEvents, credits>>
  BY DEF ApplyPaid, ledger
<1>2. subject[r] \in Invoices /\ invoice[subject[r]] \in {"active", "paid"}
  BY <1>0, <1>1 DEF Typed, About, PaymentType
<1>3. CASE HasPaidEvent(subject[r])
  <2>1. invoice' = [invoice EXCEPT ![subject[r]] = "paid"] /\ Finish(r)
    BY <1>3 DEF ApplyPaid
  <2>2. subject[r] \in TopUps => invoice[subject[r]] = "paid"
    BY <1>0, <1>3 DEF TopUpCreditedOnce, HasPaidEvent, PaymentType
  <2>3. \A i \in TopUps : invoice'[i] = invoice[i]
    BY <1>0, <1>2, <2>1, <2>2 DEF PaymentType, Invoices
  <2>4. \A i \in Invoices : invoice[i] = "paid" => invoice'[i] = "paid"
    BY <1>0, <2>1 DEF PaymentType
  <2>5. at'[r] \notin Crediting \union {"asking"}
    BY <1>0, <2>1 DEF Finish, RequestType, Crediting
  <2> QED BY <1>0, <1>1, <2>3, <2>4, <2>5, CreditAway
<1>4. CASE ~HasPaidEvent(subject[r]) /\ subject[r] \notin TopUps
  <2>1. UNCHANGED invoice /\ at'[r] \notin Crediting \union {"asking"}
    BY <1>0, <1>4 DEF ApplyPaid, Goto, RequestType, Crediting
  <2> QED BY <1>0, <1>1, <2>1, CreditAway
<1>5. CASE ~HasPaidEvent(subject[r]) /\ subject[r] \in TopUps
  <2>1. UNCHANGED <<invoice, unchanged, subject>> /\ at'[r] = "crediting"
    BY <1>0, <1>5 DEF ApplyPaid, Goto, KeepRead, RequestType
  <2>2. invoice[subject[r]] = "active" /\ ~unchanged[r]
    BY <1>0, <1>1, <1>2, <1>5 DEF TopUpCreditedOnce, CreditAlone, HasPaidEvent, PaymentType
  <2>3. \A q \in Requests : q # r /\ at[q] \in Crediting => subject[q] # subject[r]
    BY <1>1, <2>2 DEF CreditAlone, FlushPasses, Crediting, Granting
  <2>4. \A q \in Requests : q # r => at'[q] = at[q]
    BY <1>0 DEF OthersKept
  <2>5. TopUpCreditedOnce' BY <1>1, <2>1 DEF TopUpCreditedOnce
  <2>6. CreditAlone' BY <2>1, <2>2, <2>3, <2>4 DEF CreditAlone, Crediting
  <2> QED BY <2>5, <2>6
<1> QED BY <1>3, <1>4, <1>5

\* The credit is looked for in vain, is made, and the invoice is paid.
LEMMA CreditCommit ==
  ASSUME Typed, TopUpCreditedOnce, CreditAlone, NEW r \in Requests,
         CheckCredit(r) \/ CommitTopUp(r)
  PROVE  TopUpCreditedOnce' /\ CreditAlone'
<1>0. RequestType /\ PaymentType /\ LedgerType /\ OthersKept(r)
  BY TypeGroups, Frame DEF Typed, RequestStep
<1>1. /\ subject[r] \in TopUps /\ subject[r] \in Invoices /\ at[r] # "noting"
      /\ ~unchanged[r] /\ invoice[subject[r]] = "active" /\ credits[subject[r]] = 0
      /\ paidEvents[subject[r]] = 0
  BY <1>0 DEF CheckCredit, CommitTopUp, Typed, About, CreditAlone, Crediting, Invoices,
              TopUpCreditedOnce
<1>2. CASE CheckCredit(r)
  <2>1. /\ UNCHANGED <<invoice, paidEvents, credits, unchanged, subject>>
        /\ at[r] = "crediting" /\ at'[r] = "adding"
    BY <1>0, <1>1, <1>2 DEF CheckCredit, Goto, KeepRead, RequestType, payment, ledger
  <2>2. \A q \in Requests : q # r => at'[q] = at[q] BY <1>0 DEF OthersKept
  <2>3. TopUpCreditedOnce' BY <2>1 DEF TopUpCreditedOnce
  <2>4. CreditAlone' BY <1>1, <2>1, <2>2 DEF CreditAlone, Crediting
  <2> QED BY <2>3, <2>4
<1>3. CASE CommitTopUp(r)
  <2>1. /\ at[r] = "adding"
        /\ credits' = [credits EXCEPT ![subject[r]] = @ + 1]
        /\ invoice' = [invoice EXCEPT ![subject[r]] = "paid"]
        /\ paidEvents' = [paidEvents EXCEPT ![subject[r]] = @ + 1]
    BY <1>1, <1>3 DEF CommitTopUp
  <2>2. TopUpCreditedOnce'
    <3> SUFFICES ASSUME NEW i \in TopUps
        PROVE /\ credits'[i] = (IF invoice'[i] = "paid" THEN 1 ELSE 0)
              /\ paidEvents'[i] = credits'[i]
      BY DEF TopUpCreditedOnce
    <3>1. i \in Invoices BY DEF Invoices
    <3> QED BY <1>0, <1>1, <2>1, <3>1 DEF TopUpCreditedOnce, PaymentType, LedgerType
  <2>3. at'[r] \notin Crediting \union {"asking"}
    BY <1>0, <1>3 DEF CommitTopUp, Finish, RequestType, Crediting
  <2>4. \A q \in Requests : q # r /\ at[q] \in Crediting => subject[q] # subject[r]
    BY <1>3 DEF CommitTopUp, CreditAlone, Crediting
  <2>5. \A q \in Requests : at'[q] \in Crediting \union {"asking"} =>
          /\ q # r /\ at'[q] = at[q] /\ subject'[q] = subject[q]
          /\ unchanged'[q] = unchanged[q]
    BY <1>0, <2>3 DEF OthersKept
  <2>6. \A q \in Requests :
          /\ at[q] \in Crediting => subject[q] \in Invoices
          /\ at[q] = "asking" => subject[q] \in Invoices
    BY DEF Typed, About, Crediting, Invoices
  <2>7. \A q \in Requests : at'[q] = "asking" /\ unchanged'[q] =>
          invoice'[subject'[q]] = "paid"
    BY <1>0, <2>1, <2>5, <2>6 DEF CreditAlone, PaymentType
  <2>8. \A q \in Requests : at'[q] \in Crediting =>
          at'[q] # "noting" /\ ~unchanged'[q] /\ invoice'[subject'[q]] = "active"
    BY <1>0, <2>1, <2>4, <2>5, <2>6 DEF CreditAlone, PaymentType
  <2>9. \A p, q \in Requests :
          at'[p] \in Crediting /\ at'[q] \in Crediting /\ subject'[p] = subject'[q]
            => p = q
    BY <2>5 DEF CreditAlone
  <2> QED BY <2>2, <2>7, <2>8, <2>9 DEF CreditAlone
<1> QED BY <1>2, <1>3

\* All other steps are not about top-ups.
LEMMA CreditOthers ==
  ASSUME Typed, TopUpCreditedOnce, CreditAlone, NEW r \in Requests,
         \/ ReadSubscription(r) \/ CommitSwitch(r) \/ CommitDefault(r) \/ NotPaid(r)
         \/ RecordPaid(r) \/ CommitNotice(r) \/ CheckFunds(r) \/ CheckSource(r)
         \/ CommitRenewal(r) \/ CommitExpiry(r) \/ Crash(r)
  PROVE  TopUpCreditedOnce' /\ CreditAlone'
<1>0. RequestType /\ PaymentType /\ OthersKept(r)
  BY TypeGroups, Frame DEF Typed, RequestStep
<1>1. at'[r] \notin Crediting \union {"asking"}
  BY <1>0 DEF ReadSubscription, CommitSwitch, CommitDefault, NotPaid, RecordPaid,
              CommitNotice, CheckFunds, CheckSource, CommitRenewal, CommitExpiry, Crash,
              Finish, Goto, RequestType, Crediting
<1>2. credits' = credits
  BY DEF ReadSubscription, CommitSwitch, CommitDefault, NotPaid, RecordPaid, CommitNotice,
         CheckFunds, CheckSource, CommitRenewal, CommitExpiry, Crash, ledger
<1>3. \/ UNCHANGED <<invoice, paidEvents>>
      \/ /\ subject[r] \in Purchases /\ UNCHANGED paidEvents
         /\ invoice' = [invoice EXCEPT ![subject[r]] = "paid"]
      \/ /\ subject[r] \in Purchases /\ UNCHANGED invoice
         /\ paidEvents' = [paidEvents EXCEPT ![subject[r]] = @ + 1]
  <2>1. CASE CommitSwitch(r) BY <2>1 DEF CommitSwitch
  <2>2. CASE RecordPaid(r) BY <2>2 DEF RecordPaid, Typed, About
  <2> QED BY <2>1, <2>2 DEF ReadSubscription, CommitDefault, NotPaid, CommitNotice,
                            CheckFunds, CheckSource, CommitRenewal, CommitExpiry, Crash, payment
<1>4. \A i \in TopUps : i \in Invoices /\ i \notin Purchases
  BY BillingAssumption DEF Invoices
<1>5. /\ \A i \in TopUps : invoice'[i] = invoice[i] /\ paidEvents'[i] = paidEvents[i]
      /\ \A i \in Invoices : invoice[i] = "paid" => invoice'[i] = "paid"
  BY <1>0, <1>3, <1>4 DEF PaymentType
<1> QED BY <1>0, <1>1, <1>2, <1>5, CreditAway

\* The user orders and pays, and time passes: no request moves.
LEMMA CreditOutside ==
  ASSUME Typed, TopUpCreditedOnce, CreditAlone,
         (\E i \in Invoices : CreateInvoice(i) \/ Settle(i)) \/ Tick \/ UNCHANGED vars
  PROVE  TopUpCreditedOnce' /\ CreditAlone'
<1>1. UNCHANGED <<paidEvents, credits, at, subject, unchanged>>
  BY DEF CreateInvoice, Settle, Tick, vars, payment, ledger, request
<1>2. \A i \in Invoices : \/ invoice'[i] = invoice[i]
                          \/ invoice[i] = "none" /\ invoice'[i] = "active"
  BY TypeGroups DEF CreateInvoice, Settle, Tick, vars, payment, Typed, PaymentType
<1>3. TopUpCreditedOnce' BY <1>1, <1>2 DEF TopUpCreditedOnce, Invoices
<1>4. \A q \in Requests : at[q] \in Crediting \union {"asking"} => subject[q] \in Invoices
  BY DEF Typed, About, Crediting, Invoices
<1> QED BY <1>1, <1>2, <1>3, <1>4 DEF CreditAlone

\* A top-up is credited once, at the moment that its invoice becomes paid
\* (refresh_invoice_status, apply_webhook_update), for any number of requests,
\* repetitions and crashes.
THEOREM TopUpsCreditedOnce == Spec => []TopUpCreditedOnce
<1> DEFINE CreditInv == Typed /\ TopUpCreditedOnce /\ CreditAlone
<1>1. Init => CreditInv
  <2> SUFFICES ASSUME Init PROVE CreditInv OBVIOUS
  <2>1. Typed BY TypeInit DEF Init, Typed, About, Granting, Renewing
  <2>2. TopUpCreditedOnce BY DEF Init, TopUpCreditedOnce, Invoices
  <2>3. CreditAlone BY DEF Init, CreditAlone, Crediting
  <2> QED BY <2>1, <2>2, <2>3
<1>2. CreditInv /\ [Next]_vars => CreditInv'
  <2> SUFFICES ASSUME CreditInv, [Next]_vars PROVE CreditInv' OBVIOUS
  <2>1. Typed' BY TypedStep
  <2>2. ASSUME NEW r \in Requests, Arrival(r) \/ RequestStep(r) \/ Crash(r)
        PROVE  TopUpCreditedOnce' /\ CreditAlone'
    BY <2>2, CreditArrival, CreditApply, CreditCommit, CreditOthers DEF RequestStep
  <2>3. TopUpCreditedOnce' /\ CreditAlone' BY <2>2, CreditOutside DEF Next
  <2> QED BY <2>1, <2>3
<1>3. CreditInv => TopUpCreditedOnce OBVIOUS
<1> QED BY <1>1, <1>2, <1>3, PTL DEF Spec

-----------------------------------------------------------------------------
(* Purchases.                                                                *)

\* The last commit of a purchase comes after the switch.
RecordedGranted ==
  \A r \in Requests : at[r] = "recording" => granted[subject[r]] > 0

\* What one request does about purchases: grants stay, a purchase that it makes
\* paid or records was granted, and it records only what was granted.
LEMMA PurchaseStep ==
  ASSUME Typed, PaidPurchaseGranted, RecordedGranted, NEW r \in Requests,
         Arrival(r) \/ RequestStep(r) \/ Crash(r)
  PROVE  /\ \A x \in Purchases \union Notices : granted'[x] >= granted[x]
         /\ \A i \in Purchases :
              /\ invoice'[i] = "paid" => invoice[i] = "paid" \/ granted'[i] > 0
              /\ paidEvents'[i] > 0 => paidEvents[i] > 0 \/ granted'[i] > 0
         /\ at'[r] = "recording" =>
              subject'[r] \in Purchases /\ granted'[subject'[r]] > 0
<1>0. /\ RequestType /\ PaymentType /\ NoticesType
      /\ \A i \in Purchases : i \in Invoices /\ i \notin TopUps
      /\ \A i \in TopUps : i \in Invoices /\ i \notin Purchases
  BY TypeGroups, BillingAssumption DEF Typed, Invoices
<1>1. CASE CommitSwitch(r)
  <2>1. UNCHANGED paidEvents BY <1>1 DEF CommitSwitch
  <2>2. CASE subject[r] \in Purchases
    <3>1. /\ granted' = [granted EXCEPT ![subject[r]] = @ + 1]
          /\ invoice' = [invoice EXCEPT ![subject[r]] = "paid"]
          /\ at'[r] = "recording" /\ UNCHANGED subject
      BY <1>0, <1>1, <2>2 DEF CommitSwitch, Goto, RequestType
    <3>2. /\ \A x \in Purchases \union Notices : granted'[x] >= granted[x]
          /\ granted'[subject[r]] > 0
      BY <1>0, <2>2, <3>1 DEF NoticesType
    <3>3. \A i \in Purchases : invoice'[i] = "paid" =>
            invoice[i] = "paid" \/ granted'[i] > 0
      BY <1>0, <3>1, <3>2 DEF PaymentType
    <3> QED BY <2>1, <2>2, <3>1, <3>2, <3>3
  <2>3. CASE subject[r] \notin Purchases
    <3>1. /\ UNCHANGED invoice /\ at'[r] = "idle"
          /\ granted' = granted \/ /\ subject[r] \in Notices
                                   /\ granted' = [granted EXCEPT ![subject[r]] = @ + 1]
      BY <1>0, <1>1, <2>3 DEF CommitSwitch, Finish, RequestType
    <3>2. \A x \in Purchases \union Notices : granted'[x] >= granted[x]
      BY <1>0, <3>1 DEF NoticesType
    <3> QED BY <2>1, <3>1, <3>2
  <2> QED BY <2>2, <2>3
<1>2. ASSUME ~CommitSwitch(r)
      PROVE  UNCHANGED granted /\ at'[r] # "recording"
  BY <1>0, <1>2
  DEF Arrival, RequestStep, Crash, StartSwitch, StartDefault, LoadInvoice, StartNotice,
      StartRenewal, ReadSubscription, CommitDefault, NotPaid, ApplyPaid, CheckCredit,
      CommitTopUp, RecordPaid, CommitNotice, CheckFunds, CheckSource, CommitRenewal,
      CommitExpiry, notices, Begin, Goto, Finish, RequestType
<1>3. CASE ApplyPaid(r)
  <2>1. UNCHANGED paidEvents BY <1>3 DEF ApplyPaid
  <2>2. \/ UNCHANGED invoice
        \/ /\ HasPaidEvent(subject[r])
           /\ invoice' = [invoice EXCEPT ![subject[r]] = "paid"]
    BY <1>3 DEF ApplyPaid
  <2>3. \A i \in Purchases : invoice'[i] = "paid" => invoice[i] = "paid" \/ granted[i] > 0
    BY <1>0, <2>2 DEF HasPaidEvent, PaidPurchaseGranted, PaymentType
  <2>4. ~CommitSwitch(r) BY <1>3 DEF ApplyPaid, CommitSwitch
  <2> QED BY <1>0, <1>2, <2>1, <2>3, <2>4 DEF NoticesType
<1>4. CASE CommitTopUp(r) \/ RecordPaid(r)
  <2>1. CASE CommitTopUp(r)
    <3>1. subject[r] \in TopUps BY <2>1 DEF CommitTopUp, Typed, About
    <3>2. \A i \in Purchases : invoice'[i] = invoice[i] /\ paidEvents'[i] = paidEvents[i]
      BY <1>0, <2>1, <3>1 DEF CommitTopUp, PaymentType
    <3>3. ~CommitSwitch(r) BY <2>1 DEF CommitTopUp, CommitSwitch
    <3> QED BY <1>0, <1>2, <3>2, <3>3 DEF NoticesType
  <2>2. CASE RecordPaid(r)
    <3>1. granted[subject[r]] > 0 BY <2>2 DEF RecordPaid, RecordedGranted
    <3>2. \A i \in Purchases : paidEvents'[i] > 0 => paidEvents[i] > 0 \/ granted[i] > 0
      BY <1>0, <2>2, <3>1 DEF RecordPaid, PaymentType
    <3>3. ~CommitSwitch(r) BY <2>2 DEF RecordPaid, CommitSwitch
    <3> QED BY <1>0, <1>2, <2>2, <3>2, <3>3 DEF NoticesType, RecordPaid
  <2> QED BY <1>4, <2>1, <2>2
<1>5. CASE ~CommitSwitch(r) /\ ~ApplyPaid(r) /\ ~CommitTopUp(r) /\ ~RecordPaid(r)
  <2>1. UNCHANGED <<invoice, paidEvents>>
    BY <1>5
    DEF Arrival, RequestStep, Crash, StartSwitch, StartDefault, LoadInvoice, StartNotice,
        StartRenewal, ReadSubscription, CommitDefault, NotPaid, CheckCredit,
        CommitNotice, CheckFunds, CheckSource, CommitRenewal, CommitExpiry, payment
  <2> QED BY <1>0, <1>2, <1>5, <2>1 DEF NoticesType
<1> QED BY <1>1, <1>3, <1>4, <1>5

\* A purchase that is paid, or recorded as paid, was granted, whatever dies between
\* the commit of switch_subscription_plan and the last commit, and for any number
\* of requests.
THEOREM PaidPurchasesGranted == Spec => []PaidPurchaseGranted
<1> DEFINE GrantInv == Typed /\ PaidPurchaseGranted /\ RecordedGranted
<1>1. Init => GrantInv
  <2> SUFFICES ASSUME Init PROVE GrantInv OBVIOUS
  <2>1. Typed BY TypeInit DEF Init, Typed, About, Granting, Renewing
  <2>2. PaidPurchaseGranted BY DEF Init, PaidPurchaseGranted, Invoices
  <2>3. RecordedGranted BY DEF Init, RecordedGranted
  <2> QED BY <2>1, <2>2, <2>3
<1>2. GrantInv /\ [Next]_vars => GrantInv'
  <2> SUFFICES ASSUME GrantInv, [Next]_vars PROVE GrantInv' OBVIOUS
  <2>0. /\ Typed' /\ PaymentType /\ NoticesType
        /\ \A i \in Purchases : i \in Invoices
        /\ \A q \in Requests : at[q] = "recording" => subject[q] \in Purchases
    BY TypedStep, TypeGroups DEF Typed, About, Invoices
  <2>1. ASSUME NEW r \in Requests, Arrival(r) \/ RequestStep(r) \/ Crash(r)
        PROVE  PaidPurchaseGranted' /\ RecordedGranted'
    <3>1. NoticesType' BY <2>0, TypeGroups, TypedStep DEF Typed, TypeOK, NoticesType
    <3>2. PaidPurchaseGranted'
      BY <2>0, <2>1, <3>1, PurchaseStep DEF PaidPurchaseGranted, NoticesType
    <3>3. OthersKept(r) BY <2>1, Frame DEF Typed
    <3>4. RecordedGranted'
      <4> SUFFICES ASSUME NEW q \in Requests, at'[q] = "recording"
          PROVE granted'[subject'[q]] > 0
        BY DEF RecordedGranted
      <4>1. CASE q = r BY <2>1, <4>1, PurchaseStep
      <4>2. CASE q # r
        <5>1. at[q] = "recording" /\ subject'[q] = subject[q] /\ subject[q] \in Purchases
          BY <2>0, <3>3, <4>2 DEF OthersKept
        <5>2. granted[subject[q]] > 0 /\ granted'[subject[q]] >= granted[subject[q]]
          BY <2>1, <5>1, PurchaseStep DEF RecordedGranted
        <5> QED BY <2>0, <3>1, <5>1, <5>2 DEF NoticesType
      <4> QED BY <4>1, <4>2
    <3> QED BY <3>2, <3>4
  <2>2. CASE (\E i \in Invoices : CreateInvoice(i) \/ Settle(i)) \/ Tick \/ UNCHANGED vars
    <3>1. UNCHANGED <<paidEvents, granted, at, subject>>
      BY <2>2 DEF CreateInvoice, Settle, Tick, vars, payment, notices, request
    <3>2. \A i \in Invoices : invoice'[i] = "paid" => invoice[i] = "paid"
      BY <2>0, <2>2 DEF CreateInvoice, Settle, Tick, vars, payment, PaymentType
    <3> QED BY <2>0, <3>1, <3>2 DEF PaidPurchaseGranted, RecordedGranted
  <2> QED BY <2>0, <2>1, <2>2 DEF Next
<1>3. GrantInv => PaidPurchaseGranted OBVIOUS
<1> QED BY <1>1, <1>2, <1>3, PTL DEF Spec

-----------------------------------------------------------------------------
(* Notices.                                                                  *)

\* A request that switches on behalf of a notice is the only one, the notice has
\* been seen, and it has switched nothing yet.
NoticeAlone ==
  /\ \A n \in Notices \ seen : granted[n] = 0
  /\ \A r \in Requests :
       at[r] \in {"switching", "replacing"} /\ subject[r] \in Notices =>
         subject[r] \in seen /\ granted[subject[r]] = 0
  /\ \A q, r \in Requests :
       /\ at[q] \in {"switching", "replacing"} /\ at[r] \in {"switching", "replacing"}
       /\ subject[q] \in Notices /\ subject[q] = subject[r]
       => q = r

\* The requests that switch on behalf of a notice.
Noticed(r) == at[r] \in {"switching", "replacing"} /\ subject[r] \in Notices

\* A step that switches nothing for a notice, and after which the request is not
\* one of those unless it was one already, disturbs none of them.
LEMMA NoticeAway ==
  ASSUME Typed, NoticeAppliedOnce, NoticeAlone, NEW r \in Requests, OthersKept(r),
         UNCHANGED seen, \A n \in Notices : granted'[n] = granted[n],
         Noticed(r)' => Noticed(r) /\ subject'[r] = subject[r]
  PROVE  NoticeAppliedOnce' /\ NoticeAlone'
<1>1. NoticeAppliedOnce' BY DEF NoticeAppliedOnce
<1>2. \A q \in Requests : Noticed(q)' => Noticed(q) /\ subject'[q] = subject[q]
  BY DEF OthersKept, Noticed
<1>3. \A q \in Requests : Noticed(q)' => subject'[q] \in seen' /\ granted'[subject'[q]] = 0
  BY <1>2 DEF NoticeAlone, Noticed
<1>4. \A p, q \in Requests : Noticed(p)' /\ Noticed(q)' /\ subject'[p] = subject'[q] => p = q
  BY <1>2 DEF NoticeAlone, Noticed
<1>5. \A n \in Notices \ seen' : granted'[n] = 0 BY DEF NoticeAlone
<1> QED BY <1>1, <1>3, <1>4, <1>5 DEF NoticeAlone, Noticed

\* The notice is new to the table, so no other request switches for it.
LEMMA NoticeCommit ==
  ASSUME Typed, NoticeAppliedOnce, NoticeAlone, NEW r \in Requests, CommitNotice(r)
  PROVE  NoticeAppliedOnce' /\ NoticeAlone'
<1>0. RequestType /\ NoticesType /\ OthersKept(r)
  BY TypeGroups, Frame DEF Typed, RequestStep
<1>1. subject[r] \in Notices /\ UNCHANGED granted /\ at[r] = "noticing"
  BY DEF CommitNotice, Typed, About
<1>2. CASE Conflicts(subject[r])
  <2>1. UNCHANGED seen /\ at'[r] = "idle"
    BY <1>0, <1>2 DEF CommitNotice, Finish, RequestType
  <2> QED BY <1>0, <1>1, <2>1, NoticeAway DEF Noticed
<1>3. CASE ~Conflicts(subject[r])
  <2>1. /\ seen' = seen \union {subject[r]} /\ subject[r] \notin seen /\ UNCHANGED subject
    BY <1>3 DEF CommitNotice, Goto, Conflicts
  <2>2. \A q \in Requests : q # r => at'[q] = at[q] BY <1>0 DEF OthersKept
  <2>3. \A q \in Requests : Noticed(q) => q # r /\ subject[q] # subject[r]
    BY <1>1, <2>1 DEF NoticeAlone, Noticed
  <2>4. granted[subject[r]] = 0 BY <1>1, <2>1 DEF NoticeAlone
  <2>5. \A q \in Requests : Noticed(q)' => q = r \/ Noticed(q)
    BY <2>1, <2>2 DEF Noticed
  <2>6. \A q \in Requests : Noticed(q)' =>
          subject'[q] \in seen' /\ granted'[subject'[q]] = 0
    BY <1>1, <2>1, <2>4, <2>5 DEF NoticeAlone, Noticed
  <2>7. \A p, q \in Requests : Noticed(p)' /\ Noticed(q)' /\ subject'[p] = subject'[q]
          => p = q
    BY <2>1, <2>3, <2>5 DEF NoticeAlone, Noticed
  <2>8. \A n \in Notices \ seen' : granted'[n] = 0 BY <1>1, <2>1 DEF NoticeAlone
  <2> QED BY <1>1, <2>6, <2>7, <2>8 DEF NoticeAlone, Noticed, NoticeAppliedOnce
<1> QED BY <1>2, <1>3

\* The switch of a notice is its first, and the request is over.
LEMMA NoticeSwitch ==
  ASSUME Typed, NoticeAppliedOnce, NoticeAlone, NEW r \in Requests, CommitSwitch(r)
  PROVE  NoticeAppliedOnce' /\ NoticeAlone'
<1>0. RequestType /\ NoticesType /\ OthersKept(r)
  BY TypeGroups, Frame DEF Typed, RequestStep
<1>1. UNCHANGED seen /\ at'[r] \notin {"switching", "replacing"}
  BY <1>0 DEF CommitSwitch, Finish, Goto, RequestType
<1>2. CASE subject[r] \notin Notices
  <2>1. \A n \in Notices : granted'[n] = granted[n]
    BY <1>0, <1>2 DEF CommitSwitch, NoticesType
  <2> QED BY <1>0, <1>1, <2>1, NoticeAway DEF Noticed
<1>3. CASE subject[r] \in Notices
  <2>1. subject[r] \notin Purchases BY <1>3, BillingAssumption DEF Invoices
  <2>2. at[r] = "replacing" BY <2>1 DEF CommitSwitch, Typed, About
  <2>3. granted' = [granted EXCEPT ![subject[r]] = @ + 1] BY <1>3 DEF CommitSwitch
  <2>4. granted[subject[r]] = 0 /\ subject[r] \in seen BY <1>3, <2>2 DEF NoticeAlone
  <2>5. NoticeAppliedOnce' BY <1>0, <1>3, <2>3, <2>4 DEF NoticeAppliedOnce, NoticesType
  <2>6. \A q \in Requests : Noticed(q)' =>
          q # r /\ Noticed(q) /\ subject'[q] = subject[q]
    BY <1>0, <1>1 DEF OthersKept, Noticed
  <2>7. \A q \in Requests : q # r /\ Noticed(q) => subject[q] # subject[r]
    BY <1>3, <2>2 DEF NoticeAlone, Noticed
  <2>8. \A q \in Requests : Noticed(q)' =>
          subject'[q] \in seen' /\ granted'[subject'[q]] = 0
    BY <1>0, <1>1, <2>3, <2>6, <2>7 DEF NoticeAlone, Noticed, NoticesType
  <2>9. \A p, q \in Requests : Noticed(p)' /\ Noticed(q)' /\ subject'[p] = subject'[q]
          => p = q
    BY <2>6 DEF NoticeAlone, Noticed
  <2>10. \A n \in Notices \ seen' : granted'[n] = 0
    BY <1>0, <1>1, <2>3, <2>4 DEF NoticeAlone, NoticesType
  <2> QED BY <2>5, <2>8, <2>9, <2>10 DEF NoticeAlone, Noticed
<1> QED BY <1>2, <1>3

\* All other steps leave the notices as they are.
LEMMA NoticeOthers ==
  ASSUME Typed, NoticeAppliedOnce, NoticeAlone, NEW r \in Requests,
         Arrival(r) \/ RequestStep(r) \/ Crash(r), ~CommitNotice(r), ~CommitSwitch(r)
  PROVE  NoticeAppliedOnce' /\ NoticeAlone'
<1>0. RequestType /\ OthersKept(r) BY TypeGroups, Frame DEF Typed
<1>1. UNCHANGED notices
  BY DEF Arrival, RequestStep, Crash, StartSwitch, StartDefault, LoadInvoice, StartNotice,
         StartRenewal, ReadSubscription, CommitDefault, NotPaid, ApplyPaid, CheckCredit,
         CommitTopUp, RecordPaid, CheckFunds, CheckSource, CommitRenewal, CommitExpiry,
         notices
<1>2. Noticed(r)' => Noticed(r) /\ subject'[r] = subject[r]
  <2>1. CASE Arrival(r)
    <3>1. at'[r] = "switching" => subject'[r] \in Switches
      BY <1>0, <2>1
      DEF Arrival, StartSwitch, StartDefault, LoadInvoice, StartNotice, StartRenewal,
          Begin, RequestType
    <3>2. at'[r] # "replacing"
      BY <1>0, <2>1
      DEF Arrival, StartSwitch, StartDefault, LoadInvoice, StartNotice, StartRenewal,
          Begin, RequestType
    <3> QED BY <3>1, <3>2, BillingAssumption DEF Noticed
  <2>2. CASE ReadSubscription(r)
    <3>1. at[r] \in {"switching", "granting"} BY <2>2 DEF ReadSubscription
    <3>2. at'[r] = "idle" \/ UNCHANGED subject
      BY <1>0, <2>2 DEF ReadSubscription, Finish, Goto, RequestType
    <3>3. at[r] = "granting" => subject[r] \notin Notices
      BY BillingAssumption DEF Typed, About, Granting, Invoices
    <3> QED BY <3>1, <3>2, <3>3 DEF Noticed
  <2>3. CASE ~Arrival(r) /\ ~ReadSubscription(r)
    <3>1. at'[r] \notin {"switching", "replacing"}
      BY <1>0, <2>3
      DEF RequestStep, Crash, CommitDefault, NotPaid, ApplyPaid, CheckCredit,
          CommitTopUp, RecordPaid, CheckFunds, CheckSource, CommitRenewal, CommitExpiry,
          Goto, Finish, RequestType
    <3> QED BY <3>1 DEF Noticed
  <2> QED BY <2>1, <2>2, <2>3
<1> QED BY <1>0, <1>1, <1>2, NoticeAway DEF notices

\* A notice of another provider switches the plan at most once
\* (process_webhook_event), for any number of deliveries and of requests.
THEOREM NoticesAppliedOnce == Spec => []NoticeAppliedOnce
<1> DEFINE NoticeInv == Typed /\ NoticeAppliedOnce /\ NoticeAlone
<1>1. Init => NoticeInv
  <2> SUFFICES ASSUME Init PROVE NoticeInv OBVIOUS
  <2>1. Typed BY TypeInit DEF Init, Typed, About, Granting, Renewing
  <2>2. NoticeAppliedOnce /\ NoticeAlone BY DEF Init, NoticeAppliedOnce, NoticeAlone
  <2> QED BY <2>1, <2>2
<1>2. NoticeInv /\ [Next]_vars => NoticeInv'
  <2> SUFFICES ASSUME NoticeInv, [Next]_vars PROVE NoticeInv' OBVIOUS
  <2>1. Typed' BY TypedStep
  <2>2. ASSUME NEW r \in Requests, Arrival(r) \/ RequestStep(r) \/ Crash(r)
        PROVE  NoticeAppliedOnce' /\ NoticeAlone'
    BY <2>2, NoticeCommit, NoticeSwitch, NoticeOthers
  <2>3. CASE (\E i \in Invoices : CreateInvoice(i) \/ Settle(i)) \/ Tick \/ UNCHANGED vars
    <3>1. UNCHANGED <<seen, granted, at, subject>>
      BY <2>3 DEF CreateInvoice, Settle, Tick, vars, notices, request
    <3> QED BY <2>1, <3>1 DEF NoticeAppliedOnce, NoticeAlone
  <2> QED BY <2>1, <2>2, <2>3 DEF Next
<1>3. NoticeInv => NoticeAppliedOnce OBVIOUS
<1> QED BY <1>1, <1>2, <1>3, PTL DEF Spec

-----------------------------------------------------------------------------
(* One request at a time.                                                    *)

\* No two rows are active.
Single == \A s, t \in Active : s = t

\* What a request read of the subscriptions is still so: its row is active, or
\* no row is.
ReadHolds(r) ==
  /\ at[r] \in Switching \union Renewing =>
       row[r] \in Active \/ (row[r] = None /\ Active = {})
  /\ at[r] = "defaulting" => Active = {}

\* A new row takes the place of the active one, if there is one.
LEMMA InsertKeepsSingle ==
  ASSUME SubsType, NEW p, NEW end, NEW s, NEW verdict \in {"replaced", "expired", "active"},
         Insert(p, end, s, verdict), (s \in Active /\ Single) \/ Active = {},
         s \in Rows => verdict # "active"
  PROVE  Single'
<1>1. rows' \in Rows BY BillingAssumption DEF Insert, SubsType, Rows
<1>2. state' = [t \in Rows |-> IF t = rows' THEN "active"
                              ELSE IF t = s THEN verdict ELSE state[t]]
  BY DEF Insert
<1>3. \A t \in Rows : state[t] = "active" => t = s
  BY DEF Active, Single
<1>4. ASSUME NEW t \in Rows, state'[t] = "active" PROVE t = rows'
  <2>1. state'[t] = IF t = rows' THEN "active" ELSE IF t = s THEN verdict ELSE state[t]
    BY <1>2
  <2> QED BY <1>3, <1>4, <2>1
<1> QED BY <1>4 DEF Single, Active

\* An arriving request reads what is there and changes no subscription.
LEMMA SingleArrival ==
  ASSUME Typed, Single, NEW r \in Requests, Arrival(r)
  PROVE  Single' /\ ReadHolds(r)'
<1>0. RequestType BY TypeGroups DEF Typed
<1>1. UNCHANGED subs
  BY DEF Arrival, StartSwitch, StartDefault, LoadInvoice, StartNotice, StartRenewal
<1>2. UNCHANGED state /\ Active' = Active BY <1>1 DEF subs, Active
<1>3. ReadHolds(r)'
  <2>1. CASE StartRenewal(r)
    <3>1. at'[r] = "funding" /\ row'[r] \in Active
      BY <1>0, <2>1 DEF StartRenewal, Begin, Remember, RequestType
    <3> QED BY <1>2, <3>1 DEF ReadHolds
  <2>2. CASE StartDefault(r)
    <3>1. at'[r] = "defaulting" /\ Active = {}
      BY <1>0, <2>2 DEF StartDefault, Begin, RequestType
    <3> QED BY <1>2, <3>1 DEF ReadHolds, Switching, Renewing
  <2>3. CASE ~StartRenewal(r) /\ ~StartDefault(r)
    <3>1. at'[r] \in {"switching", "asking", "noticing"}
      BY <1>0, <2>3 DEF Arrival, StartSwitch, LoadInvoice, StartNotice, Begin, RequestType
    <3> QED BY <3>1 DEF ReadHolds, Switching, Renewing
  <2> QED BY <2>1, <2>2, <2>3
<1> QED BY <1>2, <1>3 DEF Single

\* The steps of a switch, of a default and of a renewal that insert a row.
LEMMA SingleCommit ==
  ASSUME Typed, Single, NEW r \in Requests, ReadHolds(r),
         CommitSwitch(r) \/ CommitDefault(r) \/ CommitExpiry(r)
  PROVE  Single' /\ ReadHolds(r)'
<1>0. RequestType /\ SubsType /\ About(r) BY TypeGroups DEF Typed
<1>1. at'[r] \in {"idle", "recording"}
  BY <1>0 DEF CommitSwitch, CommitDefault, CommitExpiry, Finish, Goto, RequestType
<1>2. ReadHolds(r)' BY <1>1 DEF ReadHolds, Switching, Renewing
<1>3. Single'
  <2>1. CASE at[r] = "extending"
    <3>1. UNCHANGED state
      BY <2>1 DEF CommitSwitch, CommitDefault, CommitExpiry, Extend
    <3> QED BY <3>1 DEF Single, Active
  <2>2. CASE CommitSwitch(r) /\ at[r] = "replacing"
    <3>1. Insert(WantedPlan(subject[r]), NewPeriodEnd(r), row[r], "replaced")
      BY <2>2 DEF CommitSwitch, Replace
    <3>2. row[r] \in Active \/ Active = {} BY <2>2 DEF ReadHolds, Switching
    <3> QED BY <1>0, <3>1, <3>2, InsertKeepsSingle
  <2>3. CASE CommitDefault(r)
    <3>1. Insert(Free, None, None, "active") /\ Active = {}
      BY <2>3 DEF CommitDefault, ReadHolds
    <3>2. None \notin Rows BY BillingAssumption DEF Rows
    <3> QED BY <1>0, <3>1, <3>2, InsertKeepsSingle
  <2>4. CASE CommitExpiry(r)
    <3>1. Insert(Free, None, row[r], "expired") BY <2>4 DEF CommitExpiry
    <3>2. row[r] \in Active \/ Active = {}
      BY <2>4 DEF CommitExpiry, ReadHolds, Renewing
    <3> QED BY <1>0, <3>1, <3>2, InsertKeepsSingle
  <2> QED BY <2>1, <2>2, <2>3, <2>4 DEF CommitSwitch
<1> QED BY <1>2, <1>3

\* The other steps activate nothing and end nothing.
LEMMA SingleOthers ==
  ASSUME Typed, Single, NEW r \in Requests, ReadHolds(r), RequestStep(r) \/ Crash(r),
         ~CommitSwitch(r), ~CommitDefault(r), ~CommitExpiry(r)
  PROVE  Single' /\ ReadHolds(r)'
<1>0. RequestType BY TypeGroups DEF Typed
<1>1. UNCHANGED state
  BY DEF RequestStep, Crash, ReadSubscription, NotPaid, ApplyPaid, CheckCredit,
         CommitTopUp, RecordPaid, CommitNotice, CheckFunds, CheckSource, CommitRenewal,
         Extend, subs
<1>2. Active' = Active BY <1>1 DEF Active
<1>3. ReadHolds(r)'
  <2>1. CASE ReadSubscription(r)
    <3>1. PICK s \in CurrentRows :
            \/ Finish(r)
            \/ Goto(r, "extending") /\ Remember(r, s)
            \/ Goto(r, "replacing") /\ Remember(r, s)
      BY <2>1 DEF ReadSubscription
    <3>2. s \in Active \/ (s = None /\ Active = {}) BY DEF CurrentRows
    <3>3. \/ at'[r] = "idle"
          \/ at'[r] \in {"extending", "replacing"} /\ row'[r] = s
      BY <1>0, <3>1 DEF Finish, Goto, Remember, RequestType
    <3> QED BY <1>2, <3>2, <3>3 DEF ReadHolds, Switching, Renewing
  <2>2. CASE CheckFunds(r) \/ CheckSource(r)
    <3>1. at[r] \in Renewing /\ row'[r] = row[r] /\ at'[r] # "defaulting"
      BY <1>0, <2>2 DEF CheckFunds, CheckSource, Goto, KeepRead, RequestType, Renewing
    <3> QED BY <1>2, <3>1 DEF ReadHolds
  <2>3. CASE ~ReadSubscription(r) /\ ~CheckFunds(r) /\ ~CheckSource(r)
    <3>1. at'[r] \in {"idle", "crediting", "granting", "noting", "adding", "switching"}
      BY <1>0, <2>3
      DEF RequestStep, Crash, NotPaid, ApplyPaid, CheckCredit, CommitTopUp, RecordPaid,
          CommitNotice, CommitRenewal, Finish, Goto, RequestType
    <3> QED BY <3>1 DEF ReadHolds, Switching, Renewing
  <2> QED BY <2>1, <2>2, <2>3
<1> QED BY <1>2, <1>3 DEF Single

\* Served one at a time, requests leave one active subscription (billing_service.py),
\* however many there are and wherever one dies.
THEOREM OneSubscriptionIfSerial ==
  ASSUME \A p, q \in Requests : p = q
  PROVE  Spec => []OneSubscription
<1> DEFINE SerialInv == Typed /\ Single /\ \A r \in Requests : ReadHolds(r)
<1>1. Init => SerialInv
  <2> SUFFICES ASSUME Init PROVE SerialInv OBVIOUS
  <2>1. Typed BY TypeInit DEF Init, Typed, About, Granting, Renewing
  <2>2. Single BY DEF Init, Single, Active
  <2>3. \A r \in Requests : ReadHolds(r)
    BY DEF Init, ReadHolds, Switching, Renewing
  <2> QED BY <2>1, <2>2, <2>3
<1>2. SerialInv /\ [Next]_vars => SerialInv'
  <2> SUFFICES ASSUME SerialInv, [Next]_vars PROVE SerialInv' OBVIOUS
  <2>1. Typed' BY TypedStep
  <2>2. ASSUME NEW r \in Requests, Arrival(r) \/ RequestStep(r) \/ Crash(r)
        PROVE  Single' /\ \A q \in Requests : ReadHolds(q)'
    <3>1. Single' /\ ReadHolds(r)'
      BY <2>2, SingleArrival, SingleCommit, SingleOthers DEF RequestStep
    <3>2. \A q \in Requests : q = r OBVIOUS
    <3> QED BY <3>1, <3>2
  <2>3. CASE (\E i \in Invoices : CreateInvoice(i) \/ Settle(i)) \/ Tick \/ UNCHANGED vars
    <3>1. UNCHANGED <<subs, request>> BY <2>3 DEF CreateInvoice, Settle, Tick, vars
    <3>2. UNCHANGED <<state, at, row>> /\ Active' = Active
      BY <3>1 DEF subs, request, Active
    <3> QED BY <2>1, <3>2 DEF Single, ReadHolds
  <2> QED BY <2>1, <2>2, <2>3 DEF Next
<1>3. SerialInv => OneSubscription
  <2> SUFFICES ASSUME Single PROVE OneSubscription OBVIOUS
  <2>1. CASE Active = {} BY <2>1, FS_EmptySet DEF OneSubscription
  <2>2. ASSUME NEW s \in Active PROVE OneSubscription
    <3>1. Active = {s} BY <2>2 DEF Single
    <3>2. Cardinality({s}) = 1 BY FS_Singleton
    <3> QED BY <3>1, <3>2 DEF OneSubscription
  <2> QED BY <2>1, <2>2
<1> QED BY <1>1, <1>2, <1>3, PTL DEF Spec

-----------------------------------------------------------------------------
(* The time a renewal buys.                                                  *)

\* The time that a request read of the clock is at most one unit old.
Recent(r) == at[r] \in Switching \union Renewing => now <= asOf[r] + 1

\* Only the clock makes what a request read older, and it waits for the request.
LEMMA RecentStep ==
  ASSUME Typed, NEW r \in Requests, Recent(r), Arrival(r) \/ RequestStep(r) \/ Crash(r)
  PROVE  now' = now /\ Recent(r)'
<1>0. RequestType /\ now \in Time BY TypeGroups DEF Typed
<1>1. now' = now
  BY DEF Arrival, RequestStep, Crash, StartSwitch, StartDefault, LoadInvoice, StartNotice,
         StartRenewal, ReadSubscription, CommitSwitch, CommitDefault, NotPaid, ApplyPaid,
         CheckCredit, CommitTopUp, RecordPaid, CommitNotice, CheckFunds, CheckSource,
         CommitRenewal, CommitExpiry
<1>2. CASE StartRenewal(r) \/ ReadSubscription(r)
  <2>1. asOf'[r] = now \/ at'[r] = "idle"
    BY <1>0, <1>2
    DEF StartRenewal, ReadSubscription, Begin, Goto, Remember, Finish, RequestType
  <2> QED BY <1>0, <1>1, <2>1 DEF Recent, Switching, Renewing, Time
<1>3. CASE CheckFunds(r) \/ CheckSource(r)
  <2>1. at[r] \in Renewing /\ asOf'[r] = asOf[r]
    BY <1>3 DEF CheckFunds, CheckSource, KeepRead, Renewing
  <2> QED BY <1>1, <2>1 DEF Recent
<1>4. CASE ~StartRenewal(r) /\ ~ReadSubscription(r) /\ ~CheckFunds(r) /\ ~CheckSource(r)
  <2>1. at'[r] \in {"idle", "asking", "noticing", "switching", "defaulting", "recording",
                    "crediting", "granting", "noting", "adding"}
    BY <1>0, <1>4
    DEF Arrival, RequestStep, Crash, StartSwitch, StartDefault, LoadInvoice, StartNotice,
        CommitSwitch, CommitDefault, NotPaid, ApplyPaid, CheckCredit, CommitTopUp,
        RecordPaid, CommitNotice, CommitRenewal, CommitExpiry, Begin, Goto, Finish,
        RequestType
  <2> QED BY <1>1, <2>1 DEF Recent, Switching, Renewing
<1> QED BY <1>1, <1>2, <1>3, <1>4

\* What requests read of the clock stays recent.
LEMMA RecentNext ==
  ASSUME Typed, \A r \in Requests : Recent(r), [Next]_vars
  PROVE  \A r \in Requests : Recent(r)'
<1>1. ASSUME NEW r \in Requests, Arrival(r) \/ RequestStep(r) \/ Crash(r)
      PROVE  \A q \in Requests : Recent(q)'
  <2>1. now' = now /\ Recent(r)' BY <1>1, RecentStep
  <2>2. OthersKept(r) BY <1>1, Frame DEF Typed
  <2>3. \A q \in Requests : q # r => Recent(q)' BY <2>1, <2>2 DEF OthersKept, Recent
  <2> QED BY <2>1, <2>3
<1>2. CASE Tick
  <2>1. now' = now + 1 /\ UNCHANGED <<at, asOf>> BY <1>2 DEF Tick, request
  <2>2. \A r \in Requests : at[r] \in Switching \union Renewing => asOf[r] = now
    BY <1>2 DEF Tick
  <2>3. now \in Nat BY DEF Typed, TypeOK, Time
  <2> QED BY <2>1, <2>2, <2>3 DEF Recent
<1>3. CASE (\E i \in Invoices : CreateInvoice(i) \/ Settle(i)) \/ UNCHANGED vars
  <2>1. UNCHANGED <<now, at, asOf>> BY <1>3 DEF CreateInvoice, Settle, vars, request
  <2> QED BY <2>1 DEF Recent
<1> QED BY <1>1, <1>2, <1>3 DEF Next

\* A debit is made by the commit that moves the end of the period beyond now.
LEMMA RenewalBuys ==
  ASSUME Period > 1, Typed, \A r \in Requests : Recent(r), [Next]_vars,
         NEW k \in DOMAIN debits' \ DOMAIN debits
  PROVE  ends'[debits'[k].row] > now
<1>0. RequestType /\ SubsType /\ LedgerType /\ now \in Time BY TypeGroups DEF Typed
<1>1. debits' # debits OBVIOUS
<1>2. PICK r \in Requests : CommitRenewal(r)
  BY <1>1
  DEF Next, Arrival, RequestStep, Crash, StartSwitch, StartDefault, LoadInvoice,
      StartNotice, StartRenewal, ReadSubscription, CommitSwitch, CommitDefault, NotPaid,
      ApplyPaid, CheckCredit, CommitTopUp, RecordPaid, CommitNotice, CheckFunds,
      CheckSource, CommitExpiry, CreateInvoice, Settle, Tick, ledger, vars
<1>3. /\ at[r] = "debiting"
      /\ debits' = Append(debits, [row |-> row[r], base |-> base[r]])
      /\ ends' = [ends EXCEPT ![row[r]] = NextPeriodEnd(base[r], asOf[r])]
  BY <1>1, <1>2 DEF CommitRenewal, Extend
<1>4. row[r] \in Rows /\ base[r] \in Nat /\ asOf[r] \in Nat /\ now \in Nat
      /\ now <= asOf[r] + 1
  BY <1>0, <1>3 DEF Typed, About, Recent, Renewing, RequestType, Time
<1>5. debits'[k].row = row[r]
  <2>1. debits \in Seq([row : Rows, base : Nat]) BY <1>0 DEF LedgerType
  <2>2. k = Len(debits) + 1 BY <1>3, <2>1
  <2>3. debits'[k] = [row |-> row[r], base |-> base[r]] BY <1>3, <2>1, <2>2
  <2> QED BY <2>3
<1>6. ends'[row[r]] = NextPeriodEnd(base[r], asOf[r])
  BY <1>0, <1>3, <1>4 DEF SubsType
<1>7. NextPeriodEnd(base[r], asOf[r]) >= asOf[r] + Period
  BY <1>4, BillingAssumption DEF NextPeriodEnd
<1>8. NextPeriodEnd(base[r], asOf[r]) \in Nat
  BY <1>4, BillingAssumption DEF NextPeriodEnd
<1> QED BY <1>4, <1>5, <1>6, <1>7, <1>8, BillingAssumption

\* A renewal buys time that is not over yet (reconcile_subscription), for any
\* number of requests, if a period is longer than one unit of the clock.
THEOREM RenewalsBuyTime ==
  ASSUME Period > 1
  PROVE  Spec => RenewalBuysTime
<1> DEFINE RecentInv == Typed /\ \A r \in Requests : Recent(r)
<1>1. Init => RecentInv
  <2> SUFFICES ASSUME Init PROVE RecentInv OBVIOUS
  <2>1. Typed BY TypeInit DEF Init, Typed, About, Granting, Renewing
  <2>2. \A r \in Requests : Recent(r) BY DEF Init, Recent, Switching, Renewing
  <2> QED BY <2>1, <2>2
<1>2. RecentInv /\ [Next]_vars => RecentInv'
  <2> SUFFICES ASSUME RecentInv, [Next]_vars PROVE RecentInv' OBVIOUS
  <2>1. Typed' BY TypedStep
  <2> QED BY <2>1, RecentNext
<1>3. RecentInv /\ [Next]_vars
        => [\A k \in DOMAIN debits' \ DOMAIN debits : ends'[debits'[k].row] > now]_vars
  BY RenewalBuys
<1> QED BY <1>1, <1>2, <1>3, PTL DEF Spec, RenewalBuysTime

-----------------------------------------------------------------------------
(* The promise to those who pay.                                             *)

\* What is on record is shown as paid, and so is what a request has granted and
\* not recorded yet.
RecordedPaid ==
  /\ \A i \in Purchases : paidEvents[i] > 0 => invoice[i] = "paid"
  /\ \A r \in Requests : at[r] = "recording" => invoice[subject[r]] = "paid"

PayInv == Typed /\ TopUpCreditedOnce /\ CreditAlone /\ RecordedPaid

\* A request changes what it has taken up and what it owes, and nobody else's.
LEMMA HandsMove ==
  ASSUME TypeOK, NEW r \in Requests, OthersKept(r)
  PROVE  /\ Giving' = [Giving EXCEPT ![r] = Giving'[r]]
         /\ Owing' = [Owing EXCEPT ![r] = Owing'[r]]
         /\ Giving'[r] = Giving[r] => Giving' = Giving
         /\ Owing'[r] = Owing[r] => Owing' = Owing
<1> DEFINE hand(q) == IF at[q] \in Granting \union Switching /\ subject[q] \in Invoices
                      THEN subject[q] ELSE None
           debt(q) == IF at[q] = "recording" THEN subject[q] ELSE None
<1>1. Giving = [q \in Requests |-> hand(q)] /\ Owing = [q \in Requests |-> debt(q)]
  BY DEF Giving, Owing
<1>2. Giving' = [q \in Requests |-> hand(q)'] /\ Owing' = [q \in Requests |-> debt(q)']
  BY DEF Giving, Owing
<1>3. \A q \in Requests : q # r => hand(q)' = hand(q) /\ debt(q)' = debt(q)
  BY DEF OthersKept
<1> HIDE DEF hand, debt
<1> QED BY <1>1, <1>2, <1>3

\* What each request has in hand, by its position.
LEMMA HandsOf ==
  ASSUME NEW r \in Requests
  PROVE  /\ Giving[r] = IF at[r] \in Granting \union Switching /\ subject[r] \in Invoices
                        THEN subject[r] ELSE None
         /\ Owing[r] = IF at[r] = "recording" THEN subject[r] ELSE None
         /\ Giving'[r] = IF at'[r] \in Granting \union Switching /\ subject'[r] \in Invoices
                         THEN subject'[r] ELSE None
         /\ Owing'[r] = IF at'[r] = "recording" THEN subject'[r] ELSE None
BY DEF Giving, Owing

\* The steps of a request that are none of the promise.
LEMMA Aside ==
  ASSUME TypeOK, NEW r \in Requests, OthersKept(r),
         UNCHANGED <<settled, paidEvents, crashes>>,
         Given' = Given, Paid' = Paid, Giving'[r] = Giving[r], Owing'[r] = Owing[r]
  PROVE  UNCHANGED Pay!payVars
BY HandsMove DEF Pay!payVars

\* What the promise says of the database does not change with these.
LEMMA BooksKept ==
  /\ UNCHANGED <<credits, granted>> => Given' = Given
  /\ UNCHANGED invoice => Paid' = Paid
BY DEF Given, Paid

\* An arriving request has nothing in hand.
LEMMA PayArrival ==
  ASSUME PayInv, NEW r \in Requests, Arrival(r)
  PROVE  UNCHANGED Pay!payVars
<1>0. TypeOK /\ RequestType /\ OthersKept(r) BY TypeGroups, Frame DEF PayInv, Typed
<1>1. UNCHANGED <<payment, ledger, notices, crashes>>
  BY DEF Arrival, StartSwitch, StartDefault, LoadInvoice, StartNotice, StartRenewal
<1>2. UNCHANGED <<settled, paidEvents, crashes>> /\ Given' = Given /\ Paid' = Paid
  BY <1>1, BooksKept DEF payment, ledger, notices
<1>3. at[r] = "idle" /\ at'[r] \in {"switching", "defaulting", "asking", "noticing", "funding"}
  BY <1>0 DEF Arrival, StartSwitch, StartDefault, LoadInvoice, StartNotice, StartRenewal,
              Begin, RequestType
<1>4. Giving'[r] = Giving[r] /\ Owing'[r] = Owing[r]
  BY <1>3, HandsOf DEF Granting, Switching
<1> QED BY <1>0, <1>2, <1>4, Aside

\* The read keeps a purchase in hand, and a notice or a plan is none.
LEMMA PayRead ==
  ASSUME PayInv, NEW r \in Requests, ReadSubscription(r)
  PROVE  UNCHANGED Pay!payVars
<1>0. TypeOK /\ RequestType /\ About(r) /\ OthersKept(r)
  BY TypeGroups, Frame DEF PayInv, Typed, RequestStep
<1>1. UNCHANGED <<payment, ledger, notices, crashes>> BY DEF ReadSubscription
<1>2. UNCHANGED <<settled, paidEvents, crashes>> /\ Given' = Given /\ Paid' = Paid
  BY <1>1, BooksKept DEF payment, ledger, notices
<1>3. CASE at[r] = "granting"
  <2>1. subject[r] \in Purchases /\ subject[r] \in Invoices
    BY <1>0, <1>3 DEF About, Granting, Invoices
  <2>2. at'[r] \in {"extending", "replacing"} /\ subject'[r] = subject[r]
    BY <1>0, <2>1 DEF ReadSubscription, Goto, RequestType
  <2>3. Giving'[r] = Giving[r] /\ Owing'[r] = Owing[r]
    BY <1>3, <2>1, <2>2, HandsOf DEF Granting, Switching
  <2> QED BY <1>0, <1>2, <2>3, Aside
<1>4. CASE at[r] = "switching"
  <2>1. subject[r] \notin Invoices BY <1>0, <1>4, BillingAssumption DEF About
  <2>2. \/ at'[r] = "idle"
        \/ at'[r] \in {"extending", "replacing"} /\ subject'[r] = subject[r]
    BY <1>0 DEF ReadSubscription, Goto, Finish, RequestType
  <2>3. Giving'[r] = Giving[r] /\ Owing'[r] = Owing[r]
    BY <1>4, <2>1, <2>2, HandsOf DEF Granting, Switching
  <2> QED BY <1>0, <1>2, <2>3, Aside
<1> QED BY <1>3, <1>4 DEF ReadSubscription

\* The commit of a switch grants a purchase; any other switch is not about payments.
LEMMA PaySwitch ==
  ASSUME PayInv, NEW r \in Requests, CommitSwitch(r)
  PROVE  /\ [Pay!Next]_Pay!payVars
         /\ RecordedPaid'
<1>0. /\ TypeOK /\ RequestType /\ About(r) /\ OthersKept(r)
      /\ PaymentType /\ NoticesType /\ LedgerType
  BY TypeGroups, Frame DEF PayInv, Typed, RequestStep
<1>1. UNCHANGED <<settled, paidEvents, credits, crashes>> /\ at[r] \in Switching
  BY DEF CommitSwitch, ledger, Switching
<1>2. CASE subject[r] \in Purchases
  <2>1. /\ granted' = [granted EXCEPT ![subject[r]] = @ + 1]
        /\ invoice' = [invoice EXCEPT ![subject[r]] = "paid"]
        /\ at'[r] = "recording" /\ subject' = subject
    BY <1>0, <1>2 DEF CommitSwitch, Goto, RequestType
  <2>2. subject[r] \in Invoices /\ subject[r] \notin TopUps /\ subject[r] # None
    BY <1>2, BillingAssumption DEF Invoices
  <2>3. Giving[r] = subject[r] /\ Owing[r] = None
    BY <1>1, <2>2, HandsOf DEF Switching
  <2>4. Giving'[r] = None /\ Owing'[r] = subject[r]
    BY <2>1, HandsOf DEF Granting, Switching
  <2>5. Given' = [Given EXCEPT ![subject[r]] = @ + 1]
    BY <1>0, <1>1, <1>2, <2>1, <2>2 DEF Given, NoticesType, Invoices
  <2>6. Paid' = Paid \union {subject[r]}
    BY <1>0, <2>1, <2>2 DEF Paid, PaymentType
  <2>7. Pay!Grant(r)
    BY <1>0, <1>1, <1>2, <2>3, <2>4, <2>5, <2>6, HandsMove DEF Pay!Grant
  <2>8. RecordedPaid'
    <3>1. \A i \in Purchases : invoice[i] = "paid" => invoice'[i] = "paid"
      BY <1>0, <2>1 DEF PaymentType, Invoices
    <3>2. \A q \in Requests : at[q] = "recording" => subject[q] \in Purchases
      BY DEF PayInv, Typed, About
    <3> QED BY <1>0, <1>1, <2>1, <2>2, <3>1, <3>2
            DEF PayInv, RecordedPaid, OthersKept, PaymentType
  <2> QED BY <2>7, <2>8 DEF Pay!Next
<1>3. CASE subject[r] \notin Purchases
  <2>1. UNCHANGED invoice /\ at'[r] = "idle"
    BY <1>0, <1>3 DEF CommitSwitch, Finish, RequestType
  <2>2. \A i \in Purchases : granted'[i] = granted[i]
    BY <1>0, <1>3, BillingAssumption DEF CommitSwitch, NoticesType
  <2>3. subject[r] \notin Invoices
    BY <1>0, <1>1, <1>3, BillingAssumption DEF About, Switching, Invoices
  <2>4. Given' = Given /\ Paid' = Paid
    BY <1>1, <2>1, <2>2 DEF Given, Paid, Invoices
  <2>5. Giving'[r] = Giving[r] /\ Owing'[r] = Owing[r]
    BY <1>1, <2>1, <2>3, HandsOf DEF Granting, Switching
  <2>6. UNCHANGED Pay!payVars BY <1>0, <1>1, <2>4, <2>5, Aside
  <2>7. RecordedPaid'
    BY <1>0, <1>1, <2>1 DEF PayInv, RecordedPaid, OthersKept
  <2> QED BY <2>6, <2>7
<1> QED BY <1>2, <1>3

\* The answer that a payment is there takes it up, unless it is on record.
LEMMA PayApply ==
  ASSUME PayInv, NEW r \in Requests, ApplyPaid(r)
  PROVE  /\ [Pay!Next]_Pay!payVars
         /\ RecordedPaid'
<1>0. /\ TypeOK /\ RequestType /\ About(r) /\ OthersKept(r) /\ PaymentType /\ LedgerType
  BY TypeGroups, Frame DEF PayInv, Typed, RequestStep
<1>1. /\ at[r] = "asking" /\ subject[r] \in settled /\ FlushPasses(r)
      /\ UNCHANGED <<settled, paidEvents, credits, granted, crashes>>
  BY DEF ApplyPaid, ledger, notices
<1>2. subject[r] \in Invoices /\ subject[r] # None
  BY <1>0, <1>1, BillingAssumption DEF About
<1>3. Given' = Given BY <1>1, BooksKept
<1>4. Giving[r] = None /\ Owing[r] = None BY <1>1, HandsOf DEF Granting, Switching
<1>5. CASE HasPaidEvent(subject[r])
  <2>1. invoice' = [invoice EXCEPT ![subject[r]] = "paid"] /\ at'[r] = "idle"
    BY <1>0, <1>5 DEF ApplyPaid, Finish, RequestType
  <2>2. invoice[subject[r]] = "paid"
    BY <1>0, <1>2, <1>5
    DEF PayInv, RecordedPaid, TopUpCreditedOnce, HasPaidEvent, Invoices, PaymentType
  <2>3. invoice' = invoice BY <1>0, <1>2, <2>1, <2>2 DEF PaymentType
  <2>4. Paid' = Paid BY <2>3, BooksKept
  <2>5. Giving'[r] = Giving[r] /\ Owing'[r] = Owing[r]
    BY <1>4, <2>1, HandsOf DEF Granting, Switching
  <2>6. RecordedPaid' BY <1>0, <1>1, <2>1, <2>3 DEF PayInv, RecordedPaid, OthersKept
  <2> QED BY <1>0, <1>1, <1>3, <2>4, <2>5, <2>6, Aside
<1>6. CASE ~HasPaidEvent(subject[r])
  <2>1. UNCHANGED <<invoice, subject>> /\ at'[r] \in {"crediting", "granting"}
    BY <1>0, <1>6 DEF ApplyPaid, Goto, RequestType
  <2>2. paidEvents[subject[r]] = 0 BY <1>0, <1>2, <1>6 DEF HasPaidEvent, PaymentType
  <2>3. Giving'[r] = subject[r] /\ Owing'[r] = None
    BY <1>2, <2>1, HandsOf DEF Granting
  <2>4. ASSUME subject[r] \in TopUps, NEW q \in Requests, Giving[q] = subject[r]
        PROVE  FALSE
    <3>1. ~unchanged[r]
      BY <1>0, <1>1, <2>2, <2>4 DEF PayInv, TopUpCreditedOnce, CreditAlone
    <3>2. at[q] \in Granting \union Switching /\ subject[q] = subject[r]
      BY <1>2, <2>4, HandsOf
    <3>3. q # r /\ unchanged[q] BY <1>1, <3>1, <3>2 DEF FlushPasses, Granting, Switching
    <3>4. at[q] \in Crediting
      BY <2>4, <3>2, BillingAssumption
      DEF PayInv, Typed, About, Granting, Switching, Crediting, Invoices
    <3> QED BY <3>3, <3>4 DEF PayInv, CreditAlone
  <2>5. Paid' = Paid BY <2>1, BooksKept
  <2>6. Pay!TakeUp(r, subject[r])
    BY <1>0, <1>1, <1>3, <1>4, <2>2, <2>3, <2>4, <2>5, HandsMove DEF Pay!TakeUp
  <2>7. RecordedPaid' BY <1>0, <1>1, <2>1 DEF PayInv, RecordedPaid, OthersKept
  <2> QED BY <1>2, <2>6, <2>7 DEF Pay!Next, Pay!Payable, Invoices
<1> QED BY <1>5, <1>6

\* The commit of a top-up credits it, and finds it neither credited nor on record.
LEMMA PayTopUp ==
  ASSUME PayInv, NEW r \in Requests, CommitTopUp(r)
  PROVE  /\ [Pay!Next]_Pay!payVars
         /\ RecordedPaid'
<1>0. /\ TypeOK /\ RequestType /\ About(r) /\ OthersKept(r) /\ PaymentType /\ LedgerType
  BY TypeGroups, Frame DEF PayInv, Typed, RequestStep
<1>1. /\ at[r] = "adding" /\ subject[r] \in TopUps /\ subject[r] \in Invoices
      /\ subject[r] \notin Purchases /\ subject[r] # None
  BY <1>0, BillingAssumption
  DEF CommitTopUp, About, PayInv, CreditAlone, Crediting, Invoices
<1>2. credits[subject[r]] = 0 /\ paidEvents[subject[r]] = 0
  BY <1>1 DEF PayInv, CreditAlone, TopUpCreditedOnce, Crediting
<1>3. /\ credits' = [credits EXCEPT ![subject[r]] = 1]
      /\ invoice' = [invoice EXCEPT ![subject[r]] = "paid"]
      /\ paidEvents' = [paidEvents EXCEPT ![subject[r]] = 1]
      /\ UNCHANGED <<settled, granted, crashes>> /\ at'[r] = "idle"
  BY <1>0, <1>1, <1>2 DEF CommitTopUp, Finish, RequestType, notices, PaymentType, LedgerType
<1>4. Giving[r] = subject[r] /\ Owing[r] = None
  BY <1>1, HandsOf DEF Granting
<1>5. Giving'[r] = None /\ Owing'[r] = None
  BY <1>3, HandsOf DEF Granting, Switching
<1>6. Given[subject[r]] = 0 /\ Given' = [Given EXCEPT ![subject[r]] = 1]
  BY <1>0, <1>1, <1>2, <1>3 DEF Given, LedgerType, Invoices
<1>7. Paid' = Paid \union {subject[r]} BY <1>0, <1>1, <1>3 DEF Paid, PaymentType
<1>8. Pay!Credit(r)
  BY <1>0, <1>1, <1>2, <1>3, <1>4, <1>5, <1>6, <1>7, HandsMove DEF Pay!Credit
<1>9. RecordedPaid'
  <2>1. \A i \in Purchases : paidEvents'[i] = paidEvents[i] /\ invoice'[i] = invoice[i]
    BY <1>0, <1>1, <1>3 DEF PaymentType, Invoices
  <2>2. \A q \in Requests : at[q] = "recording" => subject[q] \in Purchases
    BY DEF PayInv, Typed, About
  <2> QED BY <1>0, <1>3, <2>1, <2>2 DEF PayInv, RecordedPaid, OthersKept
<1> QED BY <1>8, <1>9 DEF Pay!Next

\* The last commit puts a purchase on record.
LEMMA PayRecord ==
  ASSUME PayInv, NEW r \in Requests, RecordPaid(r)
  PROVE  /\ [Pay!Next]_Pay!payVars
         /\ RecordedPaid'
<1>0. /\ TypeOK /\ RequestType /\ About(r) /\ OthersKept(r) /\ PaymentType
  BY TypeGroups, Frame DEF PayInv, Typed, RequestStep
<1>1. /\ at[r] = "recording" /\ at'[r] = "idle"
      /\ paidEvents' = [paidEvents EXCEPT ![subject[r]] = @ + 1]
      /\ UNCHANGED <<settled, invoice, credits, granted, crashes>>
  BY <1>0 DEF RecordPaid, Finish, RequestType, ledger, notices
<1>2. subject[r] \in Purchases BY <1>0, <1>1 DEF About
<1>3. Giving[r] = None /\ Owing[r] = subject[r] /\ Giving'[r] = None /\ Owing'[r] = None
  BY <1>1, HandsOf DEF Granting, Switching
<1>4. Given' = Given /\ Paid' = Paid BY <1>1, BooksKept
<1>5. Pay!Record(r)
  BY <1>0, <1>1, <1>2, <1>3, <1>4, HandsMove DEF Pay!Record
<1>6. RecordedPaid'
  <2>1. invoice[subject[r]] = "paid" BY <1>1 DEF PayInv, RecordedPaid
  <2>2. \A i \in Purchases : i # subject[r] => paidEvents'[i] = paidEvents[i]
    BY <1>0, <1>1 DEF PaymentType, Invoices
  <2> QED BY <1>0, <1>1, <2>1, <2>2 DEF PayInv, RecordedPaid, OthersKept
<1> QED BY <1>5, <1>6 DEF Pay!Next

\* A request that dies is a handler lost.
LEMMA PayCrash ==
  ASSUME PayInv, NEW r \in Requests, Crash(r)
  PROVE  /\ [Pay!Next]_Pay!payVars
         /\ RecordedPaid'
<1>0. TypeOK /\ RequestType /\ OthersKept(r) BY TypeGroups, Frame DEF PayInv, Typed
<1>1. /\ at'[r] = "idle" /\ crashes' = crashes + 1
      /\ UNCHANGED <<settled, paidEvents, invoice, credits, granted>>
  BY <1>0 DEF Crash, Finish, RequestType, payment, ledger, notices
<1>2. Giving'[r] = None /\ Owing'[r] = None
  BY <1>1, HandsOf DEF Granting, Switching
<1>3. Given' = Given /\ Paid' = Paid BY <1>1, BooksKept
<1>4. Pay!Lose(r) BY <1>0, <1>1, <1>2, <1>3, HandsMove DEF Pay!Lose
<1>5. RecordedPaid' BY <1>0, <1>1 DEF PayInv, RecordedPaid, OthersKept
<1> QED BY <1>4, <1>5 DEF Pay!Next

\* The other steps of a request are not about what it has in hand.
LEMMA PayOthers ==
  ASSUME PayInv, NEW r \in Requests,
         \/ CommitDefault(r) \/ NotPaid(r) \/ CheckCredit(r) \/ CommitNotice(r)
         \/ CheckFunds(r) \/ CheckSource(r) \/ CommitRenewal(r) \/ CommitExpiry(r)
  PROVE  UNCHANGED Pay!payVars
<1>0. TypeOK /\ RequestType /\ About(r) /\ OthersKept(r)
  BY TypeGroups, Frame DEF PayInv, Typed, RequestStep
<1>1. UNCHANGED <<settled, paidEvents, invoice, credits, granted, crashes>>
  BY DEF CommitDefault, NotPaid, CheckCredit, CommitNotice, CheckFunds, CheckSource,
         CommitRenewal, CommitExpiry, payment, ledger, notices
<1>2. Given' = Given /\ Paid' = Paid BY <1>1, BooksKept
<1>3. CASE CheckCredit(r)
  <2>1. /\ at[r] = "crediting" /\ at'[r] \in {"noting", "adding"}
        /\ subject'[r] = subject[r]
    BY <1>0, <1>3 DEF CheckCredit, Goto, RequestType
  <2>2. Giving'[r] = Giving[r] /\ Owing'[r] = Owing[r]
    BY <2>1, HandsOf DEF Granting
  <2> QED BY <1>0, <1>1, <1>2, <2>2, Aside
<1>4. CASE ~CheckCredit(r)
  <2>1. /\ at[r] \notin Granting \union Switching \union {"recording"}
        /\ at'[r] \notin Granting \union Switching \union {"recording"}
    BY <1>0, <1>4
    DEF CommitDefault, NotPaid, CommitNotice, CheckFunds, CheckSource, CommitRenewal,
        CommitExpiry, Goto, Finish, RequestType, Granting, Switching
  <2>2. Giving'[r] = Giving[r] /\ Owing'[r] = Owing[r] BY <2>1, HandsOf
  <2> QED BY <1>0, <1>1, <1>2, <2>2, Aside
<1> QED BY <1>3, <1>4

\* What a step leaves of purchases leaves them shown as they were.
LEMMA RecordedPaidKept ==
  ASSUME PayInv, NEW r \in Requests, OthersKept(r), UNCHANGED <<invoice, paidEvents>>,
         at'[r] # "recording"
  PROVE  RecordedPaid'
BY DEF PayInv, RecordedPaid, OthersKept

\* The user orders and pays, and time passes.
LEMMA PayOutside ==
  ASSUME PayInv, (\E i \in Invoices : CreateInvoice(i) \/ Settle(i)) \/ Tick \/ UNCHANGED vars
  PROVE  /\ [Pay!Next]_Pay!payVars
         /\ RecordedPaid'
<1>0. PaymentType BY TypeGroups DEF PayInv, Typed
<1>1. UNCHANGED <<paidEvents, credits, granted, at, subject, crashes>>
  BY DEF CreateInvoice, Settle, Tick, vars, payment, ledger, notices, request
<1>2. Given' = Given /\ Giving' = Giving /\ Owing' = Owing
  BY <1>1 DEF Given, Giving, Owing
<1>3. \A i \in Invoices : invoice'[i] = "paid" <=> invoice[i] = "paid"
  BY <1>0 DEF CreateInvoice, Settle, Tick, vars, payment, PaymentType
<1>4. Paid' = Paid BY <1>3 DEF Paid
<1>5. \/ UNCHANGED settled
      \/ \E i \in Invoices : settled' = settled \union {i}
  BY DEF CreateInvoice, Settle, Tick, vars, payment
<1>6. [Pay!Next]_Pay!payVars
  BY <1>1, <1>2, <1>4, <1>5 DEF Pay!Next, Pay!Receive, Pay!payVars, Pay!Payable, Invoices
<1>7. \A q \in Requests : at[q] = "recording" => subject[q] \in Invoices
  BY DEF PayInv, Typed, About, Invoices
<1>8. RecordedPaid'
  BY <1>1, <1>3, <1>7 DEF PayInv, RecordedPaid, Invoices
<1> QED BY <1>6, <1>8

\* Every step of a request is a step of the promise, or none.
LEMMA PayNext ==
  ASSUME PayInv, [Next]_vars
  PROVE  /\ [Pay!Next]_Pay!payVars
         /\ PayInv'
<1>1. ASSUME NEW r \in Requests, Arrival(r) \/ RequestStep(r) \/ Crash(r)
      PROVE  [Pay!Next]_Pay!payVars /\ RecordedPaid' /\ TopUpCreditedOnce' /\ CreditAlone'
  <2>0. TypeOK /\ RequestType /\ OthersKept(r) BY <1>1, TypeGroups, Frame DEF PayInv, Typed
  <2>1. TopUpCreditedOnce' /\ CreditAlone'
    BY <1>1, CreditArrival, CreditApply, CreditCommit, CreditOthers DEF RequestStep, PayInv
  <2>2. CASE CommitSwitch(r) \/ ApplyPaid(r) \/ CommitTopUp(r) \/ RecordPaid(r) \/ Crash(r)
    BY <2>1, <2>2, PaySwitch, PayApply, PayTopUp, PayRecord, PayCrash
  <2>3. ASSUME \/ Arrival(r) \/ ReadSubscription(r)
               \/ CommitDefault(r) \/ NotPaid(r) \/ CheckCredit(r) \/ CommitNotice(r)
               \/ CheckFunds(r) \/ CheckSource(r) \/ CommitRenewal(r) \/ CommitExpiry(r)
        PROVE  [Pay!Next]_Pay!payVars /\ RecordedPaid'
    <3>1. UNCHANGED Pay!payVars BY <2>3, PayArrival, PayRead, PayOthers
    <3>2. UNCHANGED <<invoice, paidEvents>> /\ at'[r] # "recording"
      BY <2>0, <2>3
      DEF Arrival, StartSwitch, StartDefault, LoadInvoice, StartNotice, StartRenewal,
          ReadSubscription, CommitDefault, NotPaid, CheckCredit, CommitNotice, CheckFunds,
          CheckSource, CommitRenewal, CommitExpiry, payment, Begin, Goto, Finish, RequestType
    <3> QED BY <2>0, <3>1, <3>2, RecordedPaidKept
  <2> QED BY <1>1, <2>1, <2>2, <2>3 DEF RequestStep
<1>2. ASSUME (\E i \in Invoices : CreateInvoice(i) \/ Settle(i)) \/ Tick \/ UNCHANGED vars
      PROVE  [Pay!Next]_Pay!payVars /\ RecordedPaid' /\ TopUpCreditedOnce' /\ CreditAlone'
  <2>1. TopUpCreditedOnce' /\ CreditAlone' BY <1>2, CreditOutside DEF PayInv
  <2> QED BY <1>2, <2>1, PayOutside
<1>3. Typed' BY TypedStep DEF PayInv
<1>4. [Pay!Next]_Pay!payVars /\ RecordedPaid' /\ TopUpCreditedOnce' /\ CreditAlone'
  BY <1>1, <1>2 DEF Next
<1> QED BY <1>3, <1>4 DEF PayInv

\* Nothing is paid, given or in hand at first.
LEMMA PayInit == Init => Pay!Init /\ PayInv
<1> SUFFICES ASSUME Init PROVE Pay!Init /\ PayInv OBVIOUS
<1>1. Typed BY TypeInit DEF Init, Typed, About, Granting, Renewing
<1>2. TopUpCreditedOnce /\ CreditAlone
  BY DEF Init, TopUpCreditedOnce, CreditAlone, Crediting, Invoices
<1>3. RecordedPaid BY DEF Init, RecordedPaid, Invoices
<1>4. Given = [i \in Invoices |-> 0] /\ Paid = {}
  BY BillingAssumption DEF Init, Given, Paid, Invoices
<1>5. Giving = [r \in Requests |-> None] /\ Owing = [r \in Requests |-> None]
  BY DEF Init, Giving, Owing, Granting, Switching
<1> QED BY <1>1, <1>2, <1>3, <1>4, <1>5 DEF Init, Pay!Init, Pay!Payable, Invoices, PayInv

\* refresh_invoice_status, apply_webhook_update and switch_subscription_plan keep the
\* promise to those who pay, for any number of requests, repetitions and crashes: every
\* step of every request is a step of Payments or none.
THEOREM BillingKeepsPromise == Spec => ImplementsPayments
<1>1. Init => PayInv BY PayInit
<1>2. PayInv /\ [Next]_vars => PayInv' BY PayNext
<1>3. PayInv /\ [Next]_vars => [Pay!Next]_Pay!payVars BY PayNext
<1>4. Init => Pay!Init BY PayInit
<1> QED BY <1>1, <1>2, <1>3, <1>4, PTL DEF Spec, ImplementsPayments, Pay!Spec

-----------------------------------------------------------------------------
(* How often overlapping requests grant a purchase.                          *)

\* A set that loses or gains one element.
LEMMA OneMoves ==
  ASSUME NEW S, NEW T, NEW x, IsFiniteSet(S), T \ {x} = S \ {x}
  PROVE  /\ IsFiniteSet(T) /\ Cardinality(S) \in Nat /\ Cardinality(T) \in Nat
         /\ Cardinality(T) = Cardinality(S) + (IF x \in T THEN 1 ELSE 0)
                                            - (IF x \in S THEN 1 ELSE 0)
<1>1. IsFiniteSet(S \ {x}) /\ Cardinality(S \ {x}) = Cardinality(S) - (IF x \in S THEN 1 ELSE 0)
  <2>1. Cardinality(S) \in Nat BY FS_CardinalityType
  <2> QED BY <2>1, FS_RemoveElement
<1>2. CASE x \in T
  <2>1. T = (S \ {x}) \union {x} BY <1>2
  <2>2. IsFiniteSet(T) /\ Cardinality(T) = Cardinality(S \ {x}) + 1
    BY <1>1, <2>1, FS_AddElement
  <2>3. Cardinality(S) \in Nat /\ Cardinality(T) \in Nat BY <2>2, FS_CardinalityType
  <2> QED BY <1>1, <1>2, <2>2, <2>3
<1>3. CASE x \notin T
  <2>1. T = S \ {x} BY <1>3
  <2>2. Cardinality(S) \in Nat /\ Cardinality(T) \in Nat
    BY <1>1, <2>1, FS_CardinalityType
  <2> QED BY <1>1, <1>3, <2>1, <2>2
<1> QED BY <1>2, <1>3

\* The requests of which f says x: with Giving, those that have taken up the invoice x, with
\* Owing those that owe its record.
Holders(f, x) == {r \in Requests : f[r] = x}

\* How many they are when f changes at one request.
LEMMA HoldersMove ==
  ASSUME IsFiniteSet(Requests), NEW r \in Requests, NEW f, NEW g, NEW x,
         \A q \in Requests : q # r => g[q] = f[q]
  PROVE  /\ Cardinality(Holders(f, x)) \in Nat /\ Cardinality(Holders(g, x)) \in Nat
         /\ g[r] = x /\ f[r] # x => Cardinality(Holders(g, x)) = Cardinality(Holders(f, x)) + 1
         /\ g[r] # x /\ f[r] = x => Cardinality(Holders(g, x)) = Cardinality(Holders(f, x)) - 1
         /\ (g[r] = x <=> f[r] = x) => Cardinality(Holders(g, x)) = Cardinality(Holders(f, x))
<1>1. IsFiniteSet(Holders(f, x)) BY FS_Subset DEF Holders
<1>2. /\ Holders(g, x) \ {r} = Holders(f, x) \ {r}
      /\ r \in Holders(g, x) <=> g[r] = x
      /\ r \in Holders(f, x) <=> f[r] = x
  BY DEF Holders
<1>3. /\ Cardinality(Holders(f, x)) \in Nat /\ Cardinality(Holders(g, x)) \in Nat
      /\ Cardinality(Holders(g, x)) = Cardinality(Holders(f, x))
           + (IF r \in Holders(g, x) THEN 1 ELSE 0) - (IF r \in Holders(f, x) THEN 1 ELSE 0)
  BY <1>1, <1>2, OneMoves
<1> QED BY <1>2, <1>3

\* While a purchase is not on record, each of its grants has a request that is about to
\* record it, or one that died.  Once it is on record, nobody takes it up any more.
GrantsInv ==
  \A i \in Purchases :
    IF paidEvents[i] = 0 THEN granted[i] <= Cardinality(Holders(Owing, i)) + crashes
    ELSE granted[i] + Cardinality(Holders(Giving, i)) <= Cardinality(Requests) + crashes

\* Nobody both has taken up a purchase and owes it.
LEMMA HandsApart ==
  ASSUME IsFiniteSet(Requests), NEW i \in Purchases
  PROVE  LET h == Cardinality(Holders(Giving, i))
             d == Cardinality(Holders(Owing, i))
         IN  Cardinality(Requests) \in Nat /\ h \in Nat /\ d \in Nat /\ h + d <= Cardinality(Requests)
<1> DEFINE H == Holders(Giving, i)
           D == Holders(Owing, i)
<1>1. i # None BY BillingAssumption DEF Invoices
<1>2. H \intersect D = {}
  BY <1>1, HandsOf DEF Holders, Granting, Switching
<1>3. H \subseteq Requests /\ D \subseteq Requests BY DEF Holders
<1> HIDE DEF H, D
<1>4. /\ IsFiniteSet(H) /\ IsFiniteSet(D) /\ Cardinality(Requests) \in Nat
      /\ Cardinality(H) \in Nat /\ Cardinality(D) \in Nat
  BY <1>3, FS_Subset, FS_CardinalityType
<1>5. Cardinality(H \union D) = Cardinality(H) + Cardinality(D)
  <2>1. Cardinality(H \union D) = Cardinality(H) + Cardinality(D) - Cardinality(H \intersect D)
    BY <1>4, FS_Union
  <2>2. Cardinality(H \intersect D) = 0 BY <1>2, FS_EmptySet
  <2> QED BY <1>4, <2>1, <2>2
<1>6. Cardinality(H \union D) <= Cardinality(Requests)
  <2>1. H \union D \subseteq Requests BY <1>3
  <2> QED BY <2>1, FS_Subset
<1> QED BY <1>4, <1>5, <1>6 DEF H, D

\* The steps of the promise keep the count.
LEMMA GrantsNext ==
  ASSUME IsFiniteSet(Requests), PayInv, PayInv', GrantsInv, [Pay!Next]_Pay!payVars
  PROVE  GrantsInv'
<1> SUFFICES ASSUME NEW i \in Purchases
             PROVE  IF paidEvents'[i] = 0
                    THEN granted'[i] <= Cardinality(Holders(Owing', i)) + crashes'
                    ELSE granted'[i] + Cardinality(Holders(Giving', i))
                           <= Cardinality(Requests) + crashes'
  BY DEF GrantsInv
<1> DEFINE n == Cardinality(Requests)
           h == Cardinality(Holders(Giving, i))     h1 == Cardinality(Holders(Giving', i))
           d == Cardinality(Holders(Owing, i))   d1 == Cardinality(Holders(Owing', i))
           Kept == IF paidEvents'[i] = 0 THEN granted'[i] <= d1 + crashes'
                   ELSE granted'[i] + h1 <= n + crashes'
<1> SUFFICES Kept OBVIOUS
<1>0. /\ PaymentType /\ NoticesType /\ crashes \in Nat
      /\ PaymentType' /\ NoticesType' /\ crashes' \in Nat
  BY TypeGroups, BillingAssumption DEF PayInv, Typed, TypeOK, PaymentType, NoticesType
<1>1. /\ i \in Invoices /\ i \notin TopUps /\ i # None
      /\ paidEvents[i] \in Nat /\ granted[i] \in Nat
      /\ paidEvents'[i] \in Nat /\ granted'[i] \in Nat
      /\ Given[i] = granted[i] /\ Given'[i] = granted'[i]
  BY <1>0, BillingAssumption DEF Invoices, PaymentType, NoticesType, Given
<1>2. n \in Nat /\ h \in Nat /\ d \in Nat /\ h + d <= n BY HandsApart
<1>3. IF paidEvents[i] = 0 THEN granted[i] <= d + crashes ELSE granted[i] + h <= n + crashes
  BY DEF GrantsInv
<1>4. /\ Given = [x \in Invoices |-> Given[x]]
      /\ Giving = [q \in Requests |-> Giving[q]] /\ Owing = [q \in Requests |-> Owing[q]]
  BY DEF Given, Giving, Owing
<1>5. CASE UNCHANGED <<paidEvents, crashes, Given, Giving, Owing>>
  <2>1. h1 = h /\ d1 = d BY <1>5
  <2> QED BY <1>1, <1>3, <1>5, <2>1
<1>c. ASSUME NEW r \in Requests,
             \A q \in Requests : q # r => Giving'[q] = Giving[q] /\ Owing'[q] = Owing[q]
      PROVE  /\ h1 \in Nat /\ d1 \in Nat
             /\ Giving'[r] = i /\ Giving[r] # i => h1 = h + 1
             /\ Giving'[r] # i /\ Giving[r] = i => h1 = h - 1
             /\ (Giving'[r] = i <=> Giving[r] = i) => h1 = h
             /\ Owing'[r] = i /\ Owing[r] # i => d1 = d + 1
             /\ Owing'[r] # i /\ Owing[r] = i => d1 = d - 1
             /\ (Owing'[r] = i <=> Owing[r] = i) => d1 = d
  BY <1>c, HoldersMove
<1> HIDE DEF n, h, h1, d, d1
<1>6. ASSUME NEW x \in Pay!Payable, Pay!Receive(x)
      PROVE  UNCHANGED <<paidEvents, crashes, Given, Giving, Owing>>
  BY <1>6 DEF Pay!Receive
<1>7. ASSUME NEW r \in Requests, NEW x \in Pay!Payable, Pay!TakeUp(r, x)
      PROVE  Kept
  <2>1. /\ paidEvents[x] = 0 /\ Giving[r] = None
        /\ Giving' = [Giving EXCEPT ![r] = x] /\ Owing' = [Owing EXCEPT ![r] = Owing[r]]
        /\ UNCHANGED <<paidEvents, crashes, Given>>
    BY <1>4, <1>7 DEF Pay!TakeUp
  <2> QED BY <1>1, <1>2, <1>3, <2>1, <1>c
<1>8. ASSUME NEW r \in Requests, Pay!Credit(r)
      PROVE  Kept
  <2>1. /\ Giving[r] \in TopUps
        /\ Giving' = [Giving EXCEPT ![r] = None] /\ Owing' = [Owing EXCEPT ![r] = Owing[r]]
        /\ crashes' = crashes
        /\ Given' = [Given EXCEPT ![Giving[r]] = 1]
        /\ paidEvents' = [paidEvents EXCEPT ![Giving[r]] = 1]
    BY <1>4, <1>8 DEF Pay!Credit
  <2>2. Giving[r] # i /\ paidEvents'[i] = paidEvents[i] /\ granted'[i] = granted[i]
    BY <1>0, <1>1, <1>4, <2>1 DEF PaymentType
  <2> QED BY <1>1, <1>2, <1>3, <2>1, <2>2, <1>c
<1>9. ASSUME NEW r \in Requests, Pay!Grant(r)
      PROVE  Kept
  <2>1. /\ Giving[r] \in Purchases
        /\ Giving' = [Giving EXCEPT ![r] = None] /\ Owing' = [Owing EXCEPT ![r] = Giving[r]]
        /\ UNCHANGED <<paidEvents, crashes>>
        /\ Given' = [Given EXCEPT ![Giving[r]] = @ + 1]
    BY <1>9 DEF Pay!Grant
  <2>2. /\ Giving[r] = i => granted'[i] = granted[i] + 1
        /\ Giving[r] # i => granted'[i] = granted[i]
    BY <1>1, <1>4, <2>1
  <2>3. Owing[r] # i
    BY <1>1, <2>1, HandsOf, BillingAssumption DEF Granting, Switching, Invoices
  <2>4. /\ h1 \in Nat /\ d1 \in Nat
        /\ Giving[r] = i => h1 = h - 1 /\ d1 = d + 1
        /\ Giving[r] # i => h1 = h /\ d1 = d
    BY <1>1, <1>4, <2>1, <2>3, <1>c
  <2> QED BY <1>0, <1>1, <1>2, <1>3, <2>1, <2>2, <2>4
<1>10. ASSUME NEW r \in Requests, Pay!Record(r)
      PROVE  Kept
  <2>1. /\ Owing[r] \in Purchases
        /\ Giving' = [Giving EXCEPT ![r] = Giving[r]] /\ Owing' = [Owing EXCEPT ![r] = None]
        /\ crashes' = crashes /\ Given' = Given
        /\ paidEvents' = [paidEvents EXCEPT ![Owing[r]] = @ + 1]
    BY <1>4, <1>10 DEF Pay!Record
  <2>2. /\ Owing[r] = i => paidEvents'[i] = paidEvents[i] + 1
        /\ Owing[r] # i => paidEvents'[i] = paidEvents[i]
    BY <1>0, <1>1, <2>1 DEF PaymentType
  <2>3. /\ h1 = h /\ d1 \in Nat
        /\ Owing[r] = i => d1 = d - 1
        /\ Owing[r] # i => d1 = d
    BY <1>1, <1>4, <2>1, <1>c
  <2>4. granted'[i] = granted[i] BY <1>1, <2>1
  <2> QED BY <1>0, <1>1, <1>2, <1>3, <2>1, <2>2, <2>3, <2>4
<1>11. ASSUME NEW r \in Requests, Pay!Lose(r)
      PROVE  Kept
  <2>1. /\ Giving' = [Giving EXCEPT ![r] = None] /\ Owing' = [Owing EXCEPT ![r] = None]
        /\ crashes' = crashes + 1 /\ UNCHANGED <<paidEvents, Given>>
    BY <1>11 DEF Pay!Lose
  <2> QED BY <1>0, <1>1, <1>2, <1>3, <2>1, <1>c
<1> QED BY <1>5, <1>6, <1>7, <1>8, <1>9, <1>10, <1>11 DEF Pay!Next, Pay!payVars

\* A purchase is granted no more often than there are requests at one time and requests
\* that died (switch_subscription_plan), however often webhooks and refreshes repeat.
THEOREM GrantsStayBounded ==
  ASSUME IsFiniteSet(Requests)
  PROVE  Spec => []GrantsBounded
<1> DEFINE Inv == PayInv /\ GrantsInv
<1>1. Init => Inv
  <2> SUFFICES ASSUME Init PROVE Inv OBVIOUS
  <2>1. PayInv BY PayInit
  <2>2. ASSUME NEW i \in Purchases
        PROVE  paidEvents[i] = 0 /\ granted[i] = 0 /\ crashes = 0
               /\ Cardinality(Holders(Owing, i)) \in Nat
    BY <2>2, HandsApart DEF Init, Invoices
  <2>3. GrantsInv BY <2>2 DEF GrantsInv
  <2> QED BY <2>1, <2>3
<1>2. Inv /\ [Next]_vars => Inv'
  BY PayNext, GrantsNext
<1>3. Inv => GrantsBounded
  <2> SUFFICES ASSUME Inv, NEW i \in Purchases
               PROVE  granted[i] <= Cardinality(Requests) + crashes
    BY DEF GrantsBounded
  <2>1. NoticesType /\ crashes \in Nat
    BY TypeGroups, BillingAssumption DEF PayInv, Typed
  <2>2. granted[i] \in Nat BY <2>1 DEF NoticesType
  <2>3. IF paidEvents[i] = 0 THEN granted[i] <= Cardinality(Holders(Owing, i)) + crashes
        ELSE granted[i] + Cardinality(Holders(Giving, i)) <= Cardinality(Requests) + crashes
    BY DEF GrantsInv
  <2> QED BY <2>1, <2>2, <2>3, HandsApart
<1> QED BY <1>1, <1>2, <1>3, PTL DEF Spec

-----------------------------------------------------------------------------
(* What overlapping renewals debit.                                          *)

\* Rows that are active, or that a request may extend, have been inserted, and what a
\* request is about to renew has ended.
RowsRead ==
  /\ \A s \in Rows : state[s] = "active" => s <= rows
  /\ \A r \in Requests : at[r] \in Renewing \union {"extending"} => row[r] <= rows
  /\ \A r \in Requests : at[r] \in Renewing => base[r] <= now

\* The row of a debit has got another end since, and one that is later: it is never again
\* found lapsed at the end that the debit was for.
DebitsSpent ==
  \A k \in DOMAIN debits :
    LET d == debits[k]
    IN  d.row <= rows /\ d.base <= now /\ ends[d.row] \in Nat /\ ends[d.row] > d.base

\* The debits for a period, and the requests that may still debit it.
DebitsOf(d)   == {k \in DOMAIN debits : debits[k] = d}
RenewersOf(d) == {r \in Requests : at[r] \in Renewing /\ row[r] = d.row /\ base[r] = d.base}

PeriodsShared ==
  \A d \in [row : Rows, base : Nat] :
    Cardinality(DebitsOf(d)) + Cardinality(RenewersOf(d)) <= Cardinality(Requests)

DebitsInv ==
  Typed /\ (\A r \in Requests : Recent(r)) /\ RowsRead /\ DebitsSpent /\ PeriodsShared

\* A row that was inserted keeps its end or gets one that is not over.
LEMMA EndsMove ==
  ASSUME Period > 1, Typed, RowsRead, NEW r \in Requests, Recent(r),
         Arrival(r) \/ RequestStep(r) \/ Crash(r)
  PROVE  /\ rows \in Nat /\ rows' \in Nat /\ rows <= rows'
         /\ \A s \in Rows : s <= rows => ends'[s] = ends[s] \/ (ends'[s] \in Nat /\ ends'[s] > now)
         /\ \A s \in Rows : state'[s] = "active" => s <= rows'
<1>0. RequestType /\ SubsType /\ About(r) /\ now \in Time BY TypeGroups DEF Typed
<1>1. rows \in Nat BY <1>0, BillingAssumption DEF SubsType
<1> DEFINE Goal == /\ rows' \in Nat /\ rows <= rows'
                   /\ \A s \in Rows : s <= rows =>
                        ends'[s] = ends[s] \/ (ends'[s] \in Nat /\ ends'[s] > now)
                   /\ \A s \in Rows : state'[s] = "active" => s <= rows'
<1>2. CASE UNCHANGED subs
  BY <1>1, <1>2 DEF subs, RowsRead
<1>3. ASSUME NEW p, NEW end, NEW s, NEW verdict, Insert(p, end, s, verdict),
             verdict = "active" => s \notin Rows
      PROVE  Goal
  <2>1. rows' = rows + 1 BY <1>3 DEF Insert
  <2>2. \A t \in Rows : t <= rows => ends'[t] = ends[t]
    BY <1>0, <1>1, <1>3, <2>1 DEF Insert, SubsType, Rows
  <2>3. ASSUME NEW t \in Rows, state'[t] = "active" PROVE t <= rows'
    <3>1. t = rows' \/ state[t] = "active" BY <1>3, <2>3 DEF Insert
    <3> QED BY <1>1, <2>1, <3>1 DEF RowsRead, Rows
  <2> QED BY <1>1, <2>1, <2>2, <2>3
<1>4. ASSUME at[r] \in Renewing \union {"extending"},
             Extend(row[r], NextPeriodEnd(base[r], asOf[r]))
      PROVE  Goal
  <2>1. row[r] \in Rows /\ base[r] \in Nat \union {None} /\ asOf[r] \in Nat /\ now \in Nat
        /\ now <= asOf[r] + 1
    BY <1>0, <1>4 DEF About, Recent, RequestType, Time, Switching
  <2> DEFINE e == NextPeriodEnd(base[r], asOf[r])
  <2>2. e \in Nat /\ e > now BY <2>1, BillingAssumption DEF NextPeriodEnd
  <2> HIDE DEF e
  <2>3. \A t \in Rows : ends'[t] = ends[t] \/ ends'[t] = e
    BY <1>0, <1>4, <2>1 DEF Extend, SubsType, e
  <2> QED BY <1>1, <1>4, <2>2, <2>3 DEF Extend, RowsRead
<1>5. CASE CommitSwitch(r) \/ CommitDefault(r) \/ CommitRenewal(r) \/ CommitExpiry(r)
  <2>1. None \notin Rows BY BillingAssumption DEF Rows
  <2>2. CASE CommitSwitch(r) /\ at[r] = "extending"
    BY <1>1, <1>4, <2>2 DEF CommitSwitch
  <2>3. CASE CommitSwitch(r) /\ at[r] = "replacing"
    <3>1. Insert(WantedPlan(subject[r]), NewPeriodEnd(r), row[r], "replaced")
      BY <2>3 DEF CommitSwitch, Replace
    <3> QED BY <1>1, <1>3, <3>1
  <2>4. CASE CommitDefault(r) BY <1>1, <1>3, <2>1, <2>4 DEF CommitDefault
  <2>5. CASE CommitRenewal(r)
    BY <1>1, <1>4, <2>5 DEF CommitRenewal, Renewing
  <2>6. CASE CommitExpiry(r) BY <1>1, <1>3, <2>6 DEF CommitExpiry
  <2> QED BY <1>5, <2>2, <2>3, <2>4, <2>5, <2>6 DEF CommitSwitch
<1>6. CASE ~(CommitSwitch(r) \/ CommitDefault(r) \/ CommitRenewal(r) \/ CommitExpiry(r))
  <2>1. UNCHANGED subs
    BY <1>6
    DEF Arrival, RequestStep, Crash, StartSwitch, StartDefault, LoadInvoice, StartNotice,
        StartRenewal, ReadSubscription, NotPaid, ApplyPaid, CheckCredit, CommitTopUp,
        RecordPaid, CommitNotice, CheckFunds, CheckSource
  <2> QED BY <1>2, <2>1
<1> QED BY <1>5, <1>6

\* A request begins a renewal only of what has lapsed, and then keeps to it.
LEMMA RenewerMoves ==
  ASSUME Typed, NEW r \in Requests, Arrival(r) \/ RequestStep(r) \/ Crash(r)
  PROVE  /\ at'[r] \in Renewing =>
              \/ at[r] \in Renewing /\ row'[r] = row[r] /\ base'[r] = base[r]
              \/ /\ row'[r] \in Rows /\ state[row'[r]] = "active"
                 /\ base'[r] = ends[row'[r]] /\ base'[r] <= now
         /\ at'[r] = "extending" => row'[r] \in Rows /\ state[row'[r]] = "active"
<1>0. RequestType /\ SubsType /\ now \in Time BY TypeGroups DEF Typed
<1>1. CASE StartRenewal(r)
  <2>1. PICK s \in Active : Lapsed(s, now) /\ Remember(r, s) BY <1>1 DEF StartRenewal
  <2>2. s \in Rows /\ state[s] = "active" /\ s # None
    BY BillingAssumption DEF Active, Rows
  <2>3. at'[r] = "funding" /\ row'[r] = s /\ base'[r] = ends[s] /\ ends[s] <= now
    BY <1>0, <1>1, <2>1, <2>2 DEF StartRenewal, Begin, Remember, Lapsed, RequestType
  <2> QED BY <2>2, <2>3
<1>2. CASE CheckFunds(r) \/ CheckSource(r)
  <2>1. /\ at[r] \in Renewing /\ row'[r] = row[r] /\ base'[r] = base[r]
        /\ at'[r] # "extending"
    BY <1>0, <1>2 DEF CheckFunds, CheckSource, Goto, KeepRead, Renewing, RequestType
  <2> QED BY <2>1
<1>3. CASE ReadSubscription(r)
  <2>1. PICK s \in CurrentRows :
          \/ Finish(r)
          \/ Goto(r, "extending") /\ Remember(r, s) /\ s # None
          \/ Goto(r, "replacing") /\ Remember(r, s)
    BY <1>3 DEF ReadSubscription
  <2>2. s \in Active \/ s = None BY DEF CurrentRows
  <2>3. \/ at'[r] \in {"idle", "replacing"}
        \/ at'[r] = "extending" /\ row'[r] = s /\ s # None
    BY <1>0, <2>1 DEF Finish, Goto, Remember, RequestType
  <2> QED BY <2>2, <2>3 DEF Active, Renewing
<1>4. CASE ~StartRenewal(r) /\ ~CheckFunds(r) /\ ~CheckSource(r) /\ ~ReadSubscription(r)
  <2>1. at'[r] \in {"idle", "asking", "noticing", "switching", "defaulting", "recording",
                    "crediting", "granting", "noting", "adding"}
    BY <1>0, <1>4
    DEF Arrival, RequestStep, Crash, StartSwitch, StartDefault, LoadInvoice, StartNotice,
        CommitSwitch, CommitDefault, NotPaid, ApplyPaid, CheckCredit, CommitTopUp,
        RecordPaid, CommitNotice, CommitRenewal, CommitExpiry, Begin, Goto, Finish,
        RequestType
  <2> QED BY <2>1 DEF Renewing
<1> QED BY <1>1, <1>2, <1>3, <1>4

\* The ledger is debited by the commit of a renewal, for what the request has read.
LEMMA DebitMoves ==
  ASSUME Typed, NEW r \in Requests, Arrival(r) \/ RequestStep(r) \/ Crash(r)
  PROVE  \/ debits' = debits /\ balance' \in {balance, balance + 1}
         \/ /\ at[r] = "debiting" /\ at'[r] = "idle"
            /\ debits' = Append(debits, [row |-> row[r], base |-> base[r]])
            /\ balance' = balance - Price
            /\ ends' = [ends EXCEPT ![row[r]] = NextPeriodEnd(base[r], asOf[r])]
<1>0. RequestType BY TypeGroups DEF Typed
<1>1. CASE CommitRenewal(r)
  BY <1>0, <1>1 DEF CommitRenewal, Extend, Finish, RequestType
<1>2. CASE ~CommitRenewal(r)
  BY <1>2
  DEF Arrival, RequestStep, Crash, StartSwitch, StartDefault, LoadInvoice, StartNotice,
      StartRenewal, ReadSubscription, CommitSwitch, CommitDefault, NotPaid, ApplyPaid,
      CheckCredit, CommitTopUp, RecordPaid, CommitNotice, CheckFunds, CheckSource,
      CommitExpiry, ledger
<1> QED BY <1>1, <1>2

\* An element of a sequence is of the sequence's type.
LEMMA SeqElement ==
  ASSUME NEW S, NEW s \in Seq(S), NEW k \in DOMAIN s
  PROVE  s[k] \in S
OBVIOUS

\* What a debit is made of.
LEMMA DebitTypes ==
  ASSUME debits \in Seq([row : Rows, base : Nat]), NEW k \in DOMAIN debits
  PROVE  /\ debits[k] \in [row : Rows, base : Nat]
         /\ debits[k].row \in Rows /\ debits[k].base \in Nat
<1>1. debits[k] \in [row : Rows, base : Nat] BY SeqElement
<1> QED BY <1>1

\* The rows that were read stay inserted, and the debits spent.
LEMMA DebitsSpentKept ==
  ASSUME Period > 1, Typed, \A q \in Requests : Recent(q), RowsRead, DebitsSpent,
         NEW r \in Requests, Arrival(r) \/ RequestStep(r) \/ Crash(r)
  PROVE  RowsRead' /\ DebitsSpent'
<1>0. /\ RequestType /\ SubsType /\ LedgerType /\ About(r) /\ now \in Nat
      /\ RequestType' /\ SubsType'
  <2>1. Typed' BY TypedStep DEF Next
  <2>2. RequestType' BY <2>1 DEF Typed, TypeOK, RequestType
  <2>3. SubsType' BY <2>1 DEF Typed, TypeOK, SubsType
  <2> QED BY <2>2, <2>3, TypeGroups DEF Typed, Time
<1>1. /\ rows \in Nat /\ rows' \in Nat /\ rows <= rows'
      /\ \A s \in Rows : s <= rows => ends'[s] = ends[s] \/ (ends'[s] \in Nat /\ ends'[s] > now)
      /\ \A s \in Rows : state'[s] = "active" => s <= rows'
  BY EndsMove
<1>2. now' = now /\ OthersKept(r) BY RecentStep, Frame DEF Typed
<1>3. \A q \in Requests : at[q] \in Renewing \union {"extending"} => row[q] \in Rows
  BY DEF Typed, About
<1>4. RowsRead'
  <2>1. ASSUME NEW q \in Requests, q # r
        PROVE  /\ at'[q] \in Renewing \union {"extending"} => row'[q] <= rows'
               /\ at'[q] \in Renewing => base'[q] <= now'
    <3>1. at'[q] = at[q] /\ row'[q] = row[q] /\ base'[q] = base[q]
      BY <1>2, <2>1 DEF OthersKept
    <3>2. row[q] \in Rows => row[q] \in Nat BY DEF Rows
    <3> QED BY <1>1, <1>2, <1>3, <3>1, <3>2 DEF RowsRead
  <2>2. /\ at'[r] \in Renewing \union {"extending"} => row'[r] <= rows'
        /\ at'[r] \in Renewing => base'[r] <= now'
    <3>1. \A s \in Rows : s \in Nat BY DEF Rows
    <3> QED BY <1>1, <1>2, <1>3, <3>1, RenewerMoves DEF RowsRead
  <2> QED BY <1>1, <2>1, <2>2 DEF RowsRead
<1>5. DebitsSpent'
  <2>0. debits \in Seq([row : Rows, base : Nat]) BY <1>0 DEF LedgerType
  <2>1. ASSUME NEW k \in DOMAIN debits, debits'[k] = debits[k]
        PROVE  LET d == debits'[k]
               IN  /\ d.row <= rows' /\ d.base <= now'
                   /\ ends'[d.row] \in Nat /\ ends'[d.row] > d.base
    <3>1. debits[k].row \in Rows /\ debits[k].base \in Nat BY <2>0, DebitTypes
    <3>2. debits[k].row \in Nat BY <3>1 DEF Rows
    <3> QED BY <1>0, <1>1, <1>2, <2>1, <3>1, <3>2 DEF DebitsSpent
  <2>2. CASE debits' = debits BY <2>1, <2>2 DEF DebitsSpent
  <2>3. CASE /\ at[r] = "debiting"
             /\ debits' = Append(debits, [row |-> row[r], base |-> base[r]])
             /\ ends' = [ends EXCEPT ![row[r]] = NextPeriodEnd(base[r], asOf[r])]
    <3>1. row[r] \in Rows /\ base[r] \in Nat /\ asOf[r] \in Nat /\ now <= asOf[r] + 1
      BY <1>0, <2>3 DEF About, Recent, Renewing, RequestType, Time
    <3>2. row[r] \in Nat /\ row[r] <= rows /\ base[r] <= now
      BY <2>3, <3>1 DEF RowsRead, Renewing, Rows
    <3>3. ends'[row[r]] \in Nat /\ ends'[row[r]] > base[r]
      BY <1>0, <2>3, <3>1, BillingAssumption DEF NextPeriodEnd, SubsType
    <3>4. /\ DOMAIN debits' = DOMAIN debits \union {Len(debits) + 1}
          /\ \A k \in DOMAIN debits : debits'[k] = debits[k]
          /\ debits'[Len(debits) + 1] = [row |-> row[r], base |-> base[r]]
      BY <2>0, <2>3, <3>1
    <3> QED BY <1>1, <1>2, <2>1, <3>2, <3>3, <3>4 DEF DebitsSpent
  <2> QED BY <2>2, <2>3, DebitMoves
<1> QED BY <1>4, <1>5

\* A debit more, or none, for a period.
LEMMA DebitsCounted ==
  ASSUME debits \in Seq([row : Rows, base : Nat]), NEW d
  PROVE  /\ IsFiniteSet(DebitsOf(d)) /\ Cardinality(DebitsOf(d)) \in Nat
         /\ \A e \in [row : Rows, base : Nat] :
              debits' = Append(debits, e) =>
                /\ e = d => Cardinality(DebitsOf(d)') = Cardinality(DebitsOf(d)) + 1
                /\ e # d => DebitsOf(d)' = DebitsOf(d)
<1> DEFINE S == DebitsOf(d)
<1>1. IsFiniteSet(1 .. Len(debits)) BY FS_Interval
<1>2. S \subseteq 1 .. Len(debits) BY DEF DebitsOf
<1>3. IsFiniteSet(S) /\ Cardinality(S) \in Nat BY <1>1, <1>2, FS_Subset, FS_CardinalityType
<1>4. ASSUME NEW e \in [row : Rows, base : Nat], debits' = Append(debits, e)
      PROVE  /\ e = d => Cardinality(DebitsOf(d)') = Cardinality(S) + 1
             /\ e # d => DebitsOf(d)' = S
  <2>1. /\ DOMAIN debits' = DOMAIN debits \union {Len(debits) + 1}
        /\ \A k \in DOMAIN debits : debits'[k] = debits[k]
        /\ debits'[Len(debits) + 1] = e
        /\ Len(debits) + 1 \notin DOMAIN debits
    BY <1>4
  <2>2. e # d => DebitsOf(d)' = S BY <2>1 DEF DebitsOf
  <2>3. ASSUME e = d PROVE Cardinality(DebitsOf(d)') = Cardinality(S) + 1
    <3>1. DebitsOf(d)' = S \union {Len(debits) + 1} /\ Len(debits) + 1 \notin S
      BY <2>1, <2>3 DEF DebitsOf
    <3> QED BY <1>3, <3>1, FS_AddElement
  <2> QED BY <2>2, <2>3
<1> QED BY <1>3, <1>4

\* A request begins to renew a period only if nobody has debited it, and what it debits
\* counts from then on in its place.
LEMMA PeriodsSharedKept ==
  ASSUME IsFiniteSet(Requests), Typed, RowsRead, DebitsSpent, PeriodsShared,
         NEW r \in Requests, Arrival(r) \/ RequestStep(r) \/ Crash(r)
  PROVE  PeriodsShared'
<1> SUFFICES ASSUME NEW d \in [row : Rows, base : Nat]
             PROVE  Cardinality(DebitsOf(d)') + Cardinality(RenewersOf(d)') <= Cardinality(Requests)
  BY DEF PeriodsShared
<1>0. RequestType /\ LedgerType /\ OthersKept(r) /\ About(r)
  BY TypeGroups, Frame DEF Typed
<1>1. debits \in Seq([row : Rows, base : Nat]) BY <1>0 DEF LedgerType
<1>2. /\ IsFiniteSet(RenewersOf(d)) /\ IsFiniteSet(RenewersOf(d)')
      /\ Cardinality(RenewersOf(d)) \in Nat /\ Cardinality(RenewersOf(d)') \in Nat
      /\ Cardinality(RenewersOf(d)') <= Cardinality(Requests)
      /\ Cardinality(Requests) \in Nat
  <2>1. RenewersOf(d) \subseteq Requests /\ RenewersOf(d)' \subseteq Requests
    BY DEF RenewersOf
  <2> QED BY <2>1, FS_Subset, FS_CardinalityType
<1>3. RenewersOf(d)' \ {r} = RenewersOf(d) \ {r}
  BY <1>0 DEF RenewersOf, OthersKept
<1>4. Cardinality(DebitsOf(d)) + Cardinality(RenewersOf(d)) <= Cardinality(Requests)
  BY DEF PeriodsShared
<1>5. Cardinality(DebitsOf(d)) \in Nat BY <1>1, DebitsCounted
<1>6. CASE debits' = debits
  <2>1. DebitsOf(d)' = DebitsOf(d) BY <1>6 DEF DebitsOf
  <2>2. CASE r \in RenewersOf(d)' => r \in RenewersOf(d)
    <3>1. RenewersOf(d)' \subseteq RenewersOf(d) BY <1>3, <2>2
    <3>2. Cardinality(RenewersOf(d)') <= Cardinality(RenewersOf(d)) BY <1>2, <3>1, FS_Subset
    <3> QED BY <1>2, <1>4, <1>5, <2>1, <3>2
  <2>3. CASE r \in RenewersOf(d)' /\ r \notin RenewersOf(d)
    <3>1. /\ at'[r] \in Renewing /\ row'[r] = d.row /\ base'[r] = d.base
          /\ ~(at[r] \in Renewing /\ row[r] = d.row /\ base[r] = d.base)
      BY <2>3 DEF RenewersOf
    <3>2. d.base = ends[d.row] BY <3>1, RenewerMoves
    <3>3. DebitsOf(d) = {} BY <1>0, <3>2 DEF DebitsOf, DebitsSpent
    <3>4. Cardinality(DebitsOf(d)) = 0 BY <3>3, FS_EmptySet
    <3> QED BY <1>2, <2>1, <3>4
  <2> QED BY <2>2, <2>3
<1>7. CASE /\ at[r] = "debiting" /\ at'[r] = "idle"
           /\ debits' = Append(debits, [row |-> row[r], base |-> base[r]])
  <2> DEFINE e == [row |-> row[r], base |-> base[r]]
  <2>1. e \in [row : Rows, base : Nat]
    BY <1>0, <1>7 DEF About, Renewing
  <2>2. r \notin RenewersOf(d)' BY <1>7 DEF RenewersOf, Renewing
  <2>3. r \in RenewersOf(d) <=> e = d
    BY <1>7 DEF RenewersOf, Renewing
  <2>4. RenewersOf(d)' = RenewersOf(d) \ {r} BY <1>3, <2>2
  <2>5. CASE e = d
    <3>1. Cardinality(RenewersOf(d)') = Cardinality(RenewersOf(d)) - 1
      BY <1>2, <2>3, <2>4, <2>5, FS_RemoveElement
    <3>2. Cardinality(DebitsOf(d)') = Cardinality(DebitsOf(d)) + 1
      BY <1>1, <1>7, <2>1, <2>5, DebitsCounted
    <3> QED BY <1>2, <1>4, <1>5, <3>1, <3>2
  <2>6. CASE e # d
    <3>1. RenewersOf(d)' = RenewersOf(d) BY <2>3, <2>4, <2>6
    <3>2. DebitsOf(d)' = DebitsOf(d)
      BY <1>1, <1>7, <2>1, <2>6, DebitsCounted
    <3> QED BY <1>4, <3>1, <3>2
  <2> QED BY <2>5, <2>6
<1> QED BY <1>6, <1>7, DebitMoves

\* Outside the requests nothing is debited, and time goes on.
LEMMA DebitsOutside ==
  ASSUME DebitsInv,
         (\E i \in Invoices : CreateInvoice(i) \/ Settle(i)) \/ Tick \/ UNCHANGED vars
  PROVE  RowsRead' /\ DebitsSpent' /\ PeriodsShared'
<1>1. /\ UNCHANGED <<debits, ends, rows, state, at, row, base>>
      /\ now' = now \/ now' = now + 1
  BY DEF CreateInvoice, Settle, Tick, vars, ledger, subs, request
<1>2. now \in Nat /\ LedgerType BY TypeGroups DEF DebitsInv, Typed, Time
<1>3. RowsRead'
  <2>1. \A r \in Requests : at[r] \in Renewing => base[r] \in Nat
    BY DEF DebitsInv, Typed, About
  <2> QED BY <1>1, <1>2, <2>1 DEF DebitsInv, RowsRead
<1>4. DebitsSpent'
  <2>1. \A k \in DOMAIN debits : debits[k].base \in Nat
    BY <1>2, DebitTypes DEF LedgerType
  <2> QED BY <1>1, <1>2, <2>1 DEF DebitsInv, DebitsSpent
<1>5. PeriodsShared'
  BY <1>1 DEF DebitsInv, PeriodsShared, DebitsOf, RenewersOf
<1> QED BY <1>3, <1>4, <1>5

\* A period of a row is debited at most once by each of the requests that there are at one
\* time (reconcile_subscription), if a period is longer than one unit of the clock.
THEOREM DebitsStayBounded ==
  ASSUME IsFiniteSet(Requests), Period > 1
  PROVE  Spec => []DebitsBounded
<1>1. Init => DebitsInv
  <2> SUFFICES ASSUME Init PROVE DebitsInv OBVIOUS
  <2>1. Typed BY TypeInit DEF Init, Typed, About, Granting, Renewing
  <2>2. (\A r \in Requests : Recent(r)) /\ RowsRead /\ DebitsSpent
    BY DEF Init, Recent, RowsRead, DebitsSpent, Switching, Renewing
  <2>3. ASSUME NEW d \in [row : Rows, base : Nat]
        PROVE  Cardinality(DebitsOf(d)) + Cardinality(RenewersOf(d)) <= Cardinality(Requests)
    <3>1. DebitsOf(d) = {} /\ RenewersOf(d) = {}
      BY DEF Init, DebitsOf, RenewersOf, Renewing
    <3>2. Cardinality({}) = 0 /\ Cardinality(Requests) \in Nat
      BY FS_EmptySet, FS_CardinalityType
    <3> QED BY <3>1, <3>2
  <2> QED BY <2>1, <2>2, <2>3 DEF DebitsInv, PeriodsShared
<1>2. DebitsInv /\ [Next]_vars => DebitsInv'
  <2> SUFFICES ASSUME DebitsInv, [Next]_vars PROVE DebitsInv' OBVIOUS
  <2>1. Typed' /\ \A r \in Requests : Recent(r)'
    BY TypedStep, RecentNext DEF DebitsInv
  <2>2. ASSUME NEW r \in Requests, Arrival(r) \/ RequestStep(r) \/ Crash(r)
        PROVE  RowsRead' /\ DebitsSpent' /\ PeriodsShared'
    BY <2>2, DebitsSpentKept, PeriodsSharedKept DEF DebitsInv
  <2>3. RowsRead' /\ DebitsSpent' /\ PeriodsShared'
    BY <2>2, DebitsOutside DEF Next
  <2> QED BY <2>1, <2>3 DEF DebitsInv
<1>3. DebitsInv => DebitsBounded
  <2> SUFFICES ASSUME DebitsInv, NEW j \in DOMAIN debits
               PROVE  Cardinality(DebitsOf(debits[j])) <= Cardinality(Requests)
    BY DEF DebitsBounded, DebitsOf
  <2>1. debits \in Seq([row : Rows, base : Nat])
    BY TypeGroups DEF DebitsInv, Typed, LedgerType
  <2>2. debits[j] \in [row : Rows, base : Nat] BY <2>1, DebitTypes
  <2> DEFINE d == debits[j]
  <2>3. Cardinality(DebitsOf(d)) + Cardinality(RenewersOf(d)) <= Cardinality(Requests)
    BY <2>2 DEF DebitsInv, PeriodsShared
  <2>4. Cardinality(DebitsOf(d)) \in Nat BY <2>1, DebitsCounted
  <2>5. RenewersOf(d) \subseteq Requests BY DEF RenewersOf
  <2>6. Cardinality(RenewersOf(d)) \in Nat /\ Cardinality(Requests) \in Nat
    BY <2>5, FS_Subset, FS_CardinalityType
  <2> QED BY <2>3, <2>4, <2>6
<1> QED BY <1>1, <1>2, <1>3, PTL DEF Spec

-----------------------------------------------------------------------------
(* What overlapping renewals leave on the balance.                           *)

\* Requests that have found the funds and may still debit them.
Spenders == {r \in Requests : at[r] \in {"sourcing", "debiting"}}

\* The balance falls below a price by no more than a price for each request that is not
\* about to debit: one that has found the funds has not taken them yet.
FundsInv ==
  balance + (Cardinality(Requests) - Cardinality(Spenders)) * Price >= Price

\* A price for each of n requests, and for one more.
LEMMA Prices ==
  ASSUME NEW n \in Nat
  PROVE  n * Price \in Nat /\ (n + 1) * Price = n * Price + Price /\ Price \in Nat
BY BillingAssumption

\* There are no more spenders than requests, and a request makes a difference of one.
LEMMA SpendersCounted ==
  ASSUME IsFiniteSet(Requests)
  PROVE  /\ Cardinality(Requests) \in Nat /\ Cardinality(Spenders) \in Nat
         /\ Cardinality(Spenders) <= Cardinality(Requests)
         /\ Cardinality(Spenders') \in Nat /\ Cardinality(Spenders') <= Cardinality(Requests)
         /\ \A r \in Requests :
              OthersKept(r) =>
                /\ r \in Spenders' /\ r \notin Spenders
                     => Cardinality(Spenders') = Cardinality(Spenders) + 1
                /\ r \notin Spenders' /\ r \in Spenders
                     => Cardinality(Spenders') = Cardinality(Spenders) - 1
                /\ (r \in Spenders' <=> r \in Spenders)
                     => Cardinality(Spenders') = Cardinality(Spenders)
<1>1. Spenders \subseteq Requests /\ Spenders' \subseteq Requests BY DEF Spenders
<1>2. /\ IsFiniteSet(Spenders)
      /\ Cardinality(Requests) \in Nat /\ Cardinality(Spenders) \in Nat
      /\ Cardinality(Spenders) <= Cardinality(Requests)
      /\ Cardinality(Spenders') \in Nat /\ Cardinality(Spenders') <= Cardinality(Requests)
  BY <1>1, FS_Subset, FS_CardinalityType
<1>3. ASSUME NEW r \in Requests, OthersKept(r)
      PROVE  /\ r \in Spenders' /\ r \notin Spenders
                  => Cardinality(Spenders') = Cardinality(Spenders) + 1
             /\ r \notin Spenders' /\ r \in Spenders
                  => Cardinality(Spenders') = Cardinality(Spenders) - 1
             /\ (r \in Spenders' <=> r \in Spenders)
                  => Cardinality(Spenders') = Cardinality(Spenders)
  <2>1. Spenders' \ {r} = Spenders \ {r} BY <1>3 DEF Spenders, OthersKept
  <2>2. Cardinality(Spenders') = Cardinality(Spenders) + (IF r \in Spenders' THEN 1 ELSE 0)
                                                       - (IF r \in Spenders THEN 1 ELSE 0)
    BY <1>2, <2>1, OneMoves
  <2> QED BY <1>2, <2>2
<1> QED BY <1>2, <1>3

\* A request becomes a spender by finding the funds, and is none after its debit.
LEMMA SpenderMoves ==
  ASSUME Typed, NEW r \in Requests, Arrival(r) \/ RequestStep(r) \/ Crash(r)
  PROVE  at'[r] \in {"sourcing", "debiting"} =>
           /\ balance' = balance
           /\ at[r] \in {"sourcing", "debiting"} \/ balance >= Price
<1>0. RequestType BY TypeGroups DEF Typed
<1>1. CASE CheckFunds(r) \/ CheckSource(r)
  BY <1>0, <1>1 DEF CheckFunds, CheckSource, EnoughFunds, Goto, ledger, RequestType
<1>2. CASE ~CheckFunds(r) /\ ~CheckSource(r)
  <2>1. at'[r] \notin {"sourcing", "debiting"}
    BY <1>0, <1>2
    DEF Arrival, RequestStep, Crash, StartSwitch, StartDefault, LoadInvoice, StartNotice,
        StartRenewal, ReadSubscription, CommitSwitch, CommitDefault, NotPaid, ApplyPaid,
        CheckCredit, CommitTopUp, RecordPaid, CommitNotice, CommitRenewal, CommitExpiry,
        Begin, Goto, Finish, RequestType
  <2> QED BY <2>1
<1> QED BY <1>1, <1>2

\* However many requests have seen the same funds, the balance falls short of a price for
\* each but one (get_balance before the debit, in reconcile_subscription).
THEOREM OverdraftStaysBounded ==
  ASSUME IsFiniteSet(Requests), Requests # {}
  PROVE  Spec => []OverdraftBounded
<1> DEFINE Inv == Typed /\ FundsInv
           N == Cardinality(Requests)
           m == Cardinality(Spenders)
<1>0. N \in Nat /\ N # 0 BY FS_CardinalityType, FS_EmptySet
<1>1. Init => Inv
  <2> SUFFICES ASSUME Init PROVE Inv OBVIOUS
  <2>1. Typed BY TypeInit DEF Init, Typed, About, Granting, Renewing
  <2>2. Spenders = {} /\ balance = 0 BY DEF Init, Spenders
  <2>3. m = 0 BY <2>2, FS_EmptySet
  <2>4. PICK n \in Nat : N = n + 1
    <3>1. N - 1 \in Nat /\ N = (N - 1) + 1 BY <1>0
    <3> QED BY <3>1
  <2>5. N * Price >= Price BY <2>4, Prices
  <2>6. N - m = N BY <1>0, <2>3
  <2> QED BY <2>1, <2>2, <2>5, <2>6, <1>0, Prices DEF FundsInv
<1>2. Inv /\ [Next]_vars => Inv'
  <2> SUFFICES ASSUME Inv, [Next]_vars PROVE Inv' OBVIOUS
  <2>0. Typed' /\ balance \in Int
    BY TypedStep, TypeGroups DEF Typed, LedgerType
  <2>1. ASSUME NEW r \in Requests, Arrival(r) \/ RequestStep(r) \/ Crash(r)
        PROVE  FundsInv'
    <3>1. OthersKept(r) BY <2>1, Frame DEF Typed
    <3> DEFINE k == N - m
               k1 == N - Cardinality(Spenders')
    <3>2. /\ k \in Nat /\ k1 \in Nat
          /\ r \in Spenders' /\ r \notin Spenders => k = k1 + 1
          /\ r \notin Spenders' /\ r \in Spenders => k1 = k + 1
          /\ (r \in Spenders' <=> r \in Spenders) => k1 = k
      BY <3>1, SpendersCounted
    <3>3. /\ r \in Spenders' <=> at'[r] \in {"sourcing", "debiting"}
          /\ r \in Spenders <=> at[r] \in {"sourcing", "debiting"}
      BY DEF Spenders
    <3>4. balance + k * Price >= Price BY DEF FundsInv
    <3> SUFFICES balance' + k1 * Price >= Price BY DEF FundsInv
    <3> HIDE DEF k, k1
    <3>5. CASE r \in Spenders' /\ r \notin Spenders
      <4>1. balance' = balance /\ balance >= Price BY <2>1, <3>3, <3>5, SpenderMoves
      <4>2. k1 * Price \in Nat BY <3>2, Prices
      <4> QED BY <2>0, <4>1, <4>2, Prices
    <3>6. CASE r \notin Spenders' /\ r \in Spenders
      <4>1. k1 * Price = k * Price + Price /\ k * Price \in Nat /\ Price \in Nat
        BY <3>2, <3>6, Prices
      <4>2. balance' \in {balance, balance + 1, balance - Price} BY <2>1, DebitMoves
      <4> QED BY <2>0, <3>4, <4>1, <4>2
    <3>7. CASE r \in Spenders' <=> r \in Spenders
      <4>1. k1 * Price = k * Price BY <3>2, <3>7
      <4>2. balance' \in {balance, balance + 1}
        BY <2>1, <3>3, <3>7, SpenderMoves, DebitMoves
      <4>3. k * Price \in Nat /\ Price \in Nat BY <3>2, Prices
      <4> QED BY <2>0, <3>4, <4>1, <4>2, <4>3
    <3> QED BY <3>5, <3>6, <3>7
  <2>2. CASE (\E i \in Invoices : CreateInvoice(i) \/ Settle(i)) \/ Tick \/ UNCHANGED vars
    <3>1. UNCHANGED <<at, balance>> BY <2>2 DEF CreateInvoice, Settle, Tick, vars, ledger, request
    <3>2. Spenders' = Spenders BY <3>1 DEF Spenders
    <3> QED BY <2>0, <3>1, <3>2 DEF FundsInv
  <2> QED BY <2>0, <2>1, <2>2 DEF Next
<1>3. Inv => OverdraftBounded
  <2> SUFFICES ASSUME Inv PROVE OverdraftBounded OBVIOUS
  <2>1. m \in Nat /\ m <= N BY SpendersCounted
  <2>2. balance \in Int /\ Price \in Nat BY TypeGroups, Prices DEF Typed, LedgerType
  <2>3. balance + (N - m) * Price >= Price BY DEF FundsInv
  <2>4. N * Price = (N - m) * Price + m * Price /\ m * Price >= 0
    BY <1>0, <2>1, <2>2
  <2>5. (N - m) * Price \in Nat /\ N * Price \in Nat /\ m * Price \in Nat
    <3>1. N - m \in Nat BY <1>0, <2>1
    <3> QED BY <1>0, <2>1, <3>1, Prices
  <2> HIDE DEF N, m
  <2>6. balance >= Price - N * Price BY <2>2, <2>3, <2>4, <2>5
  <2> QED BY <2>6 DEF OverdraftBounded, N
<1> QED BY <1>1, <1>2, <1>3, PTL DEF Spec

\* What requests that overlap can cost has a bound in their number at one time.
THEOREM OverlapStaysBounded ==
  ASSUME IsFiniteSet(Requests), Requests # {}, Period > 1
  PROVE  Spec => []OverlapBounded
<1>1. GrantsBounded /\ DebitsBounded /\ OverdraftBounded => OverlapBounded
  BY DEF OverlapBounded
<1> QED BY <1>1, GrantsStayBounded, DebitsStayBounded, OverdraftStaysBounded, PTL
=============================================================================
