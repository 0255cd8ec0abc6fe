------------------------------ MODULE Payments ------------------------------
(***************************************************************************)
(* What billing promises to those who pay.  A payment that was received is *)
(* made good by a handler that took it up while it was not on record: a    *)
(* top-up by one handler, once, and on record in the same step; a purchase *)
(* before it is on record, perhaps by several who took it up meanwhile, or *)
(* after one of them was lost.  What is shown as paid was made good.       *)
(* Billing implements this.                                                *)
(***************************************************************************)
EXTENDS Integers, FiniteSets

CONSTANTS TopUps, Purchases, Handlers, Nothing

VARIABLES
  received,  \* payments that have come in
  given,     \* how often each was made good
  recorded,  \* how often it was put on record
  paid,      \* those that are shown as paid
  giving,    \* what each handler has taken up
  owing,     \* what each handler has made good and not yet put on record
  lost       \* handlers lost so far

payVars == <<received, given, recorded, paid, giving, owing, lost>>

Payable == TopUps \union Purchases

Init ==
  /\ received = {} /\ paid = {} /\ lost = 0
  /\ given = [i \in Payable |-> 0] /\ recorded = [i \in Payable |-> 0]
  /\ giving = [h \in Handlers |-> Nothing] /\ owing = [h \in Handlers |-> Nothing]

Receive(i) ==
  /\ received' = received \union {i}
  /\ UNCHANGED <<given, recorded, paid, giving, owing, lost>>

TakeUp(h, i) ==
  /\ i \in received /\ recorded[i] = 0
  /\ giving[h] = Nothing /\ owing[h] = Nothing
  /\ i \in TopUps => \A g \in Handlers : giving[g] # i
  /\ giving' = [giving EXCEPT ![h] = i]
  /\ UNCHANGED <<received, given, recorded, paid, owing, lost>>

\* A top-up is credited for the first time, put on record and shown, all at once.
Credit(h) ==
  /\ giving[h] \in TopUps /\ given[giving[h]] = 0 /\ recorded[giving[h]] = 0
  /\ given' = [given EXCEPT ![giving[h]] = 1]
  /\ recorded' = [recorded EXCEPT ![giving[h]] = 1]
  /\ paid' = paid \union {giving[h]}
  /\ giving' = [giving EXCEPT ![h] = Nothing]
  /\ UNCHANGED <<received, owing, lost>>

\* A plan is granted and its purchase shown as paid.
Grant(h) ==
  /\ giving[h] \in Purchases
  /\ given' = [given EXCEPT ![giving[h]] = @ + 1]
  /\ paid' = paid \union {giving[h]}
  /\ giving' = [giving EXCEPT ![h] = Nothing]
  /\ owing' = [owing EXCEPT ![h] = giving[h]]
  /\ UNCHANGED <<received, recorded, lost>>

Record(h) ==
  /\ owing[h] \in Purchases
  /\ recorded' = [recorded EXCEPT ![owing[h]] = @ + 1]
  /\ owing' = [owing EXCEPT ![h] = Nothing]
  /\ UNCHANGED <<received, given, paid, giving, lost>>

\* A handler is lost, with what it has taken up and what it owes.
Lose(h) ==
  /\ lost' = lost + 1
  /\ giving' = [giving EXCEPT ![h] = Nothing]
  /\ owing' = [owing EXCEPT ![h] = Nothing]
  /\ UNCHANGED <<received, given, recorded, paid>>

Next ==
  \/ \E i \in Payable : Receive(i) \/ \E h \in Handlers : TakeUp(h, i)
  \/ \E h \in Handlers : Credit(h) \/ Grant(h) \/ Record(h) \/ Lose(h)

Spec == Init /\ [][Next]_payVars
=============================================================================
