------------------------------ MODULE MCBilling ------------------------------
(***************************************************************************)
(* Small instances of Billing for TLC.                                     *)
(***************************************************************************)
EXTENDS Billing, TLC

CONSTANTS r1, r2, topUp, purchase, second, notice, pro, low

\* The purchases are of the best plan, the notice is of another.
NamedPlan ==
  [x \in Purchases \union Notices |-> IF x = notice THEN low ELSE pro]

\* Requests are interchangeable.
RequestSymmetry == Permutations(Requests)
=============================================================================
