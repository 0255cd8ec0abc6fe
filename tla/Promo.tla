-------------------------------- MODULE Promo --------------------------------
(***************************************************************************)
(* The redemption of one promo code: PromoService.redeem_code,             *)
(* app/services/promo_service.py, with LedgerService.add_entry.            *)
(*                                                                         *)
(* A balance credit is flushed and committed with the redemption.  A plan  *)
(* upgrade commits the switch, then the longer period, and only then the   *)
(* redemption.  Two requests may run at one time and a request may end     *)
(* between two commits.                                                    *)
(***************************************************************************)
EXTENDS Integers, FiniteSets

CONSTANTS Organizations, Redeemers, NoOrganization, MaxRedemptions

ASSUME PromoAssumption == MaxRedemptions \in Nat

VARIABLES
  kind,        \* reward_type
  expired,     \* expires_at is over
  count,       \* redeemed_count
  redeemed,    \* table promo_redemptions: organizations
  credits,     \* committed ledger entries of the promo
  extended,    \* how often the period was extended by the promo
  redemption,  \* the requests
  overlapped,  \* history: two requests ran at one time
  disturbed    \* history: organizations with such requests, or one that ended early

promoVars == <<kind, expired, count, redeemed, credits, extended, redemption, overlapped,
               disturbed>>

NoRedemption == [at |-> "idle", org |-> NoOrganization, read |-> 0]

PromoTypeOK ==
  /\ kind \in {"balance_credit", "plan_upgrade"} /\ expired \in BOOLEAN
  /\ count \in 0 .. MaxRedemptions /\ redeemed \in SUBSET Organizations
  /\ credits \in [Organizations -> 0 .. 2] /\ extended \in [Organizations -> 0 .. 2]
  /\ redemption \in [Redeemers -> [at : {"idle", "reward", "extend", "redeem"},
                                   org : Organizations \union {NoOrganization},
                                   read : 0 .. MaxRedemptions]]
  /\ overlapped \in BOOLEAN /\ disturbed \in SUBSET Organizations

PromoInit ==
  /\ kind \in {"balance_credit", "plan_upgrade"} /\ expired = FALSE
  /\ count = 0 /\ redeemed = {} /\ overlapped = FALSE /\ disturbed = {}
  /\ credits = [o \in Organizations |-> 0] /\ extended = [o \in Organizations |-> 0]
  /\ redemption = [r \in Redeemers |-> NoRedemption]

More(f, o) == [f EXCEPT ![o] = IF @ < 2 THEN @ + 1 ELSE @]

Expire ==
  /\ ~expired /\ expired' = TRUE
  /\ UNCHANGED <<kind, count, redeemed, credits, extended, redemption, overlapped, disturbed>>

\* The checks: the code is valid, its limit is not reached, and the organization has
\* not used it.
MayRedeem(o) == ~expired /\ count < MaxRedemptions /\ o \notin redeemed

Redeem(r, o) ==
  /\ redemption[r] = NoRedemption /\ MayRedeem(o)
  /\ redemption' = [redemption EXCEPT ![r] = [at |-> "reward", org |-> o, read |-> count]]
  /\ overlapped' = (overlapped \/ \E q \in Redeemers : redemption[q] # NoRedemption)
  /\ disturbed' = IF \E q \in Redeemers : redemption[q].org = o
                  THEN disturbed \union {o} ELSE disturbed
  /\ UNCHANGED <<kind, expired, count, redeemed, credits, extended>>

RedemptionAt(r, at) == redemption' = [redemption EXCEPT ![r].at = at]

\* Faulty: the entry is committed at once.
CommitEntry(o) == More(credits, o)

\* add_entry: the entry is flushed.
AddEntry(o) == credits

Credit(r) ==
  /\ redemption[r].at = "reward" /\ kind = "balance_credit"
  /\ credits' = AddEntry(redemption[r].org) /\ RedemptionAt(r, "redeem")
  /\ UNCHANGED <<kind, expired, count, redeemed, extended, overlapped, disturbed>>

\* switch_subscription_plan commits: the organization has the plan.
Upgrade(r) ==
  /\ redemption[r].at = "reward" /\ kind = "plan_upgrade"
  /\ RedemptionAt(r, "extend")
  /\ UNCHANGED <<kind, expired, count, redeemed, credits, extended, overlapped, disturbed>>

\* _extend_active_subscription_period commits.
Extend(r) ==
  /\ redemption[r].at = "extend"
  /\ extended' = More(extended, redemption[r].org) /\ RedemptionAt(r, "redeem")
  /\ UNCHANGED <<kind, expired, count, redeemed, credits, overlapped, disturbed>>

\* The redemption, the count that was read plus one, and the flushed entry.
CommitRedemption(r) ==
  LET o == redemption[r].org
  IN  /\ redemption[r].at = "redeem" /\ o \notin redeemed
      /\ redeemed' = redeemed \union {o} /\ count' = redemption[r].read + 1
      /\ credits' = IF kind = "balance_credit" THEN More(credits, o) ELSE credits
      /\ redemption' = [redemption EXCEPT ![r] = NoRedemption]
      /\ UNCHANGED <<kind, expired, extended, overlapped, disturbed>>

\* uq_promo_redemptions_code_org_status refuses a second one: what was not committed
\* is rolled back.
Refuse(r) ==
  /\ redemption[r].at = "redeem" /\ redemption[r].org \in redeemed
  /\ redemption' = [redemption EXCEPT ![r] = NoRedemption]
  /\ UNCHANGED <<kind, expired, count, redeemed, credits, extended, overlapped, disturbed>>

\* The process dies, or the database fails.
RedemptionDies(r) ==
  /\ redemption[r] # NoRedemption
  /\ redemption' = [redemption EXCEPT ![r] = NoRedemption]
  /\ disturbed' = disturbed \union {redemption[r].org}
  /\ UNCHANGED <<kind, expired, count, redeemed, credits, extended, overlapped>>

PromoNext ==
  \/ Expire
  \/ \E r \in Redeemers :
       \/ \E o \in Organizations : Redeem(r, o)
       \/ Credit(r) \/ Upgrade(r) \/ Extend(r)
       \/ CommitRedemption(r) \/ Refuse(r) \/ RedemptionDies(r)

PromoSpec == PromoInit /\ [][PromoNext]_promoVars

-----------------------------------------------------------------------------
(* Properties.                                                               *)

\* An organization is credited exactly when it has redeemed the code, however requests
\* race and wherever they end; a period is extended once, unless they did.  As long as
\* requests come one by one, the count is that of the redemptions, also when one ends
\* half-way, so that the limit is kept.
RewardedOnce ==
  /\ \A o \in Organizations :
       /\ kind = "balance_credit" => credits[o] = IF o \in redeemed THEN 1 ELSE 0
       /\ extended[o] <= 1 \/ o \in disturbed
  /\ overlapped \/ count = Cardinality(redeemed)
=============================================================================
