---------------------------- MODULE Accounts_proofs ----------------------------
(***************************************************************************)
(* Proofs about the three parts of an organization's account that requests *)
(* change at one time: Promo, IntegrationLimits and Bootstrap, each for    *)
(* any number of requests, which may all die on their way.                 *)
(***************************************************************************)
EXTENDS Promo, IntegrationLimits, Bootstrap, FiniteSetTheorems, TLAPS

-----------------------------------------------------------------------------
(* Promo: the reward of a balance credit is committed with the redemption  *)
(* and never without it; the period of a plan is extended by a request     *)
(* that is still on its way to the redemption, or that got there; and as   *)
(* long as no two requests overlap, the one under way has read the count   *)
(* as it is.                                                               *)

RedemptionPlaces == {"idle", "reward", "extend", "redeem"}
RedemptionShape ==
  [at : RedemptionPlaces, org : Organizations \union {NoOrganization}, read : Int]

\* The types, without the bound of the count.
PromoShapes ==
  /\ kind \in {"balance_credit", "plan_upgrade"}
  /\ redeemed \in SUBSET Organizations /\ IsFiniteSet(redeemed)
  /\ credits \in [Organizations -> 0 .. 2] /\ extended \in [Organizations -> 0 .. 2]
  /\ redemption \in [Redeemers -> RedemptionShape]
  /\ overlapped \in BOOLEAN /\ disturbed \in SUBSET Organizations /\ count \in Int

UnderWay(r) == redemption[r] # NoRedemption

\* Who is under way has an organization.
HasOrg == \A r \in Redeemers : UnderWay(r) => redemption[r].org \in Organizations

Credited ==
  kind = "balance_credit" =>
    \A o \in Organizations : credits[o] = IF o \in redeemed THEN 1 ELSE 0

\* Two requests of one organization disturb it.
AloneOrDisturbed ==
  \A p, q \in Redeemers :
    UnderWay(p) /\ UnderWay(q) /\ p # q /\ redemption[p].org = redemption[q].org =>
      redemption[p].org \in disturbed

\* The period was not extended by who has not come to it yet.
NotYet ==
  \A r \in Redeemers :
    redemption[r].at \in {"reward", "extend"} =>
      extended[redemption[r].org] = 0 \/ redemption[r].org \in disturbed

\* A longer period belongs to who has redeemed, or is about to.
Earned ==
  \A o \in Organizations :
    \/ extended[o] = 0 \/ o \in redeemed \/ o \in disturbed
    \/ \E r \in Redeemers : redemption[r].at = "redeem" /\ redemption[r].org = o

ExtendedOnce == \A o \in Organizations : extended[o] <= 1 \/ o \in disturbed

\* One by one, the count that was read is the count.
RedemptionsCounted ==
  \/ overlapped
  \/ /\ count = Cardinality(redeemed)
     /\ \A r \in Redeemers : UnderWay(r) => redemption[r].read = count
     /\ \A p, q \in Redeemers : UnderWay(p) /\ UnderWay(q) => p = q

PromoInv ==
  /\ PromoShapes /\ HasOrg /\ Credited /\ AloneOrDisturbed
  /\ NotYet /\ Earned /\ ExtendedOnce /\ RedemptionsCounted

-----------------------------------------------------------------------------
(* The steps.                                                              *)

\* A place of its own is not that of an idle request.
LEMMA AtWork ==
  ASSUME NEW r \in Redeemers, redemption[r].at # "idle" PROVE UnderWay(r)
BY DEF UnderWay, NoRedemption

\* A request that passes the checks.
LEMMA RedeemStep ==
  ASSUME PromoInv, NEW r \in Redeemers, NEW o \in Organizations, Redeem(r, o)
  PROVE  PromoInv'
<1> USE DEF PromoInv, Redeem, UnderWay, PromoShapes, RedemptionShape, RedemptionPlaces
<1>1. /\ redemption' = [redemption EXCEPT ![r] = [at |-> "reward", org |-> o, read |-> count]]
      /\ redemption[r] = NoRedemption /\ o \notin redeemed
      /\ UNCHANGED <<kind, count, redeemed, credits, extended>>
  BY DEF MayRedeem
<1>2. /\ redemption'[r] = [at |-> "reward", org |-> o, read |-> count]
      /\ \A q \in Redeemers \ {r} : redemption'[q] = redemption[q]
  BY <1>1
<1>3. \A d \in disturbed : d \in disturbed'
  OBVIOUS
<1>4. PromoShapes' /\ HasOrg' /\ Credited'
  BY <1>1, <1>2 DEF HasOrg, Credited
<1>5. \A q \in Redeemers : redemption[q].org = o => o \in disturbed'
  OBVIOUS
<1>6. AloneOrDisturbed'
  BY <1>2, <1>3, <1>5 DEF AloneOrDisturbed
<1>7. \A d \in Organizations : extended[d] = 0 \/ d \in redeemed \/ d \in disturbed'
                               \/ \E q \in Redeemers : redemption[q].at = "redeem" /\ redemption[q].org = d
  BY <1>3 DEF Earned
<1>8. extended[o] = 0 \/ o \in disturbed'
  BY <1>1, <1>5, <1>7
<1>9. NotYet'
  BY <1>1, <1>2, <1>3, <1>8 DEF NotYet
<1>10. \A q \in Redeemers : redemption[q].at = "redeem" => redemption'[q] = redemption[q]
  BY <1>1, <1>2 DEF NoRedemption
<1>11. Earned' /\ ExtendedOnce'
  BY <1>1, <1>3, <1>7, <1>10 DEF Earned, ExtendedOnce
<1>12. RedemptionsCounted'
  <2>1. CASE overlapped'
    BY <2>1 DEF RedemptionsCounted
  <2>2. CASE ~overlapped'
    <3>1. ~overlapped /\ \A q \in Redeemers : redemption[q] = NoRedemption
      BY <2>2
    <3>2. \A q \in Redeemers : UnderWay(q)' => q = r
      BY <1>2, <3>1
    <3> QED
      BY <1>1, <1>2, <3>1, <3>2 DEF RedemptionsCounted
  <2> QED
    BY <2>1, <2>2
<1> QED
  BY <1>4, <1>6, <1>9, <1>11, <1>12

\* The reward of a request.
LEMMA RewardStep ==
  ASSUME PromoInv, NEW r \in Redeemers, Credit(r) \/ Upgrade(r) \/ Extend(r)
  PROVE  PromoInv'
<1> DEFINE o == redemption[r].org
<1> USE DEF PromoInv, UnderWay, PromoShapes, RedemptionShape, RedemptionPlaces
<1>1. redemption[r].at \in {"reward", "extend"} /\ UnderWay(r) /\ o \in Organizations
  BY AtWork DEF Credit, Upgrade, Extend, HasOrg
<1>2. \E at \in {"extend", "redeem"} : RedemptionAt(r, at) /\ (redemption[r].at = "reward" \/ at = "redeem")
  BY DEF Credit, Upgrade, Extend
<1>3. /\ redemption'[r].at \in {"extend", "redeem"}
      /\ redemption'[r].org = o /\ redemption'[r].read = redemption[r].read
      /\ \A q \in Redeemers \ {r} : redemption'[q] = redemption[q]
      /\ redemption' \in [Redeemers -> RedemptionShape]
  BY <1>2 DEF RedemptionAt
<1>4. UNCHANGED <<kind, count, redeemed, credits, overlapped, disturbed>>
  BY DEF Credit, AddEntry, Upgrade, Extend
<1>5. \A q \in Redeemers : UnderWay(q)' => UnderWay(q)
  BY <1>1, <1>3
<1>6. \A q \in Redeemers : redemption'[q].org = redemption[q].org
                          /\ redemption'[q].read = redemption[q].read
  BY <1>3
<1>7. HasOrg' /\ Credited' /\ AloneOrDisturbed' /\ RedemptionsCounted'
  BY <1>4, <1>5, <1>6 DEF HasOrg, Credited, AloneOrDisturbed, RedemptionsCounted
<1>8. CASE extended' = extended
  <2>1. PromoShapes' /\ ExtendedOnce'
    BY <1>3, <1>4, <1>8 DEF ExtendedOnce
  <2>2. NotYet'
    BY <1>1, <1>3, <1>4, <1>8 DEF NotYet
  <2>3. Earned'
    BY <1>1, <1>3, <1>4, <1>8 DEF Earned
  <2> QED
    BY <1>7, <2>1, <2>2, <2>3
<1>9. CASE Extend(r)
  <2>1. extended' = [extended EXCEPT ![o] = IF extended[o] < 2 THEN extended[o] + 1 ELSE extended[o]]
        /\ redemption'[r].at = "redeem"
    BY <1>1, <1>9 DEF Extend, More, RedemptionAt
  <2>2. PromoShapes'
    BY <1>1, <1>3, <1>4, <2>1
  <2>3. extended[o] = 0 \/ o \in disturbed
    BY <1>1 DEF NotYet
  <2>4. ExtendedOnce'
    BY <1>1, <1>4, <2>1, <2>3 DEF ExtendedOnce
  <2>5. Earned'
    BY <1>1, <1>3, <1>4, <2>1 DEF Earned
  <2>6. \A q \in Redeemers \ {r} :
          redemption[q].at \in {"reward", "extend"} /\ redemption[q].org = o => o \in disturbed
    BY <1>1, AtWork DEF AloneOrDisturbed
  <2>7. NotYet'
    <3> SUFFICES ASSUME NEW q \in Redeemers, redemption'[q].at \in {"reward", "extend"},
                        redemption'[q].org \notin disturbed
                 PROVE  extended'[redemption'[q].org] = 0
      BY <1>4 DEF NotYet
    <3>1. q # r /\ redemption'[q] = redemption[q]
      BY <1>3, <2>1
    <3>2. redemption[q].org # o
      BY <2>6, <3>1
    <3>3. extended[redemption[q].org] = 0
      BY <3>1 DEF NotYet
    <3>4. redemption[q].org \in Organizations
      BY <3>1, AtWork DEF HasOrg
    <3> QED
      BY <2>1, <3>1, <3>2, <3>3, <3>4
  <2> QED
    BY <1>7, <2>2, <2>4, <2>5, <2>7
<1> QED
  BY <1>8, <1>9 DEF Credit, Upgrade

\* The redemption.
LEMMA RedemptionStep == ASSUME PromoInv, NEW r \in Redeemers, CommitRedemption(r) PROVE PromoInv'
<1> DEFINE o == redemption[r].org
<1> USE DEF PromoInv, UnderWay, PromoShapes, RedemptionShape, RedemptionPlaces
<1>1. redemption[r].at = "redeem" /\ UnderWay(r) /\ o \in Organizations /\ o \notin redeemed
  BY AtWork DEF CommitRedemption, HasOrg
<1>2. /\ redemption' = [redemption EXCEPT ![r] = NoRedemption]
      /\ redeemed' = redeemed \union {o} /\ count' = redemption[r].read + 1
      /\ UNCHANGED <<kind, extended, overlapped, disturbed>>
  BY DEF CommitRedemption
<1>3. /\ redemption'[r] = NoRedemption
      /\ \A q \in Redeemers \ {r} : redemption'[q] = redemption[q]
  BY <1>2
<1>4. IsFiniteSet(redeemed') /\ Cardinality(redeemed') = Cardinality(redeemed) + 1
  BY <1>1, <1>2, FS_AddElement
<1>5. Cardinality(redeemed) \in Nat
  BY FS_CardinalityType
<1>6. credits' \in [Organizations -> 0 .. 2] /\ Credited'
  <2>1. CASE kind = "balance_credit"
    <3>1. credits[o] = 0
      BY <1>1, <2>1 DEF Credited
    <3>2. credits' = [credits EXCEPT ![o] = IF credits[o] < 2 THEN credits[o] + 1 ELSE credits[o]]
      BY <2>1 DEF CommitRedemption, More
    <3>3. credits' = [credits EXCEPT ![o] = 1]
      BY <3>1, <3>2
    <3> QED
      BY <1>1, <1>2, <2>1, <3>3 DEF Credited
  <2>2. CASE kind # "balance_credit"
    BY <1>2, <2>2 DEF CommitRedemption, Credited
  <2> QED
    BY <2>1, <2>2
<1>7. PromoShapes'
  BY <1>1, <1>2, <1>4, <1>6 DEF NoRedemption
<1>8. \A q \in Redeemers : redemption'[q] = redemption[q] \/ (q = r /\ redemption'[q] = NoRedemption)
  BY <1>3
<1>9. HasOrg' /\ AloneOrDisturbed' /\ NotYet' /\ ExtendedOnce'
  BY <1>2, <1>8 DEF HasOrg, AloneOrDisturbed, NotYet, ExtendedOnce, NoRedemption
<1>10. Earned'
  BY <1>2, <1>3 DEF Earned
<1>11. RedemptionsCounted'
  BY <1>1, <1>2, <1>4, <1>5, <1>8 DEF RedemptionsCounted
<1> QED
  BY <1>6, <1>7, <1>9, <1>10, <1>11

\* A request that ends without a redemption.
LEMMA RedemptionEnds ==
  ASSUME PromoInv, NEW r \in Redeemers, Refuse(r) \/ RedemptionDies(r)
  PROVE  PromoInv'
<1> DEFINE o == redemption[r].org
<1> USE DEF PromoInv, UnderWay, PromoShapes, RedemptionShape, RedemptionPlaces
<1>1. /\ o \in Organizations
      /\ redemption' = [redemption EXCEPT ![r] = NoRedemption]
      /\ disturbed' = disturbed \/ disturbed' = disturbed \union {o}
      /\ o \in redeemed \/ o \in disturbed'
      /\ UNCHANGED <<kind, count, redeemed, credits, extended, overlapped>>
  BY AtWork DEF Refuse, RedemptionDies, HasOrg
<1>2. /\ redemption'[r] = NoRedemption
      /\ \A q \in Redeemers \ {r} : redemption'[q] = redemption[q]
  BY <1>1
<1>3. PromoShapes'
  BY <1>1 DEF NoRedemption
<1>4. \A q \in Redeemers : redemption'[q] = redemption[q] \/ (q = r /\ redemption'[q] = NoRedemption)
  BY <1>2
<1>5. HasOrg' /\ AloneOrDisturbed' /\ NotYet' /\ ExtendedOnce' /\ Credited'
  BY <1>1, <1>4 DEF HasOrg, AloneOrDisturbed, NotYet, ExtendedOnce, NoRedemption, Credited
<1>6. Earned'
  BY <1>1, <1>2 DEF Earned
<1>7. RedemptionsCounted'
  BY <1>1, <1>4 DEF RedemptionsCounted
<1> QED
  BY <1>3, <1>5, <1>6, <1>7

\* Nobody has asked for anything at first.
LEMMA PromoInvInit == PromoInit => PromoInv
<1> SUFFICES ASSUME PromoInit PROVE PromoInv
  OBVIOUS
<1>1. IsFiniteSet(redeemed) /\ Cardinality(redeemed) = 0
  BY FS_EmptySet DEF PromoInit
<1>2. PromoShapes
  <2>1. overlapped \in BOOLEAN
    BY Zenon DEF PromoInit
  <2>4. /\ kind \in {"balance_credit", "plan_upgrade"} /\ count \in Int
        /\ redeemed \in SUBSET Organizations /\ disturbed \in SUBSET Organizations
    BY DEF PromoInit
  <2>2. credits \in [Organizations -> 0 .. 2] /\ extended \in [Organizations -> 0 .. 2]
    BY DEF PromoInit
  <2>3. redemption \in [Redeemers -> RedemptionShape]
    BY DEF PromoInit, NoRedemption, RedemptionShape, RedemptionPlaces
  <2> QED
    BY <1>1, <2>1, <2>2, <2>3, <2>4 DEF PromoShapes
<1>3. \A r \in Redeemers : redemption[r] = NoRedemption /\ redemption[r].at = "idle"
  BY DEF PromoInit, NoRedemption
<1>4. HasOrg /\ AloneOrDisturbed /\ NotYet
  BY <1>3 DEF UnderWay, HasOrg, AloneOrDisturbed, NotYet
<1>5. Credited
  BY DEF PromoInit, Credited
<1>6. Earned /\ ExtendedOnce
  BY DEF PromoInit, Earned, ExtendedOnce
<1>7. RedemptionsCounted
  BY <1>1, <1>3 DEF PromoInit, UnderWay, RedemptionsCounted
<1> QED
  BY <1>2, <1>4, <1>5, <1>6, <1>7 DEF PromoInv

-----------------------------------------------------------------------------

\* Every step keeps the invariant.
LEMMA PromoInvStep == PromoInv /\ [PromoNext]_promoVars => PromoInv'
<1> SUFFICES ASSUME PromoInv, [PromoNext]_promoVars PROVE PromoInv'
  OBVIOUS
<1>1. CASE PromoNext
  <2>1. CASE Expire
    BY <2>1 DEF Expire, PromoInv, PromoShapes, UnderWay, HasOrg, Credited,
                AloneOrDisturbed, NotYet, Earned, ExtendedOnce, RedemptionsCounted
  <2> QED
    BY <1>1, <2>1, RedeemStep, RewardStep, RedemptionStep, RedemptionEnds DEF PromoNext
<1>2. CASE UNCHANGED promoVars
  BY <1>2 DEF promoVars, PromoInv, PromoShapes, UnderWay, HasOrg, Credited,
              AloneOrDisturbed, NotYet, Earned, ExtendedOnce, RedemptionsCounted
<1> QED
  BY <1>1, <1>2

\* A code is rewarded once to an organization, and counted as often as it was redeemed
\* while requests come one by one, for any number of organizations and requests.
THEOREM PromoRewardedOnce == PromoSpec => []RewardedOnce
<1>1. PromoInv => RewardedOnce
  BY DEF PromoInv, PromoShapes, Credited, ExtendedOnce, RedemptionsCounted, RewardedOnce
<1> QED
  BY <1>1, PromoInvInit, PromoInvStep, PTL DEF PromoSpec

\* A request that is under way has read a count below the limit.
WithinRedemptions ==
  /\ expired \in BOOLEAN /\ count \in 0 .. MaxRedemptions
  /\ \A r \in Redeemers :
       /\ redemption[r].read \in 0 .. MaxRedemptions
       /\ redemption[r].at # "idle" => redemption[r].read < MaxRedemptions

\* The count of a code stays within its limit, whatever overlaps (PromoService.redeem_code):
\* who redeems has read a count below it.
THEOREM PromoTypes == PromoSpec => []PromoTypeOK
<1>1. PromoInit => WithinRedemptions
  <2> SUFFICES ASSUME PromoInit PROVE WithinRedemptions
    OBVIOUS
  <2>1. expired \in BOOLEAN
    BY DEF PromoInit
  <2>2. count = 0 /\ \A r \in Redeemers : redemption[r].at = "idle" /\ redemption[r].read = 0
    BY DEF PromoInit, NoRedemption
  <2> QED
    BY <2>1, <2>2, PromoAssumption DEF WithinRedemptions
<1>2. PromoInv /\ WithinRedemptions /\ [PromoNext]_promoVars => WithinRedemptions'
  <2> SUFFICES ASSUME PromoInv, WithinRedemptions, [PromoNext]_promoVars
               PROVE  WithinRedemptions'
    OBVIOUS
  <2> USE PromoAssumption DEF WithinRedemptions, PromoInv, PromoShapes, RedemptionShape,
                              RedemptionPlaces
  <2>1. ASSUME NEW r \in Redeemers, NEW o \in Organizations, Redeem(r, o)
        PROVE  WithinRedemptions'
    BY <2>1 DEF Redeem, MayRedeem
  <2>2. ASSUME NEW r \in Redeemers, Credit(r) \/ Upgrade(r) \/ Extend(r)
        PROVE  WithinRedemptions'
    BY <2>2 DEF Credit, Upgrade, Extend, RedemptionAt
  <2>3. ASSUME NEW r \in Redeemers, CommitRedemption(r) \/ Refuse(r) \/ RedemptionDies(r)
        PROVE  WithinRedemptions'
    BY <2>3 DEF CommitRedemption, Refuse, RedemptionDies, NoRedemption
  <2>4. CASE Expire \/ UNCHANGED promoVars
    BY <2>4 DEF Expire, promoVars
  <2> QED
    BY <2>1, <2>2, <2>3, <2>4 DEF PromoNext
<1>3. PromoInv /\ WithinRedemptions => PromoTypeOK
  <2> SUFFICES ASSUME PromoInv, WithinRedemptions PROVE PromoTypeOK
    OBVIOUS
  <2>1. ASSUME NEW r \in Redeemers
        PROVE  redemption[r] \in [at : RedemptionPlaces, org : Organizations \union {NoOrganization},
                                  read : 0 .. MaxRedemptions]
    <3>1. redemption[r] \in RedemptionShape
      BY DEF PromoInv, PromoShapes
    <3> QED
      BY <3>1 DEF WithinRedemptions, RedemptionShape
  <2>2. redemption \in [Redeemers -> [at : RedemptionPlaces,
                                     org : Organizations \union {NoOrganization},
                                     read : 0 .. MaxRedemptions]]
    BY <2>1 DEF PromoInv, PromoShapes
  <2>3. /\ kind \in {"balance_credit", "plan_upgrade"} /\ expired \in BOOLEAN
        /\ count \in 0 .. MaxRedemptions
        /\ redeemed \in SUBSET Organizations
        /\ credits \in [Organizations -> 0 .. 2] /\ extended \in [Organizations -> 0 .. 2]
        /\ overlapped \in BOOLEAN /\ disturbed \in SUBSET Organizations
    BY DEF PromoInv, PromoShapes, WithinRedemptions
  <2> QED
    BY <2>2, <2>3 DEF PromoTypeOK, RedemptionPlaces
<1> QED
  BY <1>1, <1>2, <1>3, PromoInvInit, PromoInvStep, PTL DEF PromoSpec

-----------------------------------------------------------------------------
(* IntegrationLimits: the sum of the active integrations and of the        *)
(* requests that may add one is what cannot grow too large.  A request     *)
(* only joins the others while there is room for one more, and then        *)
(* changes places with the integration that it adds.                       *)

\* The requests that have passed the limit and have not ended.
Passed == {r \in Creators : creation[r].at # "idle"}

\* A request that activates has a row in mind.
Aimed == \A r \in Creators : creation[r].at = "activate" => creation[r].id \in RowIds

Bounded == Cardinality(active) + Cardinality(Passed) <= peak + Cardinality(Creators) - 1

\* The limit in force is one that the largest so far covers.
Covered == limit <= peak

LimitsInv == LimitsTypeOK /\ Aimed /\ Covered /\ Bounded

-----------------------------------------------------------------------------
(* Facts about the sets that are counted.                                  *)

\* The sets that are counted are finite.
LEMMA FiniteLimits ==
  ASSUME LimitsTypeOK
  PROVE  /\ IsFiniteSet(active) /\ Cardinality(active) \in Nat
         /\ IsFiniteSet(Passed) /\ Cardinality(Passed) \in Nat
         /\ Cardinality(Passed) <= Cardinality(Creators)
         /\ Cardinality(Creators) \in Nat /\ peak \in Nat /\ limit \in Nat
<1>1. active \in SUBSET RowIds /\ Passed \in SUBSET Creators
  BY DEF LimitsTypeOK, Passed
<1>2. IsFiniteSet(RowIds) /\ IsFiniteSet(Creators)
  BY LimitsAssumption
<1>3. IsFiniteSet(active) /\ IsFiniteSet(Passed) /\ Cardinality(Passed) <= Cardinality(Creators)
  BY <1>1, <1>2, FS_Subset
<1>4. peak \in Nat /\ limit \in Nat
  BY LimitsAssumption DEF LimitsTypeOK
<1> QED
  BY <1>2, <1>3, <1>4, FS_CardinalityType

\* A request that goes on or ends.
LEMMA CreationEnded ==
  ASSUME LimitsTypeOK, NEW r \in Creators, creation' = [creation EXCEPT ![r] = NoCreation],
         creation[r].at # "idle"
  PROVE  Cardinality(Passed') = Cardinality(Passed) - 1
<1>1. Passed' = Passed \ {r} /\ r \in Passed
  BY DEF Passed, LimitsTypeOK, NoCreation
<1> QED
  BY <1>1, FiniteLimits, FS_RemoveElement

\* One that begins is counted from then on, and all of them are no more than there are.
LEMMA CreationBegan ==
  ASSUME LimitsTypeOK, LimitsTypeOK', NEW r \in Creators
  PROVE  Cardinality(Passed') \in Nat /\ Cardinality(Passed') <= Cardinality(Creators)
<1>1. Passed' \in SUBSET Creators
  BY DEF Passed
<1> QED
  BY <1>1, FS_Subset, FS_CardinalityType, LimitsAssumption

-----------------------------------------------------------------------------
(* Types.                                                                  *)

\* Every step keeps the types, and a request that activates its row.
LEMMA LimitsTypeStep ==
  ASSUME LimitsTypeOK, Aimed, Covered, [LimitsNext]_limitVars
  PROVE  LimitsTypeOK' /\ Aimed' /\ Covered'
<1> USE LimitsAssumption DEF LimitsTypeOK, Aimed, Covered
<1>1. CASE SwitchPlan
  BY <1>1 DEF SwitchPlan
<1>2. ASSUME NEW i \in RowIds, Deactivate(i) \/ Delete(i)
      PROVE  LimitsTypeOK' /\ Aimed' /\ Covered'
  BY <1>2 DEF Deactivate, Delete
<1>3. ASSUME NEW r \in Creators, NEW a \in Accounts, Create(r, a)
      PROVE  LimitsTypeOK' /\ Aimed' /\ Covered'
  BY <1>3 DEF Create, CreationIs, NoCreation
<1>4. ASSUME NEW r \in Creators, NEW i \in RowIds, Activate(r, i)
      PROVE  LimitsTypeOK' /\ Aimed' /\ Covered'
  BY <1>4 DEF Activate, CreationIs, NoCreation
<1>5. ASSUME NEW r \in Creators, FindDuplicate(r)
      PROVE  LimitsTypeOK' /\ Aimed' /\ Covered'
  BY <1>5 DEF FindDuplicate, CreationIs, NoCreation
<1>6. ASSUME NEW r \in Creators, InsertIntegration(r)
      PROVE  LimitsTypeOK' /\ Aimed' /\ Covered'
  BY <1>6 DEF InsertIntegration, CreationIs, NoCreation
<1>7. ASSUME NEW r \in Creators, CommitActive(r) \/ CreationDies(r)
      PROVE  LimitsTypeOK' /\ Aimed' /\ Covered'
  BY <1>7 DEF CommitActive, CreationDies, CreationIs, NoCreation
<1>8. CASE UNCHANGED limitVars
  BY <1>8 DEF limitVars
<1> QED
  BY <1>1, <1>2, <1>3, <1>4, <1>5, <1>6, <1>7, <1>8 DEF LimitsNext

-----------------------------------------------------------------------------
(* The bound.                                                              *)

\* A request joins the others only while there is room.
LEMMA CreationJoins ==
  ASSUME LimitsInv, LimitsTypeOK', NEW r \in Creators, MayCreate,
         UNCHANGED <<limit, peak, active>>
  PROVE  Bounded'
<1>1. Cardinality(active) <= peak - 1
  BY FiniteLimits DEF LimitsInv, MayCreate, Covered
<1>2. Cardinality(Passed') \in Nat /\ Cardinality(Passed') <= Cardinality(Creators)
  BY CreationBegan DEF LimitsInv
<1> QED
  BY <1>1, <1>2, FiniteLimits DEF Bounded, LimitsInv

\* An integration more or less.
LEMMA OneMore ==
  ASSUME LimitsTypeOK, NEW i
  PROVE  /\ Cardinality(active \union {i}) \in Nat
         /\ Cardinality(active \union {i}) <= Cardinality(active) + 1
         /\ Cardinality(active \ {i}) \in Nat
         /\ Cardinality(active \ {i}) <= Cardinality(active)
<1>1. IsFiniteSet(active) /\ Cardinality(active) \in Nat
  BY FiniteLimits
<1>2. /\ Cardinality(active \union {i})
           = IF i \in active THEN Cardinality(active) ELSE Cardinality(active) + 1
      /\ Cardinality(active \ {i})
           = IF i \in active THEN Cardinality(active) - 1 ELSE Cardinality(active)
  BY <1>1, FS_AddElement, FS_RemoveElement
<1>3. IsFiniteSet(active \ {i})
  BY <1>1, FS_RemoveElement
<1>4. Cardinality(active \ {i}) \in Nat
  BY <1>3, FS_CardinalityType
<1> QED
  BY <1>1, <1>2, <1>4

\* A request that ends makes room for the integration that it may have added.
LEMMA CreationLeaves ==
  ASSUME LimitsInv, LimitsTypeOK', NEW r \in Creators, creation[r].at # "idle",
         CreationIs(r, NoCreation), UNCHANGED <<limit, peak>>,
         active' = active \/ \E i \in RowIds : active' = active \union {i}
  PROVE  Bounded'
<1>1. Cardinality(Passed') = Cardinality(Passed) - 1
  BY CreationEnded DEF LimitsInv, CreationIs
<1>2. Cardinality(active') \in Nat /\ Cardinality(active') <= Cardinality(active) + 1
  <2>1. CASE active' = active
    BY <2>1, FiniteLimits DEF LimitsInv
  <2>2. ASSUME NEW i \in RowIds, active' = active \union {i}
        PROVE  Cardinality(active') \in Nat /\ Cardinality(active') <= Cardinality(active) + 1
    BY <2>2, OneMore DEF LimitsInv
  <2> QED
    BY <2>1, <2>2
<1> QED
  BY <1>1, <1>2, FiniteLimits DEF Bounded, LimitsInv

\* Integrations that go make room.
LEMMA IntegrationGoes ==
  ASSUME LimitsInv, NEW i \in RowIds, active' = active \ {i},
         UNCHANGED <<limit, peak, creation>>
  PROVE  Bounded'
<1>1. Passed' = Passed
  BY DEF Passed
<1>2. Cardinality(active') \in Nat /\ Cardinality(active') <= Cardinality(active)
  BY OneMore DEF LimitsInv
<1> QED
  BY <1>1, <1>2, FiniteLimits DEF Bounded, LimitsInv

\* Every step keeps the bound.
LEMMA BoundStep == ASSUME LimitsInv, [LimitsNext]_limitVars PROVE LimitsInv'
<1>0. LimitsTypeOK' /\ Aimed' /\ Covered'
  BY LimitsTypeStep DEF LimitsInv
<1>1. CASE SwitchPlan
  <2>1. Passed' = Passed /\ active' = active /\ peak' \in Nat /\ peak' >= peak
    BY <1>1, <1>0, FiniteLimits, LimitsAssumption DEF SwitchPlan, Passed, LimitsInv,
                                                      LimitsTypeOK
  <2> QED
    BY <2>1, <1>0, FiniteLimits DEF Bounded, LimitsInv
<1>2. ASSUME NEW i \in RowIds, Deactivate(i) \/ Delete(i) PROVE LimitsInv'
  BY <1>0, <1>2, IntegrationGoes DEF Deactivate, Delete, LimitsInv
<1>3. ASSUME NEW r \in Creators, NEW a \in Accounts, Create(r, a) PROVE LimitsInv'
  BY <1>0, <1>3, CreationJoins DEF Create, LimitsInv
<1>4. ASSUME NEW r \in Creators, NEW i \in RowIds, Activate(r, i) PROVE LimitsInv'
  BY <1>0, <1>4, CreationJoins DEF Activate, MayActivate, LimitsInv
<1>5. ASSUME NEW r \in Creators, FindDuplicate(r) PROVE LimitsInv'
  <2>1. creation[r].at # "idle" /\ active' = active /\ UNCHANGED <<limit, peak>>
    BY <1>5 DEF FindDuplicate
  <2>2. CASE HasDuplicate(creation[r].account)
    <3>1. CreationIs(r, NoCreation)
      BY <1>5, <2>1, <2>2 DEF FindDuplicate
    <3> QED
      BY <1>0, <2>1, <3>1, CreationLeaves DEF LimitsInv
  <2>3. CASE ~HasDuplicate(creation[r].account)
    <3>1. creation' = [creation EXCEPT ![r].at = "insert"]
      BY <1>5, <2>3 DEF FindDuplicate
    <3>2. Passed' = Passed
      BY <2>1, <3>1 DEF Passed, LimitsInv, LimitsTypeOK
    <3> QED
      BY <1>0, <2>1, <3>2 DEF Bounded, LimitsInv
  <2> QED
    BY <2>2, <2>3
<1>6. ASSUME NEW r \in Creators, InsertIntegration(r) PROVE LimitsInv'
  <2>1. \E i \in RowIds : active' = active \union {i}
    BY <1>6 DEF InsertIntegration
  <2> QED
    BY <1>0, <1>6, <2>1, CreationLeaves DEF InsertIntegration, LimitsInv
<1>7. ASSUME NEW r \in Creators, CommitActive(r) PROVE LimitsInv'
  <2>1. creation[r].id \in RowIds
    BY <1>7 DEF CommitActive, LimitsInv, Aimed
  <2>2. active' = active \/ \E i \in RowIds : active' = active \union {i}
    BY <1>7, <2>1 DEF CommitActive
  <2> QED
    BY <1>0, <1>7, <2>2, CreationLeaves DEF CommitActive, LimitsInv
<1>8. ASSUME NEW r \in Creators, CreationDies(r) PROVE LimitsInv'
  BY <1>0, <1>8, CreationLeaves DEF CreationDies, LimitsInv
<1>9. CASE UNCHANGED limitVars
  BY <1>0, <1>9 DEF limitVars, LimitsInv, Bounded, Passed
<1> QED
  BY <1>1, <1>2, <1>3, <1>4, <1>5, <1>6, <1>7, <1>8, <1>9 DEF LimitsNext

\* Nobody asks and nothing is there at first.
LEMMA BoundInit == ASSUME LimitsInit PROVE LimitsInv
<1>1. LimitsTypeOK /\ Aimed /\ Covered
  BY LimitsAssumption DEF LimitsInit, LimitsTypeOK, Aimed, Covered, NoCreation
<1>2. Passed = {} /\ active = {}
  BY DEF LimitsInit, Passed, NoCreation
<1>3. Cardinality(Creators) \in Nat /\ Cardinality(Creators) # 0
  BY FS_CardinalityType, FS_EmptySet, LimitsAssumption
<1> QED
  BY <1>1, <1>2, <1>3, FiniteLimits, FS_EmptySet DEF LimitsInv, Bounded

\* An organization exceeds the largest limit it ever had by fewer integrations than
\* there are requests at one time, whatever they do.
THEOREM LimitIsKept == LimitsSpec => []WithinLimit
<1>1. LimitsInv => WithinLimit
  <2> SUFFICES ASSUME LimitsInv PROVE WithinLimit
    OBVIOUS
  <2> QED
    BY FiniteLimits DEF LimitsInv, Bounded, WithinLimit
<1>2. LimitsInit => LimitsInv
  BY BoundInit
<1>3. LimitsInv /\ [LimitsNext]_limitVars => LimitsInv'
  BY BoundStep
<1> QED
  BY <1>1, <1>2, <1>3, PTL DEF LimitsSpec

\* Rows, limits and requests have their types, with the bounds that PlanLimits and the
\* rows of the table give them.
THEOREM LimitsTypes == LimitsSpec => []LimitsTypeOK
<1>1. LimitsInv => LimitsTypeOK
  BY DEF LimitsInv
<1> QED
  BY <1>1, BoundInit, BoundStep, PTL DEF LimitsSpec

-----------------------------------------------------------------------------
(* Bootstrap: what a request has passed on its way is there, and no row of *)
(* another request's making is ever taken away again.                      *)

SignInPlaces ==
  {"idle", "look", "sync", "allocate", "insert", "commit", "member", "join", "identity"}

\* The types, without the bounds of an instance on ids and deaths.
SignInShapes ==
  /\ sequence \in [Tables -> Nat] /\ row \in [Tables -> [Users -> Nat]]
  /\ member \in SUBSET Users /\ identity \in SUBSET Users
  /\ boot \in [SignIns -> [at : SignInPlaces, user : Users \union {NoUser}, table : Tables, id : Nat]]

\* A request under way has its user, and an id once it has been given one.
HasUser == \A p \in SignIns : boot[p].at # "idle" => boot[p].user \in Users
HasId == \A p \in SignIns : boot[p].at \in {"insert", "commit"} => boot[p].id # 0

\* A request has come to the second table past the row of the first, and beyond the
\* tables past both.
HasOrganization ==
  \A p \in SignIns :
    boot[p].at # "idle" /\ boot[p].table = "users" => row["organizations"][boot[p].user] # 0
HasRows ==
  \A p \in SignIns :
    boot[p].at \in {"member", "join", "identity"} =>
      boot[p].table = "users" /\ row["users"][boot[p].user] # 0

\* An identity is created for a member.
HasMembership == \A p \in SignIns : boot[p].at = "identity" => boot[p].user \in member

OnItsWay == HasUser /\ HasId /\ HasOrganization /\ HasRows /\ HasMembership

SignInInv == SignInShapes /\ OnItsWay /\ Consistent

-----------------------------------------------------------------------------
(* The steps of a request.                                                 *)

\* A request that asks, looks, or is given an id.
LEMMA Asking ==
  ASSUME SignInInv, NEW p \in SignIns,
         (\E u \in Users : BeginSignIn(p, u)) \/ Sync(p) \/ Allocate(p)
  PROVE  SignInInv'
<1> USE DEF SignInInv, SignInShapes, OnItsWay, HasUser, HasId, HasOrganization, HasRows,
            HasMembership, Consistent, Tables, SignInPlaces
<1>1. ASSUME NEW u \in Users, BeginSignIn(p, u) PROVE SignInInv'
  BY <1>1 DEF BeginSignIn
<1>2. CASE Sync(p)
  <2>1. sequence' \in [Tables -> Nat]
    BY <1>2 DEF Sync
  <2> QED
    BY <1>2, <2>1 DEF Sync, SignInAt
<1>3. CASE Allocate(p)
  BY <1>3 DEF Allocate, SignInGoes
<1> QED
  BY <1>1, <1>2, <1>3

\* A request that finds the row, or inserts it.
LEMMA Making ==
  ASSUME SignInInv, NEW p \in SignIns, Look(p) \/ InsertRow(p) \/ CommitRow(p)
  PROVE  SignInInv'
<1> USE DEF SignInInv, SignInShapes, OnItsWay, HasUser, HasId, HasOrganization, HasRows,
            HasMembership, Consistent, Tables, SignInPlaces
<1>1. CASE Look(p)
  BY SMTT(30), <1>1 DEF Look, Found, MyRow, Onward, SignInGoes, NextTable, SignInAt
<1>2. CASE InsertRow(p)
  BY SMTT(30), <1>2 DEF InsertRow, SignInEnds, NoSignIn, SignInAt
<1>3. CASE CommitRow(p)
  <2>1. boot[p].user \in Users /\ boot[p].id # 0 /\ boot[p].table \in Tables
    BY <1>3 DEF CommitRow
  <2>2. \A t \in Tables, u \in Users :
          row'[t][u] = IF t = boot[p].table /\ u = boot[p].user THEN boot[p].id ELSE row[t][u]
    BY <1>3, <2>1 DEF CommitRow
  <2>3. row' \in [Tables -> [Users -> Nat]]
    BY <1>3, <2>1 DEF CommitRow
  <2> QED
    BY <1>3, <2>1, <2>2, <2>3 DEF CommitRow, Onward, SignInGoes, NextTable
<1> QED
  BY <1>1, <1>2, <1>3

\* A request that joins, gets its identity, or ends early.
LEMMA Joining ==
  ASSUME SignInInv, NEW p \in SignIns, LookMember(p) \/ Join(p) \/ Identify(p) \/ SignInDies(p)
  PROVE  SignInInv'
<1> USE DEF SignInInv, SignInShapes, OnItsWay, HasUser, HasId, HasOrganization, HasRows,
            HasMembership, Consistent, Tables, SignInPlaces
<1>1. CASE LookMember(p)
  BY <1>1 DEF LookMember, SignInAt
<1>2. CASE Join(p)
  BY SMTT(30), <1>2 DEF Join, SignInEnds, NoSignIn, SignInAt
<1>3. CASE Identify(p)
  BY <1>3 DEF Identify, SignInEnds, NoSignIn
<1>4. CASE SignInDies(p)
  BY <1>4 DEF SignInDies, SignInEnds, NoSignIn
<1> QED
  BY <1>1, <1>2, <1>3, <1>4

-----------------------------------------------------------------------------

LEMMA SignInBegins == BootInit => SignInInv
  BY DEF BootInit, SignInInv, SignInShapes, OnItsWay, HasUser, HasId, HasOrganization,
         HasRows, HasMembership, Consistent, Tables, SignInPlaces, NoSignIn

LEMMA SignInStays ==
  ASSUME SignInInv, [BootNext]_bootVars
  PROVE  SignInInv'
<1>1. CASE BootNext
  BY <1>1, Asking, Making, Joining DEF BootNext, SignInStep
<1>2. CASE UNCHANGED bootVars
  BY <1>2 DEF bootVars, SignInInv, SignInShapes, OnItsWay, HasUser, HasId,
              HasOrganization, HasRows, HasMembership, Consistent
<1> QED
  BY <1>1, <1>2

\* An identity has its user, its organization and its membership, however many requests
\* of one user run at one time and wherever they die.
THEOREM IdentitiesAreConsistent == BootSpec => []Consistent
<1>1. SignInInv => Consistent
  BY DEF SignInInv
<1> QED
  BY <1>1, SignInBegins, SignInStays, PTL DEF BootSpec

-----------------------------------------------------------------------------
(* How far the ids of Bootstrap go: a sequence falls back to the largest   *)
(* committed id before each insert, and who was given an id beyond it has  *)
(* passed that point: so the ids in use are at most the requests ahead of  *)
(* the committed ones, and each row that is committed adds as many.        *)

Made       == [t \in Tables |-> {u \in Users : row[t][u] # 0}]
Allocators == [t \in Tables |-> {p \in SignIns : boot[p].at = "allocate" /\ boot[p].table = t}]

\* The largest id that n committed rows can have.
IdsOf(n) == 1 + n * Cardinality(SignIns)
Largest == [t \in Tables |-> IdsOf(Cardinality(Made[t]))]

\* A row that is about to be committed is that of one request, and is not there yet.
CommitsApart ==
  /\ \A p \in SignIns : boot[p].at = "commit" => MyRow(p) = 0
  /\ \A p, q \in SignIns :
       boot[p].at = "commit" /\ boot[q].at = "commit" /\ boot[p].table = boot[q].table
         /\ boot[p].user = boot[q].user => p = q

IdsBounded ==
  /\ \A t \in Tables :
       /\ \A u \in Users : row[t][u] <= Largest[t]
       /\ sequence[t] + Cardinality(Allocators[t]) <= Largest[t] + Cardinality(SignIns)
  /\ \A p \in SignIns : boot[p].id <= Largest[boot[p].table] + Cardinality(SignIns)

\* One more row allows for one more id of each request.
LEMMA IdsGrow ==
  ASSUME IsFiniteSet(SignIns), NEW n \in Nat
  PROVE  /\ IdsOf(n) \in Nat /\ IdsOf(n) >= 1 /\ Cardinality(SignIns) \in Nat
         /\ IdsOf(n + 1) = IdsOf(n) + Cardinality(SignIns)
         /\ \A m \in Nat : n <= m => IdsOf(n) <= IdsOf(m)
<1> DEFINE s == Cardinality(SignIns)
<1>1. s \in Nat
  BY FS_CardinalityType
<1> HIDE DEF s
<1>2. n * s \in Nat /\ (n + 1) * s = n * s + s
  BY <1>1
<1>3. ASSUME NEW m \in Nat, n <= m PROVE n * s <= m * s
  <2>1. m - n \in Nat /\ m * s = n * s + (m - n) * s
    BY <1>1, <1>3
  <2>2. (m - n) * s \in Nat /\ m * s \in Nat
    BY <1>1, <2>1
  <2> QED
    BY <1>2, <2>1, <2>2
<1>4. \A m \in Nat : m * s \in Nat
  BY <1>1
<1> QED
  BY <1>1, <1>2, <1>3, <1>4 DEF IdsOf, s

\* What is counted is finite, and the largest ids are numbers.
LEMMA IdsCounted ==
  ASSUME IsFiniteSet(SignIns), IsFiniteSet(Users), NEW t \in Tables
  PROVE  /\ Cardinality(SignIns) \in Nat /\ Cardinality(Users) \in Nat
         /\ Cardinality(Made[t]) \in Nat /\ Cardinality(Made[t]) <= Cardinality(Users)
         /\ IsFiniteSet(Made[t]) /\ IsFiniteSet(Allocators[t])
         /\ Cardinality(Allocators[t]) \in Nat
         /\ Cardinality(Allocators'[t]) \in Nat
         /\ Cardinality(Allocators'[t]) <= Cardinality(SignIns)
         /\ Largest[t] \in Nat /\ Largest[t] >= 1 /\ Largest[t] + Cardinality(SignIns) <= MaxId
<1>1. Made[t] \subseteq Users /\ Allocators[t] \subseteq SignIns /\ Allocators'[t] \subseteq SignIns
  BY DEF Made, Allocators
<1>2. /\ Cardinality(SignIns) \in Nat /\ Cardinality(Users) \in Nat
      /\ Cardinality(Made[t]) \in Nat /\ Cardinality(Made[t]) <= Cardinality(Users)
      /\ IsFiniteSet(Made[t]) /\ IsFiniteSet(Allocators[t])
      /\ Cardinality(Allocators[t]) \in Nat
      /\ Cardinality(Allocators'[t]) \in Nat
      /\ Cardinality(Allocators'[t]) <= Cardinality(SignIns)
  BY <1>1, FS_Subset, FS_CardinalityType
<1>3. Largest[t] = IdsOf(Cardinality(Made[t])) /\ Largest[t] \in Nat /\ Largest[t] >= 1
  BY <1>2, IdsGrow DEF Largest
<1>4. Largest[t] <= IdsOf(Cardinality(Users))
  BY <1>2, <1>3, IdsGrow
<1>5. /\ IdsOf(Cardinality(Users) + 1) = IdsOf(Cardinality(Users)) + Cardinality(SignIns)
      /\ IdsOf(Cardinality(Users)) \in Nat
  BY <1>2, IdsGrow
<1>6. IdsOf(Cardinality(Users) + 1) = MaxId
  BY DEF IdsOf, MaxId
<1> QED
  BY <1>2, <1>3, <1>4, <1>5, <1>6

\* The steps that leave the tables and the sequences alone.
LEMMA IdsWait ==
  ASSUME IsFiniteSet(SignIns), IsFiniteSet(Users), SignInInv, SignInInv', IdsBounded,
         NEW p \in SignIns, UNCHANGED <<sequence, row>>, boot'[p].at # "allocate",
         boot'[p].id = 0 \/ (boot'[p].id = boot[p].id /\ boot'[p].table = boot[p].table),
         \A q \in SignIns : q # p => boot'[q] = boot[q]
  PROVE  IdsBounded'
<1>1. Largest' = Largest
  BY DEF Largest, Made, IdsOf
<1>2. ASSUME NEW t \in Tables
      PROVE  /\ Largest[t] \in Nat
             /\ Cardinality(Allocators'[t]) <= Cardinality(Allocators[t])
             /\ Cardinality(Allocators'[t]) \in Nat /\ Cardinality(Allocators[t]) \in Nat
             /\ Cardinality(SignIns) \in Nat /\ sequence[t] \in Nat
  <2>1. Allocators'[t] \subseteq Allocators[t]
    BY DEF Allocators
  <2>2. Cardinality(Allocators'[t]) <= Cardinality(Allocators[t])
    BY <2>1, IdsCounted, FS_Subset
  <2> QED
    BY <2>2, IdsCounted DEF SignInInv, SignInShapes
<1>3. ASSUME NEW q \in SignIns
      PROVE  boot'[q].id <= Largest[boot'[q].table] + Cardinality(SignIns)
  <2>1. boot[q].table \in Tables /\ boot'[q].table \in Tables
    BY DEF SignInInv, SignInShapes
  <2>2. boot'[q].id = 0 \/ (boot'[q].id = boot[q].id /\ boot'[q].table = boot[q].table)
    OBVIOUS
  <2>3. boot[q].id <= Largest[boot[q].table] + Cardinality(SignIns)
    BY DEF IdsBounded
  <2> QED
    BY <1>2, <2>1, <2>2, <2>3
<1>4. ASSUME NEW t \in Tables
      PROVE  /\ \A u \in Users : row'[t][u] <= Largest[t]
             /\ sequence'[t] + Cardinality(Allocators'[t]) <= Largest[t] + Cardinality(SignIns)
  BY <1>2 DEF IdsBounded
<1> QED
  BY <1>1, <1>3, <1>4 DEF IdsBounded

\* The sequence falls back to the largest committed id.
LEMMA IdsSync ==
  ASSUME IsFiniteSet(SignIns), IsFiniteSet(Users), SignInInv, IdsBounded,
         NEW p \in SignIns, Sync(p)
  PROVE  IdsBounded'
<1>1. Largest' = Largest
  BY DEF Sync, Largest, Made, IdsOf
<1> DEFINE t0 == boot[p].table
<1>2. t0 \in Tables
  BY DEF SignInInv, SignInShapes
<1>3. /\ \A q \in SignIns : boot'[q].id = boot[q].id /\ boot'[q].table = boot[q].table
      /\ UNCHANGED row
  BY DEF Sync, SignInAt, SignInInv, SignInShapes
<1>4. PICK largest \in {1} \union {row[t0][u] : u \in Users} :
        sequence' = [sequence EXCEPT ![t0] = largest]
  BY DEF Sync
<1>5. largest <= Largest[t0] /\ largest \in Nat
  BY <1>2, IdsCounted DEF IdsBounded, SignInInv, SignInShapes
<1>6. ASSUME NEW t \in Tables
      PROVE  sequence'[t] + Cardinality(Allocators'[t]) <= Largest[t] + Cardinality(SignIns)
  <2>1. CASE t = t0
    <3>1. sequence'[t] = largest
      BY <1>2, <1>4, <2>1 DEF SignInInv, SignInShapes
    <3> QED
      BY <1>5, <2>1, <3>1, IdsCounted
  <2>2. CASE t # t0
    <3>1. sequence'[t] = sequence[t]
      BY <1>4, <2>2 DEF SignInInv, SignInShapes
    <3>2. Allocators'[t] = Allocators[t]
      BY <2>2 DEF Allocators, Sync, SignInAt, SignInInv, SignInShapes
    <3> QED
      BY <3>1, <3>2 DEF IdsBounded
  <2> QED
    BY <2>1, <2>2
<1> QED
  BY <1>1, <1>3, <1>6 DEF IdsBounded

\* Who is given an id is no longer one of those who wait for one.
LEMMA IdsAllocate ==
  ASSUME IsFiniteSet(SignIns), IsFiniteSet(Users), SignInInv, IdsBounded,
         NEW p \in SignIns, Allocate(p)
  PROVE  IdsBounded'
<1>1. Largest' = Largest /\ UNCHANGED row
  BY DEF Allocate, Largest, Made, IdsOf
<1> DEFINE t0 == boot[p].table
<1>2. t0 \in Tables /\ \A t \in Tables : sequence[t] \in Nat
  BY DEF SignInInv, SignInShapes
<1>3. /\ sequence' = [sequence EXCEPT ![t0] = @ + 1]
      /\ boot'[p].at = "insert" /\ boot'[p].table = t0 /\ boot'[p].id = sequence[t0] + 1
      /\ \A q \in SignIns : q # p => boot'[q] = boot[q]
  BY DEF Allocate, SignInGoes, SignInInv, SignInShapes
<1>4. p \in Allocators[t0] /\ Allocators'[t0] = Allocators[t0] \ {p}
  BY <1>2, <1>3 DEF Allocators, Allocate
<1>5. /\ Cardinality(Allocators'[t0]) = Cardinality(Allocators[t0]) - 1
      /\ Cardinality(Allocators'[t0]) \in Nat /\ Cardinality(Allocators[t0]) \in Nat
  <2>1. IsFiniteSet(Allocators[t0]) /\ Cardinality(Allocators[t0]) \in Nat
    BY <1>2, IdsCounted
  <2>2. Cardinality(Allocators'[t0]) = Cardinality(Allocators[t0]) - 1
    BY <1>4, <2>1, FS_RemoveElement
  <2>3. Cardinality(Allocators'[t0]) \in Nat
    BY <1>2, IdsCounted
  <2> QED
    BY <2>1, <2>2, <2>3
<1>6. sequence[t0] + Cardinality(Allocators[t0]) <= Largest[t0] + Cardinality(SignIns)
  BY <1>2 DEF IdsBounded
<1>7. ASSUME NEW t \in Tables
      PROVE  sequence'[t] + Cardinality(Allocators'[t]) <= Largest[t] + Cardinality(SignIns)
  <2>1. CASE t = t0
    <3>1. sequence'[t] = sequence[t] + 1
      BY <1>2, <1>3, <2>1 DEF SignInInv, SignInShapes
    <3> QED
      BY <1>2, <1>5, <1>6, <2>1, <3>1
  <2>2. CASE t # t0
    <3>1. sequence'[t] = sequence[t]
      BY <1>3, <2>2 DEF SignInInv, SignInShapes
    <3>2. Allocators'[t] = Allocators[t]
      BY <1>3, <2>2 DEF Allocators
    <3> QED
      BY <3>1, <3>2 DEF IdsBounded
  <2> QED
    BY <2>1, <2>2
<1>8. boot'[p].id <= Largest[t0] + Cardinality(SignIns)
  BY <1>2, <1>3, <1>5, <1>6, IdsCounted
<1>9. ASSUME NEW q \in SignIns
      PROVE  boot'[q].id <= Largest[boot'[q].table] + Cardinality(SignIns)
  <2>1. CASE q = p
    BY <1>3, <1>8, <2>1
  <2>2. CASE q # p
    <3>1. boot'[q] = boot[q]
      BY <1>3, <2>2
    <3> QED
      BY <3>1 DEF IdsBounded
  <2> QED
    BY <2>1, <2>2
<1>10. \A t \in Tables, u \in Users : row'[t][u] <= Largest[t]
  BY <1>1 DEF IdsBounded
<1> QED
  BY <1>1, <1>7, <1>9, <1>10 DEF IdsBounded

\* A row that is committed makes room for as many ids as there are requests.
LEMMA IdsCommit ==
  ASSUME IsFiniteSet(SignIns), IsFiniteSet(Users), SignInInv, SignInInv', CommitsApart,
         IdsBounded, NEW p \in SignIns, CommitRow(p)
  PROVE  IdsBounded'
<1> DEFINE t0 == boot[p].table
           u0 == boot[p].user
<1>1. /\ t0 \in Tables /\ u0 \in Users /\ row[t0][u0] = 0 /\ boot[p].id # 0 /\ boot[p].id \in Nat
      /\ sequence' = sequence
  BY DEF CommitRow, SignInInv, SignInShapes, OnItsWay, HasUser, HasId, CommitsApart, MyRow
<1>2. /\ \A t \in Tables, u \in Users :
           row'[t][u] = IF t = t0 /\ u = u0 THEN boot[p].id ELSE row[t][u]
      /\ boot'[p].at # "allocate" /\ boot'[p].id = 0
      /\ \A q \in SignIns : q # p => boot'[q] = boot[q]
  BY <1>1 DEF CommitRow, Onward, SignInGoes, NextTable, SignInInv, SignInShapes
<1>3. Made'[t0] = Made[t0] \union {u0} /\ u0 \notin Made[t0]
  BY <1>1, <1>2 DEF Made
<1>4. Cardinality(Made'[t0]) = Cardinality(Made[t0]) + 1
  BY <1>1, <1>3, IdsCounted, FS_AddElement
<1>5. Largest'[t0] = Largest[t0] + Cardinality(SignIns)
  BY <1>1, <1>4, IdsCounted, IdsGrow DEF Largest
<1>6. ASSUME NEW t \in Tables, t # t0 PROVE Largest'[t] = Largest[t]
  <2>1. Made'[t] = Made[t]
    BY <1>2, <1>6 DEF Made
  <2> QED
    BY <2>1 DEF Largest
<1>7. ASSUME NEW t \in Tables
      PROVE  /\ Largest'[t] >= Largest[t] /\ Largest[t] \in Nat /\ Largest'[t] \in Nat
             /\ Cardinality(Allocators'[t]) <= Cardinality(Allocators[t])
             /\ Cardinality(Allocators'[t]) \in Nat /\ Cardinality(Allocators[t]) \in Nat
             /\ Cardinality(SignIns) \in Nat /\ sequence[t] \in Nat
             /\ \A u \in Users : row[t][u] \in Nat
  <2>1. Allocators'[t] \subseteq Allocators[t]
    BY <1>2 DEF Allocators
  <2>2. Cardinality(Allocators'[t]) <= Cardinality(Allocators[t])
    BY <2>1, IdsCounted, FS_Subset
  <2>3. /\ Largest[t] \in Nat /\ Cardinality(SignIns) \in Nat
        /\ Cardinality(Allocators'[t]) \in Nat /\ Cardinality(Allocators[t]) \in Nat
    BY IdsCounted
  <2>4. Largest'[t] >= Largest[t] /\ Largest'[t] \in Nat
    BY <1>5, <1>6, <2>3
  <2>5. sequence[t] \in Nat /\ \A u \in Users : row[t][u] \in Nat
    BY DEF SignInInv, SignInShapes
  <2> QED
    BY <2>2, <2>3, <2>4, <2>5
<1>8. ASSUME NEW t \in Tables
      PROVE  /\ \A u \in Users : row'[t][u] <= Largest'[t]
             /\ sequence'[t] + Cardinality(Allocators'[t]) <= Largest'[t] + Cardinality(SignIns)
  <2>1. boot[p].id <= Largest'[t0]
    <3>1. boot[p].id <= Largest[t0] + Cardinality(SignIns)
      BY DEF IdsBounded
    <3> QED
      BY <1>5, <3>1
  <2>2. \A u \in Users : row'[t][u] = row[t][u] \/ (t = t0 /\ row'[t][u] = boot[p].id)
    BY <1>2
  <2>3. \A u \in Users : row[t][u] <= Largest[t]
    BY DEF IdsBounded
  <2>4. sequence[t] + Cardinality(Allocators[t]) <= Largest[t] + Cardinality(SignIns)
    BY DEF IdsBounded
  <2>5. sequence'[t] + Cardinality(Allocators'[t]) <= Largest'[t] + Cardinality(SignIns)
    <3>1. sequence'[t] = sequence[t]
      BY <1>1
    <3> QED
      BY <1>7, <2>4, <3>1
  <2>6. ASSUME NEW u \in Users PROVE row'[t][u] <= Largest'[t]
    <3>1. CASE row'[t][u] = row[t][u]
      BY <1>7, <2>3, <3>1
    <3>2. CASE t = t0 /\ row'[t][u] = boot[p].id
      BY <2>1, <3>2
    <3> QED
      BY <2>2, <3>1, <3>2
  <2> QED
    BY <2>5, <2>6
<1>9. ASSUME NEW q \in SignIns
      PROVE  boot'[q].id <= Largest'[boot'[q].table] + Cardinality(SignIns)
  <2>1. boot[q].table \in Tables /\ boot'[q].table \in Tables /\ boot[q].id \in Nat
    BY DEF SignInInv, SignInShapes
  <2>2. boot[q].id <= Largest[boot[q].table] + Cardinality(SignIns)
    BY DEF IdsBounded
  <2> QED
    BY <1>2, <1>7, <2>1, <2>2
<1> QED
  BY <1>8, <1>9 DEF IdsBounded

-----------------------------------------------------------------------------

\* An insert that was not refused is the only one of its row under way.
LEMMA CommitsStayApart ==
  ASSUME SignInInv, SignInInv', CommitsApart, NEW p \in SignIns,
         SignInStep(p) \/ SignInDies(p) \/ \E u \in Users : BeginSignIn(p, u)
  PROVE  CommitsApart'
<1>1. CASE InsertRow(p)
  <2>1. /\ UNCHANGED row
        /\ \A q \in SignIns : q # p => boot'[q] = boot[q]
        /\ boot'[p].at = "commit" =>
             /\ ~Taken(p) /\ ~Held(p)
             /\ boot'[p].table = boot[p].table /\ boot'[p].user = boot[p].user
    BY <1>1 DEF InsertRow, SignInEnds, NoSignIn, SignInAt, SignInInv, SignInShapes
  <2>2. boot'[p].at = "commit" => MyRow(p) = 0 /\ boot[p].user \in Users
    BY <1>1, <2>1 DEF Taken, InsertRow, SignInInv, OnItsWay, HasUser
  <2>3. ASSUME NEW q \in SignIns, q # p, boot'[p].at = "commit", boot'[q].at = "commit",
               boot'[p].table = boot'[q].table, boot'[p].user = boot'[q].user
        PROVE  FALSE
    BY <2>1, <2>3 DEF Held
  <2>4. ASSUME NEW q \in SignIns, boot'[q].at = "commit"
        PROVE  row'[boot'[q].table][boot'[q].user] = 0
    BY <2>1, <2>2, <2>4 DEF CommitsApart, MyRow
  <2> QED
    BY <2>1, <2>3, <2>4 DEF CommitsApart, MyRow
<1>2. CASE CommitRow(p)
  <2> DEFINE t0 == boot[p].table
             u0 == boot[p].user
  <2>1. t0 \in Tables /\ u0 \in Users /\ boot[p].at = "commit"
    BY <1>2 DEF CommitRow, SignInInv, SignInShapes, OnItsWay, HasUser
  <2>2. /\ \A t \in Tables, u \in Users :
             row'[t][u] = IF t = t0 /\ u = u0 THEN boot[p].id ELSE row[t][u]
        /\ boot'[p].at # "commit"
        /\ \A q \in SignIns : q # p => boot'[q] = boot[q]
    BY <1>2, <2>1 DEF CommitRow, Onward, SignInGoes, NextTable, SignInInv, SignInShapes
  <2>3. ASSUME NEW q \in SignIns, boot'[q].at = "commit"
        PROVE  row'[boot'[q].table][boot'[q].user] = 0
    <3>1. q # p /\ boot'[q] = boot[q] /\ boot[q].table \in Tables /\ boot[q].user \in Users
      BY <2>2, <2>3 DEF SignInInv, SignInShapes, OnItsWay, HasUser
    <3>2. ~(boot[q].table = t0 /\ boot[q].user = u0)
      BY <2>1, <2>3, <3>1 DEF CommitsApart
    <3>3. row[boot[q].table][boot[q].user] = 0
      BY <2>3, <3>1 DEF CommitsApart, MyRow
    <3> QED
      BY <2>2, <3>1, <3>2, <3>3
  <2> QED
    BY <2>2, <2>3 DEF CommitsApart, MyRow
<1>3. CASE \/ Look(p) \/ Sync(p) \/ Allocate(p) \/ LookMember(p) \/ Join(p) \/ Identify(p)
           \/ SignInDies(p) \/ \E u \in Users : BeginSignIn(p, u)
  <2>1. /\ UNCHANGED row /\ boot'[p].at # "commit"
        /\ \A q \in SignIns : q # p => boot'[q] = boot[q]
    BY <1>3 DEF Look, Found, Onward, SignInGoes, NextTable, Sync, Allocate, LookMember, Join,
                Identify, SignInDies, SignInEnds, NoSignIn, SignInAt, BeginSignIn,
                SignInInv, SignInShapes
  <2> QED
    BY <2>1 DEF CommitsApart, MyRow
<1> QED
  BY <1>1, <1>2, <1>3 DEF SignInStep

IdsInv == SignInInv /\ CommitsApart /\ IdsBounded /\ deaths \in 0 .. MaxDeaths

LEMMA IdsStep ==
  ASSUME IsFiniteSet(SignIns), IsFiniteSet(Users), MaxDeaths \in Nat, IdsInv, [BootNext]_bootVars
  PROVE  IdsInv'
<1>1. SignInInv'
  BY SignInStays DEF IdsInv
<1>2. CASE UNCHANGED bootVars
  <2>1. CommitsApart'
    BY <1>2 DEF bootVars, IdsInv, CommitsApart, MyRow
  <2>2. Largest' = Largest /\ Allocators' = Allocators
    BY <1>2 DEF bootVars, Largest, Made, IdsOf, Allocators
  <2>3. IdsBounded'
    BY <1>2, <2>2 DEF bootVars, IdsInv, IdsBounded
  <2> QED
    BY <1>1, <1>2, <2>1, <2>3 DEF bootVars, IdsInv
<1>3. ASSUME NEW p \in SignIns,
             SignInStep(p) \/ SignInDies(p) \/ \E u \in Users : BeginSignIn(p, u)
      PROVE  IdsInv'
  <2>1. CommitsApart'
    BY <1>1, <1>3, CommitsStayApart DEF IdsInv
  <2>2. (deaths \in 0 .. MaxDeaths)'
    BY <1>3 DEF IdsInv, SignInStep, Look, Sync, Allocate, InsertRow, CommitRow, LookMember, Join,
                Identify, SignInDies, BeginSignIn
  <2>3. CASE Sync(p)
    BY <1>1, <2>1, <2>2, <2>3, IdsSync DEF IdsInv
  <2>4. CASE Allocate(p)
    BY <1>1, <2>1, <2>2, <2>4, IdsAllocate DEF IdsInv
  <2>5. CASE CommitRow(p)
    BY <1>1, <2>1, <2>2, <2>5, IdsCommit DEF IdsInv
  <2>6. CASE \/ Look(p) \/ InsertRow(p) \/ LookMember(p) \/ Join(p) \/ Identify(p)
             \/ SignInDies(p) \/ \E u \in Users : BeginSignIn(p, u)
    <3>1. /\ UNCHANGED <<sequence, row>> /\ boot'[p].at # "allocate"
          /\ boot'[p].id = 0 \/ (boot'[p].id = boot[p].id /\ boot'[p].table = boot[p].table)
          /\ \A q \in SignIns : q # p => boot'[q] = boot[q]
      BY <2>6 DEF Look, Found, Onward, SignInGoes, NextTable, InsertRow, LookMember, Join,
                  Identify, SignInDies, SignInEnds, NoSignIn, SignInAt, BeginSignIn,
                  IdsInv, SignInInv, SignInShapes
    <3>2. IdsBounded'
      BY <1>1, <3>1, IdsWait DEF IdsInv
    <3> QED
      BY <1>1, <2>1, <2>2, <3>2 DEF IdsInv
  <2> QED
    BY <1>3, <2>3, <2>4, <2>5, <2>6 DEF SignInStep
<1> QED
  BY <1>2, <1>3 DEF BootNext

\* The ids stay below MaxId: a request is given the id of a row that is committed, or one
\* of those just beyond, and no table has more rows than there are users.
LEMMA IdsWithinTypes ==
  ASSUME IsFiniteSet(SignIns), IsFiniteSet(Users), IdsInv
  PROVE  BootTypeOK
<1>1. \A t \in Tables :
        /\ Largest[t] \in Nat /\ Cardinality(SignIns) \in Nat /\ MaxId \in Nat
        /\ Largest[t] + Cardinality(SignIns) <= MaxId
        /\ Cardinality(Allocators[t]) \in Nat
  <2>1. IdsOf(Cardinality(Users) + 1) = MaxId
    BY DEF IdsOf, MaxId
  <2>2. Cardinality(Users) \in Nat /\ Cardinality(Users) + 1 \in Nat
    BY FS_CardinalityType
  <2>3. MaxId \in Nat
    BY <2>1, <2>2, IdsGrow
  <2> QED
    BY <2>3, IdsCounted
<1>2. \A t \in Tables : sequence[t] \in 0 .. MaxId
  BY <1>1 DEF IdsInv, IdsBounded, SignInInv, SignInShapes
<1>3. ASSUME NEW t \in Tables, NEW u \in Users PROVE row[t][u] \in 0 .. MaxId
  <2>1. row[t][u] \in Nat /\ row[t][u] <= Largest[t]
    BY DEF IdsInv, IdsBounded, SignInInv, SignInShapes
  <2> QED
    BY <1>1, <2>1
<1>4. ASSUME NEW p \in SignIns PROVE boot[p].id \in 0 .. MaxId
  <2>1. /\ boot[p].table \in Tables /\ boot[p].id \in Nat
        /\ boot[p].id <= Largest[boot[p].table] + Cardinality(SignIns)
    BY DEF IdsInv, IdsBounded, SignInInv, SignInShapes
  <2> QED
    BY <1>1, <2>1
<1>5. boot \in [SignIns -> [at : SignInPlaces, user : Users \union {NoUser}, table : Tables,
                           id : 0 .. MaxId]]
  BY <1>4 DEF IdsInv, SignInInv, SignInShapes
<1> QED
  BY <1>2, <1>3, <1>5 DEF BootTypeOK, IdsInv, SignInInv, SignInShapes, SignInPlaces

\* Every variable of Bootstrap has its type, and no id is beyond MaxId: one id for each
\* request and each row that the users can have, and one more round.
THEOREM BootTypes ==
  ASSUME IsFiniteSet(SignIns), IsFiniteSet(Users), MaxDeaths \in Nat
  PROVE  BootSpec => []BootTypeOK
<1>1. BootInit => IdsInv
  <2> SUFFICES ASSUME BootInit PROVE IdsInv
    OBVIOUS
  <2>1. SignInInv
    BY SignInBegins
  <2>2. CommitsApart /\ deaths \in 0 .. MaxDeaths
    BY DEF BootInit, CommitsApart, NoSignIn
  <2>3. \A t \in Tables : Allocators[t] = {}
    BY DEF BootInit, Allocators, NoSignIn, Tables
  <2>4. \A t \in Tables : Cardinality(Allocators[t]) = 0
    BY <2>3, FS_EmptySet
  <2>5. \A t \in Tables : Largest[t] \in Nat /\ Cardinality(SignIns) \in Nat
    BY <2>1, IdsCounted
  <2>6. /\ \A t \in Tables : sequence[t] = 0 /\ \A u \in Users : row[t][u] = 0
        /\ \A p \in SignIns : boot[p].id = 0 /\ boot[p].table \in Tables
    BY DEF BootInit, NoSignIn, Tables
  <2>7. IdsBounded
    BY <2>4, <2>5, <2>6 DEF IdsBounded
  <2> QED
    BY <2>1, <2>2, <2>7 DEF IdsInv
<1>2. IdsInv /\ [BootNext]_bootVars => IdsInv'
  BY IdsStep
<1>3. IdsInv => BootTypeOK
  BY IdsWithinTypes
<1> QED
  BY <1>1, <1>2, <1>3, PTL DEF BootSpec
=============================================================================
