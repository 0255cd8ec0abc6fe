-------------------------- MODULE IntegrationLimits --------------------------
(***************************************************************************)
(* The integrations of an organization under the limit of its plan:        *)
(* IntegrationService, app/services/integration_service.py, with           *)
(* ensure_can_create_integration, app/services/entitlements_service.py.    *)
(*                                                                         *)
(* The limit, the search for a duplicate and the insert are statements of  *)
(* their own: requests interleave between them.  The integrations counted  *)
(* here are those of one kind (exchange accounts, or wallets).             *)
(***************************************************************************)
EXTENDS Integers, FiniteSets

CONSTANTS
  Accounts,     \* the identities: exchange and account_ref, or chain and address
  RowIds,          \* bound: rows of table integrations
  Creators, Absent,
  Limits        \* max_cex_accounts or max_wallets of the plans

ASSUME LimitsAssumption ==
  /\ IsFiniteSet(RowIds) /\ Absent \notin Accounts \union RowIds
  /\ IsFiniteSet(Creators) /\ Creators # {}
  /\ Limits \in SUBSET Nat

VARIABLES
  limit,        \* of the plan at this moment
  peak,         \* history: the largest limit so far
  account,      \* table integrations: the account of a row, Absent: no row
  active,       \* ... is_active
  creation      \* the requests that create or activate

limitVars == <<limit, peak, account, active, creation>>

NoCreation == [at |-> "idle", account |-> Absent, id |-> Absent]

LimitsTypeOK ==
  /\ limit \in Limits /\ peak \in Limits
  /\ account \in [RowIds -> Accounts \union {Absent}] /\ active \in SUBSET RowIds
  /\ creation \in [Creators -> [at : {"idle", "allowed", "insert", "activate"},
                                account : Accounts \union {Absent}, id : RowIds \union {Absent}]]

LimitsInit ==
  /\ limit \in Limits /\ peak = limit
  /\ account = [i \in RowIds |-> Absent] /\ active = {}
  /\ creation = [r \in Creators |-> NoCreation]

\* ensure_can_create_integration.
MayCreate == Cardinality(active) < limit

CreationIs(r, record) == creation' = [creation EXCEPT ![r] = record]

Create(r, a) ==
  /\ creation[r] = NoCreation /\ MayCreate
  /\ CreationIs(r, [at |-> "allowed", account |-> a, id |-> Absent])
  /\ UNCHANGED <<limit, peak, account, active>>

HasDuplicate(a) == \E i \in active : account[i] = a

\* 409 for an account that is active already.
FindDuplicate(r) ==
  /\ creation[r].at = "allowed"
  /\ IF HasDuplicate(creation[r].account) THEN CreationIs(r, NoCreation)
     ELSE creation' = [creation EXCEPT ![r].at = "insert"]
  /\ UNCHANGED <<limit, peak, account, active>>

InsertIntegration(r) ==
  /\ creation[r].at = "insert"
  /\ \E i \in RowIds :
       /\ account[i] = Absent /\ \A q \in Creators : creation[q].id # i   \* ids are not used again
       /\ account' = [account EXCEPT ![i] = creation[r].account]
       /\ active' = active \union {i}
  /\ CreationIs(r, NoCreation)
  /\ UNCHANGED <<limit, peak>>

\* Faulty: what was created once may be activated.
Always(i) == TRUE

MayActivate(i) == MayCreate

\* activate_integration: no duplicate is looked for.  For one that is active nothing changes.
Activate(r, i) ==
  /\ creation[r] = NoCreation /\ account[i] # Absent /\ i \notin active /\ MayActivate(i)
  /\ CreationIs(r, [at |-> "activate", account |-> Absent, id |-> i])
  /\ UNCHANGED <<limit, peak, account, active>>

\* A row that was deleted meanwhile makes the commit fail.
CommitActive(r) ==
  /\ creation[r].at = "activate"
  /\ active' = IF account[creation[r].id] # Absent THEN active \union {creation[r].id} ELSE active
  /\ CreationIs(r, NoCreation)
  /\ UNCHANGED <<limit, peak, account>>

Deactivate(i) ==
  /\ account[i] # Absent /\ active' = active \ {i}
  /\ UNCHANGED <<limit, peak, account, creation>>

Delete(i) ==
  /\ account[i] # Absent
  /\ account' = [account EXCEPT ![i] = Absent] /\ active' = active \ {i}
  /\ UNCHANGED <<limit, peak, creation>>

\* Another plan: nothing is deactivated.
SwitchPlan ==
  /\ \E l \in Limits \ {limit} : limit' = l /\ peak' = IF l > peak THEN l ELSE peak
  /\ UNCHANGED <<account, active, creation>>

CreationDies(r) ==
  /\ creation[r].at # "idle" /\ CreationIs(r, NoCreation)
  /\ UNCHANGED <<limit, peak, account, active>>

LimitsNext ==
  \/ SwitchPlan
  \/ \E i \in RowIds : Deactivate(i) \/ Delete(i)
  \/ \E r \in Creators :
       \/ \E a \in Accounts : Create(r, a)
       \/ \E i \in RowIds : Activate(r, i)
       \/ FindDuplicate(r) \/ InsertIntegration(r) \/ CommitActive(r) \/ CreationDies(r)

LimitsSpec == LimitsInit /\ [][LimitsNext]_limitVars

-----------------------------------------------------------------------------
(* Properties.                                                               *)

\* An organization exceeds the largest limit it ever had only by as many integrations
\* as requests ran at one time with the one that took the last place.
WithinLimit == Cardinality(active) <= peak + Cardinality(Creators) - 1
=============================================================================
