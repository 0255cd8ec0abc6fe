------------------------------ MODULE MCProviders ------------------------------
(***************************************************************************)
(* Small instances for TLC of the modules about what comes from exchanges  *)
(* and chains and how it is read.  They share no state: a behaviour is one *)
(* of one part, and the other parts stay in an initial state.              *)
(***************************************************************************)
EXTENDS BalanceSources, BalanceRefresh, HotResponseCache, Transactions, ExchangeCalls, TLC

CONSTANTS
  r1, r2,    \* requests
  w1,        \* a request that writes
  k1, k2,    \* keys of the cache
  o1, x      \* an organization, a service

\* Buckets of two seconds: the first two share their fetch, the others have another bucket,
\* another account and limit.
SomeQueries ==
  {[account |-> "a1", since |-> 0, limit |-> 100], [account |-> "a1", since |-> 1, limit |-> 100],
   [account |-> "a1", since |-> 2, limit |-> 100], [account |-> "a2", since |-> 1, limit |-> 50]}

VARIABLE part

providersVars == <<part, cacheVars, callVars, sourceVars, refreshVars, txVars>>

\* A source that is not read.
AtRest ==
  /\ source = CHOOSE s \in Sources : TRUE
  /\ truth = CHOOSE t \in Truths(source) : TRUE

ProvidersInit ==
  /\ part \in {"cache", "calls", "sources", "refresh", "transactions"}
  /\ IF part = "sources" THEN Init ELSE AtRest /\ Init
  /\ CacheInit /\ CallsInit /\ TxInit
  \* Both what is an outlier to it and what is not can follow.
  /\ holding = [t \in Targets |-> 2] /\ RefreshInit

ProvidersNext ==
  \/ /\ part = "cache" /\ CacheNext
     /\ UNCHANGED <<part, callVars, sourceVars, refreshVars, txVars>>
  \/ /\ part = "calls" /\ CallsNext
     /\ UNCHANGED <<part, cacheVars, sourceVars, refreshVars, txVars>>
  \/ /\ part = "sources" /\ Next
     /\ UNCHANGED <<part, cacheVars, callVars, refreshVars, txVars>>
  \/ /\ part = "refresh" /\ RefreshNext
     /\ UNCHANGED <<part, cacheVars, callVars, sourceVars, txVars>>
  \/ /\ part = "transactions" /\ TxNext
     /\ UNCHANGED <<part, cacheVars, callVars, sourceVars, refreshVars>>

\* Requests are alike in every part.
Alike == Permutations({r1, r2})

ProvidersSpec == ProvidersInit /\ [][ProvidersNext]_providersVars
=============================================================================
