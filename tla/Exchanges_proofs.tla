--------------------------- MODULE Exchanges_proofs ---------------------------
(***************************************************************************)
(* Proofs about what the workers do with the accounts: queries of one key *)
(* share one fetch at a time and the calls of an operation are bounded     *)
(* (ExchangeCalls), what a refresh of transactions reports as saved is     *)
(* stored (Transactions), for any number of callers, queries, fetches,     *)
(* limiter entries, refreshes and transactions, and a balance from which   *)
(* an account is missing says so (BalanceSources), for every source.       *)
(***************************************************************************)
EXTENDS ExchangeCalls, Transactions, BalanceSources, FiniteSetTheorems, SequenceTheorems, TLAPS

-----------------------------------------------------------------------------
(* ExchangeCalls.  The invariant has a half for each.  Flights: a fetch that*)
(* runs for its leader is the one in the map.  Limits: a fetch holds the entry*)
(* that is current for its operation, because an entry is dropped only when it*)
(* is idle and counts no call, and what is under an idle entry is a call that*)
(* it counts; so the permits that are out bound the calls.                 *)

\* The fetch t is one of a query under the key f.
Fetches(t, f) ==
  task[t].at # "free" /\ task[t].query \in Queries /\ FlightKey(task[t].query) = f

\* A fetch that runs for its leader is the one in the map; what is in the map, and what
\* a caller waits for, is a fetch under the key it is meant for.
Flights ==
  /\ \A t \in Tasks : IsRunning(t) /\ ~task[t].orphan =>
                        /\ task[t].query \in Queries
                                /\ inflight[FlightKey(task[t].query)] = t
  /\ \A f \in FlightKeys : inflight[f] # NoTask => Fetches(inflight[f], f)
  /\ \A c \in Callers : caller[c].at = "waiting" =>
       /\ caller[c].query \in Queries
       /\ caller[c].task # NoTask /\ Fetches(caller[c].task, FlightKey(caller[c].query))
  /\ \A t \in Tasks : task[t].at # "cancelled"

UnderLimit == {"acquiring", "queued", "acquired", "calling"}

\* Of the fetches K, those that call, and those that hold a permit, under an entry.
CallingUnder(K, e) == {t \in Tasks : K[t].entry = e /\ K[t].at = "calling"}
HoldingUnder(K, e) == {t \in Tasks : K[t].entry = e /\ K[t].at \in {"acquired", "calling"}}

\* A fetch refers to the current entry of its operation, which is that of no other one.
Current(K, L) ==
  /\ \A t \in Tasks : /\ K[t].at \in UnderLimit <=> K[t].entry # NoEntry
                      /\ K[t].entry # NoEntry => K[t].entry = L[Calls[K[t].call]]
  /\ \A o, p \in Operations : L[o] = L[p] /\ L[o] # NoEntry => o = p

\* What stands in the queue of an entry waits there, once.
Queued(K, w, e) ==
  /\ \A i \in 1 .. Len(w) : K[w[i]].at = "queued" /\ K[w[i]].entry = e
  /\ \A i, j \in 1 .. Len(w) : w[i] = w[j] => i = j

\* The counts of an entry are those of the fetches under it.
Counts(K, l, e) ==
  /\ l.inFlight = Cardinality(CallingUnder(K, e))
  /\ l.permits + Cardinality(HoldingUnder(K, e)) = Parallelism
  /\ l.idle => \A t \in Tasks : K[t].entry = e => K[t].at = "calling"

EntryOK(K, l, e) == Queued(K, l.waiters, e) /\ Counts(K, l, e)

Limits ==
  /\ Current(task, limiter)
  /\ \A e \in Limiters : EntryOK(task, entry[e], e) /\ (~Held(e) => entry[e] = Fresh)

CallsInv == CallsTypeOK /\ Flights /\ Limits

LooseType == [permits : Nat, waiters : Seq(Tasks), inFlight : Nat, idle : BOOLEAN]
LimitType == [permits : 0 .. Parallelism, waiters : Seq(Tasks), inFlight : 0 .. MaxTasks,
              idle : BOOLEAN]

-----------------------------------------------------------------------------
(* The fetches under an entry.                                               *)

\* The fetches under an entry are finitely many, at most all.
LEMMA FewFetches ==
  ASSUME CallsAssumption, NEW K, NEW e
  PROVE  /\ IsFiniteSet(CallingUnder(K, e)) /\ IsFiniteSet(HoldingUnder(K, e))
         /\ Cardinality(CallingUnder(K, e)) \in 0 .. MaxTasks
         /\ Cardinality(HoldingUnder(K, e)) \in 0 .. MaxTasks
         /\ Cardinality(CallingUnder(K, e)) <= Cardinality(HoldingUnder(K, e))
<1>1. 1 \in Int /\ MaxTasks \in Int /\ MaxTasks \in Nat
  BY DEF CallsAssumption
<1>2. IsFiniteSet(Tasks) /\ Cardinality(Tasks) = MaxTasks
  <2>1. IsFiniteSet(1 .. MaxTasks)
        /\ Cardinality(1 .. MaxTasks) = IF 1 > MaxTasks THEN 0 ELSE MaxTasks - 1 + 1
    BY <1>1, FS_Interval
  <2> QED  BY <1>1, <2>1 DEF Tasks
<1>3. CallingUnder(K, e) \subseteq HoldingUnder(K, e) /\ HoldingUnder(K, e) \subseteq Tasks
  BY DEF CallingUnder, HoldingUnder
<1>4. IsFiniteSet(HoldingUnder(K, e))
      /\ Cardinality(HoldingUnder(K, e)) <= Cardinality(Tasks)
  BY <1>2, <1>3, FS_Subset
<1>5. IsFiniteSet(CallingUnder(K, e))
      /\ Cardinality(CallingUnder(K, e)) <= Cardinality(HoldingUnder(K, e))
  BY <1>3, <1>4, FS_Subset
<1>6. Cardinality(CallingUnder(K, e)) \in Nat /\ Cardinality(HoldingUnder(K, e)) \in Nat
  BY <1>4, <1>5, FS_CardinalityType
<1> QED  BY <1>1, <1>2, <1>4, <1>5, <1>6

\* Right counts are within their bounds.
LEMMA CountsBounded ==
  ASSUME CallsAssumption, NEW K, NEW e, NEW l \in LooseType, Counts(K, l, e)
  PROVE  l \in LimitType
<1>1. Cardinality(CallingUnder(K, e)) \in 0 .. MaxTasks
      /\ Cardinality(HoldingUnder(K, e)) \in 0 .. MaxTasks
  BY FewFetches
<1>2. l.permits \in Nat /\ l.inFlight \in Nat /\ Parallelism \in Nat /\ MaxTasks \in Nat
  BY DEF LooseType, CallsAssumption
<1>3. l.permits \in 0 .. Parallelism
  BY <1>1, <1>2 DEF Counts
<1>4. l.inFlight \in 0 .. MaxTasks
  BY <1>1 DEF Counts
<1> QED  BY <1>3, <1>4 DEF LooseType, LimitType

\* An entry is right as long as the fetches that call, hold or wait under it are the same.
LEMMA KeptEntry ==
  ASSUME NEW K, NEW J, NEW e, NEW l \in LooseType, NEW m \in LooseType, EntryOK(K, l, e),
         m.permits = l.permits, m.waiters = l.waiters, m.inFlight = l.inFlight,
         m.idle => \A t \in Tasks : J[t].entry = e => J[t].at = "calling",
         \A t \in Tasks : K[t].entry = e /\ K[t].at # "acquiring"
                            => J[t].entry = e /\ J[t].at = K[t].at,
         \A t \in Tasks : J[t].entry = e /\ J[t].at # "acquiring"
                            => K[t].entry = e /\ K[t].at = J[t].at
  PROVE  EntryOK(J, m, e)
<1>1. CallingUnder(J, e) = CallingUnder(K, e)
  BY DEF CallingUnder
<1>2. HoldingUnder(J, e) = HoldingUnder(K, e)
  BY DEF HoldingUnder
<1>3. Counts(J, m, e)
  BY <1>1, <1>2 DEF Counts, EntryOK
<1>4. \A i \in 1 .. Len(l.waiters) : l.waiters[i] \in Tasks
  BY DEF LooseType
<1>5. Queued(J, m.waiters, e)
  BY <1>4 DEF Queued, EntryOK
<1> QED  BY <1>3, <1>5 DEF EntryOK

\* A new entry is right when nothing is under it.
LEMMA FreshEntry ==
  ASSUME CallsAssumption, NEW K, NEW e, \A t \in Tasks : K[t].entry # e
  PROVE  EntryOK(K, Fresh, e) /\ Fresh \in LooseType
<1>1. CallingUnder(K, e) = {} /\ HoldingUnder(K, e) = {}
  BY DEF CallingUnder, HoldingUnder
<1>2. Cardinality({}) = 0
  BY FS_EmptySet
<1>3. Fresh.permits = Parallelism /\ Fresh.inFlight = 0 /\ Fresh.idle = FALSE /\ Fresh.waiters = <<>>
  BY DEF Fresh
<1>4. Counts(K, Fresh, e)
  BY <1>1, <1>2, <1>3 DEF Counts, CallsAssumption
<1>5. Queued(K, Fresh.waiters, e)
  BY <1>3 DEF Queued
<1>6. Fresh \in LooseType
  BY DEF Fresh, LooseType, CallsAssumption
<1> QED  BY <1>4, <1>5, <1>6 DEF EntryOK

-----------------------------------------------------------------------------
(* What a step owes.                                                         *)

\* J is K without fetches that have ended and that nobody can reach.
Forgets(J, K, callers, flights) ==
  \A t \in Tasks :
    \/ J[t] = K[t]
    \/ /\ J[t] = NoFetch /\ K[t].at \in {"done", "cancelled"}
       /\ \A c \in Callers : callers[c].task # t
       /\ \A f \in FlightKeys : flights[f] # t

\* This is what Collected computes.
LEMMA CollectedForgets ==
  ASSUME NEW K \in [Tasks -> FetchType], NEW callers, NEW flights
  PROVE  /\ Collected(callers, flights, K) \in [Tasks -> FetchType]
         /\ Forgets(Collected(callers, flights, K), K, callers, flights)
<1>1. NoFetch \in FetchType
  BY DEF NoFetch, FetchType, NoEntry, Calls
<1> QED  BY <1>1 DEF Collected, Forgets

\* NoFetch refers to nothing.
LEMMA AboutNoFetch ==
  NoFetch.at = "free" /\ NoFetch.entry = NoEntry /\ NoFetch.call = 1 /\ NoFetch.orphan = FALSE
BY DEF NoFetch

\* The limits hold after a step if they do for its fetches before the ended ones are
\* forgotten, and for its entries before those that nothing refers to are dropped.
LEMMA LimitStep ==
  ASSUME CallsAssumption, NEW K \in [Tasks -> FetchType], NEW X \in [Limiters -> LooseType],
         NEW callers, NEW flights, task' \in [Tasks -> FetchType],
         Forgets(task', K, callers, flights), Current(K, limiter'),
         limiter' \in [Operations -> Limiters \union {NoEntry}],
         \A e \in Limiters : Refers(limiter', K, e) => EntryOK(K, X[e], e),
         entry' = [e \in Limiters |-> IF Refers(limiter', task', e) THEN X[e] ELSE Fresh]
  PROVE  Limits' /\ entry' \in [Limiters -> LimitType]
<1> DEFINE J == task'
           M == limiter'
<1>1. ASSUME NEW t \in Tasks
      PROVE  /\ J[t].entry = K[t].entry
             /\ J[t].entry # NoEntry => J[t].at = K[t].at /\ J[t].call = K[t].call
             /\ J[t].entry = NoEntry => J[t].at \notin UnderLimit
  BY AboutNoFetch DEF Forgets, Current, UnderLimit
<1>2. 0 \notin Limiters
  BY DEF Limiters, CallsAssumption
<1>3. Current(J, M)
  <2>1. \A o, p \in Operations : M[o] = M[p] /\ M[o] # NoEntry => o = p
    BY DEF Current
  <2>2. ASSUME NEW t \in Tasks
        PROVE  /\ J[t].at \in UnderLimit <=> J[t].entry # NoEntry
               /\ J[t].entry # NoEntry => J[t].entry = M[Calls[J[t].call]]
    <3>1. CASE J[t].entry = NoEntry
      BY <3>1, <1>1
    <3>2. CASE J[t].entry # NoEntry
      <4>1. /\ K[t].entry # NoEntry /\ J[t].at = K[t].at /\ J[t].call = K[t].call
            /\ J[t].entry = K[t].entry
        BY <3>2, <1>1
      <4>2. K[t].at \in UnderLimit /\ K[t].entry = M[Calls[K[t].call]]
        BY <4>1 DEF Current
      <4> QED  BY <3>2, <4>1, <4>2
    <3> QED  BY <3>1, <3>2
  <2> HIDE DEF J, M
  <2> QED  BY <2>1, <2>2 DEF Current
<1> HIDE DEF J, M
<1>4. \A e \in Limiters : Refers(M, J, e) <=> Refers(M, K, e)
  BY <1>1 DEF Refers
<1>5. ASSUME NEW e \in Limiters, Refers(M, J, e)
      PROVE  EntryOK(J, X[e], e)
  <2>1. EntryOK(K, X[e], e)
    BY <1>4, <1>5 DEF M
  <2>2. \A t \in Tasks : (J[t].entry = e <=> K[t].entry = e) /\ (K[t].entry = e => J[t].at = K[t].at)
    BY <1>1, <1>2 DEF NoEntry
  <2>3. X[e].idle => \A t \in Tasks : J[t].entry = e => J[t].at = "calling"
    BY <2>1, <2>2 DEF EntryOK, Counts
  <2> QED  BY <2>1, <2>2, <2>3, KeptEntry
<1>6. ASSUME NEW e \in Limiters
      PROVE  /\ EntryOK(J, entry'[e], e) /\ entry'[e] \in LooseType
             /\ ~Refers(M, J, e) => entry'[e] = Fresh
  <2>1. CASE Refers(M, J, e)
    BY <1>5, <2>1 DEF J, M
  <2>2. CASE ~Refers(M, J, e)
    <3>1. entry'[e] = Fresh
      BY <2>2 DEF J, M
    <3>2. \A t \in Tasks : J[t].entry # e
      BY <2>2 DEF Refers
    <3> QED  BY <3>1, <3>2, FreshEntry
  <2> QED  BY <2>1, <2>2
<1>7. \A e \in Limiters : entry'[e] \in LimitType
  BY <1>6, CountsBounded DEF EntryOK
<1>8. entry' \in [Limiters -> LimitType]
  BY <1>7
<1>9. Limits'
  BY <1>3, <1>6 DEF Limits, Held, J, M
<1> QED  BY <1>8, <1>9

\* The fetches K are those of the queries they were of; they may have ended.
SameFlights(K) ==
  \A t \in Tasks :
    /\ K[t].query = task[t].query /\ K[t].orphan = task[t].orphan
    /\ K[t].at = "free" <=> task[t].at = "free"
    /\ K[t].at \notin {"free", "done"} => IsRunning(t)
    /\ K[t].at # "cancelled"

\* The flights are right after a step of a fetch, or of the limiter.
LEMMA FlightStep ==
  ASSUME Flights, CallsTypeOK, NEW K \in [Tasks -> FetchType],
         UNCHANGED <<caller, inflight>>,
         Forgets(task', K, caller, inflight),
         SameFlights(K)
  PROVE  Flights'
<1>1. ASSUME NEW t \in Tasks
      PROVE  /\ task'[t].at # "free" => /\ task[t].at # "free"
                                        /\ task'[t].query = task[t].query
                                        /\ task'[t].orphan = task[t].orphan
             /\ task'[t].at \notin {"free", "done"} => IsRunning(t)
             /\ task'[t].at # "cancelled"
             /\ (\E c \in Callers : caller[c].task = t) \/ (\E f \in FlightKeys : inflight[f] = t)
                  => task'[t] = K[t]
  BY AboutNoFetch DEF Forgets, SameFlights
<1>2. ASSUME NEW t \in Tasks, task'[t].at \notin {"free", "done", "cancelled"}, ~task'[t].orphan
      PROVE  task'[t].query \in Queries /\ inflight'[FlightKey(task'[t].query)] = t
  BY <1>1, <1>2 DEF Flights
<1>3. ASSUME NEW t \in Tasks, NEW f, Fetches(t, f), task'[t] = K[t]
      PROVE  Fetches(t, f)'
  <2>1. task'[t].at # "free" /\ task'[t].query = task[t].query
    BY <1>3 DEF SameFlights, Fetches
  <2> QED  BY <1>3, <2>1 DEF Fetches
<1>4. ASSUME NEW f \in FlightKeys, inflight'[f] # NoTask
      PROVE  Fetches(inflight[f], f)'
  <2>1. inflight[f] \in Tasks /\ Fetches(inflight[f], f)
    BY <1>4 DEF CallsTypeOK, Flights
  <2>2. task'[inflight[f]] = K[inflight[f]]
    BY <1>1, <2>1
  <2>3. Fetches(inflight[f], f)'
    <3> DEFINE t == inflight[f]
    <3>1. t \in Tasks /\ t' = t /\ Fetches(t, f) /\ task'[t] = K[t]
      BY <2>1, <2>2
    <3>2. task'[t].at # "free" /\ task'[t].query = task[t].query
      BY <3>1 DEF SameFlights, Fetches
    <3> QED  BY <3>1, <3>2 DEF Fetches
  <2> QED  BY <2>3
<1>5. ASSUME NEW c \in Callers, caller'[c].at = "waiting"
      PROVE  /\ caller'[c].query \in Queries /\ caller'[c].task # NoTask
             /\ Fetches(caller[c].task, FlightKey(caller[c].query))'
  <2> DEFINE t == caller[c].task
  <2>1. caller'[c] = caller[c] /\ caller[c].at = "waiting"
    BY <1>5
  <2>2. caller[c].query \in Queries /\ t # NoTask /\ Fetches(t, FlightKey(caller[c].query))
    BY <2>1 DEF Flights
  <2>3. t \in Tasks
    BY <2>2 DEF CallsTypeOK, CallerType
  <2>4. task'[t] = K[t]
    BY <1>1, <2>3
  <2>5. task'[t].at # "free" /\ task'[t].query = task[t].query
    BY <2>2, <2>3, <2>4 DEF SameFlights, Fetches
  <2> QED  BY <2>1, <2>2, <2>5 DEF Fetches
<1>6. \A t \in Tasks : task'[t].at # "cancelled"
  BY <1>1
<1> QED  BY <1>2, <1>4, <1>5, <1>6 DEF Flights, IsRunning, Ended

-----------------------------------------------------------------------------
(* The steps of a fetch.                                                     *)

\* A fetch, as the invariant describes it.
LEMMA OfTask ==
  ASSUME CallsAssumption, CallsInv, NEW t \in Tasks
  PROVE  /\ task[t] \in FetchType /\ task[t].call \in DOMAIN Calls /\ Operation(t) \in Operations
         /\ task[t].at \in UnderLimit <=> task[t].entry # NoEntry
         /\ task[t].entry # NoEntry => /\ task[t].entry \in Limiters
                                       /\ task[t].entry = limiter[Operation(t)]
                                       /\ EntryOK(task, entry[task[t].entry], task[t].entry)
         /\ task[t].at # "cancelled"
<1>1. task[t] \in FetchType /\ task[t].call \in DOMAIN Calls
  BY DEF CallsInv, CallsTypeOK, FetchType
<1>2. Operation(t) \in Operations
  BY <1>1 DEF Operation, Operations
<1>3. task[t].entry \in Limiters \union {NoEntry}
  BY <1>1 DEF FetchType
<1> QED  BY <1>1, <1>2, <1>3 DEF CallsInv, Limits, Current, Flights, Operation

\* The entries are typed, as the invariant says.
LEMMA OfEntry ==
  ASSUME CallsInv, NEW e \in Limiters
  PROVE  /\ entry[e] \in LimitType /\ entry[e] \in LooseType
         /\ EntryOK(task, entry[e], e) /\ (~Held(e) => entry[e] = Fresh)
  BY DEF CallsInv, CallsTypeOK, Limits, LimitType, LooseType

\* Nothing is under an entry that may be pruned.
LEMMA NobodyUnder ==
  ASSUME CallsAssumption, CallsInv, NEW e \in Limiters, Prunable(e), NEW t \in Tasks
  PROVE  task[t].entry # e
<1> SUFFICES ASSUME task[t].entry = e PROVE FALSE
  OBVIOUS
<1>1. EntryOK(task, entry[e], e)
  BY OfEntry
<1>2. t \in CallingUnder(task, e)
  BY <1>1 DEF Prunable, EntryOK, Counts, CallingUnder
<1>3. IsFiniteSet(CallingUnder(task, e)) /\ Cardinality(CallingUnder(task, e)) = 0
  BY <1>1, FewFetches DEF Prunable, EntryOK, Counts
<1>4. CallingUnder(task, e) = {}
  BY <1>3, FS_EmptySet
<1> QED  BY <1>2, <1>4

\* The entry of a fetch is not pruned, and that of another operation is another one.
LEMMA NotPruned ==
  ASSUME CallsAssumption, CallsInv, NEW t \in Tasks, task[t].entry # NoEntry
  PROVE  Pruned(Operation(t)) = limiter[Operation(t)]
<1>1. task[t].entry \in Limiters /\ task[t].entry = limiter[Operation(t)]
  BY OfTask
<1>2. ~Prunable(task[t].entry)
  BY <1>1, NobodyUnder
<1> QED  BY <1>1, <1>2 DEF Pruned

\* After the pruning of the other operations the entries are still current for fetches
\* that keep their entry or have none any more.
LEMMA PrunedCurrent ==
  ASSUME CallsAssumption, CallsInv, NEW o \in Operations, NEW K \in [Tasks -> FetchType],
         \A s \in Tasks : \/ K[s].entry = NoEntry /\ K[s].at \notin UnderLimit
                          \/ /\ K[s].entry = task[s].entry /\ K[s].call = task[s].call
                             /\ task[s].entry # NoEntry /\ K[s].at \in UnderLimit
  PROVE  /\ Current(K, PrunedButFor(o))
         /\ PrunedButFor(o) \in [Operations -> Limiters \union {NoEntry}]
<1>1. \A p \in Operations : Pruned(p) \in {limiter[p], NoEntry}
                             /\ limiter[p] \in Limiters \union {NoEntry}
  BY DEF Pruned, CallsInv, CallsTypeOK
<1>2. PrunedButFor(o) \in [Operations -> Limiters \union {NoEntry}]
      /\ \A p \in Operations : PrunedButFor(o)[p] \in {limiter[p], NoEntry}
  BY <1>1 DEF PrunedButFor
<1>3. \A p, q \in Operations : limiter[p] = limiter[q] /\ limiter[p] # NoEntry => p = q
  BY DEF CallsInv, Limits, Current
<1>4. \A p, q \in Operations :
        PrunedButFor(o)[p] = PrunedButFor(o)[q] /\ PrunedButFor(o)[p] # NoEntry => p = q
  BY <1>2, <1>3
<1>5. ASSUME NEW s \in Tasks, K[s].entry # NoEntry
      PROVE  K[s].entry = PrunedButFor(o)[Calls[K[s].call]]
  <2>1. /\ K[s].entry = task[s].entry /\ Calls[K[s].call] = Operation(s) /\ task[s].entry # NoEntry
        /\ Operation(s) \in Operations /\ task[s].entry = limiter[Operation(s)]
    BY <1>5, OfTask DEF Operation
  <2>2. Pruned(Operation(s)) = limiter[Operation(s)]
    BY <2>1, NotPruned
  <2> QED  BY <2>1, <2>2 DEF PrunedButFor
<1>6. \A s \in Tasks : K[s].at \in UnderLimit <=> K[s].entry # NoEntry
  OBVIOUS
<1> QED  BY <1>2, <1>4, <1>5, <1>6 DEF Current

\* How a fetch goes on is typed, and says what it says.
LEMMA AboutCalling ==
  ASSUME NEW k \in FetchType, NEW at \in UnderLimit \union {"done"},
         NEW e \in Limiters \union {NoEntry}
  PROVE  /\ Calling(k, at, e) \in FetchType
         /\ Calling(k, at, e).at = at /\ Calling(k, at, e).entry = e
         /\ Calling(k, at, e).call = k.call /\ Calling(k, at, e).query = k.query
         /\ Calling(k, at, e).orphan = k.orphan
  BY DEF Calling, FetchType, UnderLimit

\* What follows a call is the next one or the end, under no entry.
LEMMA AboutNextCall ==
  ASSUME NEW k \in FetchType
  PROVE  /\ NextCall(k) \in FetchType /\ NextCall(k).at \in {"starting", "done"}
         /\ NextCall(k).entry = NoEntry /\ NextCall(k).query = k.query
         /\ NextCall(k).orphan = k.orphan
<1>1. DOMAIN Calls = 1 .. 2 /\ Len(Calls) = 2
  BY DEF Calls
<1>2. CASE k.call < Len(Calls)
  <2>1. k.call + 1 \in DOMAIN Calls
    BY <1>1, <1>2 DEF FetchType
  <2> QED  BY <1>2, <2>1 DEF NextCall, FetchType
<1>3. CASE ~(k.call < Len(Calls))
  BY <1>3 DEF NextCall, Calling, FetchType
<1> QED  BY <1>2, <1>3

\* A fetch that comes under an entry leaves its types.
LEMMA UsedIsLoose ==
  ASSUME NEW l \in LooseType
  PROVE  Used(l) \in LooseType
  BY DEF Used, Limit, LooseType

\* Enter: the entry that is current, or a new one, has one more fetch under it.
LEMMA EnterKeeps ==
  ASSUME CallsAssumption, CallsInv, NEW t \in Tasks, Enter(t)
  PROVE  CallsInv'
<1> DEFINE o == Operation(t)
<1>1. PICK e \in Limiters :
        /\ IF Pruned(o) # NoEntry THEN e = Pruned(o) ELSE IsNew(e)
        /\ limiter' = [p \in Operations |-> IF p = o THEN e ELSE Pruned(p)]
        /\ task' = [task EXCEPT ![t] = Calling(task[t], "acquiring", e)]
        /\ entry' = Swept([entry EXCEPT ![e] = Used(entry[e])], limiter', task')
  BY DEF Enter
<1>2. task[t].at = "starting" /\ UNCHANGED <<caller, inflight>>
  BY DEF Enter
<1> DEFINE K == [task EXCEPT ![t] = Calling(task[t], "acquiring", e)]
           X == [entry EXCEPT ![e] = Used(entry[e])]
<1>3. e # NoEntry /\ 0 \notin Limiters
  BY DEF Limiters, NoEntry, CallsAssumption
<1>4. task \in [Tasks -> FetchType] /\ o \in Operations /\ task[t] \in FetchType
      /\ task[t].entry = NoEntry
  BY <1>2, OfTask DEF CallsInv, CallsTypeOK, UnderLimit
<1>5. /\ K \in [Tasks -> FetchType] /\ K[t].at = "acquiring" /\ K[t].entry = e
      /\ K[t].call = task[t].call /\ K[t].query = task[t].query
      /\ K[t].orphan = task[t].orphan
      /\ \A s \in Tasks : s # t => K[s] = task[s]
  BY <1>4, AboutCalling DEF UnderLimit
<1>6. /\ X \in [Limiters -> LooseType] /\ X[e] = Used(entry[e])
      /\ \A f \in Limiters : f # e => X[f] = entry[f]
  <2>1. entry \in [Limiters -> LooseType]
    BY OfEntry DEF CallsInv, CallsTypeOK
  <2>2. Used(entry[e]) \in LooseType
    <3> entry[e] \in LooseType
      BY <2>1
    <3> QED  BY UsedIsLoose
  <2> QED  BY <2>1, <2>2
<1>7. Limits' /\ entry' \in [Limiters -> LimitType]
  <2>1. limiter' \in [Operations -> Limiters \union {NoEntry}]
    BY <1>1 DEF Pruned, CallsInv, CallsTypeOK
  <2>2. \A p \in Operations : limiter'[p] = IF p = o THEN e ELSE Pruned(p)
    BY <1>1
  <2>3. ASSUME NEW p \in Operations, p # o
        PROVE  limiter'[p] # e /\ limiter'[p] \in {limiter[p], NoEntry}
    <3>1. limiter'[p] \in {limiter[p], NoEntry}
      BY <2>2, <2>3 DEF Pruned
    <3>2. CASE Pruned(o) # NoEntry
      <4>1. e = limiter[o]
        BY <3>2, <1>1 DEF Pruned
      <4> QED  BY <4>1, <3>1, <2>3, <1>3, <1>4 DEF CallsInv, Limits, Current
    <3>3. CASE Pruned(o) = NoEntry
      <4>1. limiter[p] # e
        BY <3>3, <1>1 DEF IsNew, Held, Refers
      <4> QED  BY <4>1, <3>1, <1>3
    <3> QED  BY <3>2, <3>3
  <2>4. Current(K, limiter')
    <3>1. ASSUME NEW s \in Tasks
          PROVE  /\ K[s].at \in UnderLimit <=> K[s].entry # NoEntry
                 /\ K[s].entry # NoEntry => K[s].entry = limiter'[Calls[K[s].call]]
      <4>1. CASE s = t
        BY <4>1, <1>3, <1>4, <1>5, <2>2 DEF UnderLimit, Operation
      <4>2. CASE s # t
        <5>1. K[s] = task[s] /\ (task[s].at \in UnderLimit <=> task[s].entry # NoEntry)
              /\ Operation(s) \in Operations
          BY <4>2, <1>5, OfTask
        <5>2. ASSUME task[s].entry # NoEntry
              PROVE  task[s].entry = limiter'[Operation(s)]
          <6>1. Pruned(Operation(s)) = limiter[Operation(s)] /\ task[s].entry = limiter[Operation(s)]
            BY <5>2, NotPruned, OfTask
          <6>2. Operation(s) = o => limiter'[o] = limiter[o]
            BY <6>1, <5>2, <2>2, <1>1, <1>4
          <6> QED  BY <6>1, <6>2, <5>1, <2>2
        <5> QED  BY <5>1, <5>2 DEF Operation
      <4> QED  BY <4>1, <4>2
    <3>2. \A p, q \in Operations : limiter'[p] = limiter'[q] /\ limiter'[p] # NoEntry => p = q
      <4> SUFFICES ASSUME NEW p \in Operations, NEW q \in Operations,
                          limiter'[p] = limiter'[q], limiter'[p] # NoEntry
                   PROVE  p = q
        OBVIOUS
      <4>1. CASE p = o \/ q = o
        BY <4>1, <2>2, <2>3, <1>4
      <4>2. CASE p # o /\ q # o
        BY <4>2, <2>3 DEF CallsInv, Limits, Current
      <4> QED  BY <4>1, <4>2
    <3> QED  BY <3>1, <3>2 DEF Current
  <2>5. ASSUME NEW f \in Limiters, Refers(limiter', K, f)
        PROVE  EntryOK(K, X[f], f)
    <3>1. EntryOK(task, entry[f], f) /\ entry[f] \in LooseType
      BY OfEntry
    <3>2. /\ \A s \in Tasks : task[s].entry = f /\ task[s].at # "acquiring"
                               => K[s].entry = f /\ K[s].at = task[s].at
          /\ \A s \in Tasks : K[s].entry = f /\ K[s].at # "acquiring"
                               => task[s].entry = f /\ task[s].at = K[s].at
      <4> HIDE DEF K
      <4> QED  BY <1>3, <1>4, <1>5 DEF NoEntry
    <3>3. CASE f = e
      <4>1. /\ X[f].permits = entry[f].permits /\ X[f].waiters = entry[f].waiters
            /\ X[f].inFlight = entry[f].inFlight /\ X[f].idle = FALSE
        BY <3>3, <1>6 DEF Used, Limit
      <4>2. X[f] \in LooseType
        BY <1>6
      <4> HIDE DEF X, K
      <4> QED  BY <3>1, <3>2, <4>1, <4>2, KeptEntry
    <3>4. CASE f # e
      <4>1. X[f] = entry[f]
        BY <3>4, <1>6
      <4>2. entry[f].idle => \A s \in Tasks : K[s].entry = f => K[s].at = "calling"
        BY <3>1, <3>4, <1>5 DEF EntryOK, Counts
      <4> HIDE DEF X, K
      <4> QED  BY <3>1, <3>2, <4>1, <4>2, KeptEntry
    <3> QED  BY <3>3, <3>4
  <2>6. entry' = [f \in Limiters |-> IF Refers(limiter', task', f) THEN X[f] ELSE Fresh]
    BY <1>1 DEF Swept
  <2>7. task' = K /\ task' \in [Tasks -> FetchType] /\ Forgets(task', K, caller, inflight)
    BY <1>1, <1>5 DEF Forgets
  <2> HIDE DEF X, K
  <2> QED  BY <1>5, <1>6, <2>1, <2>4, <2>5, <2>6, <2>7, LimitStep
<1>8. Flights'
  <2>1. SameFlights(K)
    BY <1>2, <1>5, OfTask DEF SameFlights, IsRunning, Ended
  <2>2. task' = K /\ Forgets(task', K, caller, inflight)
    BY <1>1 DEF Forgets
  <2> HIDE DEF K
  <2> QED  BY <1>2, <1>5, <2>1, <2>2, FlightStep DEF CallsInv
<1>9. CallsTypeOK'
  <2>1. task' \in [Tasks -> FetchType]
    BY <1>1, <1>5
  <2>2. limiter' \in [Operations -> Limiters \union {NoEntry}]
    BY <1>1 DEF Pruned, CallsInv, CallsTypeOK
  <2> QED  BY <1>2, <1>7, <2>1, <2>2 DEF CallsInv, CallsTypeOK, LimitType
<1> QED  BY <1>7, <1>8, <1>9 DEF CallsInv

\* A step of a fetch or of the limiter keeps the invariant, if its fetches and entries
\* are right before what has ended and what nothing refers to is dropped.
LEMMA TaskStepKeeps ==
  ASSUME CallsAssumption, CallsInv,
         NEW K \in [Tasks -> FetchType], NEW X \in [Limiters -> LooseType],
         UNCHANGED <<caller, inflight>>, SameFlights(K),
         task' \in [Tasks -> FetchType], Forgets(task', K, caller, inflight),
         Current(K, limiter'), limiter' \in [Operations -> Limiters \union {NoEntry}],
         \A e \in Limiters : Refers(limiter', K, e) => EntryOK(K, X[e], e),
         entry' = [e \in Limiters |-> IF Refers(limiter', task', e) THEN X[e] ELSE Fresh]
  PROVE  CallsInv'
<1>1. Limits' /\ entry' \in [Limiters -> LimitType]
  BY LimitStep
<1>2. Flights'
  BY FlightStep DEF CallsInv
<1>3. CallsTypeOK'
  BY <1>1 DEF CallsInv, CallsTypeOK, LimitType
<1> QED  BY <1>1, <1>2, <1>3 DEF CallsInv

\* A step that changes no reference, and one entry with fetches under it, keeps it if
\* that entry is right.
LEMMA InPlaceKeeps ==
  ASSUME CallsAssumption, CallsInv,
         NEW K \in [Tasks -> FetchType], NEW X \in [Limiters -> LooseType],
         NEW e \in Limiters, Held(e), task' = K, entry' = X,
         UNCHANGED <<caller, inflight, limiter>>, SameFlights(K),
         \A s \in Tasks : K[s].entry = task[s].entry /\ K[s].call = task[s].call,
         \A s \in Tasks : K[s].at \in UnderLimit <=> task[s].at \in UnderLimit,
         \A s \in Tasks : task[s].entry # e => K[s].at = task[s].at,
         \A f \in Limiters : f # e => X[f] = entry[f],
         EntryOK(K, X[e], e)
  PROVE  CallsInv'
<1>1. Forgets(task', K, caller, inflight)
  BY DEF Forgets
<1>2. Current(K, limiter') /\ limiter' \in [Operations -> Limiters \union {NoEntry}]
  BY DEF CallsInv, CallsTypeOK, Limits, Current
<1>3. ASSUME NEW f \in Limiters
      PROVE  EntryOK(K, X[f], f)
  <2>1. CASE f = e
    BY <2>1
  <2>2. CASE f # e
    <3>1. EntryOK(task, entry[f], f) /\ entry[f] \in LooseType /\ X[f] = entry[f]
      BY <2>2, OfEntry
    <3>2. \A s \in Tasks : (K[s].entry = f <=> task[s].entry = f)
                           /\ (task[s].entry = f => K[s].at = task[s].at)
      BY <2>2
    <3>3. X[f].idle => \A s \in Tasks : K[s].entry = f => K[s].at = "calling"
      BY <3>1, <3>2 DEF EntryOK, Counts
    <3> QED  BY <3>1, <3>2, <3>3, KeptEntry
  <2> QED  BY <2>1, <2>2
<1>4. entry' = [f \in Limiters |-> IF Refers(limiter', task', f) THEN X[f] ELSE Fresh]
  <2>1. \A f \in Limiters : Refers(limiter', task', f) <=> Held(f)
    BY DEF Refers, Held
  <2>2. \A f \in Limiters : ~Held(f) => X[f] = Fresh
    BY OfEntry
  <2> QED  BY <2>1, <2>2
<1> QED  BY <1>1, <1>2, <1>3, <1>4, TaskStepKeeps

\* One fetch goes on.
LEMMA OneGoesOn ==
  ASSUME CallsTypeOK, NEW t \in Tasks, NEW at \in UnderLimit \union {"done"},
         NEW e \in Limiters, NEW K, K = [task EXCEPT ![t] = Calling(task[t], at, e)]
  PROVE  /\ K \in [Tasks -> FetchType] /\ K[t].at = at /\ K[t].entry = e
         /\ K[t].call = task[t].call /\ K[t].query = task[t].query
         /\ K[t].orphan = task[t].orphan
         /\ \A s \in Tasks : s # t => K[s] = task[s]
<1>1. task \in [Tasks -> FetchType] /\ task[t] \in FetchType
  BY DEF CallsTypeOK
<1>2. K[t] = Calling(task[t], at, e) /\ \A s \in Tasks : s # t => K[s] = task[s]
  BY <1>1
<1>3. Calling(task[t], at, e) \in FetchType
  BY <1>1, AboutCalling
<1>4. K \in [Tasks -> FetchType]
  BY <1>1, <1>3
<1> QED  BY <1>1, <1>2, <1>4, AboutCalling

\* One more stands in the queue.
LEMMA Appended ==
  ASSUME NEW w \in Seq(Tasks), NEW t \in Tasks
  PROVE  /\ Append(w, t) \in Seq(Tasks) /\ Len(w) \in Nat
         /\ Len(Append(w, t)) = Len(w) + 1 /\ Append(w, t)[Len(w) + 1] = t
         /\ \A i \in 1 .. Len(w) : Append(w, t)[i] = w[i]
  OBVIOUS

\* Acquire: a permit is taken, or one more waits.
LEMMA AcquireKeeps ==
  ASSUME CallsAssumption, CallsInv, NEW t \in Tasks, Acquire(t)
  PROVE  CallsInv'
<1> DEFINE e == task[t].entry
           l == entry[e]
<1>1. task[t].at = "acquiring" /\ UNCHANGED <<caller, inflight, limiter>>
  BY DEF Acquire
<1>2. /\ e \in Limiters /\ task[t] \in FetchType /\ EntryOK(task, l, e) /\ l \in LooseType
      /\ e # NoEntry /\ ~l.idle /\ Held(e)
  <2>1. e # NoEntry /\ e \in Limiters /\ task[t] \in FetchType
    BY <1>1, OfTask DEF UnderLimit
  <2>2. EntryOK(task, l, e) /\ l \in LooseType
    BY <2>1, OfEntry
  <2> QED  BY <1>1, <2>1, <2>2 DEF EntryOK, Counts, Held, Refers
<1>3. task \in [Tasks -> FetchType] /\ entry \in [Limiters -> LooseType]
  BY OfEntry DEF CallsInv, CallsTypeOK
<1>4. ASSUME NEW at \in {"acquired", "queued"}, NEW permits \in Nat, NEW waiters \in Seq(Tasks),
             task' = [task EXCEPT ![t] = Calling(task[t], at, e)],
             entry' = [entry EXCEPT ![e] = Limit(permits, waiters, l.inFlight, l.idle)],
             \A K : K = task' => Queued(K, waiters, e)
                                 /\ permits + Cardinality(HoldingUnder(K, e)) = Parallelism
      PROVE  CallsInv'
  <2> DEFINE K == [task EXCEPT ![t] = Calling(task[t], at, e)]
             m == Limit(permits, waiters, l.inFlight, l.idle)
             X == [entry EXCEPT ![e] = m]
  <2>1. /\ m \in LooseType /\ m.permits = permits /\ m.waiters = waiters
        /\ m.inFlight = l.inFlight /\ m.idle = l.idle
    BY <1>2 DEF Limit, LooseType
  <2>2. /\ K \in [Tasks -> FetchType] /\ K[t].at = at /\ K[t].entry = e
        /\ K[t].call = task[t].call /\ K[t].query = task[t].query
        /\ K[t].orphan = task[t].orphan
        /\ \A s \in Tasks : s # t => K[s] = task[s]
    <3> DEFINE k == Calling(task[t], at, e)
    <3>1. /\ k \in FetchType /\ k.at = at /\ k.entry = e /\ k.call = task[t].call
          /\ k.query = task[t].query /\ k.orphan = task[t].orphan
      <4>1. task[t] \in FetchType /\ at \in UnderLimit \union {"done"}
            /\ e \in Limiters \union {NoEntry}
        BY <1>2 DEF UnderLimit
      <4> HIDE DEF e, l
      <4> QED  BY <4>1, AboutCalling
    <3> HIDE DEF k
    <3>2. K = [task EXCEPT ![t] = k]
      BY DEF k
    <3> HIDE DEF K
    <3> QED  BY <1>3, <3>1, <3>2
  <2>3. X \in [Limiters -> LooseType] /\ X[e] = m /\ \A f \in Limiters : f # e => X[f] = entry[f]
    BY <1>2, <1>3, <2>1
  <2>4. task' = K /\ entry' = X
    BY <1>4
  <2> HIDE DEF K, m, X
  <2>5. SameFlights(K)
    BY <1>1, <2>2, OfTask DEF SameFlights, IsRunning, Ended
  <2>6. CallingUnder(K, e) = CallingUnder(task, e)
    BY <1>1, <2>2 DEF CallingUnder
  <2>7. EntryOK(K, m, e)
    BY <1>2, <1>4, <2>1, <2>4, <2>6 DEF EntryOK, Counts
  <2>8. /\ \A s \in Tasks : K[s].entry = task[s].entry /\ K[s].call = task[s].call
        /\ \A s \in Tasks : K[s].at \in UnderLimit <=> task[s].at \in UnderLimit
        /\ \A s \in Tasks : task[s].entry # e => K[s].at = task[s].at
    BY <1>1, <2>2 DEF UnderLimit
  <2> HIDE DEF e
  <2> QED  BY <1>1, <1>2, <2>2, <2>3, <2>4, <2>5, <2>7, <2>8, InPlaceKeeps
<1>5. CASE /\ l.permits > 0
           /\ entry' = [entry EXCEPT ![e] = Limit(l.permits - 1, l.waiters, l.inFlight, l.idle)]
           /\ task' = [task EXCEPT ![t] = Calling(task[t], "acquired", e)]
  <2> SUFFICES ASSUME NEW K, K = task'
               PROVE  Queued(K, l.waiters, e)
                      /\ (l.permits - 1) + Cardinality(HoldingUnder(K, e)) = Parallelism
    <3>1. l.permits - 1 \in Nat /\ l.waiters \in Seq(Tasks)
      BY <1>2, <1>5 DEF LooseType
    <3> HIDE DEF e, l
    <3> QED  BY <1>4, <1>5, <3>1
  <2>1. K[t].at = "acquired" /\ K[t].entry = e /\ \A s \in Tasks : s # t => K[s] = task[s]
    <3> HIDE DEF e, l
    <3> QED  BY <1>2, <1>5, OneGoesOn DEF UnderLimit, CallsInv
  <2>2. HoldingUnder(K, e) = HoldingUnder(task, e) \union {t} /\ t \notin HoldingUnder(task, e)
    BY <1>1, <2>1 DEF HoldingUnder
  <2>3. IsFiniteSet(HoldingUnder(task, e)) /\ Cardinality(HoldingUnder(task, e)) \in Nat
    BY FewFetches, FS_CardinalityType
  <2>4. Cardinality(HoldingUnder(K, e)) = Cardinality(HoldingUnder(task, e)) + 1
    BY <2>2, <2>3, FS_AddElement
  <2>5. l.permits + Cardinality(HoldingUnder(task, e)) = Parallelism /\ l.permits \in Nat
    BY <1>2 DEF EntryOK, Counts, LooseType
  <2>6. Queued(K, l.waiters, e)
    <3>1. \A i \in 1 .. Len(l.waiters) : l.waiters[i] \in Tasks
      BY <1>2 DEF LooseType
    <3> QED  BY <1>1, <1>2, <2>1, <3>1 DEF Queued, EntryOK
  <2> QED  BY <2>3, <2>4, <2>5, <2>6
<1>6. CASE /\ entry' = [entry EXCEPT ![e] =
                          Limit(l.permits, Append(l.waiters, t), l.inFlight, l.idle)]
           /\ task' = [task EXCEPT ![t] = Calling(task[t], "queued", e)]
  <2>0. l.permits \in Nat /\ l.waiters \in Seq(Tasks) /\ Append(l.waiters, t) \in Seq(Tasks)
    BY <1>2 DEF LooseType
  <2> SUFFICES ASSUME NEW K, K = task'
               PROVE  Queued(K, Append(l.waiters, t), e)
                      /\ l.permits + Cardinality(HoldingUnder(K, e)) = Parallelism
    <3> HIDE DEF e, l
    <3> QED  BY <1>4, <1>6, <2>0
  <2>1. K[t].at = "queued" /\ K[t].entry = e /\ \A s \in Tasks : s # t => K[s] = task[s]
    <3> HIDE DEF e, l
    <3> QED  BY <1>2, <1>6, OneGoesOn DEF UnderLimit, CallsInv
  <2>2. HoldingUnder(K, e) = HoldingUnder(task, e)
    BY <1>1, <2>1 DEF HoldingUnder
  <2>3. l.permits + Cardinality(HoldingUnder(task, e)) = Parallelism
    BY <1>2 DEF EntryOK, Counts
  <2>4. /\ \A i \in 1 .. Len(l.waiters) : /\ l.waiters[i] \in Tasks
                                          /\ task[l.waiters[i]].at = "queued"
                                          /\ task[l.waiters[i]].entry = e
        /\ \A i, j \in 1 .. Len(l.waiters) : l.waiters[i] = l.waiters[j] => i = j
    BY SMTT(30), <1>2, <2>0 DEF EntryOK, Queued
  <2> DEFINE w == l.waiters
             v == Append(w, t)
  <2>5. /\ Len(w) \in Nat /\ Len(v) = Len(w) + 1 /\ v[Len(w) + 1] = t
        /\ \A i \in 1 .. Len(w) : v[i] = w[i]
    <3> HIDE DEF l
    <3> QED  BY <2>0, Appended
  <2>6. Queued(K, v, e)
    <3>1. \A i \in 1 .. Len(w) : w[i] # t
      BY <2>4, <1>1
    <3> HIDE DEF v, e
    <3>2. \A i \in 1 .. Len(v) : i \in 1 .. Len(w) \/ i = Len(w) + 1
      BY <2>5
    <3> HIDE DEF w
    <3>3. \A i \in 1 .. Len(v) : K[v[i]].at = "queued" /\ K[v[i]].entry = e
      BY <2>1, <2>4, <2>5, <3>1, <3>2 DEF w
    <3>4. \A i, j \in 1 .. Len(v) : v[i] = v[j] => i = j
      BY <2>4, <2>5, <3>1, <3>2 DEF w
    <3> QED  BY <3>3, <3>4 DEF Queued
  <2> QED  BY <2>2, <2>3, <2>6
<1> QED  BY <1>5, <1>6 DEF Acquire

\* Count: one more calls under the entry.
LEMMA CountKeeps ==
  ASSUME CallsAssumption, CallsInv, NEW t \in Tasks, Count(t)
  PROVE  CallsInv'
<1> DEFINE e == task[t].entry
           l == entry[e]
           m == Limit(l.permits, l.waiters, l.inFlight + 1, FALSE)
           X == [f \in Limiters |->
                   IF f = limiter[Operation(t)]
                   THEN Limit(entry[f].permits, entry[f].waiters, entry[f].inFlight + 1, FALSE)
                   ELSE entry[f]]
           K == [task EXCEPT ![t] = Calling(task[t], "calling", task[t].entry)]
<1>1. task[t].at = "acquired" /\ UNCHANGED <<caller, inflight, limiter>>
      /\ task' = K /\ entry' = X
  BY DEF Count
<1>2. /\ e \in Limiters /\ task[t] \in FetchType /\ EntryOK(task, l, e) /\ l \in LooseType
      /\ e = limiter[Operation(t)] /\ Held(e)
  <2>1. e # NoEntry /\ e \in Limiters /\ task[t] \in FetchType /\ e = limiter[Operation(t)]
    BY <1>1, OfTask DEF UnderLimit
  <2>2. EntryOK(task, l, e) /\ l \in LooseType
    BY <2>1, OfEntry
  <2> QED  BY <2>1, <2>2 DEF Held, Refers
<1>3. task \in [Tasks -> FetchType] /\ entry \in [Limiters -> LooseType]
  BY OfEntry DEF CallsInv, CallsTypeOK
<1>4. /\ m \in LooseType /\ m.permits = l.permits /\ m.waiters = l.waiters
      /\ m.inFlight = l.inFlight + 1 /\ m.idle = FALSE
  BY <1>2 DEF Limit, LooseType
<1>5. /\ K \in [Tasks -> FetchType] /\ K[t].at = "calling" /\ K[t].entry = e
      /\ K[t].call = task[t].call /\ K[t].query = task[t].query
      /\ K[t].orphan = task[t].orphan
      /\ \A s \in Tasks : s # t => K[s] = task[s]
  <2> DEFINE k == Calling(task[t], "calling", e)
  <2>1. /\ k \in FetchType /\ k.at = "calling" /\ k.entry = e /\ k.call = task[t].call
        /\ k.query = task[t].query /\ k.orphan = task[t].orphan
    <3>1. task[t] \in FetchType /\ "calling" \in UnderLimit \union {"done"}
          /\ e \in Limiters \union {NoEntry}
      BY <1>2 DEF UnderLimit
    <3> HIDE DEF e, l
    <3> QED  BY <3>1, AboutCalling
  <2> HIDE DEF k
  <2>2. K = [task EXCEPT ![t] = k]
    BY DEF k
  <2> HIDE DEF K
  <2> QED  BY <1>3, <2>1, <2>2
<1>6. X \in [Limiters -> LooseType] /\ X[e] = m /\ \A f \in Limiters : f # e => X[f] = entry[f]
  BY <1>2, <1>3, <1>4
<1> HIDE DEF K, X, m
<1>7. SameFlights(K)
  BY <1>1, <1>5, OfTask DEF SameFlights, IsRunning, Ended
<1>8. EntryOK(K, m, e)
  <2>1. HoldingUnder(K, e) = HoldingUnder(task, e)
    BY <1>1, <1>5 DEF HoldingUnder
  <2>2. CallingUnder(K, e) = CallingUnder(task, e) \union {t} /\ t \notin CallingUnder(task, e)
    BY <1>1, <1>5 DEF CallingUnder
  <2>3. IsFiniteSet(CallingUnder(task, e)) /\ Cardinality(CallingUnder(task, e)) \in Nat
    BY FewFetches, FS_CardinalityType
  <2>4. Cardinality(CallingUnder(K, e)) = Cardinality(CallingUnder(task, e)) + 1
    BY <2>2, <2>3, FS_AddElement
  <2>5. Counts(K, m, e)
    BY <1>2, <1>4, <2>1, <2>4 DEF EntryOK, Counts
  <2>6. \A i \in 1 .. Len(l.waiters) : l.waiters[i] \in Tasks
    BY <1>2 DEF LooseType
  <2>7. Queued(K, m.waiters, e)
    BY SMTT(30), <1>1, <1>2, <1>4, <1>5, <2>6 DEF Queued, EntryOK
  <2> QED  BY <2>5, <2>7 DEF EntryOK
<1>9. /\ \A s \in Tasks : K[s].entry = task[s].entry /\ K[s].call = task[s].call
      /\ \A s \in Tasks : K[s].at \in UnderLimit <=> task[s].at \in UnderLimit
      /\ \A s \in Tasks : task[s].entry # e => K[s].at = task[s].at
  BY <1>1, <1>5 DEF UnderLimit
<1> HIDE DEF e
<1> QED  BY <1>1, <1>2, <1>5, <1>6, <1>7, <1>8, <1>9, InPlaceKeeps

\* Age: the entry is idle, and what is under it calls.
LEMMA AgeKeeps ==
  ASSUME CallsAssumption, CallsInv, NEW o \in Operations, Age(o)
  PROVE  CallsInv'
<1> DEFINE e == limiter[o]
           l == entry[e]
           m == Limit(l.permits, l.waiters, l.inFlight, TRUE)
           X == [entry EXCEPT ![e] = m]
<1>1. /\ e # NoEntry /\ UNCHANGED <<caller, inflight, task, limiter>> /\ entry' = X
      /\ \A t \in Tasks : task[t].entry = e => task[t].at = "calling"
  BY DEF Age
<1>2. e \in Limiters /\ Held(e)
  BY <1>1 DEF CallsInv, CallsTypeOK, Held, Refers
<1>3. EntryOK(task, l, e) /\ l \in LooseType
  BY <1>2, OfEntry
<1>4. task \in [Tasks -> FetchType] /\ entry \in [Limiters -> LooseType]
  BY OfEntry DEF CallsInv, CallsTypeOK
<1>5. /\ m \in LooseType /\ m.permits = l.permits /\ m.waiters = l.waiters
      /\ m.inFlight = l.inFlight
  BY <1>3 DEF Limit, LooseType
<1>6. X \in [Limiters -> LooseType] /\ X[e] = m /\ \A f \in Limiters : f # e => X[f] = entry[f]
  BY <1>2, <1>4, <1>5
<1> HIDE DEF X, m
<1>7. SameFlights(task)
  BY OfTask DEF SameFlights, IsRunning, Ended
<1>8. EntryOK(task, m, e)
  BY <1>1, <1>3, <1>5, KeptEntry
<1> HIDE DEF e
<1> QED  BY <1>1, <1>2, <1>4, <1>6, <1>7, <1>8, InPlaceKeeps

\* What is left when one has left the queue.
LEMMA Removed ==
  ASSUME NEW w \in Seq(Tasks), NEW k \in 1 .. Len(w)
  PROVE  /\ Without(w, k) \in Seq(Tasks) /\ Len(w) \in Nat /\ Len(Without(w, k)) = Len(w) - 1
         /\ \A i \in 1 .. Len(w) - 1 : Without(w, k)[i] = IF i < k THEN w[i] ELSE w[i + 1]
<1>1. Len(w) \in Nat /\ \A i \in 1 .. Len(w) : w[i] \in Tasks
  OBVIOUS
<1>2. Len(w) - 1 \in Nat
  BY <1>1
<1>3. Without(w, k) \in [1 .. Len(w) - 1 -> Tasks]
  BY <1>1 DEF Without
<1>4. Without(w, k) \in Seq(Tasks)
  BY <1>2, <1>3
<1>5. DOMAIN Without(w, k) = 1 .. Len(w) - 1
  BY <1>3
<1>6. Len(Without(w, k)) = Len(w) - 1
  BY <1>2, <1>4, <1>5
<1> QED  BY <1>1, <1>4, <1>6 DEF Without

\* What is left when the first has left the queue.
LEMMA FirstRemoved ==
  ASSUME NEW w \in Seq(Tasks), w # <<>>
  PROVE  /\ Len(w) \in Nat /\ Len(w) >= 1 /\ Head(w) = w[1] /\ Head(w) \in Tasks
         /\ Tail(w) \in Seq(Tasks) /\ Len(Tail(w)) = Len(w) - 1
         /\ \A i \in 1 .. Len(w) - 1 : Tail(w)[i] = w[i + 1]
  OBVIOUS

\* A fetch leaves its entry, and one that waits may get its permit: the invariant holds
\* if the entry is right then.
LEMMA LeavesEntry ==
  ASSUME CallsAssumption, CallsInv, NEW t \in Tasks, NEW e \in Limiters, e = task[t].entry,
         task[t].at \in {"queued", "calling"},
         NEW K \in [Tasks -> FetchType], NEW X \in [Limiters -> LooseType],
         UNCHANGED <<caller, inflight>>,
         K[t] = NextCall(task[t]),
         \A s \in Tasks : s # t =>
           /\ K[s].entry = task[s].entry /\ K[s].call = task[s].call
           /\ K[s].query = task[s].query /\ K[s].orphan = task[s].orphan
           /\ \/ K[s].at = task[s].at
              \/ task[s].entry = e /\ task[s].at = "queued" /\ K[s].at = "acquired",
         limiter' = PrunedButFor(Operation(t)), task' = Collected(caller, inflight, K),
         entry' = Swept(X, limiter', task'),
         \A f \in Limiters : f # e =>
           /\ X[f].permits = entry[f].permits /\ X[f].waiters = entry[f].waiters
           /\ X[f].inFlight = entry[f].inFlight /\ (X[f].idle => entry[f].idle),
         EntryOK(K, X[e], e)
  PROVE  CallsInv'
<1>1. /\ K[t].at \in {"starting", "done"} /\ K[t].entry = NoEntry
      /\ K[t].query = task[t].query /\ K[t].orphan = task[t].orphan
      /\ Operation(t) \in Operations
  BY OfTask, AboutNextCall
<1>2. SameFlights(K)
  <2> SUFFICES ASSUME NEW s \in Tasks
               PROVE  /\ K[s].query = task[s].query /\ K[s].orphan = task[s].orphan
                      /\ K[s].at = "free" <=> task[s].at = "free"
                      /\ K[s].at \notin {"free", "done"} => IsRunning(s)
                      /\ K[s].at # "cancelled"
    BY DEF SameFlights
  <2>1. CASE s = t
    BY <2>1, <1>1 DEF IsRunning, Ended
  <2>2. CASE s # t
    <3>1. task[s].at # "cancelled"
      BY OfTask
    <3> QED  BY <2>2, <3>1 DEF IsRunning, Ended
  <2> QED  BY <2>1, <2>2
<1>3. task' \in [Tasks -> FetchType] /\ Forgets(task', K, caller, inflight)
  BY CollectedForgets
<1>4. Current(K, limiter') /\ limiter' \in [Operations -> Limiters \union {NoEntry}]
  <2>1. \A s \in Tasks : \/ K[s].entry = NoEntry /\ K[s].at \notin UnderLimit
                         \/ /\ K[s].entry = task[s].entry /\ K[s].call = task[s].call
                            /\ task[s].entry # NoEntry /\ K[s].at \in UnderLimit
    <3> SUFFICES ASSUME NEW s \in Tasks
                 PROVE  \/ K[s].entry = NoEntry /\ K[s].at \notin UnderLimit
                        \/ /\ K[s].entry = task[s].entry /\ K[s].call = task[s].call
                           /\ task[s].entry # NoEntry /\ K[s].at \in UnderLimit
      OBVIOUS
    <3>1. CASE s = t
      BY <3>1, <1>1 DEF UnderLimit
    <3>2. CASE s # t
      <4>1. task[s].at \in UnderLimit <=> task[s].entry # NoEntry
        BY OfTask
      <4> QED  BY <3>2, <4>1 DEF UnderLimit
    <3> QED  BY <3>1, <3>2
  <2> QED  BY <2>1, <1>1, PrunedCurrent
<1>5. ASSUME NEW f \in Limiters, Refers(limiter', K, f)
      PROVE  EntryOK(K, X[f], f)
  <2>1. CASE f = e
    BY <2>1
  <2>2. CASE f # e
    <3>1. EntryOK(task, entry[f], f) /\ entry[f] \in LooseType /\ X[f] \in LooseType
      BY OfEntry
    <3>2. f # NoEntry
      BY DEF Limiters, NoEntry, CallsAssumption
    <3>3. \A s \in Tasks : (K[s].entry = f <=> task[s].entry = f)
                           /\ (task[s].entry = f => K[s].at = task[s].at)
      BY <2>2, <3>2, <1>1
    <3>4. X[f].idle => \A s \in Tasks : K[s].entry = f => K[s].at = "calling"
      BY <2>2, <3>1, <3>3 DEF EntryOK, Counts
    <3> QED  BY <2>2, <3>1, <3>3, <3>4, KeptEntry
  <2> QED  BY <2>1, <2>2
<1>6. entry' = [f \in Limiters |-> IF Refers(limiter', task', f) THEN X[f] ELSE Fresh]
  BY DEF Swept
<1> QED  BY <1>2, <1>3, <1>4, <1>5, <1>6, TaskStepKeeps

\* WaitTimesOut: one that waits under the entry leaves it.
LEMMA WaitTimesOutKeeps ==
  ASSUME CallsAssumption, CallsInv, NEW t \in Tasks, WaitTimesOut(t)
  PROVE  CallsInv'
<1> DEFINE e == task[t].entry
           l == entry[e]
           w == l.waiters
<1>1. PICK k \in 1 .. Len(w) :
        /\ w[k] = t
        /\ limiter' = PrunedButFor(Operation(t))
        /\ task' = Collected(caller, inflight, [task EXCEPT ![t] = NextCall(task[t])])
        /\ entry' = Swept(AfterWaiting(t, k), limiter', task')
  BY DEF WaitTimesOut
<1>2. task[t].at = "queued" /\ UNCHANGED <<caller, inflight>>
  BY DEF WaitTimesOut
<1>3. /\ e \in Limiters /\ task[t] \in FetchType /\ EntryOK(task, l, e) /\ l \in LooseType
      /\ e = limiter[Operation(t)]
  BY <1>2, OfTask, OfEntry DEF UnderLimit
<1>4. task \in [Tasks -> FetchType]
  BY DEF CallsInv, CallsTypeOK
<1> DEFINE K == [task EXCEPT ![t] = NextCall(task[t])]
           X == AfterWaiting(t, k)
           v == Without(w, k)
<1>5. /\ K \in [Tasks -> FetchType] /\ K[t] = NextCall(task[t])
      /\ \A s \in Tasks : s # t => K[s] = task[s]
  <2> DEFINE n == NextCall(task[t])
  <2>1. n \in FetchType
    BY <1>3, AboutNextCall
  <2>2. K = [task EXCEPT ![t] = n]
    OBVIOUS
  <2> HIDE DEF n, K
  <2>3. K \in [Tasks -> FetchType] /\ K[t] = n /\ \A s \in Tasks : s # t => K[s] = task[s]
    BY <1>4, <2>1, <2>2
  <2> QED  BY <2>3 DEF n
<1>6. K[t].at \in {"starting", "done"} /\ K[t].entry = NoEntry /\ e # NoEntry
  BY <1>3, <1>5, AboutNextCall DEF Limiters, NoEntry, CallsAssumption
<1>7. /\ w \in Seq(Tasks) /\ v \in Seq(Tasks) /\ Len(w) \in Nat /\ Len(v) = Len(w) - 1
      /\ \A i \in 1 .. Len(w) - 1 : v[i] = IF i < k THEN w[i] ELSE w[i + 1]
  <2>1. w \in Seq(Tasks)
    BY <1>3 DEF LooseType
  <2> HIDE DEF w
  <2> QED  BY <2>1, Removed
<1>8. /\ X \in [Limiters -> LooseType]
      /\ X[e].permits = l.permits /\ X[e].waiters = v /\ X[e].inFlight = l.inFlight /\ ~X[e].idle
      /\ \A f \in Limiters : f # e =>
           /\ X[f].permits = entry[f].permits /\ X[f].waiters = entry[f].waiters
           /\ X[f].inFlight = entry[f].inFlight /\ (X[f].idle => entry[f].idle)
  <2> HIDE DEF w
  <2>1. \A f \in Limiters : entry[f] \in LooseType
    BY OfEntry
  <2>2. ASSUME NEW f \in Limiters
        PROVE  X[f] = IF f = e THEN Limit(entry[f].permits, v, entry[f].inFlight, FALSE)
                               ELSE entry[f]
    BY <1>3 DEF AfterWaiting, w, Used, Limit
  <2> HIDE DEF X, v
  <2>3. \A f \in Limiters : f # e => X[f] = entry[f]
    BY <2>2
  <2>4. X[e] = Limit(l.permits, v, l.inFlight, FALSE)
    BY <2>2, <1>3
  <2> HIDE DEF e
  <2>5. /\ X[e] \in LooseType /\ X[e].permits = l.permits /\ X[e].waiters = v
        /\ X[e].inFlight = l.inFlight /\ ~X[e].idle
    BY <2>4, <1>3, <1>7 DEF Limit, LooseType
  <2>6. X \in [Limiters -> LooseType]
    <3>1. \A f \in Limiters : X[f] \in LooseType
      BY <2>1, <2>3, <2>5
    <3>2. X = [f \in Limiters |-> X[f]]
      BY DEF X, AfterWaiting
    <3> QED  BY <3>1, <3>2
  <2> QED  BY <2>3, <2>5, <2>6
<1> HIDE DEF X, K
<1>9. EntryOK(K, X[e], e)
  <2>1. CallingUnder(K, e) = CallingUnder(task, e)
    BY <1>2, <1>5, <1>6 DEF CallingUnder
  <2>2. HoldingUnder(K, e) = HoldingUnder(task, e)
    BY <1>2, <1>5, <1>6 DEF HoldingUnder
  <2>3. Counts(K, X[e], e)
    BY <1>3, <1>8, <2>1, <2>2 DEF EntryOK, Counts
  <2>4. /\ \A i \in 1 .. Len(w) : /\ w[i] \in Tasks /\ task[w[i]].at = "queued"
                                  /\ task[w[i]].entry = e
        /\ \A i, j \in 1 .. Len(w) : w[i] = w[j] => i = j
    BY SMTT(30), <1>3, <1>7 DEF EntryOK, Queued
  <2> HIDE DEF v, w, e
  <2>5. ASSUME NEW i \in 1 .. Len(v)
        PROVE  \E h \in 1 .. Len(w) : h # k /\ v[i] = w[h] /\ h = IF i < k THEN i ELSE i + 1
    BY <1>1, <1>7
  <2>6. \A i \in 1 .. Len(v) : K[v[i]].at = "queued" /\ K[v[i]].entry = e
    <3> SUFFICES ASSUME NEW i \in 1 .. Len(v) PROVE K[v[i]].at = "queued" /\ K[v[i]].entry = e
      OBVIOUS
    <3>1. PICK h \in 1 .. Len(w) : h # k /\ v[i] = w[h]
      BY <2>5
    <3>2. w[h] # t /\ w[h] \in Tasks
      BY <3>1, <2>4, <1>1
    <3> QED  BY <3>1, <3>2, <2>4, <1>5
  <2>7. \A i, j \in 1 .. Len(v) : v[i] = v[j] => i = j
    <3> SUFFICES ASSUME NEW i \in 1 .. Len(v), NEW j \in 1 .. Len(v), v[i] = v[j] PROVE i = j
      OBVIOUS
    <3>1. PICK g \in 1 .. Len(w) : v[i] = w[g] /\ g = IF i < k THEN i ELSE i + 1
      BY <2>5
    <3>2. PICK h \in 1 .. Len(w) : v[j] = w[h] /\ h = IF j < k THEN j ELSE j + 1
      BY <2>5
    <3>3. g = h
      BY <3>1, <3>2, <2>4
    <3>4. i \in Int /\ j \in Int /\ k \in Int
      BY <1>7
    <3> QED  BY <3>1, <3>2, <3>3, <3>4
  <2> QED  BY <2>3, <2>6, <2>7, <1>8 DEF EntryOK, Queued
<1>10. task' = Collected(caller, inflight, K) /\ entry' = Swept(X, limiter', task')
  BY <1>1 DEF K, X
<1>11. \A s \in Tasks : s # t =>
         /\ K[s].entry = task[s].entry /\ K[s].call = task[s].call
         /\ K[s].query = task[s].query /\ K[s].orphan = task[s].orphan
         /\ \/ K[s].at = task[s].at
            \/ task[s].entry = e /\ task[s].at = "queued" /\ K[s].at = "acquired"
  BY <1>5
<1> HIDE DEF w
<1>12. e \in Limiters /\ e = task[t].entry /\ task[t].at \in {"queued", "calling"}
  BY <1>2, <1>3
<1>13. limiter' = PrunedButFor(Operation(t))
  BY <1>1
<1> HIDE DEF e, l, v
<1> QED  BY <1>2, <1>5, <1>8, <1>9, <1>10, <1>11, <1>12, <1>13, LeavesEntry

\* CallEnds: a permit goes back, or to the first that waits for it.
LEMMA CallEndsKeeps ==
  ASSUME CallsAssumption, CallsInv, NEW t \in Tasks, CallEnds(t)
  PROVE  CallsInv'
<1> DEFINE e == task[t].entry
           l == entry[e]
           w == l.waiters
           K == [s \in Tasks |->
                   IF s = t THEN NextCall(task[t])
                   ELSE IF Woken(e, s) THEN Calling(task[s], "acquired", task[s].entry)
                   ELSE task[s]]
           X == AfterCall(t)
<1>1. /\ task[t].at = "calling" /\ UNCHANGED <<caller, inflight>>
      /\ limiter' = PrunedButFor(Operation(t)) /\ task' = Collected(caller, inflight, K)
      /\ entry' = Swept(X, limiter', task')
  BY DEF CallEnds
<1>2. /\ e \in Limiters /\ task[t] \in FetchType /\ EntryOK(task, l, e) /\ l \in LooseType
      /\ e = limiter[Operation(t)] /\ e # NoEntry
  BY <1>1, OfTask, OfEntry DEF UnderLimit
<1>3. /\ w \in Seq(Tasks)
      /\ \A i \in 1 .. Len(w) : /\ w[i] \in Tasks /\ task[w[i]].at = "queued"
                                /\ task[w[i]].entry = e /\ w[i] # t
      /\ \A i, j \in 1 .. Len(w) : w[i] = w[j] => i = j
  <2>1. w \in Seq(Tasks) /\ \A i \in 1 .. Len(w) : w[i] \in Tasks
    BY <1>2 DEF LooseType
  <2> QED  BY <2>1, <1>1, <1>2 DEF EntryOK, Queued
<1>4. \A s \in Tasks : Woken(e, s) <=> w # <<>> /\ s = Head(w)
  BY DEF Woken
<1>5. \A s \in Tasks : Woken(e, s) => /\ task[s].at = "queued" /\ task[s].entry = e /\ s # t
                                      /\ Len(w) >= 1 /\ s = w[1]
  <2> HIDE DEF w, l, e
  <2> QED  BY <1>3, <1>4, FirstRemoved
<1>6. /\ K \in [Tasks -> FetchType] /\ K[t] = NextCall(task[t])
      /\ \A s \in Tasks : s # t /\ ~Woken(e, s) => K[s] = task[s]
      /\ \A s \in Tasks : Woken(e, s) =>
           /\ K[s].at = "acquired" /\ K[s].entry = task[s].entry /\ K[s].call = task[s].call
           /\ K[s].query = task[s].query /\ K[s].orphan = task[s].orphan
  <2>1. \A s \in Tasks : task[s] \in FetchType
    BY OfTask
  <2>2. NextCall(task[t]) \in FetchType
    BY <2>1, AboutNextCall
  <2> HIDE DEF e, l, w
  <2>3. ASSUME NEW s \in Tasks
        PROVE  /\ Calling(task[s], "acquired", task[s].entry) \in FetchType
               /\ Calling(task[s], "acquired", task[s].entry).at = "acquired"
               /\ Calling(task[s], "acquired", task[s].entry).entry = task[s].entry
               /\ Calling(task[s], "acquired", task[s].entry).call = task[s].call
               /\ Calling(task[s], "acquired", task[s].entry).query = task[s].query
               /\ Calling(task[s], "acquired", task[s].entry).orphan = task[s].orphan
    BY <2>1 DEF Calling, FetchType
  <2>4. \A s \in Tasks : s # t /\ Woken(e, s)
                           => K[s] = Calling(task[s], "acquired", task[s].entry)
    OBVIOUS
  <2>5. K \in [Tasks -> FetchType]
    BY <2>1, <2>2, <2>3
  <2>6. K[t] = NextCall(task[t]) /\ \A s \in Tasks : s # t /\ ~Woken(e, s) => K[s] = task[s]
    OBVIOUS
  <2> HIDE DEF K
  <2> QED  BY <1>5, <2>3, <2>4, <2>5, <2>6
<1>7. K[t].at \in {"starting", "done"} /\ K[t].entry = NoEntry
  BY <1>2, <1>6, AboutNextCall
<1>8. \A f \in Limiters : X[f] = IF f = e THEN Uncounted(Released(l)) ELSE entry[f]
  BY <1>2 DEF AfterCall
<1>9. X = [f \in Limiters |-> X[f]]
  BY DEF AfterCall
<1> HIDE DEF K, X
<1>10. /\ CallingUnder(K, e) = CallingUnder(task, e) \ {t} /\ t \in CallingUnder(task, e)
       /\ HoldingUnder(K, e) = (HoldingUnder(task, e) \ {t}) \union {s \in Tasks : Woken(e, s)}
       /\ t \in HoldingUnder(task, e)
       /\ \A s \in Tasks : Woken(e, s) => s \notin HoldingUnder(task, e)
  <2>1. t \in CallingUnder(task, e) /\ t \in HoldingUnder(task, e)
    BY <1>1 DEF CallingUnder, HoldingUnder
  <2>2. ASSUME NEW s \in Tasks
        PROVE  /\ s \in CallingUnder(K, e) <=> s \in CallingUnder(task, e) \ {t}
               /\ s \in HoldingUnder(K, e)
                    <=> s \in (HoldingUnder(task, e) \ {t}) \union {p \in Tasks : Woken(e, p)}
    BY <1>2, <1>5, <1>6, <1>7 DEF CallingUnder, HoldingUnder
  <2>3. /\ CallingUnder(K, e) \subseteq Tasks /\ CallingUnder(task, e) \subseteq Tasks
        /\ HoldingUnder(K, e) \subseteq Tasks /\ HoldingUnder(task, e) \subseteq Tasks
    BY DEF CallingUnder, HoldingUnder
  <2>4. \A s \in Tasks : Woken(e, s) => s \notin HoldingUnder(task, e)
    BY <1>5 DEF HoldingUnder
  <2> HIDE DEF e
  <2> QED  BY <2>1, <2>2, <2>3, <2>4
<1>11. /\ IsFiniteSet(CallingUnder(task, e)) /\ IsFiniteSet(HoldingUnder(task, e))
       /\ Cardinality(CallingUnder(task, e)) \in Nat /\ Cardinality(HoldingUnder(task, e)) \in Nat
       /\ Cardinality(CallingUnder(task, e) \ {t}) = Cardinality(CallingUnder(task, e)) - 1
       /\ Cardinality(HoldingUnder(task, e) \ {t}) = Cardinality(HoldingUnder(task, e)) - 1
       /\ IsFiniteSet(HoldingUnder(task, e) \ {t})
       /\ Cardinality(CallingUnder(task, e)) > 0
  <2>1. /\ IsFiniteSet(CallingUnder(task, e)) /\ IsFiniteSet(HoldingUnder(task, e))
        /\ Cardinality(CallingUnder(task, e)) \in Nat /\ Cardinality(HoldingUnder(task, e)) \in Nat
    BY FewFetches, FS_CardinalityType
  <2>2. /\ Cardinality(CallingUnder(task, e) \ {t}) = Cardinality(CallingUnder(task, e)) - 1
        /\ IsFiniteSet(CallingUnder(task, e) \ {t})
    BY <2>1, <1>10, FS_RemoveElement
  <2>3. /\ Cardinality(HoldingUnder(task, e) \ {t}) = Cardinality(HoldingUnder(task, e)) - 1
        /\ IsFiniteSet(HoldingUnder(task, e) \ {t})
    BY <2>1, <1>10, FS_RemoveElement
  <2>4. Cardinality(CallingUnder(task, e) \ {t}) \in Nat
    BY <2>2, FS_CardinalityType
  <2> QED  BY <2>1, <2>2, <2>3, <2>4
<1>12. /\ l.inFlight = Cardinality(CallingUnder(task, e)) /\ l.permits \in Nat /\ l.inFlight \in Nat
       /\ l.permits + Cardinality(HoldingUnder(task, e)) = Parallelism
  BY <1>2 DEF EntryOK, Counts, LooseType
<1>13. X[e] \in LooseType /\ EntryOK(K, X[e], e)
  <2>1. CASE w = <<>>
    <3>1. X[e] = Limit(l.permits + 1, <<>>, l.inFlight - 1, FALSE)
      BY <2>1, <1>2, <1>8, <1>11, <1>12 DEF Uncounted, Released, Limit
    <3>2. /\ X[e].permits = l.permits + 1 /\ X[e].waiters = <<>>
          /\ X[e].inFlight = l.inFlight - 1 /\ ~X[e].idle /\ X[e] \in LooseType
      BY SMTT(30), <3>1, <1>11, <1>12 DEF Limit, LooseType
    <3>3. {s \in Tasks : Woken(e, s)} = {}
      BY <2>1, <1>4
    <3>4. HoldingUnder(K, e) = HoldingUnder(task, e) \ {t}
      BY <3>3, <1>10
    <3>5. Counts(K, X[e], e)
      BY SMTT(30), <3>2, <3>4, <1>10, <1>11, <1>12, CallsAssumption DEF Counts, CallsAssumption
    <3>6. Queued(K, X[e].waiters, e)
      BY <3>2 DEF Queued
    <3> QED  BY <3>2, <3>5, <3>6 DEF EntryOK
  <2>2. CASE w # <<>>
    <3>1. /\ Len(w) \in Nat /\ Len(w) >= 1 /\ Head(w) = w[1] /\ Head(w) \in Tasks
          /\ Tail(w) \in Seq(Tasks) /\ Len(Tail(w)) = Len(w) - 1
          /\ \A i \in 1 .. Len(w) - 1 : Tail(w)[i] = w[i + 1]
      <4> HIDE DEF w
      <4> QED  BY <2>2, <1>3, FirstRemoved
    <3>2. X[e] = Limit(l.permits, Tail(w), l.inFlight - 1, FALSE)
      BY <2>2, <1>2, <1>8, <1>11, <1>12 DEF Uncounted, Released, Limit
    <3>3. /\ X[e].permits = l.permits /\ X[e].waiters = Tail(w)
          /\ X[e].inFlight = l.inFlight - 1 /\ ~X[e].idle /\ X[e] \in LooseType
      BY <3>1, <3>2, <1>11, <1>12 DEF Limit, LooseType
    <3> DEFINE h == Head(w)
    <3>4. Woken(e, h) /\ {s \in Tasks : Woken(e, s)} = {h}
      BY <2>2, <3>1, <1>4 DEF Woken
    <3> HIDE DEF h
    <3>5. HoldingUnder(K, e) = (HoldingUnder(task, e) \ {t}) \union {h}
          /\ h \notin HoldingUnder(task, e) \ {t}
      BY <3>1, <3>4, <1>10 DEF h
    <3>6. Cardinality(HoldingUnder(K, e)) = Cardinality(HoldingUnder(task, e))
      <4>1. Cardinality((HoldingUnder(task, e) \ {t}) \union {h})
              = Cardinality(HoldingUnder(task, e) \ {t}) + 1
        BY <3>5, <1>11, FS_AddElement
      <4> QED  BY <4>1, <3>5, <1>11
    <3>7. Counts(K, X[e], e)
      BY <3>3, <3>6, <1>10, <1>11, <1>12 DEF Counts
    <3> DEFINE v == Tail(w)
    <3>8. \A i \in 1 .. Len(v) : i + 1 \in 1 .. Len(w) /\ v[i] = w[i + 1] /\ i + 1 # 1
      <4> HIDE DEF w
      <4> QED  BY <3>1
    <3> HIDE DEF v
    <3>9. \A i \in 1 .. Len(v) : K[v[i]].at = "queued" /\ K[v[i]].entry = e
      <4> SUFFICES ASSUME NEW i \in 1 .. Len(v)
                   PROVE  K[v[i]].at = "queued" /\ K[v[i]].entry = e
        OBVIOUS
      <4> DEFINE s == w[i + 1]
      <4>1. /\ v[i] = s /\ s \in Tasks /\ task[s].at = "queued" /\ task[s].entry = e /\ s # t
            /\ s # w[1]
        <5> HIDE DEF w, l
        <5>1. 1 \in 1 .. Len(w)
          BY <3>1
        <5> QED  BY <3>8, <5>1, <1>3
      <4>2. ~Woken(e, s)
        BY <4>1, <3>1, <1>4
      <4> HIDE DEF s
      <4> QED  BY <4>1, <4>2, <1>6
    <3>10. \A i, j \in 1 .. Len(v) : v[i] = v[j] => i = j
      <4> SUFFICES ASSUME NEW i \in 1 .. Len(v), NEW j \in 1 .. Len(v), v[i] = v[j] PROVE i = j
        OBVIOUS
      <4> HIDE DEF w, l
      <4>1. i + 1 = j + 1
        BY <3>8, <1>3
      <4>2. i \in Int /\ j \in Int
        OBVIOUS
      <4> QED  BY <4>1, <4>2
    <3>11. Queued(K, X[e].waiters, e)
      BY <3>3, <3>9, <3>10 DEF Queued, v
    <3> QED  BY <3>3, <3>7, <3>11 DEF EntryOK
  <2> QED  BY <2>1, <2>2
<1>14. X \in [Limiters -> LooseType] /\ \A f \in Limiters : f # e => X[f] = entry[f]
  <2>1. \A f \in Limiters : f # e => X[f] = entry[f]
    BY <1>8
  <2>2. \A f \in Limiters : X[f] \in LooseType
    BY <2>1, <1>13, OfEntry
  <2> QED  BY <2>1, <2>2, <1>9
<1>15. \A s \in Tasks : s # t =>
         /\ K[s].entry = task[s].entry /\ K[s].call = task[s].call
         /\ K[s].query = task[s].query /\ K[s].orphan = task[s].orphan
         /\ \/ K[s].at = task[s].at
            \/ task[s].entry = e /\ task[s].at = "queued" /\ K[s].at = "acquired"
  BY <1>5, <1>6
<1>16. e \in Limiters /\ e = task[t].entry /\ task[t].at \in {"queued", "calling"}
  BY <1>1, <1>2
<1>17. \A f \in Limiters : f # e =>
         /\ X[f].permits = entry[f].permits /\ X[f].waiters = entry[f].waiters
         /\ X[f].inFlight = entry[f].inFlight /\ (X[f].idle => entry[f].idle)
  BY <1>14
<1> HIDE DEF e, l, w
<1> QED  BY <1>1, <1>6, <1>13, <1>14, <1>15, <1>16, <1>17, LeavesEntry

-----------------------------------------------------------------------------
(* The steps of a caller.                                                    *)

\* The limits are what they were when no fetch moves under them.
LEMMA LimitsUntouched ==
  ASSUME CallsAssumption, CallsInv, NEW K \in [Tasks -> FetchType], NEW callers, NEW flights,
         UNCHANGED <<limiter, entry>>, task' \in [Tasks -> FetchType],
         Forgets(task', K, callers, flights),
         \A s \in Tasks : K[s].entry = task[s].entry,
         \A s \in Tasks : K[s].entry # NoEntry => K[s].at = task[s].at /\ K[s].call = task[s].call,
         \A s \in Tasks : K[s].entry = NoEntry => K[s].at \notin UnderLimit
  PROVE  Limits'
<1>1. Current(K, limiter')
  <2>1. \A o, p \in Operations : limiter'[o] = limiter'[p] /\ limiter'[o] # NoEntry => o = p
    BY DEF CallsInv, Limits, Current
  <2>2. ASSUME NEW s \in Tasks
        PROVE  /\ K[s].at \in UnderLimit <=> K[s].entry # NoEntry
               /\ K[s].entry # NoEntry => K[s].entry = limiter'[Calls[K[s].call]]
    BY OfTask DEF Operation
  <2> QED  BY <2>1, <2>2 DEF Current
<1>2. limiter' \in [Operations -> Limiters \union {NoEntry}] /\ entry \in [Limiters -> LooseType]
  BY OfEntry DEF CallsInv, CallsTypeOK
<1>3. ASSUME NEW e \in Limiters
      PROVE  EntryOK(K, entry[e], e)
  <2>1. EntryOK(task, entry[e], e) /\ entry[e] \in LooseType
    BY OfEntry
  <2>2. \A s \in Tasks : (K[s].entry = e <=> task[s].entry = e)
                         /\ (task[s].entry = e => K[s].at = task[s].at)
    BY DEF Limiters, NoEntry, CallsAssumption
  <2>3. entry[e].idle => \A s \in Tasks : K[s].entry = e => K[s].at = "calling"
    BY <2>1, <2>2 DEF EntryOK, Counts
  <2> QED  BY <2>1, <2>2, <2>3, KeptEntry
<1>4. entry' = [e \in Limiters |-> IF Refers(limiter', task', e) THEN entry[e] ELSE Fresh]
  <2>1. \A s \in Tasks : task'[s].entry = task[s].entry
    <3>1. \A s \in Tasks : K[s].at \in {"done", "cancelled"} => K[s].entry = NoEntry
      BY OfTask DEF UnderLimit
    <3> QED  BY <3>1, AboutNoFetch DEF Forgets
  <2>2. \A e \in Limiters : Refers(limiter', task', e) <=> Held(e)
    BY <2>1 DEF Refers, Held
  <2>3. \A e \in Limiters : ~Held(e) => entry[e] = Fresh
    BY OfEntry
  <2>4. entry' = [e \in Limiters |-> entry[e]]
    BY <1>2
  <2> QED  BY <2>2, <2>3, <2>4
<1> QED  BY <1>1, <1>2, <1>3, <1>4, LimitStep

\* A caller leaves, and a leader whose fetch still runs leaves it an orphan.
LEMMA LeaveKeeps ==
  ASSUME CallsAssumption, CallsInv, NEW c \in Callers, NEW K \in [Tasks -> FetchType],
         Leave(c, K), UNCHANGED <<limiter, entry>>,
         \A t \in Tasks : /\ K[t].at = task[t].at /\ K[t].query = task[t].query
                          /\ K[t].call = task[t].call /\ K[t].entry = task[t].entry
                          /\ task[t].orphan => K[t].orphan,
         \A t \in Tasks : caller[c].leader /\ t = caller[c].task /\ ~Ended(t) => K[t].orphan
  PROVE  CallsInv'
<1>1. /\ caller' = [caller EXCEPT ![c] = NoCaller] /\ inflight' = AfterLeaving(c)
      /\ task' = Collected(caller', inflight', K)
  BY DEF Leave
<1>2. task' \in [Tasks -> FetchType] /\ Forgets(task', K, caller', inflight')
  BY <1>1, CollectedForgets
<1>3. caller' \in [Callers -> CallerType]
      /\ \A d \in Callers : caller'[d] = IF d = c THEN NoCaller ELSE caller[d]
  <2>1. NoCaller \in CallerType
    BY DEF NoCaller, CallerType
  <2> QED  BY <1>1, <2>1 DEF CallsInv, CallsTypeOK
<1>4. /\ inflight' \in [FlightKeys -> Tasks \union {NoTask}]
      /\ \A f \in FlightKeys : inflight'[f] = IF caller[c].leader /\ inflight[f] = caller[c].task
                                              THEN NoTask ELSE inflight[f]
  BY <1>1 DEF AfterLeaving, Cleans, CallsInv, CallsTypeOK
<1>5. Limits'
  <2>1. \A s \in Tasks : K[s].entry = NoEntry => K[s].at \notin UnderLimit
    BY OfTask
  <2> QED  BY <1>2, <2>1, LimitsUntouched
<1>6. CallsTypeOK'
  BY <1>2, <1>3, <1>4 DEF CallsInv, CallsTypeOK
<1>7. ASSUME NEW t \in Tasks
      PROVE  /\ task'[t].at # "free" => task'[t] = K[t]
             /\ (\E d \in Callers : caller'[d].task = t) => task'[t] = K[t]
             /\ (\E f \in FlightKeys : inflight'[f] = t) => task'[t] = K[t]
             /\ task'[t].at # "cancelled"
  BY <1>2, AboutNoFetch, OfTask DEF Forgets
<1>8. ASSUME NEW t \in Tasks, task'[t].at \notin {"free", "done", "cancelled"}, ~task'[t].orphan
      PROVE  task'[t].query \in Queries /\ inflight'[FlightKey(task'[t].query)] = t
  <2>1. task'[t] = K[t] /\ K[t].at = task[t].at /\ K[t].query = task[t].query
        /\ ~task[t].orphan
    BY <1>7, <1>8
  <2>2. task[t].query \in Queries /\ inflight[FlightKey(task[t].query)] = t
    BY <1>8, <2>1 DEF CallsInv, Flights, IsRunning, Ended
  <2>3. ~(caller[c].leader /\ t = caller[c].task)
    BY <1>8, <2>1 DEF Ended
  <2>4. FlightKey(task[t].query) \in FlightKeys
    BY <2>2 DEF FlightKeys
  <2> QED  BY <1>4, <2>1, <2>2, <2>3, <2>4
<1>9. ASSUME NEW f \in FlightKeys, inflight'[f] # NoTask
      PROVE  Fetches(inflight[f], f)'
  <2>1. inflight'[f] = inflight[f] /\ inflight[f] \in Tasks
    BY <1>4, <1>9 DEF CallsInv, CallsTypeOK
  <2>2. task'[inflight[f]] = K[inflight[f]]
    BY <1>7, <1>9, <2>1
  <2>3. Fetches(inflight[f], f)
    BY <1>9, <2>1 DEF CallsInv, Flights
  <2> QED  BY <2>1, <2>2, <2>3 DEF Fetches
<1>10. ASSUME NEW d \in Callers, caller'[d].at = "waiting"
       PROVE  /\ caller'[d].query \in Queries /\ caller'[d].task # NoTask
              /\ Fetches(caller[d].task, FlightKey(caller[d].query))'
  <2>1. caller'[d] = caller[d]
    BY <1>3, <1>10 DEF NoCaller
  <2>2. /\ caller[d].query \in Queries /\ caller[d].task # NoTask
        /\ Fetches(caller[d].task, FlightKey(caller[d].query))
    BY <1>10, <2>1 DEF CallsInv, Flights
  <2>3. caller[d].task \in Tasks
    BY <2>2 DEF CallsInv, CallsTypeOK, CallerType
  <2>4. task'[caller[d].task] = K[caller[d].task]
    BY <1>7, <2>1, <2>3
  <2> QED  BY <2>1, <2>2, <2>3, <2>4 DEF Fetches
<1>11. Flights'
  BY <1>7, <1>8, <1>9, <1>10 DEF Flights, IsRunning, Ended
<1> QED  BY <1>5, <1>6, <1>11 DEF CallsInv

\* Return: the caller leaves, and its fetch had ended.
LEMMA ReturnKeeps ==
  ASSUME CallsAssumption, CallsInv, NEW c \in Callers, Return(c)
  PROVE  CallsInv'
<1>1. Ended(caller[c].task) /\ Leave(c, task) /\ UNCHANGED <<limiter, entry>>
  BY DEF Return
<1>2. task \in [Tasks -> FetchType]
  BY DEF CallsInv, CallsTypeOK
<1> QED  BY <1>1, <1>2, LeaveKeeps

\* Cancel: the fetch goes on, without its leader if it was the leader that left.
LEMMA CancelKeeps ==
  ASSUME CallsAssumption, CallsInv, NEW c \in Callers, Cancel(c)
  PROVE  CallsInv'
<1> DEFINE K == GoesOn(c)
<1>1. /\ Leave(c, K) /\ UNCHANGED <<limiter, entry>>
  BY DEF Cancel
<1>2. ASSUME NEW t \in Tasks
      PROVE  /\ K[t] \in FetchType
             /\ K[t].at = task[t].at /\ K[t].query = task[t].query
             /\ K[t].call = task[t].call /\ K[t].entry = task[t].entry
             /\ task[t].orphan => K[t].orphan
             /\ caller[c].leader /\ t = caller[c].task => K[t].orphan
  <2>1. task[t] \in FetchType
    BY OfTask
  <2>2. CASE caller[c].leader /\ t = caller[c].task
    <3>1. K[t] = [at |-> task[t].at, query |-> task[t].query, call |-> task[t].call,
                  entry |-> task[t].entry, orphan |-> TRUE]
      BY <2>2 DEF GoesOn
    <3> HIDE DEF K
    <3> QED  BY <2>1, <3>1 DEF FetchType
  <2>3. CASE ~(caller[c].leader /\ t = caller[c].task)
    BY <2>1, <2>3 DEF GoesOn
  <2> QED  BY <2>2, <2>3
<1>3. K \in [Tasks -> FetchType]
  <2>1. K = [t \in Tasks |-> K[t]]
    BY DEF GoesOn
  <2> HIDE DEF K
  <2> QED  BY <1>2, <2>1
<1> HIDE DEF K
<1> QED  BY <1>1, <1>2, <1>3, LeaveKeeps

\* Join: the fetch in the map is one under the key of the query.
LEMMA JoinKeeps ==
  ASSUME CallsAssumption, CallsInv, NEW c \in Callers, NEW q \in Queries, Join(c, q)
  PROVE  CallsInv'
<1> DEFINE f == FlightKey(q)
           n == [at |-> "waiting", query |-> q, task |-> inflight[f], leader |-> FALSE]
<1>1. /\ inflight[f] # NoTask /\ caller' = [caller EXCEPT ![c] = n] /\ f \in FlightKeys
      /\ UNCHANGED <<inflight, task, limiter, entry>>
  BY DEF Join, WaitsFor, FlightKeys
<1>2. inflight[f] \in Tasks \union {NoTask} /\ Fetches(inflight[f], f)
  BY <1>1 DEF CallsInv, CallsTypeOK, Flights
<1>3. n \in CallerType
  BY <1>2 DEF CallerType
<1>4. /\ caller' \in [Callers -> CallerType]
      /\ \A d \in Callers : caller'[d] = IF d = c THEN n ELSE caller[d]
  BY <1>1, <1>3 DEF CallsInv, CallsTypeOK
<1>5. n.task = inflight[f] /\ n.query = q
  OBVIOUS
<1> HIDE DEF n
<1>6. CallsTypeOK'
  BY <1>1, <1>4 DEF CallsInv, CallsTypeOK
<1>7. Flights'
  <2>1. \A d \in Callers : caller'[d].at = "waiting" =>
          /\ caller'[d].query \in Queries /\ caller'[d].task # NoTask
          /\ Fetches(caller'[d].task, FlightKey(caller'[d].query))
    BY <1>1, <1>2, <1>4, <1>5 DEF CallsInv, Flights
  <2> QED  BY <1>1, <2>1 DEF CallsInv, Flights, IsRunning, Ended, Fetches
<1>8. Limits'
  BY <1>1 DEF CallsInv, Limits, Held
<1> QED  BY <1>6, <1>7, <1>8 DEF CallsInv

\* Lead: nobody fetches under the key, but for orphans.
LEMMA LeadKeeps ==
  ASSUME CallsAssumption, CallsInv, NEW c \in Callers, NEW q \in Queries, Lead(c, q)
  PROVE  CallsInv'
<1> DEFINE a == FlightKey(q)
           k == [at |-> "starting", query |-> q, call |-> 1, entry |-> NoEntry, orphan |-> FALSE]
<1>1. PICK t \in Tasks :
        /\ task[t].at = "free" /\ task' = [task EXCEPT ![t] = k]
        /\ inflight' = [inflight EXCEPT ![a] = t]
        /\ caller' = [caller EXCEPT ![c] = [at |-> "waiting", query |-> q, task |-> t,
                                            leader |-> TRUE]]
  BY DEF Lead, WaitsFor
<1>2. inflight[a] = NoTask /\ a \in FlightKeys /\ UNCHANGED <<limiter, entry>>
  BY DEF Lead, FlightKeys
<1> DEFINE n == [at |-> "waiting", query |-> q, task |-> t, leader |-> TRUE]
<1>3. n \in CallerType /\ n.task = t /\ n.query = q
  BY DEF CallerType
<1>4. /\ k \in FetchType /\ k.at = "starting" /\ k.query = q /\ k.entry = NoEntry
      /\ k.orphan = FALSE
  BY DEF FetchType, Calls, NoEntry
<1>5. caller' = [caller EXCEPT ![c] = n] /\ task' = [task EXCEPT ![t] = k]
      /\ inflight' = [inflight EXCEPT ![a] = t]
  BY <1>1
<1> HIDE DEF k, n
<1>6. /\ caller' \in [Callers -> CallerType] /\ inflight' \in [FlightKeys -> Tasks \union {NoTask}]
      /\ task' \in [Tasks -> FetchType]
      /\ \A d \in Callers : caller'[d] = IF d = c THEN n ELSE caller[d]
      /\ \A b \in FlightKeys : inflight'[b] = IF b = a THEN t ELSE inflight[b]
      /\ \A s \in Tasks : task'[s] = IF s = t THEN k ELSE task[s]
  <2>1. caller \in [Callers -> CallerType] /\ inflight \in [FlightKeys -> Tasks \union {NoTask}]
        /\ task \in [Tasks -> FetchType] /\ t \in Tasks
    BY <1>1 DEF CallsInv, CallsTypeOK
  <2>2. caller' \in [Callers -> CallerType]
        /\ \A d \in Callers : caller'[d] = IF d = c THEN n ELSE caller[d]
    BY <1>3, <1>5, <2>1
  <2>3. inflight' \in [FlightKeys -> Tasks \union {NoTask}]
        /\ \A b \in FlightKeys : inflight'[b] = IF b = a THEN t ELSE inflight[b]
    BY <1>5, <2>1
  <2>4. task' \in [Tasks -> FetchType]
        /\ \A s \in Tasks : task'[s] = IF s = t THEN k ELSE task[s]
    BY <1>4, <1>5, <2>1
  <2> QED  BY <2>2, <2>3, <2>4
<1>7. CallsTypeOK'
  BY <1>2, <1>6 DEF CallsInv, CallsTypeOK
<1>8. task[t].entry = NoEntry /\ t # NoTask
  BY <1>1, OfTask DEF UnderLimit, Tasks, NoTask
<1>9. Limits'
  <2>1. Forgets(task', task', caller, inflight)
    BY DEF Forgets
  <2>2. \A s \in Tasks : task'[s].entry = task[s].entry
    BY <1>4, <1>6, <1>8
  <2>3. \A s \in Tasks : task'[s].entry # NoEntry => task'[s].at = task[s].at
                                                     /\ task'[s].call = task[s].call
    BY <1>4, <1>6
  <2>4. \A s \in Tasks : task'[s].entry = NoEntry => task'[s].at \notin UnderLimit
    BY <1>4, <1>6, OfTask DEF UnderLimit
  <2> QED  BY <1>2, <1>6, <2>1, <2>2, <2>3, <2>4, LimitsUntouched
<1>10. ASSUME NEW s \in Tasks, task'[s].at \notin {"free", "done", "cancelled"}, ~task'[s].orphan
       PROVE  task'[s].query \in Queries /\ inflight'[FlightKey(task'[s].query)] = s
  <2>1. CASE s = t
    BY <2>1, <1>2, <1>4, <1>6
  <2>2. CASE s # t
    <3>1. task'[s] = task[s] /\ task[s].query \in Queries /\ inflight[FlightKey(task[s].query)] = s
      BY <2>2, <1>6, <1>10 DEF CallsInv, Flights, IsRunning, Ended
    <3>2. s # NoTask /\ FlightKey(task[s].query) \in FlightKeys
      BY <3>1 DEF Tasks, NoTask, CallsAssumption, FlightKeys
    <3> QED  BY <3>1, <3>2, <1>2, <1>6
  <2> QED  BY <2>1, <2>2
<1>11. ASSUME NEW f \in FlightKeys, inflight'[f] # NoTask
       PROVE  Fetches(inflight[f], f)'
  <2>1. CASE f = a
    BY <2>1, <1>1, <1>4, <1>6 DEF Fetches
  <2>2. CASE f # a
    <3>1. inflight'[f] = inflight[f] /\ inflight[f] \in Tasks
      BY <2>2, <1>6, <1>11 DEF CallsInv, CallsTypeOK
    <3>2. Fetches(inflight[f], f)
      BY <3>1, <1>11 DEF CallsInv, Flights
    <3> QED  BY <3>1, <3>2, <1>1, <1>6 DEF Fetches
  <2> QED  BY <2>1, <2>2
<1>12. ASSUME NEW d \in Callers, caller'[d].at = "waiting"
       PROVE  /\ caller'[d].query \in Queries /\ caller'[d].task # NoTask
              /\ Fetches(caller[d].task, FlightKey(caller[d].query))'
  <2>1. CASE d = c
    BY <2>1, <1>3, <1>4, <1>6, <1>8 DEF Fetches
  <2>2. CASE d # c
    <3>1. caller'[d] = caller[d] /\ caller[d].at = "waiting"
      BY <2>2, <1>6, <1>12
    <3>2. /\ caller[d].query \in Queries /\ caller[d].task # NoTask
          /\ Fetches(caller[d].task, FlightKey(caller[d].query))
      BY <3>1 DEF CallsInv, Flights
    <3>3. caller[d].task \in Tasks
      BY <3>2 DEF CallsInv, CallsTypeOK, CallerType
    <3> QED  BY <3>1, <3>2, <3>3, <1>1, <1>6 DEF Fetches
  <2> QED  BY <2>1, <2>2
<1>13. \A s \in Tasks : task'[s].at # "cancelled"
  BY <1>4, <1>6, OfTask
<1>14. Flights'
  BY <1>2, <1>10, <1>11, <1>12, <1>13 DEF CallsInv, Flights, IsRunning, Ended
<1> QED  BY <1>7, <1>9, <1>14 DEF CallsInv

-----------------------------------------------------------------------------
(* The theorems.                                                             *)

\* At first nothing runs, and nothing is limited.
LEMMA CallsInitHasIt ==
  ASSUME CallsAssumption, CallsInit
  PROVE  CallsInv
<1>1. NoFetch \in FetchType /\ NoCaller \in CallerType /\ NoFetch.at = "free"
      /\ NoFetch.entry = NoEntry /\ NoCaller.at = "idle"
  BY DEF NoFetch, FetchType, NoCaller, CallerType, NoEntry, Calls
<1>2. \A t \in Tasks : task[t] = NoFetch
  BY DEF CallsInit
<1>3. \A e \in Limiters : EntryOK(task, Fresh, e) /\ Fresh \in LooseType
  <2>1. \A e \in Limiters : \A t \in Tasks : task[t].entry # e
    BY <1>1, <1>2 DEF Limiters, NoEntry, CallsAssumption
  <2> QED  BY <2>1, FreshEntry
<1>4. \A e \in Limiters : Fresh \in LimitType
  BY <1>3, CountsBounded DEF EntryOK
<1>5. CallsTypeOK
  BY <1>1, <1>4 DEF CallsInit, CallsTypeOK, LimitType, NoTask, NoEntry
<1>6. Limits
  BY <1>1, <1>2, <1>3 DEF CallsInit, Limits, Current, UnderLimit
<1>7. Flights
  BY <1>1, <1>2 DEF CallsInit, Flights, IsRunning, Ended, NoCaller
<1> QED  BY <1>5, <1>6, <1>7 DEF CallsInv

\* Every step keeps the invariant.
LEMMA CallsNextKeepsIt ==
  ASSUME CallsAssumption, CallsInv, [CallsNext]_callVars
  PROVE  CallsInv'
<1>1. ASSUME NEW c \in Callers, CallerStep(c)
      PROVE  CallsInv'
  BY <1>1, ReturnKeeps, CancelKeeps, JoinKeeps, LeadKeeps DEF CallerStep
<1>2. ASSUME NEW t \in Tasks, TaskStep(t)
      PROVE  CallsInv'
  BY <1>2, EnterKeeps, AcquireKeeps, WaitTimesOutKeeps, CountKeeps, CallEndsKeeps DEF TaskStep
<1>3. ASSUME NEW o \in Operations, Age(o)
      PROVE  CallsInv'
  BY <1>3, AgeKeeps
<1>4. CASE UNCHANGED callVars
  BY <1>4 DEF callVars, CallsInv, CallsTypeOK, Flights, Fetches, Limits, Held, IsRunning, Ended
<1> QED  BY <1>1, <1>2, <1>3, <1>4 DEF CallsNext

\* Every state has the invariant.
LEMMA CallsAreInvariant == CallsSpec => []CallsInv
<1>1. CallsInit => CallsInv
  BY CallsInitHasIt, CallsAssumption
<1>2. CallsInv /\ [CallsNext]_callVars => CallsInv'
  BY CallsNextKeepsIt, CallsAssumption
<1> QED  BY <1>1, <1>2, PTL DEF CallsSpec

\* What is under one key answers the queries under it.
LEMMA SameBucket ==
  ASSUME CallsAssumption, NEW q \in Queries, NEW p \in Queries, FlightKey(p) = FlightKey(q)
  PROVE  Answers(p, q)
<1>1. p.account = q.account /\ p.limit = q.limit /\ p.since \div Bucket = q.since \div Bucket
  BY DEF FlightKey
<1>2. p.since \in Nat /\ q.since \in Nat /\ Bucket \in Nat /\ Bucket > 0
  BY DEF CallsAssumption
<1>3. \A n \in Nat : /\ n % Bucket \in 0 .. Bucket - 1
                      /\ n = Bucket * (n \div Bucket) + (n % Bucket)
  BY <1>2
<1> DEFINE begin == Bucket * (p.since \div Bucket)
<1>4. /\ p.since = begin + (p.since % Bucket) /\ q.since = begin + (q.since % Bucket)
      /\ p.since % Bucket \in 0 .. Bucket - 1 /\ q.since % Bucket \in 0 .. Bucket - 1
  BY <1>1, <1>2, <1>3
<1>5. begin \in Int
  BY <1>2
<1>6. p.since < q.since + Bucket /\ q.since < p.since + Bucket
  <2> HIDE DEF begin
  <2> QED  BY <1>2, <1>4, <1>5
<1> QED  BY <1>1, <1>6 DEF Answers

\* _singleflight, for any number of callers, queries and fetches and any bucket: of two
\* fetches under one key one has lost its leader, and every caller waits for a fetch
\* that answers its query.
THEOREM OneFlightOfAKey == CallsSpec => []OneFlight
<1>1. CallsInv => OneFlight
  <2> SUFFICES ASSUME CallsInv PROVE OneFlight
    OBVIOUS
  <2>1. \A s, t \in Tasks :
          s # t /\ IsRunning(s) /\ IsRunning(t)
            /\ FlightKey(task[s].query) = FlightKey(task[t].query)
          => task[s].orphan \/ task[t].orphan
    BY DEF CallsInv, Flights
  <2>2. ASSUME NEW c \in Callers, caller[c].at = "waiting"
        PROVE  /\ task[caller[c].task].at # "cancelled"
               /\ Answers(task[caller[c].task].query, caller[c].query)
    <3>1. /\ caller[c].query \in Queries /\ caller[c].task # NoTask
          /\ Fetches(caller[c].task, FlightKey(caller[c].query))
      BY <2>2 DEF CallsInv, Flights
    <3>2. caller[c].task \in Tasks
      BY <3>1 DEF CallsInv, CallsTypeOK, CallerType
    <3> QED  BY <3>1, <3>2, SameBucket, CallsAssumption DEF Fetches, CallsInv, Flights
  <2> QED  BY <2>1, <2>2 DEF OneFlight
<1> QED  BY <1>1, CallsAreInvariant, PTL

\* _run_with_backpressure, for any parallelism: the calls of an operation are bounded
\* by it, however entries of the limiter are dropped and made again.
THEOREM CallsStayBounded == CallsSpec => []BoundedCalls
<1>1. CallsInv => BoundedCalls
  <2> SUFFICES ASSUME CallsInv, NEW o \in Operations
               PROVE  Cardinality({t \in Tasks : task[t].at = "calling" /\ Operation(t) = o})
                        <= Parallelism
    BY DEF BoundedCalls
  <2> DEFINE S == {t \in Tasks : task[t].at = "calling" /\ Operation(t) = o}
             e == limiter[o]
  <2>0. CallsAssumption
    BY CallsAssumption
  <2>1. \A t \in S : t \in Tasks /\ task[t].entry = e /\ e \in Limiters /\ task[t].at = "calling"
    BY <2>0, OfTask DEF UnderLimit
  <2>2. CASE S = {}
    <3>1. Cardinality(S) = 0
      BY <2>2, FS_EmptySet
    <3>2. Parallelism \in Nat
      BY <2>0 DEF CallsAssumption
    <3> HIDE DEF S
    <3>3. Cardinality(S) <= Parallelism
      BY <3>1, <3>2
    <3> QED  BY <3>3 DEF S
  <2>3. CASE S # {}
    <3>1. e \in Limiters
      BY <2>1, <2>3
    <3>2. S \subseteq CallingUnder(task, e)
      BY <2>1 DEF CallingUnder
    <3> HIDE DEF S, e
    <3>3. /\ IsFiniteSet(CallingUnder(task, e))
          /\ Cardinality(CallingUnder(task, e)) <= Cardinality(HoldingUnder(task, e))
          /\ Cardinality(CallingUnder(task, e)) \in Nat /\ Cardinality(HoldingUnder(task, e)) \in Nat
      BY <2>0, FewFetches, FS_CardinalityType
    <3>4. Cardinality(S) <= Cardinality(CallingUnder(task, e)) /\ Cardinality(S) \in Nat
      BY <3>2, <3>3, FS_Subset, FS_CardinalityType
    <3>5. entry[e].permits + Cardinality(HoldingUnder(task, e)) = Parallelism
          /\ entry[e].permits \in Nat
      BY <3>1, OfEntry DEF EntryOK, Counts, LooseType
    <3>6. Cardinality(S) <= Parallelism
      BY <2>0, <3>3, <3>4, <3>5 DEF CallsAssumption
    <3> QED  BY <3>6 DEF S
  <2> QED  BY <2>2, <2>3
<1> QED  BY <1>1, CallsAreInvariant, PTL

\* Every variable of ExchangeCalls has its type: no limiter ever has more permits than its
\* parallelism, and counts no more calls in flight than there are tasks.
THEOREM CallsTypes == CallsSpec => []CallsTypeOK
<1>1. CallsInv => CallsTypeOK
  BY DEF CallsInv
<1> QED
  BY <1>1, CallsAreInvariant, PTL

-----------------------------------------------------------------------------
(* Transactions.  The invariant says what a session may hold at each point:*)
(* rows that no other session holds, insertions of what is not stored and  *)
(* updates of what is, and, of what has been looked at, only what is either*)
(* held or stored already.                                                 *)

Got(s) == {t \in Txs : s.fetched[t] # "none"}
Holds(s) == s.inserted \union s.updated

\* An insertion is of a row that is not stored, an update of one that is.
HeldRows(s, R) ==
  /\ \A t \in s.inserted : R[t] = "none"
  /\ \A t \in s.updated : R[t] # "none"
  /\ s.last.tx # 0 /\ ~s.last.insert => R[s.last.tx] # "none"

\* What a session handles was fetched; only a batch holds rows.
Handled(s) ==
  /\ Holds(s) \subseteq Got(s) /\ s.todo \subseteq Got(s)
  /\ s.last.tx # 0 => s.last.tx \in Got(s)
  /\ s.last.insert => s.last.tx # 0
  /\ s.at # "batch" => Holds(s) = {}
  /\ s.at \notin {"batch", "one"} => s.last.tx = 0

\* What has been looked at is held or stored, as it was fetched if no other refresh ran.
LookedAt(s, R) ==
  /\ s.at = "batch" =>
       \A t \in Got(s) \ s.todo : t \in Holds(s) \/ t = s.last.tx \/ R[t] # "none"
  /\ s.at = "batch" /\ s.alone =>
       \A t \in Got(s) \ s.todo : t \in Holds(s) \/ t = s.last.tx \/ R[t] = s.fetched[t]
  /\ s.at = "one" => \A t \in Got(s) \ s.todo : R[t] # "none"
  /\ s.at = "saved" => \A t \in Got(s) : R[t] # "none"
  /\ s.at = "saved" /\ s.alone => \A t \in Got(s) : R[t] = s.fetched[t]

\* Alone, nothing is refused.
NothingRefused(s, R) ==
  s.alone => s.at \notin {"one", "broken"} /\ (s.last.insert => R[s.last.tx] = "none")

SessionOK(s, R) == HeldRows(s, R) /\ Handled(s) /\ LookedAt(s, R) /\ NothingRefused(s, R)

Separate ==
  \A r, q \in Savers : r # q => /\ Holds(saving[r]) \intersect Holds(saving[q]) = {}
                                /\ saving[r].alone => saving[q].at = "idle"

CountedOnce == \A t \in Txs : counted[t] = IF rows[t] = "none" THEN 0 ELSE 1

Inv ==
  /\ TxTypeOK /\ Separate /\ CountedOnce
  /\ \A r \in Savers : SessionOK(saving[r], rows)

-----------------------------------------------------------------------------
(* The other sessions.                                                       *)

\* A commit that stores rows a session does not hold leaves its statements true, if it
\* is not alone.
LEMMA StoredBesides ==
  ASSUME TransactionsAssumption, NEW s \in SavingType, NEW R \in [Txs -> Statuses],
         NEW Q \in [Txs -> Statuses], SessionOK(s, R), ~s.alone,
         \A t \in Txs : R[t] # "none" => Q[t] # "none",
         \A t \in Holds(s) : Q[t] = R[t]
  PROVE  SessionOK(s, Q)
<1>1. /\ s.last \in [tx : 0 .. MaxTx, insert : BOOLEAN] /\ s.inserted \subseteq Txs
      /\ s.updated \subseteq Txs /\ s.todo \subseteq Txs /\ s.fetched \in [Txs -> Statuses]
  BY DEF SavingType
<1>2. Got(s) \subseteq Txs /\ (s.last.tx # 0 => s.last.tx \in Txs)
  BY <1>1 DEF Got, Txs, TransactionsAssumption
<1>3. HeldRows(s, Q)
  BY <1>1, <1>2 DEF SessionOK, HeldRows, Holds
<1>4. LookedAt(s, Q)
  BY <1>1, <1>2 DEF SessionOK, LookedAt
<1>5. NothingRefused(s, Q)
  BY DEF NothingRefused
<1> QED  BY <1>3, <1>4, <1>5 DEF SessionOK

\* Nor does it matter to a session that it is no longer alone.
LEMMA NoLongerAlone ==
  ASSUME NEW s \in SavingType, NEW R \in [Txs -> Statuses], SessionOK(s, R)
  PROVE  NotAlone(s) \in SavingType /\ SessionOK(NotAlone(s), R) /\ ~NotAlone(s).alone
         /\ Holds(NotAlone(s)) = Holds(s) /\ NotAlone(s).at = s.at
<1> DEFINE n == NotAlone(s)
<1>1. /\ n.at = s.at /\ n.fetched = s.fetched /\ n.todo = s.todo /\ n.last = s.last
      /\ n.inserted = s.inserted /\ n.updated = s.updated /\ n.alone = FALSE
      /\ n \in SavingType
  BY DEF NotAlone, SavingType
<1>2. Got(n) = Got(s) /\ Holds(n) = Holds(s)
  BY <1>1 DEF Got, Holds
<1> HIDE DEF n
<1>3. HeldRows(n, R) /\ Handled(n) /\ LookedAt(n, R) /\ NothingRefused(n, R)
  BY <1>1, <1>2 DEF SessionOK, HeldRows, Handled, LookedAt, NothingRefused
<1> QED  BY <1>1, <1>2, <1>3 DEF SessionOK, n

-----------------------------------------------------------------------------
(* The steps of one refresh.                                                 *)

\* The session of a refresh, as the invariant describes it.
LEMMA OfSession ==
  ASSUME TransactionsAssumption, Inv, NEW r \in Savers
  PROVE  /\ SessionOK(saving[r], rows)
         /\ saving[r].at \in {"idle", "batch", "one", "saved", "broken"}
         /\ saving[r].fetched \in [Txs -> Statuses] /\ saving[r].todo \subseteq Txs
         /\ saving[r].last \in [tx : 0 .. MaxTx, insert : BOOLEAN]
         /\ saving[r].inserted \subseteq Txs /\ saving[r].updated \subseteq Txs
         /\ saving[r].alone \in BOOLEAN
         /\ Fetched(r) = Got(saving[r]) /\ Got(saving[r]) \subseteq Txs
         /\ rows \in [Txs -> Statuses] /\ 0 \notin Txs
         /\ saving[r] \in SavingType
  BY DEF Inv, TxTypeOK, SavingType, Fetched, Got, Txs, TransactionsAssumption

\* A step of one refresh that stores nothing keeps the invariant if the session of
\* that refresh is as described, and holds nothing that another one holds.
LEMMA OnlyTheSession ==
  ASSUME TransactionsAssumption, Inv, NEW r \in Savers, NEW s \in SavingType,
         saving' = [saving EXCEPT ![r] = s], UNCHANGED <<provider, rows, counted>>,
         SessionOK(s, rows),
         \A q \in Savers \ {r} : Holds(s) \intersect Holds(saving[q]) = {},
         s.alone => saving[r].alone, saving[r].at # "idle"
  PROVE  Inv'
<1>1. TxTypeOK'
  BY DEF Inv, TxTypeOK
<1>2. \A q \in Savers : saving'[q] = IF q = r THEN s ELSE saving[q]
  BY DEF Inv, TxTypeOK
<1>3. Separate'
  BY <1>2 DEF Inv, Separate
<1>4. CountedOnce'
  BY DEF Inv, CountedOnce
<1>5. \A q \in Savers : SessionOK(saving'[q], rows')
  BY <1>2 DEF Inv
<1> QED  BY <1>1, <1>3, <1>4, <1>5 DEF Inv

\* A commit of a refresh keeps it if the rows that it stores were held by no other one.
LEMMA OnlyTheCommit ==
  ASSUME TransactionsAssumption, Inv, NEW r \in Savers, NEW s \in SavingType,
         saving' = [saving EXCEPT ![r] = s], UNCHANGED provider,
         rows' \in [Txs -> Statuses], counted' \in [Txs -> 0 .. 2], CountedOnce',
         \A t \in Txs : rows[t] # "none" => rows'[t] # "none",
         \A q \in Savers \ {r} : \A t \in Holds(saving[q]) : rows'[t] = rows[t],
         SessionOK(s, rows'), Holds(s) = {},
         s.alone => saving[r].alone, saving[r].at # "idle"
  PROVE  Inv'
<1>1. TxTypeOK'
  BY DEF Inv, TxTypeOK
<1>2. \A q \in Savers : saving'[q] = IF q = r THEN s ELSE saving[q]
  BY DEF Inv, TxTypeOK
<1>3. Separate'
  BY <1>2 DEF Inv, Separate
<1>4. ASSUME NEW q \in Savers, q # r
      PROVE  SessionOK(saving[q], rows')
  <2>1. ~saving[q].alone
    BY <1>4 DEF Inv, Separate
  <2>2. saving[q] \in SavingType /\ SessionOK(saving[q], rows) /\ rows \in [Txs -> Statuses]
    BY OfSession
  <2> QED  BY <1>4, <2>1, <2>2, StoredBesides
<1>5. \A q \in Savers : SessionOK(saving'[q], rows')
  BY <1>2, <1>4
<1> QED  BY <1>1, <1>3, <1>5 DEF Inv

\* A session with nothing in it.
LEMMA EmptySession ==
  ASSUME NEW at \in {"idle", "batch", "one", "saved", "broken"},
         NEW fetched \in [Txs -> Statuses], NEW todo \in SUBSET Txs, NEW alone \in BOOLEAN,
         TransactionsAssumption
  PROVE  /\ Session(at, fetched, todo, alone) \in SavingType
         /\ Session(at, fetched, todo, alone).at = at
         /\ Session(at, fetched, todo, alone).fetched = fetched
         /\ Session(at, fetched, todo, alone).todo = todo
         /\ Session(at, fetched, todo, alone).last.tx = 0
         /\ Session(at, fetched, todo, alone).last.insert = FALSE
         /\ Session(at, fetched, todo, alone).alone = alone
         /\ Session(at, fetched, todo, alone).inserted = {}
         /\ Session(at, fetched, todo, alone).updated = {}
         /\ Holds(Session(at, fetched, todo, alone)) = {}
  BY DEF Session, SavingType, NoRow, Holds, TransactionsAssumption

\* The session of a refresh that does not run.
LEMMA EmptyIdle ==
  ASSUME TransactionsAssumption, NEW s, s = Session("idle", [t \in Txs |-> "none"], {}, FALSE)
  PROVE  /\ s \in SavingType /\ s.at = "idle" /\ s.fetched = [t \in Txs |-> "none"] /\ s.todo = {}
         /\ s.last.tx = 0 /\ s.last.insert = FALSE /\ s.alone = FALSE /\ Holds(s) = {}
         /\ s.inserted = {} /\ s.updated = {}
<1>1. [t \in Txs |-> "none"] \in [Txs -> Statuses]
  BY DEF Statuses
<1> DEFINE f == [t \in Txs |-> "none"]
<1> HIDE DEF f
<1>2. f \in [Txs -> Statuses] => Session("idle", f, {}, FALSE) \in SavingType
  BY EmptySession
<1>3. s \in SavingType
  BY <1>1, <1>2 DEF f
<1> QED  BY <1>3 DEF Session, NoRow, Holds

\* FetchTxs begins a session with nothing in it.
LEMMA FetchKeeps ==
  ASSUME TransactionsAssumption, Inv, NEW r \in Savers, FetchTxs(r)
  PROVE  Inv'
<1> DEFINE todo == {t \in Txs : provider[t] # "none"}
           alone == \A p \in Savers \ {r} : saving[p].at = "idle"
           s == Session("batch", provider, todo, alone)
<1>0. provider \in [Txs -> Statuses] /\ todo \in SUBSET Txs /\ alone \in BOOLEAN
  BY DEF Inv, TxTypeOK
<1> HIDE DEF todo, alone
<1>1. /\ s \in SavingType /\ s.at = "batch" /\ s.fetched = provider /\ s.todo = todo
      /\ s.last.tx = 0 /\ s.last.insert = FALSE /\ s.alone = alone /\ Holds(s) = {}
      /\ s.inserted = {} /\ s.updated = {}
  BY <1>0 DEF Session, SavingType, NoRow, Holds, TransactionsAssumption
<1> USE DEF todo, alone
<1>2. Got(s) = todo
  BY <1>1 DEF Got
<1>3. saving' = [q \in Savers |-> IF q = r THEN s ELSE NotAlone(saving[q])]
      /\ UNCHANGED <<provider, rows, counted>>
  BY DEF FetchTxs
<1> HIDE DEF s
<1>4. SessionOK(s, rows)
  BY <1>1, <1>2 DEF SessionOK, HeldRows, Handled, LookedAt, NothingRefused
<1>5. ASSUME NEW q \in Savers, q # r
      PROVE  /\ saving'[q] \in SavingType /\ SessionOK(saving'[q], rows)
             /\ ~saving'[q].alone /\ Holds(saving'[q]) = Holds(saving[q])
             /\ saving'[q].at = saving[q].at
  BY <1>3, <1>5, NoLongerAlone, OfSession
<1>6. saving'[r] = s
  BY <1>3
<1>7. TxTypeOK'
  <2>1. saving' \in [Savers -> SavingType]
    BY <1>1, <1>3, <1>5
  <2> QED  BY <2>1, <1>3 DEF Inv, TxTypeOK
<1>8. Separate'
  <2> SUFFICES ASSUME NEW p \in Savers, NEW q \in Savers, p # q
               PROVE  /\ Holds(saving'[p]) \intersect Holds(saving'[q]) = {}
                      /\ saving'[p].alone => saving'[q].at = "idle"
    BY DEF Separate
  <2>1. CASE p = r
    BY <2>1, <1>1, <1>5, <1>6
  <2>2. CASE q = r
    BY <2>2, <1>1, <1>5, <1>6
  <2>3. CASE p # r /\ q # r
    BY <2>3, <1>5 DEF Inv, Separate
  <2> QED  BY <2>1, <2>2, <2>3
<1>9. CountedOnce'
  BY <1>3 DEF Inv, CountedOnce
<1>10. \A q \in Savers : SessionOK(saving'[q], rows')
  BY <1>3, <1>4, <1>5, <1>6
<1> QED  BY <1>7, <1>8, <1>9, <1>10 DEF Inv

\* Flushing holds what was added last, which no other session holds.
LEMMA Flushing ==
  ASSUME TransactionsAssumption, Inv, NEW r \in Savers, MayFlush(r), ~Conflicts(r)
  PROVE  /\ Inserted(r) \subseteq Got(saving[r]) /\ Updated(r) \subseteq Got(saving[r])
         /\ \A t \in Inserted(r) : rows[t] = "none"
         /\ \A t \in Updated(r) : rows[t] # "none"
         /\ \A q \in Savers \ {r} :
              (Inserted(r) \union Updated(r)) \intersect Holds(saving[q]) = {}
         /\ Inserted(r) \union Updated(r)
              = Holds(saving[r]) \union ({saving[r].last.tx} \ {0})
<1>1. /\ HeldRows(saving[r], rows) /\ Handled(saving[r])
      /\ saving[r].last.insert \in BOOLEAN
      /\ 0 \notin Holds(saving[r])
  BY OfSession DEF SessionOK, Handled
<1>2. \A q \in Savers \ {r} :
        saving[r].last.tx \notin Holds(saving[q]) /\ Holds(saving[r]) \intersect Holds(saving[q]) = {}
  BY DEF MayFlush, RowIsFree, Inv, Separate, Holds
<1>3. saving[r].last.insert => rows[saving[r].last.tx] = "none"
  BY DEF Conflicts
<1> QED  BY <1>1, <1>2, <1>3 DEF Inserted, Updated, HeldRows, Handled, Holds

\* SaveItem flushes what was added last and adds the next one.
LEMMA SaveItemKeeps ==
  ASSUME TransactionsAssumption, Inv, NEW r \in Savers, NEW t \in Txs, SaveItem(r, t)
  PROVE  Inv'
<1> DEFINE s == [at |-> "batch", fetched |-> saving[r].fetched, todo |-> saving[r].todo \ {t},
                 last |-> ToWrite(r, t), inserted |-> Inserted(r), updated |-> Updated(r),
                 alone |-> saving[r].alone]
<1>1. /\ saving[r].at = "batch" /\ t \in saving[r].todo /\ MayFlush(r) /\ ~Conflicts(r)
      /\ saving' = [saving EXCEPT ![r] = s] /\ UNCHANGED <<provider, rows, counted>>
  BY DEF SaveItem, IsNext
<1>2. /\ HeldRows(saving[r], rows) /\ Handled(saving[r]) /\ LookedAt(saving[r], rows)
      /\ NothingRefused(saving[r], rows)
  BY OfSession DEF SessionOK
<1>3. /\ ToWrite(r, t) \in [tx : 0 .. MaxTx, insert : BOOLEAN]
      /\ ToWrite(r, t).tx \in {0, t}
      /\ ToWrite(r, t).insert => rows[t] = "none" /\ ToWrite(r, t).tx = t
      /\ ToWrite(r, t).tx = t /\ ~ToWrite(r, t).insert => rows[t] # "none"
      /\ ToWrite(r, t).tx = 0 => rows[t] # "none" /\ rows[t] = saving[r].fetched[t]
  BY DEF ToWrite, NoRow, Txs, TransactionsAssumption
<1>4. /\ s.at = "batch" /\ s.fetched = saving[r].fetched /\ s.todo = saving[r].todo \ {t}
      /\ s.last = ToWrite(r, t) /\ s.inserted = Inserted(r) /\ s.updated = Updated(r)
      /\ s.alone = saving[r].alone
  OBVIOUS
<1>5. s \in SavingType
  BY <1>3, OfSession, Flushing, <1>1 DEF SavingType
<1>6. Got(s) = Got(saving[r]) /\ Holds(s) = Inserted(r) \union Updated(r)
  BY <1>4 DEF Got, Holds
<1> HIDE DEF s
<1>7. HeldRows(s, rows)
  BY <1>1, <1>3, <1>4, Flushing DEF HeldRows
<1>8. Handled(s)
  BY <1>1, <1>2, <1>3, <1>4, <1>6, Flushing DEF Handled
<1>9. LookedAt(s, rows)
  <2>1. ASSUME NEW u \in Got(s) \ s.todo
        PROVE  /\ u \in Holds(s) \/ u = s.last.tx \/ rows[u] # "none"
               /\ s.alone => u \in Holds(s) \/ u = s.last.tx \/ rows[u] = s.fetched[u]
    <3>1. CASE u = t
      BY <3>1, <1>3, <1>4
    <3>2. CASE u # t
      <4>1. u \in Got(saving[r]) \ saving[r].todo /\ u # 0
        BY <3>2, <1>4, <1>6, OfSession
      <4>2. /\ u \in Holds(saving[r]) \/ u = saving[r].last.tx \/ rows[u] # "none"
            /\ saving[r].alone => u \in Holds(saving[r]) \/ u = saving[r].last.tx
                                    \/ rows[u] = saving[r].fetched[u]
        BY <4>1, <1>1, <1>2 DEF LookedAt
      <4> QED  BY <4>1, <4>2, <1>1, <1>4, <1>6, Flushing
    <3> QED  BY <3>1, <3>2
  <2> QED  BY <2>1, <1>4 DEF LookedAt
<1>10. NothingRefused(s, rows)
  BY <1>3, <1>4 DEF NothingRefused
<1>11. SessionOK(s, rows)
  BY <1>7, <1>8, <1>9, <1>10 DEF SessionOK
<1>12. \A q \in Savers \ {r} : Holds(s) \intersect Holds(saving[q]) = {}
  BY <1>1, <1>6, Flushing
<1> QED  BY <1>1, <1>4, <1>5, <1>11, <1>12, OnlyTheSession

\* A step that goes on with an empty session and stores nothing.
LEMMA GoingOnKeeps ==
  ASSUME TransactionsAssumption, Inv, NEW r \in Savers,
         NEW at \in {"one", "saved", "broken"}, NEW todo \in SUBSET Fetched(r),
         GoesOnWith(r, at, todo), UNCHANGED <<provider, rows, counted>>,
         saving[r].at # "idle",
         saving[r].alone => at = "saved" /\ \A t \in Fetched(r) : rows[t] = saving[r].fetched[t],
         at \in {"one", "saved"} => \A t \in Fetched(r) \ todo : rows[t] # "none",
         at = "saved" => todo = {}
  PROVE  Inv'
<1> DEFINE s == Session(at, saving[r].fetched, todo, saving[r].alone)
<1>1. /\ s \in SavingType /\ s.at = at /\ s.fetched = saving[r].fetched /\ s.todo = todo
      /\ s.last.tx = 0 /\ s.last.insert = FALSE /\ s.alone = saving[r].alone /\ Holds(s) = {}
      /\ s.inserted = {} /\ s.updated = {}
  <2>1. /\ at \in {"idle", "batch", "one", "saved", "broken"}
        /\ saving[r].fetched \in [Txs -> Statuses] /\ todo \in SUBSET Txs
        /\ saving[r].alone \in BOOLEAN
    BY OfSession
  <2> QED  BY <2>1 DEF Session, SavingType, NoRow, Holds, TransactionsAssumption
<1>2. Got(s) = Fetched(r)
  BY <1>1 DEF Got, Fetched
<1>3. saving' = [saving EXCEPT ![r] = s]
  BY DEF GoesOnWith
<1> HIDE DEF s
<1>4. SessionOK(s, rows)
  BY <1>1, <1>2 DEF SessionOK, HeldRows, Handled, LookedAt, NothingRefused
<1> QED  BY <1>1, <1>3, <1>4, OnlyTheSession

\* A step that goes on with an empty session after a commit.
LEMMA StoringKeeps ==
  ASSUME TransactionsAssumption, Inv, NEW r \in Savers,
         NEW at \in {"one", "saved"}, NEW todo \in SUBSET Fetched(r),
         GoesOnWith(r, at, todo), UNCHANGED provider, saving[r].at # "idle",
         MayFlush(r), ~Conflicts(r), rows' = Written(r), counted' = CountedWith(Inserted(r)),
         saving[r].alone => at = "saved" /\ \A t \in Fetched(r) : rows'[t] = saving[r].fetched[t],
         \A t \in Fetched(r) \ todo : rows'[t] # "none",
         at = "saved" => todo = {}
  PROVE  Inv'
<1> DEFINE s == Session(at, saving[r].fetched, todo, saving[r].alone)
<1>1. /\ s \in SavingType /\ s.at = at /\ s.fetched = saving[r].fetched /\ s.todo = todo
      /\ s.last.tx = 0 /\ s.last.insert = FALSE /\ s.alone = saving[r].alone /\ Holds(s) = {}
      /\ s.inserted = {} /\ s.updated = {}
  <2>1. /\ at \in {"idle", "batch", "one", "saved", "broken"}
        /\ saving[r].fetched \in [Txs -> Statuses] /\ todo \in SUBSET Txs
        /\ saving[r].alone \in BOOLEAN
    BY OfSession
  <2> QED  BY <2>1 DEF Session, SavingType, NoRow, Holds, TransactionsAssumption
<1>2. Got(s) = Fetched(r)
  BY <1>1 DEF Got, Fetched
<1>3. saving' = [saving EXCEPT ![r] = s]
  BY DEF GoesOnWith
<1> HIDE DEF s
<1>4. SessionOK(s, rows')
  BY <1>1, <1>2 DEF SessionOK, HeldRows, Handled, LookedAt, NothingRefused
<1>5. /\ rows' \in [Txs -> Statuses]
      /\ \A t \in Txs : rows'[t] = IF t \in Inserted(r) \union Updated(r)
                                   THEN saving[r].fetched[t] ELSE rows[t]
  BY OfSession DEF Written
<1>6. \A t \in Inserted(r) \union Updated(r) : t \in Txs /\ saving[r].fetched[t] # "none"
  BY Flushing DEF Got
<1>7. \A t \in Txs : rows[t] # "none" => rows'[t] # "none"
  BY <1>5, <1>6
<1>8. \A q \in Savers \ {r} : \A t \in Holds(saving[q]) : rows'[t] = rows[t]
  <2>1. \A q \in Savers : Holds(saving[q]) \subseteq Txs
    BY OfSession DEF Holds
  <2> QED  BY <2>1, <1>5, Flushing
<1>9. counted' \in [Txs -> 0 .. 2] /\ CountedOnce'
  <2>1. counted \in [Txs -> 0 .. 2]
    BY DEF Inv, TxTypeOK
  <2>2. counted' = [t \in Txs |-> IF t \in Inserted(r) /\ counted[t] < 2
                                   THEN counted[t] + 1 ELSE counted[t]]
    BY DEF CountedWith
  <2>3. counted' \in [Txs -> 0 .. 2]
    BY <2>1, <2>2
  <2>4. ASSUME NEW t \in Txs
        PROVE  counted'[t] = IF rows'[t] = "none" THEN 0 ELSE 1
    <3>1. counted[t] = IF rows[t] = "none" THEN 0 ELSE 1
      BY DEF Inv, CountedOnce
    <3>2. CASE t \in Inserted(r)
      BY <3>1, <3>2, <2>2, <1>5, <1>6, Flushing
    <3>3. CASE t \notin Inserted(r)
      <4>1. counted'[t] = counted[t]
        BY <3>3, <2>2
      <4>2. rows'[t] = "none" <=> rows[t] = "none"
        BY <3>3, <1>5, <1>6, Flushing
      <4> QED  BY <4>1, <4>2, <3>1
    <3> QED  BY <3>2, <3>3
  <2> QED  BY <2>3, <2>4 DEF CountedOnce
<1> QED  BY <1>1, <1>3, <1>4, <1>5, <1>7, <1>8, <1>9, OnlyTheCommit

\* ItemBreaks loses a session that is not alone.
LEMMA ItemBreaksKeeps ==
  ASSUME TransactionsAssumption, Inv, NEW r \in Savers, ItemBreaks(r)
  PROVE  Inv'
<1>1. /\ saving[r].at = "batch" /\ Conflicts(r) /\ GoesOnWith(r, "broken", {})
      /\ UNCHANGED <<provider, rows, counted>>
  BY DEF ItemBreaks
<1>2. ~saving[r].alone
  BY <1>1, OfSession DEF Conflicts, SessionOK, NothingRefused
<1> QED  BY <1>1, <1>2, GoingOnKeeps

\* CommitConflicts begins again, one by one, with everything fetched.
LEMMA CommitConflictsKeeps ==
  ASSUME TransactionsAssumption, Inv, NEW r \in Savers, CommitConflicts(r)
  PROVE  Inv'
<1>1. /\ saving[r].at = "batch" /\ Conflicts(r) /\ GoesOnWith(r, "one", Fetched(r))
      /\ UNCHANGED <<provider, rows, counted>>
  BY DEF CommitConflicts, Again
<1>2. ~saving[r].alone
  BY <1>1, OfSession DEF Conflicts, SessionOK, NothingRefused
<1> QED  BY <1>1, <1>2, GoingOnKeeps

\* SavedAll ends when everything is stored.
LEMMA SavedAllKeeps ==
  ASSUME TransactionsAssumption, Inv, NEW r \in Savers, SavedAll(r)
  PROVE  Inv'
<1>1. /\ saving[r].at = "one" /\ saving[r].todo = {} /\ GoesOnWith(r, "saved", {})
      /\ UNCHANGED <<provider, rows, counted>>
  BY DEF SavedAll
<1>2. /\ ~saving[r].alone
      /\ \A t \in Fetched(r) : rows[t] # "none"
  BY <1>1, OfSession DEF SessionOK, NothingRefused, LookedAt
<1> QED  BY <1>1, <1>2, GoingOnKeeps

\* CommitBatch stores what the batch holds.
LEMMA CommitBatchKeeps ==
  ASSUME TransactionsAssumption, Inv, NEW r \in Savers, CommitBatch(r)
  PROVE  Inv'
<1>1. /\ saving[r].at = "batch" /\ saving[r].todo = {} /\ GoesOnWith(r, "saved", {})
      /\ UNCHANGED provider /\ MayFlush(r) /\ ~Conflicts(r)
      /\ rows' = Written(r) /\ counted' = CountedWith(Inserted(r))
  BY DEF CommitBatch
<1>2. ASSUME NEW t \in Fetched(r)
      PROVE  /\ rows'[t] # "none"
             /\ saving[r].alone => rows'[t] = saving[r].fetched[t]
  <2>1. /\ t \in Txs /\ t # 0 /\ t \in Got(saving[r]) \ saving[r].todo
        /\ saving[r].fetched[t] # "none"
    BY <1>1, OfSession DEF Got
  <2>2. /\ t \in Holds(saving[r]) \/ t = saving[r].last.tx \/ rows[t] # "none"
        /\ saving[r].alone => t \in Holds(saving[r]) \/ t = saving[r].last.tx
                                \/ rows[t] = saving[r].fetched[t]
    BY <1>1, <2>1, OfSession DEF SessionOK, LookedAt
  <2>3. t \in Holds(saving[r]) \/ t = saving[r].last.tx => t \in Inserted(r) \union Updated(r)
    BY <1>1, <2>1, Flushing
  <2>4. rows'[t] = IF t \in Inserted(r) \union Updated(r) THEN saving[r].fetched[t] ELSE rows[t]
    BY <1>1, <2>1 DEF Written
  <2> QED  BY <2>1, <2>2, <2>3, <2>4
<1> QED  BY <1>1, <1>2, StoringKeeps

\* LookOne looks at the next one.
LEMMA LookOneKeeps ==
  ASSUME TransactionsAssumption, Inv, NEW r \in Savers, NEW t \in Txs, LookOne(r, t)
  PROVE  Inv'
<1> DEFINE todo == IF ToWrite(r, t) = NoRow THEN saving[r].todo \ {t} ELSE saving[r].todo
           s == [at |-> "one", fetched |-> saving[r].fetched, todo |-> todo,
                 last |-> ToWrite(r, t), inserted |-> {}, updated |-> {},
                 alone |-> saving[r].alone]
<1>1. /\ saving[r].at = "one" /\ t \in saving[r].todo
      /\ saving' = [saving EXCEPT ![r] = s] /\ UNCHANGED <<provider, rows, counted>>
  BY DEF LookOne, IsNext
<1>2. Handled(saving[r]) /\ LookedAt(saving[r], rows) /\ NothingRefused(saving[r], rows)
  BY OfSession DEF SessionOK
<1>3. /\ ToWrite(r, t) \in [tx : 0 .. MaxTx, insert : BOOLEAN]
      /\ ToWrite(r, t).tx \in {0, t}
      /\ ToWrite(r, t).insert => ToWrite(r, t).tx = t
      /\ ToWrite(r, t).tx = t /\ ~ToWrite(r, t).insert => rows[t] # "none"
      /\ ToWrite(r, t) = NoRow => rows[t] # "none"
  BY DEF ToWrite, NoRow, Txs, TransactionsAssumption
<1>4. /\ s.at = "one" /\ s.fetched = saving[r].fetched /\ s.todo = todo
      /\ s.last = ToWrite(r, t) /\ s.inserted = {} /\ s.updated = {}
      /\ s.alone = saving[r].alone
  OBVIOUS
<1>5. s \in SavingType
  BY <1>3, OfSession DEF SavingType
<1>6. Got(s) = Got(saving[r]) /\ Holds(s) = {}
  BY <1>4 DEF Got, Holds
<1> HIDE DEF s
<1>7. ~saving[r].alone
  BY <1>1, <1>2 DEF NothingRefused
<1>8. HeldRows(s, rows)
  BY <1>3, <1>4 DEF HeldRows, Txs, TransactionsAssumption
<1>9. Handled(s)
  BY <1>1, <1>2, <1>3, <1>4, <1>6, OfSession DEF Handled
<1>10. LookedAt(s, rows)
  BY <1>1, <1>2, <1>3, <1>4, <1>6 DEF LookedAt
<1>11. SessionOK(s, rows)
  BY <1>4, <1>7, <1>8, <1>9, <1>10 DEF SessionOK, NothingRefused
<1> QED  BY <1>1, <1>4, <1>5, <1>6, <1>11, OnlyTheSession

\* CommitOne stores it, or leaves what is there by now.
LEMMA CommitOneKeeps ==
  ASSUME TransactionsAssumption, Inv, NEW r \in Savers, CommitOne(r)
  PROVE  Inv'
<1> DEFINE todo == saving[r].todo \ {saving[r].last.tx}
<1>1. /\ saving[r].at = "one" /\ saving[r].last # NoRow /\ MayFlush(r)
      /\ GoesOnWith(r, "one", todo) /\ UNCHANGED provider
      /\ rows' = IF Conflicts(r) THEN rows ELSE Written(r)
      /\ counted' = CountedWith(Added(r))
  BY DEF CommitOne
<1>2. /\ Handled(saving[r]) /\ ~saving[r].alone
      /\ \A t \in Fetched(r) \ saving[r].todo : rows[t] # "none"
  BY <1>1, OfSession DEF SessionOK, NothingRefused, LookedAt
<1>3. todo \in SUBSET Fetched(r) /\ Holds(saving[r]) = {} /\ saving[r].inserted = {}
  BY <1>1, <1>2, OfSession DEF Handled, Holds
<1>4. CASE Conflicts(r)
  <2>1. rows[saving[r].last.tx] # "none"
    BY <1>4 DEF Conflicts
  <2>2. UNCHANGED <<provider, rows, counted>>
    <3>1. Added(r) = {}
      BY <1>4 DEF Added
    <3>2. CountedWith({}) = counted
      BY DEF CountedWith, Inv, TxTypeOK
    <3> QED  BY <1>1, <1>4, <3>1, <3>2
  <2> QED  BY <1>1, <1>2, <1>3, <2>1, <2>2, GoingOnKeeps
<1>5. CASE ~Conflicts(r)
  <2>1. Added(r) = Inserted(r)
    BY <1>3, <1>5 DEF Added, Inserted
  <2>2. ASSUME NEW t \in Fetched(r) \ todo
        PROVE  rows'[t] # "none"
    <3>1. t \in Txs /\ t # 0 /\ saving[r].fetched[t] # "none"
      BY OfSession DEF Got
    <3>2. t = saving[r].last.tx => t \in Inserted(r) \union Updated(r)
      BY <1>1, <1>5, <3>1, Flushing
    <3>3. rows'[t] = IF t \in Inserted(r) \union Updated(r) THEN saving[r].fetched[t] ELSE rows[t]
      BY <1>1, <1>5, <3>1 DEF Written
    <3> QED  BY <1>2, <3>1, <3>2, <3>3
  <2> QED  BY <1>1, <1>2, <1>3, <1>5, <2>1, <2>2, StoringKeeps
<1> QED  BY <1>4, <1>5

\* SavingEnds drops what is not committed.
LEMMA SavingEndsKeeps ==
  ASSUME TransactionsAssumption, Inv, NEW r \in Savers, SavingEnds(r)
  PROVE  Inv'
<1> DEFINE s == Session("idle", [t \in Txs |-> "none"], {}, FALSE)
<1>1. /\ s \in SavingType /\ s.at = "idle" /\ s.fetched = [t \in Txs |-> "none"] /\ s.todo = {}
      /\ s.last.tx = 0 /\ s.last.insert = FALSE /\ s.alone = FALSE /\ Holds(s) = {}
      /\ s.inserted = {} /\ s.updated = {}
  BY EmptyIdle
<1>2. saving' = [saving EXCEPT ![r] = s] /\ UNCHANGED <<provider, rows, counted>>
      /\ saving[r].at # "idle"
  BY DEF SavingEnds, Session, NoSaving
<1> HIDE DEF s
<1>3. SessionOK(s, rows)
  BY <1>1 DEF SessionOK, HeldRows, Handled, LookedAt, NothingRefused
<1> QED  BY <1>1, <1>2, <1>3, OnlyTheSession

-----------------------------------------------------------------------------
(* The theorem.                                                              *)

\* At first there is nothing.
LEMMA InitHasIt ==
  ASSUME TransactionsAssumption, TxInit
  PROVE  Inv
<1> DEFINE s == Session("idle", [t \in Txs |-> "none"], {}, FALSE)
<1>1. /\ s \in SavingType /\ s.at = "idle" /\ s.fetched = [t \in Txs |-> "none"] /\ s.todo = {}
      /\ s.last.tx = 0 /\ s.last.insert = FALSE /\ s.alone = FALSE /\ Holds(s) = {}
      /\ s.inserted = {} /\ s.updated = {}
  BY EmptyIdle
<1>2. saving = [r \in Savers |-> s]
  BY DEF TxInit, Session, NoSaving
<1> HIDE DEF s
<1>3. TxTypeOK
  BY <1>1, <1>2 DEF TxInit, TxTypeOK, Statuses
<1>4. Separate
  BY <1>1, <1>2 DEF Separate
<1>5. CountedOnce
  BY DEF TxInit, CountedOnce
<1>6. SessionOK(s, rows)
  BY <1>1 DEF SessionOK, HeldRows, Handled, LookedAt, NothingRefused
<1> QED  BY <1>2, <1>3, <1>4, <1>5, <1>6 DEF Inv

\* Every step keeps the invariant.
LEMMA StepKeepsIt ==
  ASSUME TransactionsAssumption, Inv, [TxNext]_txVars
  PROVE  Inv'
<1>1. CASE \E t \in Txs : Happen(t)
  <2>1. UNCHANGED <<rows, saving, counted>> /\ provider' \in [Txs -> Statuses]
    BY <1>1 DEF Happen, Inv, TxTypeOK, Statuses
  <2> QED  BY <2>1 DEF Inv, TxTypeOK, Separate, CountedOnce
<1>2. ASSUME NEW r \in Savers, SavingStep(r)
      PROVE  Inv'
  <2>1. saving[r].todo \subseteq Txs
    BY OfSession
  <2> QED  BY <1>2, <2>1, FetchKeeps, SaveItemKeeps, ItemBreaksKeeps, CommitBatchKeeps,
              CommitConflictsKeeps, LookOneKeeps, CommitOneKeeps, SavedAllKeeps,
              SavingEndsKeeps DEF SavingStep
<1>3. CASE UNCHANGED txVars
  BY <1>3 DEF txVars, Inv, TxTypeOK, Separate, CountedOnce
<1> QED  BY <1>1, <1>2, <1>3 DEF TxNext

\* refresh_transactions, for any number of refreshes and transactions: what a refresh
\* reports as saved is stored, as fetched if no other one ran; a session is lost only
\* in a race; and each stored transaction was counted as new exactly once.
THEOREM ReportedStaysStored == TxSpec => []ReportedIsStored
<1>1. Inv => ReportedIsStored
  <2> SUFFICES ASSUME Inv PROVE ReportedIsStored
    OBVIOUS
  <2>1. CountedOnce
    BY DEF Inv
  <2>2. ASSUME NEW r \in Savers
        PROVE  /\ saving[r].at = "saved" =>
                    \A t \in Fetched(r) : /\ rows[t] # "none"
                                          /\ saving[r].alone => rows[t] = saving[r].fetched[t]
               /\ saving[r].at = "broken" => ~saving[r].alone
    BY OfSession, TransactionsAssumption DEF SessionOK, LookedAt, NothingRefused
  <2> QED  BY <2>1, <2>2 DEF ReportedIsStored, CountedOnce
<1>2. TxInit => Inv
  BY InitHasIt, TransactionsAssumption
<1>3. Inv /\ [TxNext]_txVars => Inv'
  BY StepKeepsIt, TransactionsAssumption
<1> QED  BY <1>1, <1>2, <1>3, PTL DEF TxSpec

\* Every variable of Transactions has its type.
THEOREM TxTypes == TxSpec => []TxTypeOK
<1>1. Inv => TxTypeOK
  BY DEF Inv
<1>2. TxInit => Inv
  BY InitHasIt, TransactionsAssumption
<1>3. Inv /\ [TxNext]_txVars => Inv'
  BY StepKeepsIt, TransactionsAssumption
<1> QED  BY <1>1, <1>2, <1>3, PTL DEF TxSpec

-----------------------------------------------------------------------------
(* BalanceSources.  What a request tolerates is read off the tables, once for*)
(* each source (Fits); what is kept of an account is then excused (Gathered),*)
(* and a merge without a mark has seen the content of every other account.  *)

\* What request row of source s tolerates is what Condoned condones.
Fits(s, row) ==
  /\ "content" \notin row.marked /\ row.times \in 1 .. 3
  /\ row.reads \notin {Prices, "list"} =>
       /\ "refused" \in row.left \ row.marked => s[2] \in BodiesUnread
       /\ row.left \ (row.marked \union {"refused"}) # {} =>
            \/ s = <<"rest", "binance">> /\ row.reads # "spot"
            \/ s = <<"chain", "ton">> /\ row.reads = "jettons"

\* The fields of the requests that every source is made of.
LEMMA MustFields ==
  /\ \A a : /\ Must(a).reads = a /\ Must(a).left = {}
            /\ Must(a).marked = {} /\ Must(a).times = 1
  /\ \A a : /\ BodyUnread(a).reads = a /\ BodyUnread(a).left = {"refused"}
            /\ BodyUnread(a).marked = {} /\ BodyUnread(a).times = 1
BY DEF Must, RowOf, BodyUnread, LeftOut

\* What each of the constructions changes of a request.
LEMMA Fields ==
  /\ \A row, f : /\ LeftOut(row, f).reads = row.reads
                 /\ LeftOut(row, f).left = row.left \union f
                 /\ LeftOut(row, f).marked = row.marked
                 /\ LeftOut(row, f).times = row.times
  /\ \A row, f : /\ WithError(row, f).reads = row.reads
                 /\ WithError(row, f).left = row.left
                 /\ WithError(row, f).marked = f
                 /\ WithError(row, f).times = row.times
  /\ \A row, f, n : /\ AskedAgain(row, f, n).reads = row.reads
                    /\ AskedAgain(row, f, n).left = row.left
                    /\ AskedAgain(row, f, n).marked = row.marked
                    /\ AskedAgain(row, f, n).times = n
  /\ \A row : /\ Valued(row).reads = row.reads
              /\ Valued(row).left = row.left
              /\ Valued(row).marked = row.marked
              /\ Valued(row).times = row.times
BY DEF LeftOut, WithError, AskedAgain, Valued, RowOf

\* The requests of a source are a sequence, and each fits.
Listed(asks) == Len(asks) \in Nat /\ DOMAIN asks = 1 .. Len(asks)

AllFit(s, asks) == Listed(asks) /\ \A i \in DOMAIN asks : Fits(s, asks[i])

\* A function on 1 .. n is a sequence of length n.
LEMMA IsListed ==
  ASSUME NEW n \in Nat, NEW r, r = [i \in 1 .. n |-> r[i]]
  PROVE  Listed(r) /\ Len(r) = n
<1>1. r \in Seq({r[i] : i \in 1 .. n})
  OBVIOUS
<1>2. QED  BY <1>1 DEF Listed

\* The REST gateways and BitMart's, one by one.
LEMMA RestFits ==
  ASSUME NEW n \in DOMAIN RestGateways
  PROVE  AllFit(<<"rest", n>>, RestGateways[n])
<1> USE MustFields, Fields
    DEF RestGateways, AllFit, Listed, Fits, Optional, Prices, BodiesUnread
<1>1. CASE n = "binance"
  BY <1>1 DEF Binance, Failures
<1>2. CASE n = "okx"
  BY <1>2 DEF Okx, Failures
<1>3. CASE n = "bybit"
  BY <1>3 DEF Bybit, Failures
<1>4. CASE n = "bitget"
  BY <1>4 DEF Bitget, Failures
<1>5. CASE n = "gateio"
  BY <1>5 DEF GateIo, Failures
<1>6. CASE n = "kucoin"
  BY <1>6 DEF KuCoin, Failures
<1>7. CASE n = "mexc"
  BY <1>7 DEF Mexc, Failures
<1>8. CASE n = "htx"
  BY <1>8 DEF Htx, Failures
<1>9. CASE n = "poloniex"
  BY <1>9 DEF Poloniex, Failures
<1>10. CASE n = "lbank"
  BY <1>10 DEF Lbank, Failures
<1>11. CASE n = "coinex"
  BY <1>11 DEF CoinEx, Failures
<1>12. CASE n = "bingx"
  BY <1>12 DEF BingX, Failures
<1>13. CASE n = "xt"
  BY <1>13 DEF Xt, Failures
<1>14. CASE n = "bitmart"
  BY <1>14 DEF BitMart, Failures
<1>15. QED  BY <1>1, <1>2, <1>3, <1>4, <1>5, <1>6, <1>7, <1>8, <1>9, <1>10, <1>11,
              <1>12, <1>13, <1>14

\* The wallets, one by one.
LEMMA WalletsFit ==
  ASSUME NEW n \in DOMAIN Wallets
  PROVE  AllFit(<<"chain", n>>, Wallets[n])
<1> USE MustFields, Fields
    DEF Wallets, AllFit, Listed, Fits, Prices, BodiesUnread, TokenPrices, PriceProviders
<1>1. CASE n = "debank"
  BY <1>1 DEF Debank, Failures
<1>2. CASE n = "solana"
  BY <1>2 DEF Solana, Failures
<1>3. CASE n = "tron"
  BY <1>3 DEF Tron, Failures
<1>4. CASE n = "ton"
  BY <1>4 DEF Ton, Failures
<1>5. CASE n = "sui"
  BY <1>5 DEF Sui, Failures
<1>6. QED  BY <1>1, <1>2, <1>3, <1>4, <1>5 DEF Wallets

\* A proxy that cannot be reached changes nothing of what is tolerated.
LEMMA DirectFits ==
  ASSUME NEW s, NEW asks, AllFit(s, asks)
  PROVE  AllFit(s, DirectIfNoProxy(asks))
<1> DEFINE r == DirectIfNoProxy(asks)
<1> PICK n \in Nat : n = Len(asks)
  BY DEF AllFit, Listed
<1>1. r = [i \in 1 .. n |-> AskedAgain(asks[i], {"unreachable"}, 2)]
  BY DEF AllFit, Listed, DirectIfNoProxy
<1>2. Listed(r) /\ Len(r) = n
  <2> HIDE DEF r
  <2>1. r = [i \in 1 .. n |-> r[i]]
    BY <1>1
  <2>2. QED  BY <2>1, IsListed
<1>3. \A i \in DOMAIN r : i \in DOMAIN asks /\ r[i] = AskedAgain(asks[i], {"unreachable"}, 2)
  BY <1>1 DEF AllFit, Listed
<1>4. \A i \in DOMAIN r : Fits(s, r[i])
  <2> HIDE DEF r
  <2> QED  BY <1>3, Fields DEF AllFit, Fits
<1>5. QED  BY <1>2, <1>4 DEF AllFit

\* Every failure of an account is an error of that account when ccxt reads it.
LEMMA CcxtFits ==
  ASSUME NEW x \in DOMAIN RestGateways
  PROVE  AllFit(<<"ccxt", x>>, CcxtRequests(x))
<1> DEFINE s == <<"ccxt", x>>
           accounts == AccountTypes[x]
           calls == [i \in DOMAIN accounts |-> CcxtAccount(accounts[i])]
<1>1. CASE x = "bitmart"
  BY <1>1, MustFields, Fields
  DEF CcxtRequests, BitMart, AllFit, Listed, Fits, Prices, Failures
<1>2. CASE x # "bitmart"
  <2>1. Listed(accounts)
    BY <1>2 DEF RestGateways, AccountTypes, Listed
  <2>2. PICK n \in Nat : n = Len(accounts) /\ DOMAIN accounts = 1 .. n
    BY <2>1 DEF Listed
  <2>3. calls = [i \in 1 .. n |-> calls[i]] /\ DOMAIN calls = 1 .. n
    BY <2>2
  <2>4. Listed(calls) /\ Len(calls) = n
    <3> HIDE DEF calls
    <3> QED  BY <2>3, IsListed
  <2>5. \A i \in DOMAIN calls : Fits(s, calls[i])
    BY MustFields, Fields DEF CcxtAccount, RawThenUsual, Fits, Failures
  <2>6. Fits(s, CcxtPrices)
    BY MustFields, Fields DEF CcxtPrices, Fits, Prices
  <2>7. /\ Listed(<<CcxtPrices>> \o calls)
        /\ \A i \in DOMAIN (<<CcxtPrices>> \o calls) :
             (<<CcxtPrices>> \o calls)[i] = CcxtPrices \/
             \E j \in DOMAIN calls : (<<CcxtPrices>> \o calls)[i] = calls[j]
    <3> HIDE DEF calls
    <3> DEFINE S == {calls[i] : i \in DOMAIN calls} \union {CcxtPrices}
    <3>1. calls \in Seq(S) /\ <<CcxtPrices>> \in Seq(S)
      BY <2>3, <2>4
    <3>2. QED  BY <3>1, <2>3, <2>4 DEF Listed
  <2>8. QED  BY <1>2, <2>5, <2>6, <2>7 DEF AllFit, CcxtRequests
<1>3. QED  BY <1>1, <1>2

\* The requests of every source fit, and its accounts are those that they read.
LEMMA TablesFit ==
  ASSUME NEW s \in Sources
  PROVE  /\ AllFit(s, RequestsOf[s])
         /\ AccountsOf[s] = {RequestsOf[s][i].reads : i \in DOMAIN RequestsOf[s]}
                              \ {Prices, "list"}
<1>1. AccountsOf[s] = {RequestsOf[s][i].reads : i \in DOMAIN RequestsOf[s]} \ {Prices, "list"}
  BY DEF AccountsOf
<1>2. CASE s[1] = "rest"
  <2>1. PICK n \in DOMAIN RestGateways : s = <<"rest", n>>
    BY <1>2 DEF Sources
  <2>2. AllFit(s, DirectIfNoProxy(RestGateways[n]))
    BY <2>1, RestFits, DirectFits
  <2>3. QED  BY <1>1, <2>1, <2>2 DEF RequestsOf
<1>3. CASE s[1] = "ccxt"
  <2>1. PICK n \in DOMAIN RestGateways : s = <<"ccxt", n>>
    BY <1>3 DEF Sources
  <2>2. QED  BY <1>1, <2>1, CcxtFits DEF RequestsOf
<1>4. CASE s[1] = "chain"
  <2>1. PICK n \in DOMAIN Wallets : s = <<"chain", n>>
    BY <1>4 DEF Sources
  <2>2. QED  BY <1>1, <2>1, WalletsFit DEF RequestsOf
<1>5. QED  BY <1>2, <1>3, <1>4 DEF Sources

\* What a source may keep of an account, other than its content and a mark.
Excused(s, a, kept) ==
  \/ kept \in {"none", "content", "marked"}
  \/ kept = "refused" /\ s[2] \in BodiesUnread
  \/ /\ kept = "left"
     /\ \/ s = <<"rest", "binance">> /\ a # "spot"
        \/ s = <<"chain", "ton">> /\ a = "jettons"

\* The requests up to here have brought something, and what is not there is excused.
Gathered ==
  /\ \A i \in DOMAIN Requests :
       result = NoResult /\ i < step => answer[Requests[i].reads] # "none"
  /\ \A a \in Accounts : Excused(source, a, answer[a])
  /\ step <= Len(Requests) => result = NoResult

\* The invariant of a fetch.  CompleteOrMarked alone is not inductive: it says nothing
\* before there is a result.
SourceInv == TypeOK /\ Gathered /\ CompleteOrMarked

\* A fetch begins with nothing.
LEMMA SourceInit == Init => SourceInv
<1> SUFFICES ASSUME Init PROVE SourceInv
  OBVIOUS
<1>1. AllFit(source, Requests)
  BY TablesFit DEF Init, Requests
<1>2. Len(Requests) \in Nat
  BY <1>1 DEF AllFit, Listed
<1>3. truth \in [holds : [Accounts -> Holdings], alike : BOOLEAN]
  BY DEF Init, Truths, Accounts
<1>4. TypeOK
  BY <1>2, <1>3 DEF Init, TypeOK, NoResult, Empty
<1>5. Gathered
  BY <1>1 DEF Init, Gathered, Excused, AllFit, Listed
<1>6. CompleteOrMarked
  BY DEF Init, CompleteOrMarked, UpToDate, NoResult, Empty
<1>7. QED  BY <1>4, <1>5, <1>6 DEF SourceInv

\* A request is repeated, or nothing happens: nothing else changes.
LEMMA SourceRepeats ==
  ASSUME SourceInv, Repeat \/ UNCHANGED sourceVars
  PROVE  SourceInv'
<1>1. UNCHANGED <<source, truth, step, answer, result>> /\ tries' \in 1 .. 3
  <2>1. CASE Repeat
    <3>1. step \in DOMAIN Requests /\ Row.times \in 1 .. 3
      BY <2>1, TablesFit DEF SourceInv, TypeOK, Repeat, AllFit, Listed, Fits, Requests, Row
    <3>2. QED  BY <2>1, <3>1 DEF SourceInv, TypeOK, Repeat
  <2>2. CASE UNCHANGED sourceVars
    BY <2>2 DEF sourceVars, SourceInv, TypeOK
  <2>3. QED  BY <2>1, <2>2
<1>2. TypeOK'
  BY <1>1 DEF SourceInv, TypeOK, Requests, Accounts
<1>3. Gathered'
  BY <1>1 DEF SourceInv, Gathered, Requests, Accounts
<1>4. CompleteOrMarked'
  BY <1>1
  DEF SourceInv, CompleteOrMarked, UpToDate, Funded, Mirrored, Mirrors, Read, Condoned,
      Unpriced, Accounts
<1>5. QED  BY <1>2, <1>3, <1>4 DEF SourceInv

\* What is kept of an answer is excused: the tables fit.
LEMMA SourceAnswers ==
  ASSUME SourceInv, Answer
  PROVE  SourceInv'
<1>1. step \in DOMAIN Requests /\ AllFit(source, Requests)
  BY TablesFit DEF SourceInv, TypeOK, Answer, AllFit, Listed, Requests
<1>2. Fits(source, Row)
  BY <1>1 DEF AllFit, Row
<1>3. PICK a \in Tolerated \union {"content"} : answer' = [answer EXCEPT ![Row.reads] = Kept(a)]
  BY DEF Answer
<1> DEFINE kept == Kept(a)
<1>4. /\ kept \in {"content", "marked", "refused", "left"}
      /\ kept = "refused" => "refused" \in Row.left \ Row.marked
      /\ kept = "left" => Row.left \ (Row.marked \union {"refused"}) # {}
  BY <1>2, <1>3 DEF Kept, Tolerated, Fits
<1>5. Row.reads \in Accounts \union {Prices, "list"}
  BY <1>1, TablesFit DEF SourceInv, TypeOK, Accounts, Row, Requests
<1>6. Row.reads \in Accounts => Row.reads \notin {Prices, "list"}
  BY TablesFit DEF SourceInv, TypeOK, Accounts
<1>7. Row.reads \in Accounts => Excused(source, Row.reads, kept)
  <2> HIDE DEF kept
  <2> QED  BY <1>2, <1>4, <1>6 DEF Fits, Excused
<1>8. /\ answer' = [answer EXCEPT ![Row.reads] = kept]
      /\ step' = step + 1 /\ tries' = 1 /\ UNCHANGED <<source, truth, result>>
      /\ step \in 1 .. Len(Requests) /\ Len(Requests) \in Nat
      /\ Row = Requests[step]
  BY <1>1, <1>3 DEF Answer, AllFit, Listed, Row
<1> HIDE DEF kept
<1>9. TypeOK'
  BY <1>4, <1>5, <1>8 DEF SourceInv, TypeOK, Requests, Accounts
<1>10. Gathered'
  <2>1. result = NoResult
    BY <1>8 DEF SourceInv, Gathered
  <2>2. \A i \in DOMAIN Requests : i < step + 1 => answer'[Requests[i].reads] # "none"
    <3> SUFFICES ASSUME NEW i \in DOMAIN Requests, i < step + 1
                 PROVE  answer'[Requests[i].reads] # "none"
      OBVIOUS
    <3>1. i = step \/ i < step
      BY <1>1, <1>8 DEF AllFit, Listed
    <3>2. Requests[i].reads \in DOMAIN answer
      BY TablesFit DEF SourceInv, TypeOK, Accounts, Requests
    <3>3. QED  BY <1>4, <1>5, <1>8, <2>1, <3>1, <3>2 DEF SourceInv, Gathered, TypeOK
  <2>3. \A b \in Accounts : Excused(source, b, answer'[b])
    BY <1>5, <1>7, <1>8 DEF SourceInv, Gathered, TypeOK
  <2>4. QED  BY <1>8, <2>1, <2>2, <2>3 DEF Gathered, Requests, Accounts
<1>11. CompleteOrMarked'
  BY <1>8 DEF SourceInv, Gathered, CompleteOrMarked, UpToDate, NoResult, Empty
<1>12. QED  BY <1>9, <1>10, <1>11 DEF SourceInv

\* A failure that is not tolerated is a failure of the balance.
LEMMA SourceRaises ==
  ASSUME SourceInv, Raise
  PROVE  SourceInv'
<1>1. Len(Requests) \in Nat
  BY TablesFit DEF SourceInv, TypeOK, AllFit, Listed, Requests
<1>2. TypeOK'
  BY <1>1 DEF SourceInv, TypeOK, Raise, Requests, Accounts, Error, Empty
<1>3. Gathered'
  BY <1>1 DEF SourceInv, TypeOK, Gathered, Raise, Requests, Accounts, Error, NoResult,
              Empty, Excused
<1>4. CompleteOrMarked'
  BY DEF Raise, CompleteOrMarked, UpToDate, Error, Empty
<1>5. QED  BY <1>2, <1>3, <1>4 DEF SourceInv

\* What is merged without a mark has every account, but for the excused ones.
LEMMA SourceMerges ==
  ASSUME SourceInv, Merge
  PROVE  SourceInv'
<1> DEFINE found == {a \in Accounts : Read(a)} \ Mirrored
<1>1. /\ UNCHANGED <<source, truth, step, tries, answer>>
      /\ step > Len(Requests) /\ result = NoResult
      /\ \/ result' = Error
         \/ result' = [kind |-> IF IsActual THEN "actual" ELSE "marked", counted |-> found,
                       worth |-> {a \in found : IsWorth(a)},
                       warned |-> IF Warns THEN {a \in found : ~IsWorth(a)} ELSE {}]
  BY DEF Merge
<1>2. AllFit(source, Requests)
  BY TablesFit DEF SourceInv, TypeOK, Requests
<1>3. Mirrored' = Mirrored /\ \A a : Condoned(a)' <=> Condoned(a)
  BY <1>1 DEF Mirrored, Mirrors, Read, Condoned
<1>4. TypeOK'
  <2>1. CASE result' = Error
    BY <1>1, <2>1 DEF SourceInv, TypeOK, Error, Empty, Requests, Accounts
  <2>2. CASE result' # Error
    BY <1>1, <2>2 DEF SourceInv, TypeOK, Requests, Accounts
  <2>3. QED  BY <2>1, <2>2
<1>5. Gathered'
  BY <1>1, <1>2 DEF SourceInv, TypeOK, Gathered, Requests, Accounts, AllFit, Listed
<1>6. CompleteOrMarked'
  <2> SUFFICES ASSUME UpToDate' PROVE CompleteOrMarked'
    BY DEF CompleteOrMarked
  <2> DEFINE worth == {a \in found : IsWorth(a)}
             warned == IF Warns THEN {a \in found : ~IsWorth(a)} ELSE {}
  <2>1. IsActual /\ result'.counted = found /\ result'.worth = worth /\ result'.warned = warned
    <3>1. result'.kind = "actual" /\ result' # Error
      BY DEF UpToDate, Error, Empty
    <3>2. PICK kind \in {"actual", "marked"} :
            /\ kind = IF IsActual THEN "actual" ELSE "marked"
            /\ result' = [kind |-> kind, counted |-> found, worth |-> worth,
                          warned |-> warned]
      BY <1>1, <3>1
    <3> HIDE DEF found, worth, warned
    <3>3. kind = "actual"
      BY <3>1, <3>2
    <3>4. IsActual
      BY <3>2, <3>3
    <3>5. QED  BY <3>2, <3>4
  <2>2. ASSUME NEW a \in Funded, a \notin Mirrored
        PROVE  a \in found \/ Condoned(a)
    <3>1. a \in Accounts /\ truth.holds[a] # "none"
      BY DEF Funded
    <3>2. PICK i \in DOMAIN Requests : a = Requests[i].reads
      BY <3>1, TablesFit DEF SourceInv, TypeOK, Accounts, Requests
    <3>3. answer[a] # "none"
      BY <1>1, <1>2, <3>2 DEF SourceInv, TypeOK, Gathered, AllFit, Listed
    <3>4. answer[a] # "marked"
      BY <2>1, <3>1 DEF IsActual, SourceInv, TypeOK
    <3>5. Excused(source, a, answer[a])
      BY <3>1 DEF SourceInv, Gathered
    <3>6. QED  BY <2>2, <3>1, <3>3, <3>4, <3>5 DEF Excused, Condoned, Read, BodiesUnread
  <2>3. ASSUME NEW a \in found
        PROVE  a \in result'.worth \union result'.warned \/ Unpriced(a)
    <3>1. CASE IsWorth(a) \/ Warns
      BY <2>1, <3>1
    <3>2. CASE ~IsWorth(a) /\ ~Warns /\ source[1] # "chain"
      <4>1. source[2] = "bitmart"
        BY <3>2 DEF Warns
      <4>2. a \in Accounts /\ Read(a)
        OBVIOUS
      <4>3. answer[Prices] = "content"
        BY <2>1, <3>2, <4>1, <4>2 DEF IsActual, Degraded
      <4>4. truth.holds[a] \notin {"stable", "coin"}
        BY <3>2, <4>3 DEF IsWorth
      <4>5. truth.holds[a] = "unlisted"
        BY <4>2, <4>4 DEF SourceInv, TypeOK, Holdings, Read
      <4>6. QED  BY <4>1, <4>5 DEF Unpriced
    <3>3. QED  BY <3>1, <3>2 DEF Unpriced
  <2>4. Funded' = Funded /\ \A a : Unpriced(a)' <=> Unpriced(a)
    BY <1>1 DEF Funded, Unpriced, Accounts
  <2>5. QED  BY <1>3, <2>1, <2>2, <2>3, <2>4 DEF CompleteOrMarked
<1>7. QED  BY <1>4, <1>5, <1>6 DEF SourceInv

\* The invariant holds of every fetch from every source.
THEOREM SourceInvariant == Spec => []SourceInv
<1>1. SourceInv /\ [Next]_sourceVars => SourceInv'
  BY SourceRepeats, SourceAnswers, SourceRaises, SourceMerges DEF Next
<1>2. QED  BY SourceInit, <1>1, PTL DEF Spec

\* A balance that is said to be up to date has every account that holds something, of
\* whatever exchange or chain and whichever of its requests fail in whatever order, but
\* for what the code knowingly leaves out; and what counts for nothing is warned about.
THEOREM WhatIsMissingIsMarked == Spec => []CompleteOrMarked
BY SourceInvariant, PTL DEF SourceInv

\* Every variable of BalanceSources has its type.
THEOREM SourceTypes == Spec => []TypeOK
BY SourceInvariant, PTL DEF SourceInv
===============================================================================
