---------------------------- MODULE ExchangeCalls ----------------------------
(***************************************************************************)
(* How CCXTManager, app/services/ccxt_manager.py, shares and bounds the    *)
(* calls to one exchange, with enable_ccxt_singleflight and                *)
(* enable_ccxt_keyed_backpressure on.                                      *)
(*                                                                         *)
(* A caller of fetch_all_transactions joins the fetch that is in flight    *)
(* under the key of its query or starts one; the fetch makes its calls one *)
(* after the other, each through the limiter of its operation, which all   *)
(* accounts of the exchange share.  One process: a step runs up to the     *)
(* next await.  The two asyncio locks are held over no await and are left  *)
(* out.                                                                    *)
(***************************************************************************)
EXTENDS Integers, Sequences, FiniteSets

CONSTANTS
  Callers,      \* requests, workers
  Queries,      \* arguments of fetch_all_transactions for one exchange
  NoQuery,
  Bucket,       \* transactions_singleflight_since_bucket_seconds, at least 1
  Parallelism,  \* ccxt_keyed_parallelism
  MaxTasks,     \* bound: fetches at one time
  MaxLimiters   \* bound: limiter entries that are referred to at one time

\* A query has the account (the API key), since when in seconds, and the limit.
ASSUME CallsAssumption ==
  /\ Parallelism \in Nat \ {0} /\ MaxTasks \in Nat /\ MaxLimiters \in Nat
  /\ Bucket \in Nat \ {0} /\ NoQuery \notin Queries
  /\ \A q \in Queries : q.since \in Nat

\* _singleflight_key: the hash of the API key, the bucket of since and the limit.
FlightKey(q) == [account |-> q.account, bucket |-> q.since \div Bucket, limit |-> q.limit]
FlightKeys == {FlightKey(q) : q \in Queries}

Tasks == 1 .. MaxTasks
Limiters == 1 .. MaxLimiters

\* The calls of _fetch_transactions_impl.
Calls == <<"fetch_deposits", "fetch_withdrawals">>
Operations == {Calls[i] : i \in DOMAIN Calls}

VARIABLES
  caller,    \* a caller of fetch_all_transactions
  inflight,  \* _inflight: the fetch of a key
  task,      \* the fetches; orphan: its leader has been cancelled
  limiter,   \* _keyed_limiters: the entry of an operation
  entry      \* the entries: permits, waiters, in_flight, idle for the time to live

callVars == <<caller, inflight, task, limiter, entry>>

NoTask == 0
NoEntry == 0
NoCaller == [at |-> "idle", query |-> NoQuery, task |-> NoTask, leader |-> FALSE]
NoFetch == [at |-> "free", query |-> NoQuery, call |-> 1, entry |-> NoEntry, orphan |-> FALSE]
Fresh == [permits |-> Parallelism, waiters |-> <<>>, inFlight |-> 0, idle |-> FALSE]

CallerType == [at : {"idle", "waiting"}, query : Queries \union {NoQuery},
               task : Tasks \union {NoTask}, leader : BOOLEAN]

FetchType == [at : {"free", "starting", "acquiring", "queued", "acquired", "calling",
                    "done", "cancelled"},
              query : Queries \union {NoQuery}, call : DOMAIN Calls,
              entry : Limiters \union {NoEntry}, orphan : BOOLEAN]

CallsTypeOK ==
  /\ caller \in [Callers -> CallerType]
  /\ inflight \in [FlightKeys -> Tasks \union {NoTask}]
  /\ task \in [Tasks -> FetchType]
  /\ limiter \in [Operations -> Limiters \union {NoEntry}]
  /\ entry \in [Limiters -> [permits : 0 .. Parallelism, waiters : Seq(Tasks),
                             inFlight : 0 .. MaxTasks, idle : BOOLEAN]]

CallsInit ==
  /\ caller = [c \in Callers |-> NoCaller]
  /\ inflight = [f \in FlightKeys |-> NoTask]
  /\ task = [t \in Tasks |-> NoFetch]
  /\ limiter = [o \in Operations |-> NoEntry]
  /\ entry = [e \in Limiters |-> Fresh]

-----------------------------------------------------------------------------
(* _singleflight.                                                            *)

Ended(t) == task[t].at \in {"done", "cancelled"}
IsRunning(t) == task[t].at # "free" /\ ~Ended(t)

WaitsFor(c, q, t, leader) ==
  caller' = [caller EXCEPT ![c] = [at |-> "waiting", query |-> q, task |-> t,
                                   leader |-> leader]]

Join(c, q) ==
  /\ caller[c].at = "idle" /\ inflight[FlightKey(q)] # NoTask
  /\ WaitsFor(c, q, inflight[FlightKey(q)], FALSE)
  /\ UNCHANGED <<inflight, task, limiter, entry>>

Lead(c, q) ==
  /\ caller[c].at = "idle" /\ inflight[FlightKey(q)] = NoTask
  /\ \E t \in Tasks :
       /\ task[t].at = "free" /\ \A s \in 1 .. t - 1 : task[s].at # "free"
       /\ task' = [task EXCEPT ![t] = [at |-> "starting", query |-> q, call |-> 1,
                                       entry |-> NoEntry, orphan |-> FALSE]]
       /\ inflight' = [inflight EXCEPT ![FlightKey(q)] = t]
       /\ WaitsFor(c, q, t, TRUE)
  /\ UNCHANGED <<limiter, entry>>

\* Faulty: whoever leaves takes the fetch out of the map.
EveryoneCleans(c) == TRUE

\* The finally clause: only the leader takes the fetch out of the map.
Cleans(c) == caller[c].leader

AfterLeaving(c) ==
  [f \in FlightKeys |->
     IF Cleans(c) /\ inflight[f] = caller[c].task THEN NoTask ELSE inflight[f]]

\* A fetch that has ended and that nobody can reach any more is forgotten.
Collected(callers, flights, tasks) ==
  [t \in Tasks |->
     IF tasks[t].at \in {"done", "cancelled"} /\ (\A c \in Callers : callers[c].task # t)
                                              /\ (\A f \in FlightKeys : flights[f] # t)
     THEN NoFetch ELSE tasks[t]]

Leave(c, tasks) ==
  /\ caller' = [caller EXCEPT ![c] = NoCaller]
  /\ inflight' = AfterLeaving(c)
  /\ task' = Collected(caller', inflight', tasks)

\* The fetch has ended: its callers get the answer, or its cancellation.
Return(c) ==
  /\ caller[c].at = "waiting" /\ Ended(caller[c].task)
  /\ Leave(c, task)
  /\ UNCHANGED <<limiter, entry>>

\* asyncio.shield: the fetch goes on without the caller.
GoesOn(c) ==
  [t \in Tasks |->
     IF caller[c].leader /\ t = caller[c].task
     THEN [at |-> task[t].at, query |-> task[t].query, call |-> task[t].call,
           entry |-> task[t].entry, orphan |-> TRUE]
     ELSE task[t]]

\* The caller's request ends or its wait_for times out.
Cancel(c) ==
  /\ caller[c].at = "waiting"
  /\ Leave(c, GoesOn(c))
  /\ UNCHANGED <<limiter, entry>>

-----------------------------------------------------------------------------
(* _run_with_backpressure.                                                   *)

Operation(t) == Calls[task[t].call]

\* The fetch goes on with its call, under an entry.
Calling(k, at, e) ==
  [at |-> at, query |-> k.query, call |-> k.call, entry |-> e, orphan |-> k.orphan]

\* What follows a call that has ended or has failed: fetch_deposits and
\* fetch_withdrawals answer with nothing when it fails.
NextCall(k) ==
  IF k.call < Len(Calls)
  THEN [at |-> "starting", query |-> k.query, call |-> k.call + 1, entry |-> NoEntry,
        orphan |-> k.orphan]
  ELSE Calling(k, "done", NoEntry)

Limit(permits, waiters, inFlight, idle) ==
  [permits |-> permits, waiters |-> waiters, inFlight |-> inFlight, idle |-> idle]

\* last_used is now.
Used(l) == Limit(l.permits, l.waiters, l.inFlight, FALSE)

\* Faulty: an entry that was not asked for lately goes, whatever runs under it.
IdleOnly(e) == entry[e].idle

\* _prune_keyed_limiters.  There are far less keys than its maximum size.
Prunable(e) == entry[e].idle /\ entry[e].inFlight = 0

Pruned(o) == IF limiter[o] # NoEntry /\ Prunable(limiter[o]) THEN NoEntry ELSE limiter[o]

PrunedButFor(o) == [p \in Operations |-> IF p = o THEN limiter[p] ELSE Pruned(p)]

Refers(limiters, tasks, e) ==
  (\E o \in Operations : limiters[o] = e) \/ (\E t \in Tasks : tasks[t].entry = e)
Held(e) == Refers(limiter, task, e)

\* An entry that nothing refers to is no more.
Swept(entries, limiters, tasks) ==
  [e \in Limiters |-> IF Refers(limiters, tasks, e) THEN entries[e] ELSE Fresh]

\* A new entry is the first that nothing refers to.
IsNew(e) == ~Held(e) /\ \A f \in 1 .. e - 1 : Held(f)

\* The task finds the entry of the operation, or makes one.
Enter(t) ==
  /\ task[t].at = "starting"
  /\ \E e \in Limiters :
       /\ IF Pruned(Operation(t)) # NoEntry THEN e = Pruned(Operation(t)) ELSE IsNew(e)
       /\ limiter' = [p \in Operations |-> IF p = Operation(t) THEN e ELSE Pruned(p)]
       /\ task' = [task EXCEPT ![t] = Calling(task[t], "acquiring", e)]
       /\ entry' = Swept([entry EXCEPT ![e] = Used(entry[e])], limiter', task')
  /\ UNCHANGED <<caller, inflight>>

\* The task that wait_for makes for semaphore.acquire() runs.
Acquire(t) ==
  LET e == task[t].entry
      l == entry[e]
  IN  /\ task[t].at = "acquiring"
      /\ \/ /\ l.permits > 0
            /\ entry' = [entry EXCEPT ![e] = Limit(l.permits - 1, l.waiters, l.inFlight, l.idle)]
            /\ task' = [task EXCEPT ![t] = Calling(task[t], "acquired", e)]
         \/ /\ l.permits = 0
            /\ entry' = [entry EXCEPT ![e] =
                           Limit(l.permits, Append(l.waiters, t), l.inFlight, l.idle)]
            /\ task' = [task EXCEPT ![t] = Calling(task[t], "queued", e)]
      /\ UNCHANGED <<caller, inflight, limiter>>

Without(w, k) == [i \in 1 .. Len(w) - 1 |-> IF i < k THEN w[i] ELSE w[i + 1]]

\* The one that stood at k has left the waiters of the entry of t; the current entry of
\* the operation is used.
AfterWaiting(t, k) ==
  [e \in Limiters |->
     LET left == Limit(entry[e].permits, Without(entry[e].waiters, k), entry[e].inFlight,
                       entry[e].idle)
         l == IF e = task[t].entry THEN left ELSE entry[e]
     IN  IF e = limiter[Operation(t)] THEN Used(l) ELSE l]

\* ccxt_backpressure_wait_timeout_seconds.
WaitTimesOut(t) ==
  /\ task[t].at = "queued"
  /\ \E k \in 1 .. Len(entry[task[t].entry].waiters) :
       /\ entry[task[t].entry].waiters[k] = t
       /\ limiter' = PrunedButFor(Operation(t))
       /\ task' = Collected(caller, inflight, [task EXCEPT ![t] = NextCall(task[t])])
       /\ entry' = Swept(AfterWaiting(t, k), limiter', task')
  /\ UNCHANGED <<caller, inflight>>

\* The call is counted at the entry that is current, and begins.
Count(t) ==
  /\ task[t].at = "acquired"
  /\ entry' = [e \in Limiters |->
       IF e = limiter[Operation(t)]
       THEN Limit(entry[e].permits, entry[e].waiters, entry[e].inFlight + 1, FALSE)
       ELSE entry[e]]
  /\ task' = [task EXCEPT ![t] = Calling(task[t], "calling", task[t].entry)]
  /\ UNCHANGED <<caller, inflight, limiter>>

\* The permit goes to the first that waits for it.
Released(l) ==
  IF l.waiters = <<>> THEN Limit(l.permits + 1, <<>>, l.inFlight, l.idle)
                      ELSE Limit(l.permits, Tail(l.waiters), l.inFlight, l.idle)

Woken(e, s) == entry[e].waiters # <<>> /\ s = Head(entry[e].waiters)

Uncounted(l) ==
  Limit(l.permits, l.waiters, IF l.inFlight > 0 THEN l.inFlight - 1 ELSE 0, FALSE)

\* The call of t is no longer counted at the current entry of the operation, and its
\* permit is back at the entry it came from.
AfterCall(t) ==
  [e \in Limiters |->
     LET l == IF e = task[t].entry THEN Released(entry[e]) ELSE entry[e]
     IN  IF e = limiter[Operation(t)] THEN Uncounted(l) ELSE l]

\* The exchange answers or fails.
CallEnds(t) ==
  /\ task[t].at = "calling"
  /\ limiter' = PrunedButFor(Operation(t))
  /\ task' = Collected(caller, inflight,
       [s \in Tasks |->
          IF s = t THEN NextCall(task[t])
          ELSE IF Woken(task[t].entry, s) THEN Calling(task[s], "acquired", task[s].entry)
          ELSE task[s]])
  /\ entry' = Swept(AfterCall(t), limiter', task')
  /\ UNCHANGED <<caller, inflight>>

\* Nobody asks for the operation for _keyed_limiters_idle_ttl_seconds, which is
\* longer than any wait for a permit.
Age(o) ==
  LET e == limiter[o]
      l == entry[e]
  IN  /\ e # NoEntry /\ ~l.idle
      /\ \A t \in Tasks : task[t].entry = e => task[t].at = "calling"
      /\ entry' = [entry EXCEPT ![e] = Limit(l.permits, l.waiters, l.inFlight, TRUE)]
      /\ UNCHANGED <<caller, inflight, task, limiter>>

TaskStep(t) ==
  Enter(t) \/ Acquire(t) \/ WaitTimesOut(t) \/ Count(t) \/ CallEnds(t)

CallerStep(c) ==
  Return(c) \/ Cancel(c) \/ \E q \in Queries : Join(c, q) \/ Lead(c, q)

CallsNext ==
  \/ \E c \in Callers : CallerStep(c)
  \/ \E t \in Tasks : TaskStep(t)
  \/ \E o \in Operations : Age(o)

CallsSpec == CallsInit /\ [][CallsNext]_callVars

-----------------------------------------------------------------------------
(* Properties.                                                               *)

\* The answer got is one to the query asked, but that it may begin up to a bucket
\* earlier or later.
Answers(got, asked) ==
  /\ got \in Queries /\ got.account = asked.account /\ got.limit = asked.limit
  /\ got.since < asked.since + Bucket /\ asked.since < got.since + Bucket

\* Of the fetches under one key one is for its leader at a time: the others' leaders have
\* left, and followers come and go without starting another one.  And nobody gets the
\* transactions of another account, of another limit or from a since that is a bucket
\* away, or fails because somebody else's request was cancelled.
OneFlight ==
  /\ \A s, t \in Tasks :
       s # t /\ IsRunning(s) /\ IsRunning(t) /\ FlightKey(task[s].query) = FlightKey(task[t].query)
         => task[s].orphan \/ task[t].orphan
  /\ \A c \in Callers : caller[c].at = "waiting" =>
       /\ task[caller[c].task].at # "cancelled"
       /\ Answers(task[caller[c].task].query, caller[c].query)

\* The calls of an operation that run together are at most the parallelism, while
\* entries of the limiter are dropped and made again.
BoundedCalls ==
  \A o \in Operations :
    Cardinality({t \in Tasks : task[t].at = "calling" /\ Operation(t) = o}) <= Parallelism
=============================================================================
