---------------------------- MODULE BalanceRefresh ----------------------------
(***************************************************************************)
(* BalanceService, app/services/balance_service.py, with the guard of      *)
(* balance_integrity.py and the BalanceRepository: how balances are        *)
(* fetched behind the circuit breaker of their provider, checked, saved    *)
(* with their history, and how the state of the service is kept.           *)
(*                                                                         *)
(* Two kinds of requests: refresh_all, under the lock of its organization, *)
(* and get_all_balances, which takes none and serves what is cached.       *)
(* What is read before a commit and the commit are steps of their own: no  *)
(* row is locked, and a request may end after any step.  The rows of a     *)
(* target are named after the requests that inserted them: nothing keeps   *)
(* two of them from doing so.  An organization has one integration of a    *)
(* service here.                                                           *)
(***************************************************************************)
EXTENDS Integers, FiniteSets

CONSTANTS
  Organizations,
  Services,       \* the providers, shared by all organizations
  Refreshes,       \* requests at one time
  None,
  Sizes,          \* values of a balance
  OpenAfter,      \* _PROVIDER_CIRCUIT_OPEN_AFTER_FAILURES
  OpenFor,        \* _PROVIDER_CIRCUIT_OPEN_SECONDS
  SoftTtl,        \* balance_cache_ttl
  MaxNow,         \* bound: the clock
  MaxChanges,     \* bound: changes of the true balances
  MaxRequests     \* bound: requests begun

ASSUME RefreshAssumption ==
  /\ OpenAfter \in Nat \ {0} /\ OpenFor \in Nat
  /\ Sizes \subseteq Nat /\ None \notin Refreshes

Targets == Organizations \X Services

VARIABLES
  now, changes,
  holding,      \* what a target holds at its provider
  balance,    \* table balances: the rows of a target, NoBalance if there is none
  latest,     \* ... and which of them has the latest updated_at
  history,    \* table balance_history: the last row of a target by created_at
  recorded,   \* ... and the values of all its rows
  status,     \* table service_statuses
  cached,     \* _balance_cache
  circuit,    \* _provider_circuit_state
  lock,       \* _refresh_locks
  request,    \* the requests and what they have fetched
  loaded,     \* what a request has loaded of the row that it will write
  begun,      \* how many requests there have been
  overlapped, \* history: organizations that had two requests at one time
  crossed,    \* history: targets written by two requests at one time, and by none
              \* alone since that changed its value
  streak      \* history: failures of a provider since its last success

world == <<now, changes, holding>>
stored == <<balance, latest, history, recorded, crossed>>
begins == <<begun, overlapped>>
refreshVars == <<world, stored, status, cached, circuit, lock, request, loaded, begins, streak>>

NoBalance == [value |-> -1, actual |-> FALSE]
NotCached == [value |-> -1, at |-> 0]
Closed == [failures |-> 0, until |-> 0]
Idle == [at |-> "idle", org |-> None, locked |-> FALSE,
         got |-> [s \in Services |-> "none"], value |-> [s \in Services |-> -1]]

\* Nothing is loaded.  since: the rows written by others since, and whether with a row of
\* the history.
NotLoaded == [row |-> None, changed |-> FALSE, actual |-> FALSE, since |-> {}]

Results == {"none", "asked", "good", "failed"}
Stages == {"idle", "fetching", "accepted", "refused", "saving", "saved", "failing", "marking"}
Values == Sizes \union {-1}

RefreshTypeOK ==
  /\ now \in 0 .. MaxNow /\ changes \in 0 .. MaxChanges
  /\ holding \in [Targets -> Sizes]
  /\ balance \in [Targets -> [Refreshes -> [value : Values, actual : BOOLEAN]]]
  /\ latest \in [Targets -> Refreshes \union {None}]
  /\ history \in [Targets -> Values] /\ recorded \in [Targets -> SUBSET Values]
  /\ status \in [Targets -> {"unknown", "healthy", "unhealthy"}]
  /\ cached \in [Targets -> [value : Values, at : 0 .. MaxNow]]
  /\ circuit \in [Services -> [failures : 0 .. OpenAfter, until : 0 .. MaxNow + OpenFor]]
  /\ lock \in [Organizations -> Refreshes \union {None}]
  /\ request \in [Refreshes ->
       [at : Stages, org : Organizations \union {None},
        locked : BOOLEAN, got : [Services -> Results \union {"current", "done"}],
        value : [Services -> Values]]]
  /\ loaded \in [Refreshes -> [row : Refreshes \union {None}, changed : BOOLEAN, actual : BOOLEAN,
                               since : SUBSET (Refreshes \X BOOLEAN)]]
  /\ begun \in 0 .. MaxRequests /\ overlapped \in SUBSET Organizations /\ crossed \in SUBSET Targets
  /\ streak \in [Services -> 0 .. OpenAfter]

RefreshInit ==
  /\ now = 0 /\ changes = 0
  /\ holding \in [Targets -> Sizes]
  /\ balance = [t \in Targets |-> [r \in Refreshes |-> NoBalance]]
  /\ latest = [t \in Targets |-> None]
  /\ history = [t \in Targets |-> -1] /\ recorded = [t \in Targets |-> {}]
  /\ status = [t \in Targets |-> "unknown"]
  /\ cached = [t \in Targets |-> NotCached]
  /\ circuit = [s \in Services |-> Closed]
  /\ lock = [o \in Organizations |-> None]
  /\ request = [r \in Refreshes |-> Idle] /\ loaded = [r \in Refreshes |-> NotLoaded]
  /\ begun = 0 /\ overlapped = {} /\ crossed = {} /\ streak = [s \in Services |-> 0]

-----------------------------------------------------------------------------
(* The world.                                                                *)

Tick ==
  /\ now < MaxNow /\ now' = now + 1
  /\ UNCHANGED <<changes, holding, stored, status, cached, circuit, lock, request, loaded,
                 begins, streak>>

\* What the target holds changes.
Change ==
  /\ changes < MaxChanges /\ changes' = changes + 1
  /\ \E t \in Targets : \E v \in Sizes \ {holding[t]} : holding' = [holding EXCEPT ![t] = v]
  /\ UNCHANGED <<now, stored, status, cached, circuit, lock, request, loaded, begins,
                 streak>>

-----------------------------------------------------------------------------
(* Requests.                                                                 *)

Running(o) == {r \in Refreshes : request[r].org = o}

Begin(r, o, locked, got) ==
  /\ begun < MaxRequests /\ begun' = begun + 1
  /\ request[r].at = "idle"
  /\ request' = [request EXCEPT ![r] =
                  [at |-> "fetching", org |-> o, locked |-> locked, got |-> got,
                   value |-> [s \in Services |-> -1]]]
  /\ overlapped' = IF Running(o) # {} THEN overlapped \union {o} ELSE overlapped
  /\ UNCHANGED <<world, stored, loaded, status, cached, circuit, streak>>

\* refresh_all, once it has the lock and its interval is over.
Refresh(r, o) ==
  /\ lock[o] = None /\ lock' = [lock EXCEPT ![o] = r]
  /\ Begin(r, o, TRUE, [s \in Services |-> "none"])

\* _get_cached_balance_state, with enable_ccxt_stale_revalidate off.
IsFresh(t) == cached[t] # NotCached /\ now - cached[t].at <= SoftTtl

\* get_all_balances: what is fresh in the cache is not fetched, unless it is forced.
GetAll(r, o) ==
  /\ \E force \in BOOLEAN :
       Begin(r, o, FALSE,
             [s \in Services |-> IF ~force /\ IsFresh(<<o, s>>) THEN "done" ELSE "none"])
  /\ UNCHANGED lock

\* A request goes on, with what it now has of a service.
Goes(r, at, s, what, v) ==
  [request EXCEPT ![r] =
     [at |-> at, org |-> request[r].org, locked |-> request[r].locked,
      got |-> [request[r].got EXCEPT ![s] = what],
      value |-> [request[r].value EXCEPT ![s] = v]]]

Outcome(r, s, what, v) == Goes(r, request[r].at, s, what, v)

\* _provider_circuit_is_open.
CircuitIsOpen(s) == circuit[s].until > now

\* _fetch_target_balance: an open circuit is a failure, which is not counted.
Skip(r, s) ==
  /\ request[r].at = "fetching" /\ request[r].got[s] = "none" /\ CircuitIsOpen(s)
  /\ request' = Outcome(r, s, "failed", -1)
  /\ UNCHANGED <<world, stored, loaded, status, cached, circuit, lock, begins, streak>>

\* A circuit whose time is over is forgotten.
Ask(r, s) ==
  /\ request[r].at = "fetching" /\ request[r].got[s] = "none" /\ ~CircuitIsOpen(s)
  /\ circuit' = IF circuit[s].failures > 0 /\ circuit[s].until <= now
                THEN [circuit EXCEPT ![s] = Closed] ELSE circuit
  /\ request' = Outcome(r, s, "asked", -1)
  /\ UNCHANGED <<world, stored, loaded, status, cached, lock, begins, streak>>

\* _provider_circuit_record_success.
AfterSuccess(s) == [circuit EXCEPT ![s] = Closed]

\* Faulty: the first failure opens the circuit.
AfterAnyFailure(s) == [circuit EXCEPT ![s] = [failures |-> OpenAfter, until |-> now + OpenFor]]

\* _provider_circuit_record_failure.
AfterFailure(s) ==
  LET n == circuit[s].failures + 1
  IN  [circuit EXCEPT ![s] =
         [failures |-> IF n > OpenAfter THEN OpenAfter ELSE n,
          until |-> IF n >= OpenAfter THEN now + OpenFor ELSE circuit[s].until]]

\* The provider answers.  A degraded balance is an answer.
ProviderAnswers(r, s) ==
  /\ request[r].got[s] = "asked"
  /\ \/ request' = Outcome(r, s, "good", holding[<<request[r].org, s>>])
     \/ request' = Outcome(r, s, "failed", -1)
  /\ circuit' = AfterSuccess(s) /\ streak' = [streak EXCEPT ![s] = 0]
  /\ UNCHANGED <<world, stored, loaded, status, cached, lock, begins>>

\* The provider does not answer in time, or refuses the keys of the organization.
Fail(r, s) ==
  /\ request[r].got[s] = "asked"
  /\ request' = Outcome(r, s, "failed", -1)
  /\ circuit' = AfterFailure(s)
  /\ streak' = [streak EXCEPT ![s] = IF @ < OpenAfter THEN @ + 1 ELSE @]
  /\ UNCHANGED <<world, stored, loaded, status, cached, lock, begins>>

-----------------------------------------------------------------------------
(* The results, one after the other once all of them are there.              *)

Ready(r, s) ==
  /\ request[r].at = "fetching"
  /\ \A q \in Services : request[r].got[q] \notin {"none", "asked"}
  /\ request[r].got[s] \in {"good", "failed"}

Settle(r, s) == Goes(r, "fetching", s, "done", -1)

\* get_latest_balance.
Stored(t) == IF latest[t] = None THEN NoBalance ELSE balance[t][latest[t]]

\* validate_balance_for_persistence: an outlier compared to what is stored.
IsOutlier(t, v) ==
  LET old == Stored(t).value
  IN  old > 0 /\ (IF v > old THEN v - old ELSE old - v) > 1

\* fetch_and_save_balance: the balance is compared with what is stored ...
Guard(r, s) ==
  LET v == request[r].value[s]
  IN  /\ Ready(r, s) /\ request[r].got[s] = "good"
      /\ request' = Goes(r, IF IsOutlier(<<request[r].org, s>>, v) THEN "refused" ELSE "accepted",
                         s, "current", v)
      /\ UNCHANGED <<world, stored, loaded, status, cached, circuit, lock, begins, streak>>

At(r, at, s) == request[r].at = at /\ request[r].got[s] = "current"

\* The row of the target as the request finds it, and whether v changes it.
Loads(r, t, v) ==
  loaded' = [loaded EXCEPT ![r] = [row |-> latest[t], changed |-> Stored(t).value # v,
                                   actual |-> Stored(t).actual, since |-> {}]]

\* save_balance: ... the row is loaded again, and compared ...
LoadToSave(r, s) ==
  LET v == request[r].value[s]
  IN  /\ At(r, "accepted", s)
      /\ Loads(r, <<request[r].org, s>>, v)
      /\ request' = Goes(r, "saving", s, "current", v)
      /\ UNCHANGED <<world, stored, status, cached, circuit, lock, begins, streak>>

\* Faulty: what is cached is taken for what is stored.
ComparedWithCache(r, t) == cached[t].value # request[r].value[t[2]]

\* A balance that has changed gets a row of the history.
HasChanged(r, t) == loaded[r].changed

\* The request writes the target t that q has loaded.
Writes(q, t) ==
  /\ request[q].at \in {"saving", "marking"} /\ request[q].org = t[1]
  /\ request[q].got[t[2]] = "current"

\* The row i of t is committed as b, and a row of the history with it if it adds one.  The
\* time of either was taken before the commit: it may be earlier than that of what
\* others have committed since the load.
Commits(r, t, i, b, adds) ==
  /\ balance' = [balance EXCEPT ![t][i] = b]
  /\ \E later \in SUBSET loaded[r].since :
       /\ \/ later = {} /\ latest' = [latest EXCEPT ![t] = i]
          \/ \E w \in later : latest' = [latest EXCEPT ![t] = w[1]]
       /\ history' = IF adds /\ (\A w \in later : ~w[2])
                     THEN [history EXCEPT ![t] = b.value] ELSE history
  /\ recorded' = IF adds THEN [recorded EXCEPT ![t] = @ \union {b.value}] ELSE recorded
  /\ loaded' = [q \in Refreshes |->
       IF q = r THEN NotLoaded
       ELSE IF Writes(q, t)
       THEN [row |-> loaded[q].row, changed |-> loaded[q].changed, actual |-> loaded[q].actual,
             since |-> loaded[q].since \union {<<i, adds>>}]
       ELSE loaded[q]]
  /\ crossed' = IF loaded[r].since # {} THEN crossed \union {t}
                ELSE IF adds THEN crossed \ {t} ELSE crossed

\* ... then the balance and its history are committed: a new row, or those columns of the
\* loaded one that differ from what was loaded.
Save(r, s) ==
  LET t == <<request[r].org, s>>
      v == request[r].value[s]
      old == balance[t][loaded[r].row]
  IN  /\ At(r, "saving", s)
      /\ \/ /\ loaded[r].row = None
            /\ Commits(r, t, r, [value |-> v, actual |-> TRUE], HasChanged(r, t))
         \/ /\ loaded[r].row # None
            /\ Commits(r, t, loaded[r].row,
                       [value |-> IF loaded[r].changed THEN v ELSE old.value,
                        actual |-> old.actual \/ ~loaded[r].actual],
                       HasChanged(r, t))
      /\ request' = Goes(r, "saved", s, "current", v)
      /\ UNCHANGED <<world, status, cached, circuit, lock, begins, streak>>

\* ... then its state, and the cache.
ReportHealthy(r, s) ==
  LET t == <<request[r].org, s>>
  IN  /\ At(r, "saved", s)
      /\ status' = [status EXCEPT ![t] = "healthy"]
      /\ cached' = [cached EXCEPT ![t] = [value |-> request[r].value[s], at |-> now]]
      /\ request' = Settle(r, s)
      /\ UNCHANGED <<world, stored, loaded, circuit, lock, begins, streak>>

\* Faulty: a balance that is refused leaves the state as it was.
KeptIfRefused(r, t) ==
  IF request[r].at = "refused" THEN status ELSE [status EXCEPT ![t] = "unhealthy"]

Unhealthy(r, t) == [status EXCEPT ![t] = "unhealthy"]

\* handle_fetch_error: the state is committed ...
ReportUnhealthy(r, s) ==
  /\ (Ready(r, s) /\ request[r].got[s] = "failed") \/ At(r, "refused", s)
  /\ status' = Unhealthy(r, <<request[r].org, s>>)
  /\ request' = Goes(r, "failing", s, "current", -1)
  /\ UNCHANGED <<world, stored, loaded, cached, circuit, lock, begins, streak>>

\* ... then the row, if there is one, is loaded ...
LoadToMark(r, s) ==
  LET t == <<request[r].org, s>>
  IN  /\ At(r, "failing", s)
      /\ \/ latest[t] = None /\ request' = Settle(r, s) /\ UNCHANGED loaded
         \/ latest[t] # None /\ request' = Goes(r, "marking", s, "current", -1)
            /\ Loads(r, t, Stored(t).value)
      /\ UNCHANGED <<world, stored, status, cached, circuit, lock, begins, streak>>

\* mark_as_stale: ... and marked as stale.
MarkStale(r, s) ==
  LET t == <<request[r].org, s>>
      old == balance[t][loaded[r].row]
  IN  /\ At(r, "marking", s)
      /\ Commits(r, t, loaded[r].row,
                 [value |-> old.value, actual |-> old.actual /\ ~loaded[r].actual], FALSE)
      /\ request' = Settle(r, s)
      /\ UNCHANGED <<world, status, cached, circuit, lock, begins, streak>>

Unlocked(r) == [o \in Organizations |-> IF lock[o] = r THEN None ELSE lock[o]]

\* All results are settled; or the request is cancelled, or its database fails.
End(r) ==
  /\ request[r].at # "idle"
  /\ request' = [request EXCEPT ![r] = Idle] /\ lock' = Unlocked(r)
  /\ loaded' = [loaded EXCEPT ![r] = NotLoaded]
  /\ UNCHANGED <<world, stored, status, cached, circuit, begins, streak>>

Step(r, s) ==
  \/ Skip(r, s) \/ Ask(r, s) \/ ProviderAnswers(r, s) \/ Fail(r, s)
  \/ Guard(r, s) \/ LoadToSave(r, s) \/ Save(r, s) \/ ReportHealthy(r, s)
  \/ ReportUnhealthy(r, s) \/ LoadToMark(r, s) \/ MarkStale(r, s)

RefreshNext ==
  \/ Tick \/ Change
  \/ \E r \in Refreshes :
       \/ End(r)
       \/ \E o \in Organizations : Refresh(r, o) \/ GetAll(r, o)
       \/ \E s \in Services : Step(r, s)

RefreshSpec == RefreshInit /\ [][RefreshNext]_refreshVars

-----------------------------------------------------------------------------
(* Properties.                                                               *)

\* A service is shown as healthy only over a balance that is up to date, also
\* between two commits and when the request dies there, as long as no other request
\* works for the organization.
HealthyIsActual ==
  \A t \in Targets : t[1] \notin overlapped /\ status[t] = "healthy" => Stored(t).actual

\* What is shown as a balance is in the history, however requests overlap.  And the history
\* of a target ends with what is stored, so that the portfolio of the charts at this
\* moment is the portfolio, unless two requests wrote the target at one time: each
\* had loaded its row before the other's commit.  Whoever then saves a change
\* alone sets that right.
HistoryIsCurrent ==
  \A t \in Targets :
    /\ \A i \in Refreshes : balance[t][i] # NoBalance => balance[t][i].value \in recorded[t]
    /\ t \notin crossed => history[t] = Stored(t).value

\* A provider is passed over only when it has failed that often since it answered
\* last, to whomever: one failure in between answers passes nobody over.
OpenForAReason == \A s \in Services : CircuitIsOpen(s) => streak[s] = OpenAfter

\* "After a series of errors the circuit breaker opens: requests to [the provider] are
\* cut off for a while" (README.md:179): the failure that completes a series opens it.
SeriesOpens ==
  [][\A s \in Services :
       streak'[s] = OpenAfter /\ streak[s] # OpenAfter => circuit'[s].until > now]_refreshVars
=============================================================================
