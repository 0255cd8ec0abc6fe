------------------------------ MODULE SyncJobs ------------------------------
(***************************************************************************)
(* The sync_jobs table of app/services/sync_job_service.py, shared by the  *)
(* API requests and the scheduler that queue refreshes, by the worker      *)
(* loops that claim and run them, and by the recovery of stale rows.       *)
(*                                                                         *)
(* One action is one database transaction or one stretch of code between   *)
(* two awaits.  One organization; time is kept as ages that saturate, so   *)
(* no bound on the length of a behaviour is needed except MaxJobs (rows    *)
(* ever inserted) and MaxCrashes (runs whose process dies).                *)
(***************************************************************************)
EXTENDS Integers, FiniteSets

CONSTANTS
  Integrations,      \* rows of the integrations table
  ServiceOf,         \* service_key_for_integration: integrations may share it
  Workers,           \* worker loops, of one process or of several
  Clients,           \* API requests being served
  Scheduler,         \* the loop of app/scheduler.py
  None,              \* no job held, no integration named
  RequestKinds,      \* the kinds of requests this deployment receives
  Dedupe,            \* settings.enable_syncjob_dedupe
  Postgres,          \* dialect: FOR UPDATE SKIP LOCKED, or the fallback
  MaxJobs,           \* bound: rows ever inserted
  MaxCrashes,        \* bound: runs lost to the death of their process
  Minute,            \* the literal 60 of the code, in ticks
  ProviderTimeout,   \* settings.sync_job_provider_timeout_seconds
  RunningTimeout,    \* settings.sync_job_running_timeout_seconds
  MinInterval,       \* min_refresh_interval_seconds of the plan
  RunBound           \* longest time a live run takes from claim to last commit

\* The payload given to enqueue_job, which is part of the dedupe key, differs
\* with the caller: none for the refresh button, a "source" for the other two.
\* "enforced" is a direct enqueue_job with enforce_refresh_interval_at_run.
Kinds == {"organization", "integration", "scheduler", "enforced"}

ASSUME ConstantsAssumption ==
  /\ None \notin Integrations /\ None \notin 1 .. MaxJobs
  /\ Scheduler \notin Clients
  /\ RequestKinds \subseteq Kinds
  /\ Dedupe \in BOOLEAN /\ Postgres \in BOOLEAN
  /\ MaxJobs \in Nat /\ MaxCrashes \in Nat /\ Minute \in Nat \ {0}
  /\ ProviderTimeout \in Nat /\ RunningTimeout \in Nat
  /\ MinInterval \in Nat /\ RunBound \in Nat

Jobs       == 1 .. MaxJobs
Requesters == Clients \union {Scheduler}
Services   == {ServiceOf[i] : i \in Integrations}
Larger(a, b)  == IF a > b THEN a ELSE b
Smaller(a, b) == IF a < b THEN a ELSE b

\* _stale_running_timeout_seconds with no explicit timeout.
StaleTimeout ==
  LET ceiling == ProviderTimeout + Minute
      configured == IF ProviderTimeout = 0 THEN RunningTimeout
                    ELSE IF RunningTimeout > 0 THEN Smaller(RunningTimeout, ceiling)
                    ELSE ceiling
  IN  Larger(Minute, configured)

\* The window in which the scheduler regards a job as still active.
SchedulerWindow == Larger(Minute, RunningTimeout)
AgeCap == Larger(StaleTimeout, SchedulerWindow) + 1

VARIABLES
  integration,   \* is_active, or "deleted" once the row is gone
  status,        \* sync_jobs.status; "none" for an id not yet inserted
  target,        \* the integration named by the dedupe key
  payload,       \* the kind of request whose payload is in the dedupe key
  age,           \* time since coalesce(started_at, queued_at) of active jobs
  lastJob,       \* the largest id inserted
  sinceRefresh,  \* time since the last successful refresh, up to MinInterval
  pc,            \* where each worker loop stands
  job,           \* the job it holds
  fetched,       \* number of the provider answer it is saving
  fetches,       \* provider answers so far
  balance,       \* number of the answer saved last, 0 for none
  actual,        \* balances.actual: the answer saved last was complete
  health,        \* service_status.is_healthy
  rpc, todo, current, kind,  \* each requester: position, integrations to queue
  crashes        \* runs lost so far

table     == <<status, target, payload, age, lastJob, sinceRefresh>>
workers   == <<pc, job, fetched, fetches>>
results   == <<balance, actual, health>>
requests  == <<rpc, todo, current, kind>>
vars == <<integration, table, workers, results, requests, crashes>>

Active    == {"queued", "running"}
Finished  == {"completed", "failed"}
Statuses  == {"none"} \union Active \union Finished
RunPhases == {"loading", "fetching", "saving", "degraded", "marking",
              "rejecting", "completing", "refused", "failing", "dropping"}

TableType ==
  /\ status \in [Jobs -> Statuses]
  /\ target \in [Jobs -> Integrations \union {None}]
  /\ payload \in [Jobs -> Kinds]
  /\ age \in [Jobs -> 0 .. AgeCap]
  /\ lastJob \in 0 .. MaxJobs
  /\ sinceRefresh \in 0 .. MinInterval

WorkersType ==
  /\ pc \in [Workers -> {"idle", "claiming"} \union RunPhases]
  /\ job \in [Workers -> Jobs \union {None}]
  /\ fetched \in [Workers -> Nat]
  /\ fetches \in Nat

ResultsType ==
  /\ balance \in [Integrations -> Nat]
  /\ actual \in [Integrations -> BOOLEAN]
  /\ health \in [Services -> {"unknown", "healthy", "unhealthy"}]

RequestsType ==
  /\ rpc \in [Requesters -> {"idle", "queueing", "inserting", "conflict"}]
  /\ todo \in [Requesters -> SUBSET Integrations]
  /\ current \in [Requesters -> Integrations \union {None}]
  /\ kind \in [Requesters -> Kinds]

\* The type of every variable.
TypeOK ==
  /\ integration \in [Integrations -> {"active", "inactive", "deleted"}]
  /\ TableType /\ WorkersType /\ ResultsType /\ RequestsType
  /\ crashes \in 0 .. MaxCrashes

Init ==
  /\ integration = [i \in Integrations |-> "active"]
  /\ status = [j \in Jobs |-> "none"]
  /\ target = [j \in Jobs |-> None]
  /\ payload = [j \in Jobs |-> "organization"]
  /\ age = [j \in Jobs |-> 0]
  /\ lastJob = 0
  /\ sinceRefresh = MinInterval
  /\ pc = [w \in Workers |-> "idle"]
  /\ job = [w \in Workers |-> None]
  /\ fetched = [w \in Workers |-> 0]
  /\ fetches = 0
  /\ balance = [i \in Integrations |-> 0]
  /\ actual = [i \in Integrations |-> TRUE]
  /\ health = [s \in Services |-> "unknown"]
  /\ rpc = [r \in Requesters |-> "idle"]
  /\ todo = [r \in Requesters |-> {}]
  /\ current = [r \in Requesters |-> None]
  /\ kind = [r \in Requesters |-> "organization"]
  /\ crashes = 0

-----------------------------------------------------------------------------
(* Requests: queue_refresh_for_organization, queue_refresh_for_integration,  *)
(* the scheduler's _schedule_once, and enqueue_job.                          *)

ActiveIntegrations == {i \in Integrations : integration[i] = "active"}

\* ensure_refresh_interval_for_organization lets the caller through.
IntervalElapsed == sinceRefresh >= MinInterval

\* _has_active_refresh_job.
HasActiveRefreshJob ==
  \E j \in Jobs : status[j] \in Active /\ age[j] <= SchedulerWindow

\* The sets of integrations that a request of kind k by r may queue now.
Scopes(r, k) ==
  CASE k = "organization" /\ r \in Clients /\ IntervalElapsed ->
         {ActiveIntegrations}
    [] k = "integration" /\ r \in Clients /\ IntervalElapsed ->
         {{i} : i \in ActiveIntegrations}
    [] k = "scheduler" /\ r = Scheduler /\ IntervalElapsed /\ ~HasActiveRefreshJob ->
         {ActiveIntegrations}
    [] k = "enforced" /\ r \in Clients ->
         {{i} : i \in ActiveIntegrations}
    [] OTHER -> {}

\* Faulty: a running job is not regarded as a duplicate.
HasQueuedDuplicate(i, k) ==
  \E j \in Jobs : status[j] = "queued" /\ target[j] = i /\ payload[j] = k

\* _find_active_duplicate_job: an active row with the same dedupe key.
HasDuplicate(i, k) ==
  \E j \in Jobs : status[j] \in Active /\ target[j] = i /\ payload[j] = k

StartRequest(r, k) ==
  /\ rpc[r] = "idle" /\ k \in RequestKinds
  /\ \E S \in Scopes(r, k) : S # {} /\ todo' = [todo EXCEPT ![r] = S]
  /\ rpc' = [rpc EXCEPT ![r] = "queueing"]
  /\ kind' = [kind EXCEPT ![r] = k]
  /\ UNCHANGED <<integration, table, workers, results, current, crashes>>

\* The request goes on with the integrations of S, or ends.
Proceed(r, S) ==
  /\ todo' = [todo EXCEPT ![r] = S]
  /\ rpc' = [rpc EXCEPT ![r] = IF S = {} THEN "idle" ELSE "queueing"]
  /\ kind' = [kind EXCEPT ![r] = IF S = {} THEN "organization" ELSE @]
  /\ current' = [current EXCEPT ![r] = None]

NextIntegration(r, i) == Proceed(r, todo[r] \ {i})
AbortRequest(r) == Proceed(r, {})

\* enqueue_job up to the insert: an active duplicate is returned instead.
FindDuplicate(r, i) ==
  /\ rpc[r] = "queueing" /\ i \in todo[r]
  /\ IF Dedupe /\ HasDuplicate(i, kind[r])
     THEN NextIntegration(r, i)
     ELSE /\ rpc' = [rpc EXCEPT ![r] = "inserting"]
          /\ current' = [current EXCEPT ![r] = i]
          /\ UNCHANGED <<todo, kind>>
  /\ UNCHANGED <<integration, table, workers, results, crashes>>

\* Faulty: the table has no uq_sync_jobs_active_dedupe_key.
OnlyForeignKeyChecked(r) == integration[current[r]] # "deleted"

\* The commit succeeds unless a constraint of the database refuses the row:
\* the foreign key, or uq_sync_jobs_active_dedupe_key when the key is set.
Insertable(r) ==
  /\ integration[current[r]] # "deleted"
  /\ ~(Dedupe /\ HasDuplicate(current[r], kind[r]))

InsertJob(r) ==
  /\ rpc[r] = "inserting" /\ Insertable(r) /\ lastJob < MaxJobs
  /\ lastJob' = lastJob + 1
  /\ status' = [status EXCEPT ![lastJob'] = "queued"]
  /\ target' = [target EXCEPT ![lastJob'] = current[r]]
  /\ payload' = [payload EXCEPT ![lastJob'] = kind[r]]
  /\ NextIntegration(r, current[r])
  /\ UNCHANGED <<integration, age, sinceRefresh, workers, results, crashes>>

\* IntegrityError: rolled back, and raised at once when there is no key.
InsertRefused(r) ==
  /\ rpc[r] = "inserting" /\ ~Insertable(r)
  /\ IF Dedupe
     THEN rpc' = [rpc EXCEPT ![r] = "conflict"] /\ UNCHANGED <<todo, current, kind>>
     ELSE AbortRequest(r)
  /\ UNCHANGED <<integration, table, workers, results, crashes>>

\* The second look: the winner's row is returned if it is still active.
ResolveConflict(r) ==
  /\ rpc[r] = "conflict"
  /\ IF HasDuplicate(current[r], kind[r])
     THEN NextIntegration(r, current[r])
     ELSE AbortRequest(r)
  /\ UNCHANGED <<integration, table, workers, results, crashes>>

-----------------------------------------------------------------------------
(* Workers: claim_next_job and run_claimed_job.                              *)

MyIntegration(w) == target[job[w]]
Deleted(w) == integration[MyIntegration(w)] = "deleted"

Goto(w, phase) == pc' = [pc EXCEPT ![w] = phase]

Release(w) ==
  /\ Goto(w, "idle")
  /\ job' = [job EXCEPT ![w] = None]
  /\ fetched' = [fetched EXCEPT ![w] = 0]

\* The last commit of a run: job.status whatever the row now holds.
FinishJob(w, outcome) ==
  /\ status' = [status EXCEPT ![job[w]] = outcome]
  /\ age' = [age EXCEPT ![job[w]] = 0]
  /\ Release(w)

\* A database error that leaves the session unusable: the commit of the
\* finally block raises as well, so the row stays as it was.
StrandJob(w) == Release(w) /\ UNCHANGED <<status, age>>

\* Faulty: the claim locks no row.
NothingLocked == {}

\* Rows another claim holds locked, which SKIP LOCKED passes over.
Locked == {job[v] : v \in {u \in Workers : pc[u] = "claiming"}}
Claimable == {j \in Jobs : status[j] = "queued" /\ (Postgres => j \notin Locked)}

\* The SELECT of the claim: the oldest queued row.
SelectJob(w) ==
  /\ pc[w] = "idle"
  /\ \E j \in Claimable :
       /\ \A k \in Claimable : j <= k
       /\ job' = [job EXCEPT ![w] = j]
  /\ Goto(w, "claiming")
  /\ UNCHANGED <<integration, table, fetched, fetches, results, requests, crashes>>

\* Faulty: the fallback updates the row whatever its status.
ClaimUnchecked(w) == TRUE

\* The UPDATE of the claim takes hold: the row lock was kept, or the fallback
\* found the status still queued.
ClaimTakesHold(w) == Postgres \/ status[job[w]] = "queued"

\* The UPDATE of the claim and its commit.
ClaimJob(w) ==
  /\ pc[w] = "claiming"
  /\ IF ClaimTakesHold(w)
     THEN /\ status' = [status EXCEPT ![job[w]] = "running"]
          /\ age' = [age EXCEPT ![job[w]] = 0]
          /\ Goto(w, "loading")
          /\ UNCHANGED <<job, fetched>>
     ELSE Release(w) /\ UNCHANGED <<status, age>>
  /\ UNCHANGED <<integration, target, payload, lastJob, sinceRefresh, fetches,
                 results, requests, crashes>>

\* The interval check of the payload, and the look-up of the integration: a
\* run that may not go on fails without touching the service's health.
LoadIntegration(w) ==
  /\ pc[w] = "loading"
  /\ Goto(w, IF \/ payload[job[w]] = "enforced" /\ ~IntervalElapsed
                \/ Deleted(w)
             THEN "dropping" ELSE "fetching")
  /\ UNCHANGED <<integration, table, job, fetched, fetches, results, requests, crashes>>

\* provider.refresh under wait_for: it answers with a balance, with one marked
\* actual=False, with none; it reports a failure; it raises or times out.
ProviderAnswer(w) ==
  /\ pc[w] = "fetching"
  /\ \/ /\ \E next \in {"saving", "degraded"} : Goto(w, next)
        /\ fetches' = fetches + 1
        /\ fetched' = [fetched EXCEPT ![w] = fetches']
     \/ /\ \E next \in {"completing", "refused", "failing"} : Goto(w, next)
        /\ UNCHANGED <<fetches, fetched>>
  /\ UNCHANGED <<integration, table, job, results, requests, crashes>>

\* The run goes on, the answer it held is no longer needed.
KeepJob(w) == fetched' = [fetched EXCEPT ![w] = 0] /\ UNCHANGED job

\* save_balance and its commit, of an answer that is complete or not.
SaveAnswer(w, complete) ==
  /\ balance' = [balance EXCEPT ![MyIntegration(w)] = fetched[w]]
  /\ actual' = [actual EXCEPT ![MyIntegration(w)] = complete]

\* A complete answer is saved if validate_balance_for_persistence accepts it;
\* the foreign key refuses it once the integration is gone.
SaveBalance(w) ==
  /\ pc[w] = "saving"
  /\ \/ /\ ~Deleted(w)
        /\ SaveAnswer(w, TRUE)
        /\ Goto(w, "marking")
        /\ KeepJob(w)
     \/ /\ Goto(w, "rejecting")
        /\ KeepJob(w)
        /\ UNCHANGED <<balance, actual>>
     \/ /\ Deleted(w)
        /\ Release(w)
        /\ UNCHANGED <<balance, actual>>
  /\ UNCHANGED <<integration, table, fetches, health, requests, crashes>>

\* An answer marked actual=False is saved all the same if it has content.
SaveDegraded(w) ==
  /\ pc[w] = "degraded"
  /\ \/ /\ ~Deleted(w)
        /\ SaveAnswer(w, FALSE)
        /\ Goto(w, "rejecting")
        /\ KeepJob(w)
     \/ /\ Goto(w, "rejecting")
        /\ KeepJob(w)
        /\ UNCHANGED <<balance, actual>>
     \/ /\ Deleted(w)
        /\ Release(w)
        /\ UNCHANGED <<balance, actual>>
  /\ UNCHANGED <<integration, table, fetches, health, requests, crashes>>

SetHealth(w, value) ==
  health' = [health EXCEPT ![ServiceOf[MyIntegration(w)]] = value]

\* update_status after a save, and after a refused payload.
MarkHealthy(w) ==
  /\ pc[w] = "marking"
  /\ SetHealth(w, "healthy")
  /\ Goto(w, "completing")
  /\ UNCHANGED <<integration, table, job, fetched, fetches, balance, actual,
                 requests, crashes>>

RejectPayload(w) ==
  /\ pc[w] = "rejecting"
  /\ SetHealth(w, "unhealthy")
  /\ Goto(w, "failing")
  /\ UNCHANGED <<integration, table, job, fetched, fetches, balance, actual,
                 requests, crashes>>

\* The commit of a completed run also writes integration.last_synced_at, which
\* fails when the row is gone.
CompleteJob(w) ==
  /\ pc[w] = "completing"
  /\ \/ ~Deleted(w) /\ FinishJob(w, "completed") /\ sinceRefresh' = 0
     \/ Deleted(w) /\ StrandJob(w) /\ UNCHANGED sinceRefresh
  /\ UNCHANGED <<integration, target, payload, lastJob, fetches, results,
                 requests, crashes>>

\* The provider reported a failure: last_synced_at is written here too.
RefuseJob(w) ==
  /\ pc[w] = "refused"
  /\ \/ ~Deleted(w) /\ FinishJob(w, "failed") /\ SetHealth(w, "unhealthy")
     \/ Deleted(w) /\ StrandJob(w) /\ UNCHANGED health
  /\ UNCHANGED <<integration, target, payload, lastJob, sinceRefresh, fetches,
                 balance, actual, requests, crashes>>

\* The except branches: an exception or a timeout marks the service unhealthy;
\* a rate limit or a missing integration does not.
FailJob(w) ==
  /\ pc[w] \in {"failing", "dropping"}
  /\ FinishJob(w, "failed")
  /\ IF pc[w] = "failing" THEN SetHealth(w, "unhealthy") ELSE UNCHANGED health
  /\ UNCHANGED <<integration, target, payload, lastJob, sinceRefresh, fetches,
                 balance, actual, requests, crashes>>

\* The process dies, or is stopped, and is started again.
Crash(w) ==
  /\ pc[w] # "idle" /\ crashes < MaxCrashes
  /\ crashes' = crashes + 1
  /\ Release(w)
  /\ UNCHANGED <<integration, table, fetches, results, requests>>

-----------------------------------------------------------------------------
(* Recovery, time, and the administration of integrations.                   *)

Running(w) == pc[w] \in RunPhases

\* Faulty: recovery as a worker starts fails every running row; or none.
StaleAtAnyAge == {j \in Jobs : status[j] = "running"}
StaleNever == {}

Stale == {j \in Jobs : status[j] = "running" /\ age[j] > StaleTimeout}

\* recover_stale_running_jobs, which the scheduler runs in each round and every
\* worker loop between two jobs.
Recover ==
  /\ Stale # {}
  /\ rpc[Scheduler] = "idle" \/ \E w \in Workers : pc[w] = "idle"
  /\ status' = [j \in Jobs |-> IF j \in Stale THEN "failed" ELSE status[j]]
  /\ age' = [j \in Jobs |-> IF j \in Stale THEN 0 ELSE age[j]]
  /\ UNCHANGED <<integration, target, payload, lastJob, sinceRefresh, workers,
                 results, requests, crashes>>

\* Time passes, but no further than a live run may last.
Tick ==
  /\ \A w \in Workers : Running(w) => age[job[w]] < RunBound
  /\ age' = [j \in Jobs |-> IF status[j] \in Active
                            THEN Smaller(age[j] + 1, AgeCap) ELSE age[j]]
  /\ sinceRefresh' = Smaller(sinceRefresh + 1, MinInterval)
  /\ UNCHANGED <<integration, status, target, payload, lastJob, workers, results,
                 requests, crashes>>

\* deactivate_integration, activate_integration, delete_integration.
AdministerIntegration(i) ==
  /\ \/ /\ integration[i] = "active"
        /\ integration' = [integration EXCEPT ![i] = "inactive"]
     \/ /\ integration[i] = "inactive"
        /\ integration' = [integration EXCEPT ![i] = "active"]
     \/ /\ integration[i] # "deleted"
        /\ integration' = [integration EXCEPT ![i] = "deleted"]
  /\ UNCHANGED <<table, workers, results, requests, crashes>>

RequestStep(r) ==
  \/ \E k \in Kinds : StartRequest(r, k)
  \/ \E i \in Integrations : FindDuplicate(r, i)
  \/ InsertJob(r) \/ InsertRefused(r) \/ ResolveConflict(r)

WorkerStep(w) ==
  \/ SelectJob(w) \/ ClaimJob(w) \/ LoadIntegration(w) \/ ProviderAnswer(w)
  \/ SaveBalance(w) \/ SaveDegraded(w) \/ MarkHealthy(w) \/ RejectPayload(w)
  \/ CompleteJob(w) \/ RefuseJob(w) \/ FailJob(w)

Next ==
  \/ \E r \in Requesters : RequestStep(r)
  \/ \E w \in Workers : WorkerStep(w) \/ Crash(w)
  \/ \E i \in Integrations : AdministerIntegration(i)
  \/ Recover \/ Tick

Spec == Init /\ [][Next]_vars

\* A worker loop that is alive goes on, time passes, and recovery is polled.
\* Nobody has to send a request, and nothing has to crash.
FairSpec ==
  /\ Spec
  /\ \A w \in Workers : WF_vars(WorkerStep(w))
  /\ WF_vars(Recover) /\ WF_vars(Tick)


-----------------------------------------------------------------------------
(* Properties.                                                               *)

\* No job is ever executed by two workers at once, on either dialect, whatever
\* crashes and however late recovery strikes: a row is claimed once.
OneRunner ==
  \A v, w \in Workers : v # w /\ Running(v) /\ Running(w) => job[v] # job[w]

\* While a worker executes a job its row says so: recovery has not taken the
\* run for dead (run_claimed_job would then overwrite the recovered row).
RunnerOwnsJob == \A w \in Workers : Running(w) => status[job[w]] = "running"

\* A finished row never changes: what GET and the notifications read of it once
\* is what they read later.
TerminalStable ==
  [][\A j \in Jobs : status[j] \in Finished => status'[j] = status[j]]_vars

\* With deduplication and one kind of request, the provider of an integration is
\* never called by two runs at once.
NoParallelFetch ==
  \A v, w \in Workers :
    v # w /\ Running(v) /\ Running(w) => MyIntegration(v) # MyIntegration(w)

\* Under the same conditions a saved balance is never replaced by the answer of
\* an earlier call: runs do not overtake each other between fetch and save.
BalanceMonotone ==
  [][\A i \in Integrations : balance'[i] >= balance[i]]_vars

\* Under the same conditions, when every integration has its own service key: a
\* balance saved as degraded does not stay under a healthy status. The window
\* between the two commits is closed by the worker that opened it, unless it dies.
HonestHealth ==
  \A i \in Integrations :
    ~actual[i] /\ health[ServiceOf[i]] = "healthy" /\ crashes = 0 =>
      \E w \in Workers : pc[w] = "rejecting" /\ MyIntegration(w) = i

\* Every queued job ends, whatever dies: recovery ends what nobody runs.
QueuedJobsEnd ==
  \A j \in Jobs : status[j] = "queued" ~> status[j] \in Finished

\* README.md, on enqueueing: two simultaneous requests do not make a duplicate.
OneActiveJobPerIntegration ==
  \A j, k \in Jobs :
    j # k /\ status[j] \in Active /\ status[k] \in Active => target[j] # target[k]

\* The queue that the rows implement: the dedupe key is the integration and the
\* payload, and is unique among the active rows when it is set.
Queue == INSTANCE JobQueue
         WITH Keys <- Integrations \X Kinds, NoKey <- <<None, "organization">>,
              Unique <- Dedupe, state <- status, last <- lastJob,
              key <- [j \in Jobs |-> <<target[j], payload[j]>>]

\* Seen as a queue, the table promises what JobQueue does.
ImplementsQueue == Queue!Spec
=============================================================================
