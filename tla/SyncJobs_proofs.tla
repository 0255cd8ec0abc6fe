-------------------------- MODULE SyncJobs_proofs ---------------------------
(***************************************************************************)
(* Proofs about SyncJobs, for any number of integrations, workers, clients *)
(* and rows.  The invariants are layered: types; what a worker holds and   *)
(* what the rows say (Claims); how long a run has lasted (InTime); and the *)
(* order in which answers are saved (Ordered).                             *)
(***************************************************************************)
EXTENDS SyncJobs, TLAPS

\* The timeouts of the code are natural numbers.
LEMMA TimesAreNumbers ==
  StaleTimeout \in Nat /\ SchedulerWindow \in Nat /\ AgeCap \in Nat
BY ConstantsAssumption DEF StaleTimeout, SchedulerWindow, AgeCap, Larger, Smaller

\* A configured running timeout that leaves a minute beyond the provider's own
\* timeout, or that is switched off, makes recovery wait exactly that long.
THEOREM StaleTimeoutCoversProvider ==
  ASSUME ProviderTimeout > 0,
         RunningTimeout = 0 \/ RunningTimeout >= ProviderTimeout + Minute
  PROVE  StaleTimeout = ProviderTimeout + Minute
BY ConstantsAssumption DEF StaleTimeout, Larger, Smaller

-----------------------------------------------------------------------------
(* Types.                                                                    *)

\* The initial values have their types.
LEMMA TypeInit == Init => TypeOK
BY ConstantsAssumption, TimesAreNumbers
   DEF Init, TypeOK, TableType, WorkersType, ResultsType, RequestsType, Statuses,
       Jobs, Kinds, RunPhases

\* The groups of variables that a step leaves alone keep their types.
LEMMA TypeKept ==
  ASSUME TypeOK
  PROVE  /\ UNCHANGED table => TableType'
         /\ UNCHANGED workers => WorkersType'
         /\ UNCHANGED results => ResultsType'
         /\ UNCHANGED requests => RequestsType'
BY DEF TypeOK, TableType, WorkersType, ResultsType, RequestsType, table, workers,
       results, requests

\* Moving on to the next integration, or giving up, keeps the types of a request.
LEMMA TypeProceed ==
  ASSUME TypeOK, NEW r \in Requesters, NEW S \in SUBSET Integrations, Proceed(r, S)
  PROVE  RequestsType'
BY DEF TypeOK, RequestsType, Proceed, Kinds

\* Every step of a request keeps the types.
LEMMA TypeRequest ==
  ASSUME TypeOK, NEW r \in Requesters, RequestStep(r)
  PROVE  TypeOK'
<1>1. /\ UNCHANGED <<integration, workers, results, crashes>>
      /\ WorkersType' /\ ResultsType'
  BY TypeKept DEF RequestStep, StartRequest, FindDuplicate, InsertJob, InsertRefused,
                  ResolveConflict
<1>2. ASSUME NEW k \in Kinds, StartRequest(r, k) PROVE TableType' /\ RequestsType'
  <2>1. \A S \in Scopes(r, k) : S \in SUBSET Integrations
    BY DEF Scopes, ActiveIntegrations
  <2> QED BY <1>2, <2>1, TypeKept DEF StartRequest, TypeOK, RequestsType
<1>3. ASSUME NEW i \in Integrations, FindDuplicate(r, i)
      PROVE  TableType' /\ RequestsType'
  <2>1. todo[r] \ {i} \in SUBSET Integrations BY DEF TypeOK, RequestsType
  <2>2. NextIntegration(r, i) => RequestsType'
    BY <2>1, TypeProceed DEF NextIntegration
  <2> QED BY <1>3, <2>2, TypeKept DEF FindDuplicate, TypeOK, RequestsType
<1>4. ASSUME NEW i, NextIntegration(r, i) PROVE RequestsType'
  <2>1. todo[r] \ {i} \in SUBSET Integrations BY DEF TypeOK, RequestsType
  <2> QED BY <1>4, <2>1, TypeProceed DEF NextIntegration
<1>5. AbortRequest(r) => RequestsType' BY TypeProceed DEF AbortRequest
<1>6. CASE InsertJob(r)
  <2>1. RequestsType' BY <1>6, <1>4 DEF InsertJob
  <2>2. TableType'
    BY <1>6, ConstantsAssumption
       DEF InsertJob, TypeOK, TableType, RequestsType, Statuses, Active, Jobs
  <2> QED BY <1>1, <1>6, <2>1, <2>2 DEF TypeOK
<1>7. CASE InsertRefused(r)
  BY <1>7, <1>5, TypeKept DEF InsertRefused, TypeOK, RequestsType
<1>8. CASE ResolveConflict(r)
  BY <1>8, <1>4, <1>5, TypeKept DEF ResolveConflict, TypeOK
<1>9. TableType' /\ RequestsType'
  BY <1>2, <1>3, <1>6, <1>7, <1>8 DEF RequestStep, TypeOK
<1> QED BY <1>1, <1>9 DEF TypeOK

\* A worker that lets go of its job keeps the types of the workers.
LEMMA TypeRelease ==
  ASSUME TypeOK, NEW w \in Workers, Release(w), UNCHANGED fetches
  PROVE  WorkersType'
BY DEF TypeOK, WorkersType, Release, Goto

\* So does one that moves to another phase with the job it has.
LEMMA TypeGoto ==
  ASSUME TypeOK, NEW w \in Workers, NEW phase \in RunPhases \union {"claiming"},
         Goto(w, phase), UNCHANGED job \/ \E j \in Jobs : job' = [job EXCEPT ![w] = j],
         UNCHANGED fetched \/ \E n \in Nat : fetched' = [fetched EXCEPT ![w] = n],
         fetches' \in Nat
  PROVE  WorkersType'
BY DEF TypeOK, WorkersType, Goto

\* The last commit of a run keeps the types of the table.
LEMMA TypeFinish ==
  ASSUME TypeOK, NEW w \in Workers, NEW outcome \in Finished, FinishJob(w, outcome),
         UNCHANGED <<target, payload, lastJob, fetches>>, sinceRefresh' \in 0 .. MinInterval
  PROVE  TableType' /\ WorkersType'
<1>1. WorkersType' BY TypeRelease DEF FinishJob
<1>2. TableType'
  <2>1. status' \in [Jobs -> Statuses]
    BY DEF FinishJob, TypeOK, TableType, Statuses
  <2>2. age' \in [Jobs -> 0 .. AgeCap]
    <3>1. 0 \in 0 .. AgeCap BY TimesAreNumbers
    <3>2. age' = [age EXCEPT ![job[w]] = 0] /\ age \in [Jobs -> 0 .. AgeCap]
      BY DEF FinishJob, TypeOK, TableType
    <3> QED BY <3>1, <3>2
  <2> QED BY <2>1, <2>2 DEF TypeOK, TableType
<1> QED BY <1>1, <1>2

\* Writing a status, or leaving it alone, keeps the types of the results.
LEMMA TypeHealth ==
  ASSUME TypeOK, NEW w \in Workers, NEW value \in {"healthy", "unhealthy"},
         SetHealth(w, value) \/ UNCHANGED health, UNCHANGED <<balance, actual>>
  PROVE  ResultsType'
BY DEF SetHealth, TypeOK, ResultsType

\* Every step of a worker, its death included, keeps the types.
LEMMA TypeWorker ==
  ASSUME TypeOK, NEW w \in Workers, WorkerStep(w) \/ Crash(w)
  PROVE  TypeOK'
<1>0. fetches \in Nat /\ 0 \in Nat /\ MinInterval \in Nat
  BY ConstantsAssumption DEF TypeOK, WorkersType
<1>1. CASE SelectJob(w)
  <2>1. \E j \in Jobs : job' = [job EXCEPT ![w] = j] BY <1>1 DEF SelectJob, Claimable
  <2> QED BY <1>0, <1>1, <2>1, TypeKept, TypeGoto DEF SelectJob, TypeOK
<1>2. CASE ClaimJob(w)
  <2>1. WorkersType'
    BY <1>0, <1>2, TypeGoto, TypeRelease DEF ClaimJob, RunPhases
  <2>2. TableType'
    BY <1>2, TimesAreNumbers DEF ClaimJob, TypeOK, TableType, Statuses, Active
  <2> QED BY <1>2, <2>1, <2>2, TypeKept DEF ClaimJob, TypeOK
<1>3. CASE LoadIntegration(w)
  BY <1>0, <1>3, TypeKept, TypeGoto DEF LoadIntegration, TypeOK, RunPhases
<1>4. CASE ProviderAnswer(w)
  <2>1. fetches' \in Nat /\ (UNCHANGED fetched \/
          \E n \in Nat : fetched' = [fetched EXCEPT ![w] = n])
    BY <1>0, <1>4 DEF ProviderAnswer
  <2>2. PICK phase \in RunPhases : Goto(w, phase)
    BY <1>4 DEF ProviderAnswer, RunPhases
  <2> QED BY <1>4, <2>1, <2>2, TypeKept, TypeGoto DEF ProviderAnswer, TypeOK
<1>5. CASE SaveBalance(w) \/ SaveDegraded(w)
  <2>1. WorkersType'
    BY <1>0, <1>5, TypeGoto, TypeRelease
       DEF SaveBalance, SaveDegraded, KeepJob, RunPhases
  <2>2. ResultsType'
    BY <1>5 DEF SaveBalance, SaveDegraded, SaveAnswer, TypeOK, ResultsType, WorkersType
  <2> QED BY <1>5, <2>1, <2>2, TypeKept DEF SaveBalance, SaveDegraded, TypeOK
<1>6. CASE MarkHealthy(w) \/ RejectPayload(w)
  <2>1. WorkersType'
    BY <1>0, <1>6, TypeGoto DEF MarkHealthy, RejectPayload, RunPhases
  <2> QED BY <1>6, <2>1, TypeHealth, TypeKept DEF MarkHealthy, RejectPayload, TypeOK
<1>7. CASE CompleteJob(w) \/ RefuseJob(w) \/ FailJob(w)
  <2>1. sinceRefresh' \in 0 .. MinInterval
    BY <1>0, <1>7 DEF CompleteJob, RefuseJob, FailJob, TypeOK, TableType
  <2>2. TableType' /\ WorkersType'
    BY <1>7, <2>1, TypeFinish, TypeRelease, TypeKept
       DEF CompleteJob, RefuseJob, FailJob, StrandJob, Finished, table, TypeOK, TableType
  <2>3. ResultsType'
    BY <1>7, TypeHealth, TypeKept DEF CompleteJob, RefuseJob, FailJob
  <2> QED BY <1>7, <2>2, <2>3, TypeKept DEF CompleteJob, RefuseJob, FailJob, TypeOK
<1>8. CASE Crash(w)
  BY <1>8, ConstantsAssumption, TypeRelease, TypeKept DEF Crash, TypeOK
<1> QED BY <1>1, <1>2, <1>3, <1>4, <1>5, <1>6, <1>7, <1>8 DEF WorkerStep

\* So do recovery, time and the administration of integrations.
LEMMA TypeEnvironment ==
  ASSUME TypeOK,
         Recover \/ Tick \/ \E i \in Integrations : AdministerIntegration(i)
  PROVE  TypeOK'
<1>1. CASE Recover
  <2>1. TableType'
    BY <1>1, TimesAreNumbers DEF Recover, TypeOK, TableType, Statuses, Finished
  <2> QED BY <1>1, <2>1, TypeKept DEF Recover, TypeOK
<1>2. CASE Tick
  <2>1. TableType'
    BY <1>2, TimesAreNumbers, ConstantsAssumption DEF Tick, TypeOK, TableType, Smaller
  <2> QED BY <1>2, <2>1, TypeKept DEF Tick, TypeOK
<1>3. ASSUME NEW i \in Integrations, AdministerIntegration(i) PROVE TypeOK'
  BY <1>3, TypeKept DEF AdministerIntegration, TypeOK
<1> QED BY <1>1, <1>2, <1>3

\* Every step keeps the types.
LEMMA TypeNext == TypeOK /\ [Next]_vars => TypeOK'
<1>1. TypeOK /\ UNCHANGED vars => TypeOK' BY TypeKept DEF TypeOK, vars
<1> QED BY <1>1, TypeRequest, TypeWorker, TypeEnvironment DEF Next

\* Every variable keeps its type.
THEOREM TypeCorrect == Spec => []TypeOK
BY TypeInit, TypeNext, PTL DEF Spec

-----------------------------------------------------------------------------
(* Claims: what a worker holds and what the row of its job says.             *)

\* The shapes of a step, as far as rows and holders go.
Moves(w) ==
  /\ Running(w) /\ \E phase \in RunPhases : Goto(w, phase)
  /\ UNCHANGED <<table, job>>

Drops(w) == pc[w] # "idle" /\ Release(w) /\ UNCHANGED table

Finishes(w) ==
  /\ Running(w) /\ \E outcome \in Finished : FinishJob(w, outcome)
  /\ UNCHANGED <<target, payload, lastJob>>

TakesHold(w) == ClaimJob(w) /\ ClaimTakesHold(w)

\* What a worker does to the table has one of a few shapes, whatever the phase.
LEMMA WorkerShapes ==
  ASSUME NEW w \in Workers, WorkerStep(w) \/ Crash(w)
  PROVE  SelectJob(w) \/ TakesHold(w) \/ Moves(w) \/ Drops(w) \/ Finishes(w)
<1>1. ClaimJob(w) => TakesHold(w) \/ Drops(w)
  BY DEF ClaimJob, TakesHold, Drops, table
<1>2. LoadIntegration(w) \/ ProviderAnswer(w) => Moves(w)
  BY DEF LoadIntegration, ProviderAnswer, Moves, Running, RunPhases
<1>3. SaveBalance(w) \/ SaveDegraded(w) => Moves(w) \/ Drops(w)
  BY DEF SaveBalance, SaveDegraded, KeepJob, Moves, Drops, Running, RunPhases
<1>4. MarkHealthy(w) \/ RejectPayload(w) => Moves(w)
  BY DEF MarkHealthy, RejectPayload, Moves, Running, RunPhases
<1>5. CompleteJob(w) \/ RefuseJob(w) \/ FailJob(w) => Finishes(w) \/ Drops(w)
  BY DEF CompleteJob, RefuseJob, FailJob, StrandJob, Finishes, Drops, Running,
         RunPhases, Finished, table
<1>6. Crash(w) => Drops(w) BY DEF Crash, Drops
<1> QED BY <1>1, <1>2, <1>3, <1>4, <1>5, <1>6 DEF WorkerStep

\* So has every step of the system.
LEMMA StepShapes ==
  ASSUME [Next]_vars
  PROVE  \/ UNCHANGED <<table, pc, job>>
         \/ \E r \in Requesters : InsertJob(r)
         \/ \E w \in Workers : \/ SelectJob(w) \/ TakesHold(w) \/ Moves(w)
                               \/ Drops(w) \/ Finishes(w)
         \/ Recover \/ Tick
<1>1. ASSUME NEW r \in Requesters, RequestStep(r)
      PROVE  UNCHANGED <<table, pc, job>> \/ InsertJob(r)
  BY <1>1 DEF RequestStep, StartRequest, FindDuplicate, InsertRefused,
              ResolveConflict, workers
<1>2. ASSUME NEW i \in Integrations, AdministerIntegration(i)
      PROVE  UNCHANGED <<table, pc, job>>
  BY <1>2 DEF AdministerIntegration, workers
<1>3. UNCHANGED vars => UNCHANGED <<table, pc, job>> BY DEF vars, workers
<1> QED BY <1>1, <1>2, <1>3, WorkerShapes DEF Next

\* What holds of claims on either dialect: a worker that executes a job has taken
\* it out of the queue, and has taken it alone; on PostgreSQL the row lock keeps a
\* selected row queued, and selected once.
HoldsRow == \A w \in Workers : pc[w] # "idle" => job[w] \in Jobs
BeyondLast == \A j \in Jobs : j > lastJob => status[j] = "none"
SelectedRow ==
  \A w \in Workers : pc[w] = "claiming" =>
    /\ status[job[w]] # "none"
    /\ Postgres => status[job[w]] = "queued"
SelectedOnce ==
  Postgres => \A v, w \in Workers :
    v # w /\ pc[v] = "claiming" /\ pc[w] = "claiming" => job[v] # job[w]
TakenRow ==
  \A w \in Workers : Running(w) => status[job[w]] \in {"running"} \union Finished

Claims == HoldsRow /\ BeyondLast /\ SelectedRow /\ SelectedOnce /\ TakenRow /\ OneRunner

\* No claim is held at the start.
LEMMA ClaimsInit == Init => Claims
BY DEF Init, Claims, HoldsRow, BeyondLast, SelectedRow, SelectedOnce, TakenRow,
       OneRunner, Running, RunPhases

\* Every step keeps the claims apart.
LEMMA ClaimsNext == TypeOK /\ Claims /\ [Next]_vars => Claims'
<1> SUFFICES ASSUME TypeOK, Claims, [Next]_vars PROVE Claims'
  OBVIOUS
<1> USE DEF Claims, Running
<1>0. /\ status \in [Jobs -> Statuses] /\ lastJob \in 0 .. MaxJobs
      /\ pc \in [Workers -> {"idle", "claiming"} \union RunPhases]
      /\ job \in [Workers -> Jobs \union {None}]
  BY DEF TypeOK, TableType, WorkersType
<1>a. /\ "idle" \notin RunPhases /\ "claiming" \notin RunPhases
      /\ "queued" \notin Finished /\ "none" \notin Finished
  BY DEF RunPhases, Finished
<1>1. CASE UNCHANGED <<table, pc, job>>
  BY <1>1 DEF table, HoldsRow, BeyondLast, SelectedRow, SelectedOnce, TakenRow, OneRunner
<1>2. ASSUME NEW r \in Requesters, InsertJob(r) PROVE Claims'
  <2>1. /\ lastJob' = lastJob + 1 /\ lastJob' \in Jobs /\ status[lastJob'] = "none"
        /\ status' = [status EXCEPT ![lastJob'] = "queued"]
    BY <1>0, <1>2, ConstantsAssumption DEF InsertJob, BeyondLast, Jobs
  <2>2. UNCHANGED <<pc, job>> BY <1>2 DEF InsertJob, workers
  <2>3. BeyondLast' BY <1>0, <2>1, ConstantsAssumption DEF BeyondLast, Jobs
  <2>4. \A w \in Workers : pc[w] # "idle" => job[w] \in Jobs /\ job[w] # lastJob'
    BY <1>0, <1>a, <2>1 DEF HoldsRow, SelectedRow, TakenRow
  <2>5. \A w \in Workers : pc[w] # "idle" => status'[job[w]] = status[job[w]]
    BY <1>0, <2>1, <2>4
  <2> QED BY <1>a, <2>2, <2>3, <2>4, <2>5
             DEF HoldsRow, SelectedRow, SelectedOnce, TakenRow, OneRunner
<1>3. ASSUME NEW w \in Workers, SelectJob(w) PROVE Claims'
  <2>1. PICK j \in Claimable : job' = [job EXCEPT ![w] = j] BY <1>3 DEF SelectJob
  <2>2. /\ pc' = [pc EXCEPT ![w] = "claiming"]
        /\ UNCHANGED <<status, lastJob>>
    BY <1>3 DEF SelectJob, Goto, table
  <2>3. /\ j \in Jobs /\ status[j] = "queued"
        /\ Postgres => \A v \in Workers : pc[v] = "claiming" => job[v] # j
    BY <2>1 DEF Claimable, Locked
  <2> QED BY <1>0, <1>a, <2>1, <2>2, <2>3
             DEF HoldsRow, BeyondLast, SelectedRow, SelectedOnce, TakenRow, OneRunner
<1>4. ASSUME NEW w \in Workers, TakesHold(w) PROVE Claims'
  <2>1. /\ pc[w] = "claiming" /\ UNCHANGED <<job, lastJob>>
        /\ status' = [status EXCEPT ![job[w]] = "running"]
        /\ pc' = [pc EXCEPT ![w] = "loading"]
    BY <1>4 DEF TakesHold, ClaimJob, Goto
  <2>2. job[w] \in Jobs /\ status[job[w]] = "queued"
    BY <1>4, <2>1 DEF TakesHold, ClaimTakesHold, HoldsRow, SelectedRow
  <2>3. \A v \in Workers : v # w /\ Running(v) => job[v] # job[w]
    BY <1>a, <2>2 DEF TakenRow
  <2>4. Postgres => \A v \in Workers : v # w /\ pc[v] = "claiming" => job[v] # job[w]
    BY <2>1 DEF SelectedOnce
  <2>5. "loading" \in RunPhases /\ "loading" # "idle" BY DEF RunPhases
  <2>6. HoldsRow' BY <1>0, <2>1, <2>2 DEF HoldsRow
  <2>7. BeyondLast' BY <1>0, <2>1, <2>2 DEF BeyondLast
  <2>8. SelectedRow' BY <1>0, <2>1, <2>2, <2>4 DEF SelectedRow, HoldsRow
  <2>9. SelectedOnce' BY <1>0, <2>1 DEF SelectedOnce
  <2>10. TakenRow' BY <1>0, <1>a, <2>1, <2>2 DEF TakenRow, HoldsRow
  <2>11. OneRunner' BY <1>0, <2>1, <2>3, <2>5 DEF OneRunner
  <2> QED BY <2>6, <2>7, <2>8, <2>9, <2>10, <2>11
<1>5. ASSUME NEW w \in Workers, Moves(w) PROVE Claims'
  <2>1. PICK phase \in RunPhases : pc' = [pc EXCEPT ![w] = phase]
    BY <1>5 DEF Moves, Goto
  <2>2. Running(w) /\ UNCHANGED <<status, lastJob, job>> BY <1>5 DEF Moves, table
  <2> QED BY <1>0, <1>a, <2>1, <2>2
             DEF HoldsRow, BeyondLast, SelectedRow, SelectedOnce, TakenRow, OneRunner
<1>6. ASSUME NEW w \in Workers, Drops(w) PROVE Claims'
  <2>1. /\ pc' = [pc EXCEPT ![w] = "idle"] /\ job' = [job EXCEPT ![w] = None]
        /\ UNCHANGED <<status, lastJob>>
    BY <1>6 DEF Drops, Release, Goto, table
  <2> QED BY <1>0, <1>a, <2>1
             DEF HoldsRow, BeyondLast, SelectedRow, SelectedOnce, TakenRow, OneRunner
<1>7. ASSUME NEW w \in Workers, Finishes(w) PROVE Claims'
  <2>1. PICK outcome \in Finished : status' = [status EXCEPT ![job[w]] = outcome]
    BY <1>7 DEF Finishes, FinishJob
  <2>2. /\ pc' = [pc EXCEPT ![w] = "idle"] /\ job' = [job EXCEPT ![w] = None]
        /\ UNCHANGED lastJob /\ Running(w)
    BY <1>7 DEF Finishes, FinishJob, Release, Goto
  <2>3. job[w] \in Jobs /\ status[job[w]] \notin {"none", "queued"}
    BY <1>a, <2>2 DEF HoldsRow, TakenRow
  <2>4. outcome \notin {"none", "queued"} BY <1>a
  <2>5. HoldsRow' /\ SelectedOnce' /\ OneRunner'
    BY <1>0, <1>a, <2>2 DEF HoldsRow, SelectedOnce, OneRunner
  <2>6. BeyondLast' BY <1>0, <2>1, <2>2, <2>3 DEF BeyondLast
  <2>7. SelectedRow' BY <1>0, <2>1, <2>2, <2>3, <2>4 DEF SelectedRow, HoldsRow
  <2>8. TakenRow' BY <1>0, <1>a, <2>1, <2>2, <2>3 DEF TakenRow, HoldsRow
  <2> QED BY <2>5, <2>6, <2>7, <2>8
<1>8. CASE Recover
  <2>1. /\ UNCHANGED <<pc, job, lastJob>>
        /\ status' = [j \in Jobs |-> IF j \in Stale THEN "failed" ELSE status[j]]
    BY <1>8 DEF Recover, workers
  <2>2. \A j \in Stale : j \in Jobs /\ status[j] = "running" BY DEF Stale
  <2>3. "failed" \in Finished BY DEF Finished
  <2> QED BY <1>0, <1>a, <2>1, <2>2, <2>3
             DEF HoldsRow, BeyondLast, SelectedRow, SelectedOnce, TakenRow, OneRunner
<1>9. CASE Tick
  BY <1>9 DEF Tick, workers, HoldsRow, BeyondLast, SelectedRow, SelectedOnce,
              TakenRow, OneRunner
<1> QED BY <1>1, <1>2, <1>3, <1>4, <1>5, <1>6, <1>7, <1>8, <1>9, StepShapes

\* A row is selected and executed by one worker at a time, in every behaviour.
THEOREM ClaimsHold == Spec => []Claims
BY TypeInit, TypeNext, ClaimsInit, ClaimsNext, PTL DEF Spec

\* No job is executed by two workers at once, on PostgreSQL through the row lock
\* and elsewhere through the repeated test of the status.
THEOREM RunsAlone == Spec => []OneRunner
BY ClaimsHold, PTL DEF Claims

-----------------------------------------------------------------------------
(* InTime: a live run that cannot outlast the stale timeout is never taken   *)
(* for dead.                                                                 *)

InTime ==
  \A w \in Workers : Running(w) =>
    status[job[w]] = "running" /\ age[job[w]] <= RunBound

\* No run is late at the start.
LEMMA InTimeInit == Init => InTime
BY DEF Init, InTime, Running, RunPhases

\* If recovery waits longer than a run may last, no step makes a run late.
LEMMA InTimeNext ==
  ASSUME RunBound <= StaleTimeout, TypeOK, Claims, InTime, [Next]_vars
  PROVE  InTime'
<1> USE DEF InTime, Running
<1>0. /\ status \in [Jobs -> Statuses] /\ age \in [Jobs -> 0 .. AgeCap]
      /\ pc \in [Workers -> {"idle", "claiming"} \union RunPhases]
      /\ job \in [Workers -> Jobs \union {None}] /\ lastJob \in 0 .. MaxJobs
  BY DEF TypeOK, TableType, WorkersType
<1>a. "idle" \notin RunPhases /\ "claiming" \notin RunPhases /\ "loading" \in RunPhases
  BY DEF RunPhases
<1>b. \A w \in Workers : Running(w) => job[w] \in Jobs
  BY <1>a DEF Claims, HoldsRow
<1>1. CASE UNCHANGED <<table, pc, job>> BY <1>1 DEF table
<1>2. ASSUME NEW r \in Requesters, InsertJob(r) PROVE InTime'
  <2>1. /\ lastJob' = lastJob + 1 /\ lastJob' \in Jobs
        /\ status' = [status EXCEPT ![lastJob'] = "queued"]
        /\ UNCHANGED <<age, pc, job>>
    BY <1>0, <1>2, ConstantsAssumption DEF InsertJob, Jobs, workers
  <2>2. status[lastJob'] = "none"
    BY <1>0, <2>1, ConstantsAssumption DEF Claims, BeyondLast
  <2> QED BY <1>0, <1>b, <2>1, <2>2
<1>3. ASSUME NEW w \in Workers, SelectJob(w) PROVE InTime'
  BY <1>0, <1>a, <1>3 DEF SelectJob, Goto, table
<1>4. ASSUME NEW w \in Workers, TakesHold(w) PROVE InTime'
  <2>1. /\ pc[w] = "claiming" /\ UNCHANGED job
        /\ status' = [status EXCEPT ![job[w]] = "running"]
        /\ age' = [age EXCEPT ![job[w]] = 0]
        /\ pc' = [pc EXCEPT ![w] = "loading"]
    BY <1>4 DEF TakesHold, ClaimJob, Goto
  <2>2. job[w] \in Jobs BY <2>1 DEF Claims, HoldsRow
  <2>3. 0 <= RunBound BY ConstantsAssumption
  <2> QED BY <1>0, <1>b, <2>1, <2>2, <2>3
<1>5. ASSUME NEW w \in Workers, Moves(w) PROVE InTime'
  <2>1. PICK phase \in RunPhases : pc' = [pc EXCEPT ![w] = phase]
    BY <1>5 DEF Moves, Goto
  <2> QED BY <1>0, <1>5, <2>1 DEF Moves, table
<1>6. ASSUME NEW w \in Workers, Drops(w) PROVE InTime'
  BY <1>0, <1>a, <1>6 DEF Drops, Release, Goto, table
<1>7. ASSUME NEW w \in Workers, Finishes(w) PROVE InTime'
  <2>1. PICK outcome \in Finished : /\ status' = [status EXCEPT ![job[w]] = outcome]
                                    /\ age' = [age EXCEPT ![job[w]] = 0]
    BY <1>7 DEF Finishes, FinishJob
  <2>2. /\ pc' = [pc EXCEPT ![w] = "idle"] /\ job' = [job EXCEPT ![w] = None]
        /\ Running(w)
    BY <1>7 DEF Finishes, FinishJob, Release, Goto
  <2>3. \A v \in Workers : v # w /\ Running(v) => job[v] # job[w]
    BY <2>2 DEF Claims, OneRunner
  <2> QED BY <1>0, <1>a, <1>b, <2>1, <2>2, <2>3
<1>8. CASE Recover
  <2>1. \A w \in Workers : Running(w) => job[w] \notin Stale
    BY <1>0, <1>b, TimesAreNumbers, ConstantsAssumption DEF Stale
  <2> QED BY <1>0, <1>b, <1>8, <2>1 DEF Recover, workers
<1>9. CASE Tick
  <2>1. ASSUME NEW w \in Workers, Running(w) PROVE age'[job[w]] <= RunBound
    <3>1. age[job[w]] < RunBound /\ age[job[w]] \in Nat /\ job[w] \in Jobs
      BY <1>0, <1>b, <1>9, <2>1, TimesAreNumbers DEF Tick
    <3>2. age'[job[w]] = age[job[w]] \/ age'[job[w]] <= age[job[w]] + 1
      BY <1>9, <3>1, TimesAreNumbers DEF Tick, Smaller
    <3> QED BY <3>1, <3>2, <1>9, ConstantsAssumption, TimesAreNumbers DEF Tick, Smaller
  <2> QED BY <1>9, <2>1 DEF Tick, workers
<1> QED BY <1>1, <1>2, <1>3, <1>4, <1>5, <1>6, <1>7, <1>8, <1>9, StepShapes

\* A live run has a running row no older than the longest run.
THEOREM RunsInTime ==
  ASSUME RunBound <= StaleTimeout
  PROVE  Spec => [](TypeOK /\ Claims /\ InTime)
<1>1. Init => TypeOK /\ Claims /\ InTime BY TypeInit, ClaimsInit, InTimeInit
<1>2. TypeOK /\ Claims /\ InTime /\ [Next]_vars => (TypeOK /\ Claims /\ InTime)'
  BY TypeNext, ClaimsNext, InTimeNext
<1> QED BY <1>1, <1>2, PTL DEF Spec

\* A run that lasts no longer than the stale timeout keeps its row: recovery
\* ends only the jobs of workers that are gone.
THEOREM RecoverySparesTheLiving ==
  ASSUME RunBound <= StaleTimeout
  PROVE  Spec => []RunnerOwnsJob
<1>1. InTime => RunnerOwnsJob BY DEF InTime, RunnerOwnsJob
<1> QED BY <1>1, RunsInTime, PTL

\* The running jobs of S end alike, and nothing else happens to the rows.
Ends(S, outcome) ==
  /\ \A j \in S : status[j] = "running"
  /\ status' = [j \in Jobs |-> IF j \in S THEN outcome ELSE status[j]]
  /\ UNCHANGED <<target, payload, lastJob>>

\* What a step may do to the statuses, when runs are in time.
LEMMA StatusStep ==
  ASSUME TypeOK, Claims, InTime, [Next]_vars
  PROVE  \/ UNCHANGED <<status, target, payload, lastJob>>
         \/ \E r \in Requesters : InsertJob(r) /\ status[lastJob'] = "none"
         \/ \E j \in Jobs : /\ status[j] = "queued"
                            /\ status' = [status EXCEPT ![j] = "running"]
                            /\ UNCHANGED <<target, payload, lastJob>>
         \/ \E S \in SUBSET Jobs, outcome \in Finished : Ends(S, outcome)
<1>0. status \in [Jobs -> Statuses] /\ lastJob \in 0 .. MaxJobs
  BY DEF TypeOK, TableType
<1>1. ASSUME NEW r \in Requesters, InsertJob(r) PROVE status[lastJob'] = "none"
  BY <1>0, <1>1, ConstantsAssumption DEF InsertJob, Claims, BeyondLast, Jobs
<1>2. ASSUME NEW w \in Workers, TakesHold(w)
      PROVE  \E j \in Jobs : /\ status[j] = "queued"
                             /\ status' = [status EXCEPT ![j] = "running"]
                             /\ UNCHANGED <<target, payload, lastJob>>
  <2>1. job[w] \in Jobs /\ status[job[w]] = "queued"
    BY <1>2 DEF TakesHold, ClaimJob, ClaimTakesHold, Claims, HoldsRow, SelectedRow
  <2> QED BY <1>2, <2>1 DEF TakesHold, ClaimJob
<1>3. ASSUME NEW w \in Workers, Finishes(w)
      PROVE  \E S \in SUBSET Jobs, outcome \in Finished : Ends(S, outcome)
  <2>1. job[w] \in Jobs /\ status[job[w]] = "running"
    BY <1>3 DEF Finishes, Running, RunPhases, Claims, HoldsRow, InTime
  <2>2. PICK outcome \in Finished : status' = [status EXCEPT ![job[w]] = outcome]
    BY <1>3 DEF Finishes, FinishJob
  <2>3. status' = [j \in Jobs |-> IF j \in {job[w]} THEN outcome ELSE status[j]]
    BY <1>0, <2>1, <2>2
  <2>4. Ends({job[w]}, outcome) BY <1>3, <2>1, <2>3 DEF Finishes, Ends
  <2>5. {job[w]} \in SUBSET Jobs BY <2>1
  <2> QED BY <2>4, <2>5
<1>4. ASSUME Recover
      PROVE  \E S \in SUBSET Jobs, outcome \in Finished : Ends(S, outcome)
  <2>1. Stale \in SUBSET Jobs /\ \A j \in Stale : status[j] = "running" BY DEF Stale
  <2>2. "failed" \in Finished BY DEF Finished
  <2>3. Ends(Stale, "failed") BY <1>4, <2>1 DEF Recover, Ends
  <2> QED BY <2>1, <2>2, <2>3
<1>5. ASSUME NEW w \in Workers, SelectJob(w) \/ Moves(w) \/ Drops(w)
      PROVE  UNCHANGED <<status, target, payload, lastJob>>
  BY <1>5 DEF SelectJob, Moves, Drops, table
<1>6. UNCHANGED <<table, pc, job>> => UNCHANGED <<status, target, payload, lastJob>>
  BY DEF table
<1>7. Tick => UNCHANGED <<status, target, payload, lastJob>> BY DEF Tick
<1> QED BY <1>1, <1>2, <1>3, <1>4, <1>5, <1>6, <1>7, StepShapes

\* What a row says when it is finished is final.
THEOREM FinishedIsFinal ==
  ASSUME RunBound <= StaleTimeout
  PROVE  Spec => TerminalStable
<1>1. ASSUME TypeOK, Claims, InTime, [Next]_vars
      PROVE  [\A j \in Jobs : status[j] \in Finished => status'[j] = status[j]]_vars
  <2>1. status \in [Jobs -> Statuses] BY <1>1 DEF TypeOK, TableType
  <2>2. "none" \notin Finished /\ "queued" \notin Finished /\ "running" \notin Finished
    BY DEF Finished
  <2>3. ASSUME NEW r \in Requesters, InsertJob(r), status[lastJob'] = "none",
               NEW j \in Jobs, status[j] \in Finished
        PROVE  status'[j] = status[j]
    BY <2>1, <2>2, <2>3 DEF InsertJob
  <2>4. ASSUME NEW S \in SUBSET Jobs, NEW outcome \in Finished, Ends(S, outcome),
               NEW j \in Jobs, status[j] \in Finished
        PROVE  status'[j] = status[j]
    BY <2>2, <2>4 DEF Ends
  <2> QED BY <1>1, <2>1, <2>2, <2>3, <2>4, StatusStep
<1> QED BY <1>1, RunsInTime, PTL DEF Spec, TerminalStable

-----------------------------------------------------------------------------
(* Keys: what requests and rows name, and the unique index over active rows. *)

RequestNamed ==
  \A r \in Requesters :
    /\ rpc[r] \in {"inserting", "conflict"} => current[r] \in Integrations
    /\ rpc[r] # "idle" => kind[r] \in RequestKinds

RowNamed ==
  \A j \in Jobs : status[j] # "none" =>
    target[j] \in Integrations /\ payload[j] \in RequestKinds

UniqueActive ==
  Dedupe => \A j, k \in Jobs :
    j # k /\ status[j] \in Active /\ status[k] \in Active =>
      target[j] # target[k] \/ payload[j] # payload[k]

Keyed == RequestNamed /\ RowNamed /\ UniqueActive

\* No key is in use at the start.
LEMMA KeyedInit == Init => Keyed
BY DEF Init, Keyed, RequestNamed, RowNamed, UniqueActive, Active

\* A request that inserts names an integration.
LEMMA RequestNamedNext ==
  ASSUME TypeOK, RequestNamed, [Next]_vars
  PROVE  RequestNamed'
<1> USE DEF RequestNamed
<1>0. /\ rpc \in [Requesters -> {"idle", "queueing", "inserting", "conflict"}]
      /\ todo \in [Requesters -> SUBSET Integrations]
      /\ current \in [Requesters -> Integrations \union {None}]
      /\ kind \in [Requesters -> Kinds]
  BY DEF TypeOK, RequestsType
<1>1. UNCHANGED requests => RequestNamed' BY DEF requests
<1>2. ASSUME NEW r \in Requesters, RequestStep(r) PROVE RequestNamed'
  <2>1. ASSUME NEW S, rpc[r] # "idle", Proceed(r, S) PROVE RequestNamed'
    BY <1>0, <2>1 DEF Proceed
  <2>2. ASSUME NEW k \in Kinds, StartRequest(r, k) PROVE RequestNamed'
    BY <1>0, <2>2 DEF StartRequest
  <2>3. ASSUME NEW i \in Integrations, FindDuplicate(r, i) PROVE RequestNamed'
    BY <1>0, <2>1, <2>3 DEF FindDuplicate, NextIntegration
  <2>4. InsertJob(r) => RequestNamed' BY <2>1 DEF InsertJob, NextIntegration
  <2>5. InsertRefused(r) => RequestNamed'
    BY <1>0, <2>1 DEF InsertRefused, AbortRequest
  <2>6. ResolveConflict(r) => RequestNamed'
    BY <2>1 DEF ResolveConflict, NextIntegration, AbortRequest
  <2> QED BY <1>2, <2>2, <2>3, <2>4, <2>5, <2>6 DEF RequestStep
<1>3. ASSUME NEW w \in Workers, WorkerStep(w) \/ Crash(w) PROVE UNCHANGED requests
  BY <1>3 DEF WorkerStep, Crash, SelectJob, ClaimJob, LoadIntegration, ProviderAnswer,
     SaveBalance, SaveDegraded, MarkHealthy, RejectPayload, CompleteJob, RefuseJob, FailJob
<1>4. Recover \/ Tick \/ (\E i \in Integrations : AdministerIntegration(i))
        \/ UNCHANGED vars => UNCHANGED requests
  BY DEF Recover, Tick, AdministerIntegration, vars
<1> QED BY <1>1, <1>2, <1>3, <1>4 DEF Next

\* Every step keeps the keys of active rows apart, when deduplication is on.
LEMMA KeyedNext ==
  ASSUME TypeOK, Claims, InTime, Keyed, [Next]_vars
  PROVE  Keyed'
<1>0. /\ status \in [Jobs -> Statuses] /\ lastJob \in 0 .. MaxJobs
      /\ target \in [Jobs -> Integrations \union {None}] /\ payload \in [Jobs -> Kinds]
  BY DEF TypeOK, TableType
<1>a. Active = {"queued", "running"} /\ Finished = {"completed", "failed"}
  BY DEF Active, Finished
<1>1. RequestNamed' BY RequestNamedNext DEF Keyed
<1>2. CASE UNCHANGED <<status, target, payload, lastJob>>
  BY <1>1, <1>2 DEF Keyed, RowNamed, UniqueActive
<1>3. ASSUME NEW r \in Requesters, InsertJob(r), status[lastJob'] = "none" PROVE Keyed'
  <2>1. /\ lastJob' \in Jobs /\ rpc[r] = "inserting" /\ Insertable(r)
        /\ status' = [status EXCEPT ![lastJob'] = "queued"]
        /\ target' = [target EXCEPT ![lastJob'] = current[r]]
        /\ payload' = [payload EXCEPT ![lastJob'] = kind[r]]
    BY <1>0, <1>3, ConstantsAssumption DEF InsertJob, Jobs
  <2>2. current[r] \in Integrations /\ kind[r] \in RequestKinds
    BY <2>1 DEF Keyed, RequestNamed
  <2>3. RowNamed' BY <1>0, <2>1, <2>2 DEF Keyed, RowNamed
  <2>4. Dedupe => \A j \in Jobs : status[j] \in Active =>
          target[j] # current[r] \/ payload[j] # kind[r]
    BY <2>1 DEF Insertable, HasDuplicate
  <2>5. UniqueActive' BY <1>0, <1>a, <2>1, <2>4 DEF Keyed, UniqueActive
  <2> QED BY <1>1, <2>3, <2>5 DEF Keyed
<1>4. ASSUME NEW j \in Jobs, status[j] = "queued",
             status' = [status EXCEPT ![j] = "running"],
             UNCHANGED <<target, payload, lastJob>>
      PROVE  Keyed'
  BY <1>0, <1>a, <1>1, <1>4 DEF Keyed, RowNamed, UniqueActive
<1>5. ASSUME NEW S \in SUBSET Jobs, NEW outcome \in Finished, Ends(S, outcome)
      PROVE  Keyed'
  BY <1>0, <1>a, <1>1, <1>5 DEF Keyed, RowNamed, UniqueActive, Ends
<1> QED BY <1>2, <1>3, <1>4, <1>5, StatusStep

Orderly == TypeOK /\ Claims /\ InTime /\ Keyed

\* Types, claims, times and keys hold together in every behaviour.
LEMMA OrderlyHolds ==
  ASSUME RunBound <= StaleTimeout
  PROVE  Spec => []Orderly
<1>1. Init => Orderly BY TypeInit, ClaimsInit, InTimeInit, KeyedInit DEF Orderly
<1>2. Orderly /\ [Next]_vars => Orderly'
  BY TypeNext, ClaimsNext, InTimeNext, KeyedNext DEF Orderly
<1> QED BY <1>1, <1>2, PTL DEF Spec

-----------------------------------------------------------------------------
(* The table implements JobQueue.                                            *)

\* An empty table is an empty queue.
LEMMA QueueInit == Init => Queue!Init
BY DEF Init, Queue!Init, Queue!Ids, Jobs

\* Every step of the system is a step of the queue, or none.
LEMMA QueueNext == Orderly /\ [Next]_vars => [Queue!Next]_Queue!jobVars
<1> SUFFICES ASSUME Orderly, [Next]_vars PROVE [Queue!Next]_Queue!jobVars
  OBVIOUS
<1>0. /\ status \in [Jobs -> Statuses] /\ lastJob \in 0 .. MaxJobs
      /\ target \in [Jobs -> Integrations \union {None}] /\ payload \in [Jobs -> Kinds]
  BY DEF Orderly, TypeOK, TableType
<1>a. Jobs = Queue!Ids /\ Finished = Queue!Outcomes /\ Active = Queue!Unfinished
  BY DEF Jobs, Queue!Ids, Finished, Queue!Outcomes, Active, Queue!Unfinished
<1>1. CASE UNCHANGED <<status, target, payload, lastJob>>
  BY <1>1 DEF Queue!jobVars
<1>2. ASSUME NEW r \in Requesters, InsertJob(r) PROVE Queue!Next
  <2>1. /\ lastJob' \in Jobs /\ lastJob' = lastJob + 1 /\ lastJob < MaxJobs
        /\ rpc[r] = "inserting" /\ Insertable(r)
        /\ status' = [status EXCEPT ![lastJob'] = "queued"]
        /\ target' = [target EXCEPT ![lastJob'] = current[r]]
        /\ payload' = [payload EXCEPT ![lastJob'] = kind[r]]
    BY <1>0, <1>2, ConstantsAssumption DEF InsertJob, Jobs
  <2>2. PICK k \in Integrations \X Kinds : k = <<current[r], kind[r]>>
    BY <2>1, ConstantsAssumption DEF Orderly, Keyed, RequestNamed
  <2>3. [j \in Jobs |-> <<target'[j], payload'[j]>>] =
          [[j \in Jobs |-> <<target[j], payload[j]>>]
             EXCEPT ![lastJob + 1] = k]
    BY <1>0, <2>1, <2>2
  <2>4. Dedupe => \A j \in Jobs : status[j] \in Active =>
          <<target[j], payload[j]>> # k
    BY <2>1, <2>2 DEF Insertable, HasDuplicate
  <2>5. Queue!Add(k)
    BY <1>a, <2>1, <2>3, <2>4 DEF Queue!Add
  <2> QED BY <2>5 DEF Queue!Next
<1>3. ASSUME NEW j \in Jobs, status[j] = "queued",
             status' = [status EXCEPT ![j] = "running"],
             UNCHANGED <<target, payload, lastJob>>
      PROVE  Queue!Next
  BY <1>a, <1>3 DEF Queue!Next, Queue!Start
<1>4. ASSUME NEW S \in SUBSET Jobs, NEW outcome \in Finished, Ends(S, outcome)
      PROVE  Queue!Next
  <2>1. Queue!End(S, outcome) BY <1>a, <1>4 DEF Ends, Queue!End
  <2> QED BY <1>a, <2>1 DEF Queue!Next
<1> QED BY <1>1, <1>2, <1>3, <1>4, StatusStep DEF Orderly

\* With runs in time, the table is a job queue: every step of every actor is a
\* step of JobQueue or none.
THEOREM TableImplementsQueue ==
  ASSUME RunBound <= StaleTimeout
  PROVE  Spec => ImplementsQueue
BY OrderlyHolds, QueueInit, QueueNext, PTL DEF Spec, ImplementsQueue, Queue!Spec

-----------------------------------------------------------------------------
(* Runs of one integration follow one another when the unique key is its     *)
(* integration: deduplication is on and all requests are of one kind.        *)

OneKind == Dedupe /\ \A a, b \in RequestKinds : a = b

\* Unique keys and one kind of request keep live runs on different integrations.
LEMMA SeparateIntegrations == ASSUME OneKind, Orderly PROVE NoParallelFetch
<1> SUFFICES ASSUME NEW v \in Workers, NEW w \in Workers, v # w, Running(v), Running(w)
             PROVE  MyIntegration(v) # MyIntegration(w)
  BY DEF NoParallelFetch
<1>1. job[v] \in Jobs /\ job[w] \in Jobs /\ job[v] # job[w]
  BY DEF Orderly, Claims, HoldsRow, OneRunner, Running, RunPhases
<1>2. status[job[v]] = "running" /\ status[job[w]] = "running"
  BY DEF Orderly, InTime
<1>3. payload[job[v]] = payload[job[w]]
  BY <1>1, <1>2 DEF Orderly, Keyed, RowNamed, OneKind
<1> QED BY <1>1, <1>2, <1>3 DEF Orderly, Keyed, UniqueActive, Active, OneKind, MyIntegration

\* No two runs ask the provider of an integration at once.
THEOREM NeverParallel ==
  ASSUME RunBound <= StaleTimeout, OneKind
  PROVE  Spec => []NoParallelFetch
BY OrderlyHolds, SeparateIntegrations, PTL

\* The answer a run is about to save is no older than the one it replaces, and a
\* run about to report health has saved a complete answer.
Ordered ==
  /\ \A i \in Integrations : balance[i] <= fetches
  /\ \A w \in Workers : pc[w] \in {"saving", "degraded"} =>
       balance[MyIntegration(w)] <= fetched[w] /\ fetched[w] <= fetches
  /\ \A w \in Workers : pc[w] = "marking" => actual[MyIntegration(w)]

\* No answer is held or saved at the start.
LEMMA OrderedInit == Init => Ordered
BY DEF Init, Ordered

\* The integration of a job that a worker holds does not change.
LEMMA HeldTargetKept ==
  ASSUME Orderly, [Next]_vars
  PROVE  \A w \in Workers : pc[w] # "idle" =>
           job[w] \in Jobs /\ target'[job[w]] = target[job[w]]
<1> SUFFICES ASSUME NEW w \in Workers, pc[w] # "idle"
             PROVE  job[w] \in Jobs /\ target'[job[w]] = target[job[w]]
  OBVIOUS
<1>1. job[w] \in Jobs /\ status[job[w]] # "none"
  BY DEF Orderly, Claims, HoldsRow, SelectedRow, InTime, Running, TypeOK, WorkersType
<1>2. ASSUME NEW r \in Requesters, InsertJob(r), status[lastJob'] = "none"
      PROVE  target'[job[w]] = target[job[w]]
  BY <1>1, <1>2 DEF InsertJob, Orderly, TypeOK, TableType
<1> QED BY <1>1, <1>2, StatusStep DEF Orderly, Ends

\* A live run is of an integration.
LEMMA RunningTarget ==
  ASSUME Orderly, NEW w \in Workers, Running(w)
  PROVE  job[w] \in Jobs /\ MyIntegration(w) \in Integrations
BY DEF Orderly, Claims, HoldsRow, InTime, Keyed, RowNamed, MyIntegration, Running, RunPhases

\* The shapes of a step, as far as answers and balances go.
Saves(w, complete) ==
  /\ pc[w] \in {"saving", "degraded"} /\ SaveAnswer(w, complete) /\ KeepJob(w)
  /\ Goto(w, IF complete THEN "marking" ELSE "rejecting")
  /\ UNCHANGED <<table, fetches, health>>

Passes(w) ==
  /\ \E phase : phase \notin {"saving", "degraded", "marking"} /\ Goto(w, phase)
  /\ \A v \in Workers : v # w => job'[v] = job[v] /\ fetched'[v] = fetched[v]
  /\ UNCHANGED <<fetches, balance, actual>>

\* What a step may do to the answers held and saved.
LEMMA ResultShapes ==
  ASSUME Orderly, [Next]_vars
  PROVE  \/ UNCHANGED <<pc, job, fetched, fetches, balance, actual>>
         \/ \E w \in Workers : \/ ProviderAnswer(w) \/ Passes(w)
                               \/ \E complete \in BOOLEAN : Saves(w, complete)
<1>0. job \in [Workers -> Jobs \union {None}] /\ fetched \in [Workers -> Nat]
  BY DEF Orderly, TypeOK, WorkersType
<1>1. ASSUME NEW w \in Workers, Release(w), UNCHANGED <<fetches, balance, actual>>
      PROVE  Passes(w)
  BY <1>0, <1>1 DEF Release, Passes, Goto
<1>2. ASSUME NEW w \in Workers, WorkerStep(w) \/ Crash(w)
      PROVE  ProviderAnswer(w) \/ Passes(w) \/ \E complete \in BOOLEAN : Saves(w, complete)
  <2>1. CASE SelectJob(w)
    BY <1>0, <2>1 DEF SelectJob, Goto, Passes, results
  <2>2. CASE ClaimJob(w)
    BY <1>1, <2>2 DEF ClaimJob, Goto, Passes, results
  <2>3. CASE LoadIntegration(w)
    BY <2>3 DEF LoadIntegration, Goto, Passes, results
  <2>4. CASE SaveBalance(w) \/ SaveDegraded(w)
    <3>1. KeepJob(w) => \A v \in Workers : v # w => job'[v] = job[v] /\ fetched'[v] = fetched[v]
      BY <1>0 DEF KeepJob
    <3>2. KeepJob(w) /\ Goto(w, "rejecting") /\ UNCHANGED <<fetches, balance, actual>> => Passes(w)
      BY <3>1 DEF Passes
    <3>3. CASE /\ SaveAnswer(w, TRUE) /\ Goto(w, "marking") /\ KeepJob(w)
               /\ pc[w] = "saving" /\ UNCHANGED <<table, fetches, health>>
      BY <3>3 DEF Saves
    <3>4. CASE /\ SaveAnswer(w, FALSE) /\ Goto(w, "rejecting") /\ KeepJob(w)
               /\ pc[w] = "degraded" /\ UNCHANGED <<table, fetches, health>>
      BY <3>4 DEF Saves
    <3> QED BY <1>1, <2>4, <3>2, <3>3, <3>4 DEF SaveBalance, SaveDegraded
  <2>5. CASE MarkHealthy(w) \/ RejectPayload(w)
    BY <2>5 DEF MarkHealthy, RejectPayload, Goto, Passes
  <2>6. CASE CompleteJob(w) \/ RefuseJob(w) \/ FailJob(w)
    BY <1>1, <2>6 DEF CompleteJob, RefuseJob, FailJob, FinishJob, StrandJob, results
  <2>7. CASE Crash(w) BY <1>1, <2>7 DEF Crash, results
  <2> QED BY <1>2, <2>1, <2>2, <2>3, <2>4, <2>5, <2>6, <2>7 DEF WorkerStep
<1>3. ASSUME NEW r \in Requesters, RequestStep(r)
      PROVE  UNCHANGED <<pc, job, fetched, fetches, balance, actual>>
  BY <1>3 DEF RequestStep, StartRequest, FindDuplicate, InsertJob, InsertRefused,
              ResolveConflict, workers, results
<1>4. Recover \/ Tick \/ (\E i \in Integrations : AdministerIntegration(i))
        \/ UNCHANGED vars => UNCHANGED <<pc, job, fetched, fetches, balance, actual>>
  BY DEF Recover, Tick, AdministerIntegration, vars, workers, results
<1> QED BY <1>2, <1>3, <1>4 DEF Next

\* Every step keeps the answers saved behind the answers held.
LEMMA OrderedNext ==
  ASSUME OneKind, Orderly, Ordered, [Next]_vars
  PROVE  Ordered' /\ \A i \in Integrations : balance'[i] >= balance[i]
<1> USE DEF MyIntegration
<1>0. /\ balance \in [Integrations -> Nat] /\ fetches \in Nat
      /\ actual \in [Integrations -> BOOLEAN]
      /\ pc \in [Workers -> {"idle", "claiming"} \union RunPhases]
      /\ job \in [Workers -> Jobs \union {None}] /\ fetched \in [Workers -> Nat]
  BY DEF Orderly, TypeOK, WorkersType, ResultsType
<1>a. /\ \A w \in Workers : pc[w] # "idle" =>
           job[w] \in Jobs /\ target'[job[w]] = target[job[w]]
      /\ NoParallelFetch
  BY HeldTargetKept, SeparateIntegrations
<1>1. ASSUME UNCHANGED <<pc, job, fetched, fetches, balance, actual>>
      PROVE  Ordered' /\ \A i \in Integrations : balance'[i] >= balance[i]
  BY <1>0, <1>1, <1>a DEF Ordered
<1>2. ASSUME NEW w \in Workers, NEW phase, phase \notin {"saving", "degraded", "marking"},
             pc' = [pc EXCEPT ![w] = phase], UNCHANGED <<fetches, balance, actual>>,
             \A v \in Workers : v # w => job'[v] = job[v] /\ fetched'[v] = fetched[v]
      PROVE  Ordered' /\ \A i \in Integrations : balance'[i] >= balance[i]
  BY <1>0, <1>2, <1>a DEF Ordered
<1>3. ASSUME NEW w \in Workers, ProviderAnswer(w)
      PROVE  Ordered' /\ \A i \in Integrations : balance'[i] >= balance[i]
  <2>1. Running(w) BY <1>3 DEF ProviderAnswer, Running, RunPhases
  <2>2. job[w] \in Jobs /\ target[job[w]] \in Integrations BY <2>1, RunningTarget
  <2>3. UNCHANGED <<job, balance, actual, target>>
    BY <1>3 DEF ProviderAnswer, results, table
  <2>4. CASE /\ \E next \in {"saving", "degraded"} : pc' = [pc EXCEPT ![w] = next]
             /\ fetches' = fetches + 1 /\ fetched' = [fetched EXCEPT ![w] = fetches']
    BY <1>0, <2>2, <2>3, <2>4 DEF Ordered
  <2>5. CASE /\ \E next \in {"completing", "refused", "failing"} : pc' = [pc EXCEPT ![w] = next]
             /\ UNCHANGED <<fetches, fetched>>
    BY <1>0, <2>2, <2>3, <2>5 DEF Ordered
  <2> QED BY <1>3, <2>4, <2>5 DEF ProviderAnswer, Goto
<1>4. ASSUME NEW w \in Workers, NEW complete \in BOOLEAN, Saves(w, complete)
      PROVE  Ordered' /\ \A i \in Integrations : balance'[i] >= balance[i]
  <2>1. Running(w) BY <1>4 DEF Saves, Running, RunPhases
  <2>2. job[w] \in Jobs /\ target[job[w]] \in Integrations BY <2>1, RunningTarget
  <2>3. /\ balance' = [balance EXCEPT ![target[job[w]]] = fetched[w]]
        /\ pc[w] \in {"saving", "degraded"} /\ UNCHANGED <<job, fetches, target>>
        /\ fetched' = [fetched EXCEPT ![w] = 0]
    BY <1>4 DEF Saves, SaveAnswer, KeepJob, table
  <2>4. \/ /\ pc' = [pc EXCEPT ![w] = "marking"]
           /\ actual' = [actual EXCEPT ![target[job[w]]] = TRUE]
        \/ /\ pc' = [pc EXCEPT ![w] = "rejecting"]
           /\ actual' = [actual EXCEPT ![target[job[w]]] = FALSE]
    BY <1>4 DEF Saves, SaveAnswer, Goto
  <2>5. \A v \in Workers : v # w /\ pc[v] \in {"saving", "degraded", "marking"} =>
          target[job[v]] # target[job[w]]
    BY <1>a, <2>1 DEF NoParallelFetch, Running, RunPhases
  <2>6. balance[target[job[w]]] <= fetched[w] /\ fetched[w] <= fetches
    BY <2>3 DEF Ordered
  <2>7. \A i \in Integrations : balance'[i] >= balance[i] /\ balance'[i] <= fetches'
    BY <1>0, <2>2, <2>3, <2>6 DEF Ordered
  <2>8. \A v \in Workers : pc'[v] \in {"saving", "degraded"} =>
          /\ balance'[target'[job'[v]]] <= fetched'[v] /\ fetched'[v] <= fetches'
    <3> SUFFICES ASSUME NEW v \in Workers, pc'[v] \in {"saving", "degraded"}
                 PROVE  balance'[target'[job'[v]]] <= fetched'[v] /\ fetched'[v] <= fetches'
      OBVIOUS
    <3>1. v # w /\ pc[v] \in {"saving", "degraded"} BY <1>0, <2>4
    <3>2. Running(v) BY <3>1 DEF Running, RunPhases
    <3>3. target[job[v]] \in Integrations /\ target[job[v]] # target[job[w]]
      BY <2>5, <3>1, <3>2, RunningTarget
    <3>4. balance'[target[job[v]]] = balance[target[job[v]]] /\ fetched'[v] = fetched[v]
      BY <1>0, <2>3, <3>1, <3>3
    <3> QED BY <2>3, <3>1, <3>4 DEF Ordered
  <2>9. \A v \in Workers : pc'[v] = "marking" => actual'[target'[job'[v]]]
    <3> SUFFICES ASSUME NEW v \in Workers, pc'[v] = "marking"
                 PROVE  actual'[target'[job'[v]]]
      OBVIOUS
    <3>1. CASE v = w BY <1>0, <2>2, <2>3, <2>4, <3>1
    <3>2. CASE v # w
      <4>1. pc[v] = "marking" BY <1>0, <2>4, <3>2
      <4>2. target[job[v]] # target[job[w]] /\ target[job[v]] \in Integrations
        BY <2>5, <3>2, <4>1, RunningTarget DEF Running, RunPhases
      <4>3. actual'[target[job[v]]] = actual[target[job[v]]]
        BY <1>0, <2>4, <4>2
      <4>4. actual[target[job[v]]] BY <4>1 DEF Ordered
      <4>5. target'[job'[v]] = target[job[v]] BY <2>3
      <4> QED BY <4>3, <4>4, <4>5
    <3> QED BY <3>1, <3>2
  <2> QED BY <2>7, <2>8, <2>9 DEF Ordered
<1>5. ASSUME NEW w \in Workers, Passes(w)
      PROVE  Ordered' /\ \A i \in Integrations : balance'[i] >= balance[i]
  BY <1>0, <1>2, <1>5 DEF Passes, Goto
<1> QED BY <1>1, <1>3, <1>4, <1>5, ResultShapes

\* A saved balance is never replaced by the answer of an earlier call.
THEOREM BalancesMoveForward ==
  ASSUME RunBound <= StaleTimeout, OneKind
  PROVE  Spec => BalanceMonotone
<1>1. ASSUME OneKind, Orderly, Ordered, [Next]_vars
      PROVE  [\A i \in Integrations : balance'[i] >= balance[i]]_vars
  BY <1>1, OrderedNext
<1>2. Orderly /\ Ordered /\ [Next]_vars => Ordered' BY OrderedNext
<1> QED BY <1>1, <1>2, OrderedInit, OrderlyHolds, PTL DEF Spec, BalanceMonotone

-----------------------------------------------------------------------------
(* A healthy status does not stay over a degraded balance.                   *)

ServicesDistinct == \A i, k \in Integrations : ServiceOf[i] = ServiceOf[k] => i = k

\* The steps of a worker that is not about to reject a payload.  What they do to
\* the health of a service, they do knowing that its balance is complete.
Unharmful(w) ==
  /\ pc[w] # "rejecting"
  /\ \A v \in Workers : v # w => pc'[v] = pc[v] /\ job'[v] = job[v]
  /\ UNCHANGED <<actual, crashes>>
  /\ \/ UNCHANGED health
     \/ Running(w) /\ SetHealth(w, "unhealthy")
     \/ pc[w] = "marking" /\ SetHealth(w, "healthy")

\* What a step may do to the health of a service.
LEMMA HealthShapes ==
  ASSUME Orderly, [Next]_vars
  PROVE  \/ UNCHANGED <<pc, job, actual, health, crashes>>
         \/ \E w \in Workers : \/ Unharmful(w) \/ RejectPayload(w) \/ Crash(w)
                               \/ \E complete \in BOOLEAN :
                                    Saves(w, complete) /\ UNCHANGED crashes
<1>0. /\ job \in [Workers -> Jobs \union {None}]
      /\ pc \in [Workers -> {"idle", "claiming"} \union RunPhases]
  BY DEF Orderly, TypeOK, WorkersType
<1>1. ASSUME NEW w \in Workers, Release(w)
      PROVE  \A v \in Workers : v # w => pc'[v] = pc[v] /\ job'[v] = job[v]
  BY <1>0, <1>1 DEF Release, Goto
<1>2. ASSUME NEW w \in Workers, NEW phase, Goto(w, phase),
             UNCHANGED job \/ \E j \in Jobs : job' = [job EXCEPT ![w] = j]
      PROVE  \A v \in Workers : v # w => pc'[v] = pc[v] /\ job'[v] = job[v]
  BY <1>0, <1>2 DEF Goto
<1>3. ASSUME NEW w \in Workers, WorkerStep(w)
      PROVE  Unharmful(w) \/ RejectPayload(w) \/
               \E complete \in BOOLEAN : Saves(w, complete) /\ UNCHANGED crashes
  <2>1. CASE SelectJob(w)
    BY <1>2, <2>1 DEF SelectJob, Claimable, Unharmful, results
  <2>2. CASE ClaimJob(w)
    BY <1>1, <1>2, <2>2 DEF ClaimJob, Unharmful, results
  <2>3. CASE LoadIntegration(w) \/ ProviderAnswer(w)
    BY <1>2, <2>3 DEF LoadIntegration, ProviderAnswer, Unharmful, results
  <2>4. CASE SaveBalance(w) \/ SaveDegraded(w)
    <3>1. CASE /\ SaveAnswer(w, TRUE) /\ Goto(w, "marking") /\ KeepJob(w)
               /\ pc[w] = "saving" /\ UNCHANGED <<table, fetches, health, crashes>>
      BY <3>1 DEF Saves
    <3>2. CASE /\ SaveAnswer(w, FALSE) /\ Goto(w, "rejecting") /\ KeepJob(w)
               /\ pc[w] = "degraded" /\ UNCHANGED <<table, fetches, health, crashes>>
      BY <3>2 DEF Saves
    <3>3. CASE /\ Goto(w, "rejecting") \/ Release(w)
               /\ UNCHANGED job \/ Release(w)
               /\ pc[w] \in {"saving", "degraded"} /\ UNCHANGED <<actual, health, crashes>>
      BY <1>1, <1>2, <3>3 DEF Unharmful
    <3> QED BY <2>4, <3>1, <3>2, <3>3 DEF SaveBalance, SaveDegraded, KeepJob
  <2>5. CASE MarkHealthy(w)
    BY <1>2, <2>5 DEF MarkHealthy, Unharmful
  <2>6. CASE CompleteJob(w) \/ RefuseJob(w) \/ FailJob(w)
    <3>1. Release(w) /\ Running(w) /\ pc[w] # "rejecting"
      BY <2>6 DEF CompleteJob, RefuseJob, FailJob, FinishJob, StrandJob, Running, RunPhases
    <3>2. (UNCHANGED health \/ SetHealth(w, "unhealthy")) /\ UNCHANGED <<actual, crashes>>
      BY <2>6 DEF CompleteJob, RefuseJob, FailJob, results
    <3> QED BY <1>1, <3>1, <3>2 DEF Unharmful
  <2> QED BY <1>3, <2>1, <2>2, <2>3, <2>4, <2>5, <2>6 DEF WorkerStep
<1>4. ASSUME NEW r \in Requesters, RequestStep(r)
      PROVE  UNCHANGED <<pc, job, actual, health, crashes>>
  BY <1>4 DEF RequestStep, StartRequest, FindDuplicate, InsertJob, InsertRefused,
              ResolveConflict, workers, results
<1>5. Recover \/ Tick \/ (\E i \in Integrations : AdministerIntegration(i))
        \/ UNCHANGED vars => UNCHANGED <<pc, job, actual, health, crashes>>
  BY DEF Recover, Tick, AdministerIntegration, vars, workers, results
<1> QED BY <1>3, <1>4, <1>5 DEF Next

\* Every step keeps the health of a service honest.
LEMMA HonestNext ==
  ASSUME OneKind, ServicesDistinct, Orderly, Ordered, HonestHealth, [Next]_vars
  PROVE  HonestHealth'
<1> SUFFICES ASSUME NEW i \in Integrations, ~actual'[i],
                    health'[ServiceOf[i]] = "healthy", crashes' = 0
             PROVE  \E w \in Workers : pc'[w] = "rejecting" /\ target'[job'[w]] = i
  BY DEF HonestHealth, MyIntegration
<1> USE DEF MyIntegration
<1>0. /\ actual \in [Integrations -> BOOLEAN] /\ crashes \in 0 .. MaxCrashes
      /\ health \in [Services -> {"unknown", "healthy", "unhealthy"}]
      /\ pc \in [Workers -> {"idle", "claiming"} \union RunPhases]
  BY DEF Orderly, TypeOK, WorkersType, ResultsType
<1>a. /\ \A w \in Workers : pc[w] # "idle" =>
           job[w] \in Jobs /\ target'[job[w]] = target[job[w]]
      /\ \A w \in Workers : Running(w) => target[job[w]] \in Integrations
  BY HeldTargetKept, RunningTarget
<1>b. \A k \in Integrations : ServiceOf[k] \in Services BY DEF Services
<1>1. ASSUME ~actual[i], health[ServiceOf[i]] = "healthy", crashes = 0
      PROVE  \E w \in Workers : pc[w] = "rejecting" /\ target[job[w]] = i /\ target'[job[w]] = i
  BY <1>1, <1>a DEF HonestHealth
<1>2. CASE UNCHANGED <<pc, job, actual, health, crashes>>
  BY <1>1, <1>2
<1>3. ASSUME NEW w \in Workers, Unharmful(w)
      PROVE  \E v \in Workers : pc'[v] = "rejecting" /\ target'[job'[v]] = i
  <2>1. ~actual[i] /\ crashes = 0 BY <1>3 DEF Unharmful
  <2>2. ASSUME NEW value \in {"unhealthy", "healthy"}, Running(w), SetHealth(w, value),
               value = "healthy" => pc[w] = "marking"
        PROVE  health[ServiceOf[i]] = "healthy"
    <3>1. target[job[w]] \in Integrations BY <1>a, <2>2
    <3>2. health' = [health EXCEPT ![ServiceOf[target[job[w]]]] = value]
      BY <2>2 DEF SetHealth
    <3>3. target[job[w]] # i
      BY <1>0, <1>b, <2>1, <2>2, <3>2 DEF Ordered
    <3>4. ServiceOf[target[job[w]]] # ServiceOf[i] BY <3>1, <3>3 DEF ServicesDistinct
    <3> QED BY <1>0, <1>b, <3>2, <3>4
  <2>3. health[ServiceOf[i]] = "healthy"
    BY <1>3, <2>2 DEF Unharmful, Running, RunPhases
  <2>4. PICK v \in Workers : pc[v] = "rejecting" /\ target'[job[v]] = i
    BY <1>1, <2>1, <2>3
  <2>5. pc'[v] = "rejecting" /\ job'[v] = job[v] BY <1>3, <2>4 DEF Unharmful
  <2> QED BY <2>4, <2>5
<1>4. ASSUME NEW w \in Workers, RejectPayload(w)
      PROVE  \E v \in Workers : pc'[v] = "rejecting" /\ target'[job'[v]] = i
  <2>1. target[job[w]] \in Integrations /\ UNCHANGED <<actual, crashes, job>>
    BY <1>4, <1>a DEF RejectPayload, Running, RunPhases
  <2>2. /\ health' = [health EXCEPT ![ServiceOf[target[job[w]]]] = "unhealthy"]
        /\ pc' = [pc EXCEPT ![w] = "failing"]
    BY <1>4 DEF RejectPayload, SetHealth, Goto
  <2>3. target[job[w]] # i /\ health[ServiceOf[i]] = "healthy"
    BY <1>0, <1>b, <2>1, <2>2
  <2>4. PICK v \in Workers : pc[v] = "rejecting" /\ target[job[v]] = i /\ target'[job[v]] = i
    BY <1>1, <2>1, <2>3
  <2> QED BY <1>0, <2>1, <2>2, <2>3, <2>4
<1>5. ASSUME NEW w \in Workers, Crash(w) PROVE FALSE
  BY <1>0, <1>5, ConstantsAssumption DEF Crash
<1>6. ASSUME NEW w \in Workers, NEW complete \in BOOLEAN, Saves(w, complete), UNCHANGED crashes
      PROVE  \E v \in Workers : pc'[v] = "rejecting" /\ target'[job'[v]] = i
  <2>1. /\ target[job[w]] \in Integrations /\ UNCHANGED <<health, job>>
        /\ pc[w] # "rejecting" /\ target'[job[w]] = target[job[w]]
    BY <1>6, <1>a DEF Saves, KeepJob, Running, RunPhases
  <2>2. /\ actual' = [actual EXCEPT ![target[job[w]]] = complete]
        /\ pc' = [pc EXCEPT ![w] = IF complete THEN "marking" ELSE "rejecting"]
    BY <1>6 DEF Saves, SaveAnswer, Goto
  <2>3. CASE target[job[w]] = i BY <1>0, <2>1, <2>2, <2>3
  <2>4. CASE target[job[w]] # i
    <3>1. ~actual[i] BY <1>0, <2>2, <2>4
    <3>2. PICK v \in Workers : pc[v] = "rejecting" /\ target'[job[v]] = i
      BY <1>1, <1>6, <2>1, <3>1
    <3> QED BY <1>0, <2>1, <2>2, <3>2
  <2> QED BY <2>3, <2>4
<1> QED BY <1>2, <1>3, <1>4, <1>5, <1>6, HealthShapes

\* A balance saved as degraded never stays under a healthy status while no run is
\* lost: the worker that saved it is still about to say so.
THEOREM HealthIsHonest ==
  ASSUME RunBound <= StaleTimeout, OneKind, ServicesDistinct
  PROVE  Spec => []HonestHealth
<1>1. Init => HonestHealth BY DEF Init, HonestHealth
<1>2. Orderly /\ Ordered /\ [Next]_vars => Ordered' BY OrderedNext
<1>3. Orderly /\ Ordered /\ HonestHealth /\ [Next]_vars => HonestHealth' BY HonestNext
<1> QED BY <1>1, <1>2, <1>3, OrderedInit, OrderlyHolds, PTL DEF Spec
=============================================================================
