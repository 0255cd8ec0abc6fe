-------------------------------- MODULE MCLive --------------------------------
(***************************************************************************)
(* What has to happen in the end: tiny instances for TLC of Billing, of    *)
(* the job queue, of the first sign-in and of the outbox of notifications, *)
(* each with the fairness that its module states.  They share no state: a  *)
(* behaviour is one of one part, and the others rest.                      *)
(***************************************************************************)
EXTENDS Billing, TLC

CONSTANTS
  r1, r2,             \* requests
  purchase,           \* an invoice
  pro, low,           \* plans
  u1, u2,             \* users
  i1, c1, Scheduler,  \* an integration, a client, the scheduler
  s1, g1, Bot         \* a service, a generation of events, the loop of the bot

VARIABLES
  part,
  sequence, bootRow, member, identity, boot, deaths,
  health, check, item, watching, seed, known, cursor, event, log, outboxAt, stream, snap, todo,
  before, batch, last, spc, inbox, delivered, late, skipped, baseline, raced, untold,
  changes, faults, outboxCrashes, outboxCast,
  integration, status, target, payload, age, lastJob, sinceRefresh, pc, job, fetched, fetches,
  jobBalance, actual, jobHealth, rpc, queueing, current, kind, jobCrashes

billing == <<now, payment, ledger, subs, notices, request, crashes>>
bootstrap == <<sequence, bootRow, member, identity, boot, deaths>>
outbox == <<health, check, item, watching, seed, known, cursor, event, log, outboxAt, stream, snap,
            todo, before, batch, last, spc, inbox, delivered, late, skipped, baseline, raced,
            untold, changes, faults, outboxCrashes, outboxCast>>
jobs == <<integration, status, target, payload, age, lastJob, sinceRefresh, pc, job, fetched,
          fetches, jobBalance, actual, jobHealth, rpc, queueing, current, kind, jobCrashes>>
liveVars == <<part, billing, bootstrap, outbox, jobs>>

ProPurchase == [x \in Purchases |-> pro]

A == INSTANCE Bootstrap WITH
       Users <- {u1, u2}, SignIns <- Requests, NoUser <- None, MaxDeaths <- 0, row <- bootRow

N == INSTANCE Notifications WITH
       Services <- {s1}, TxService <- [n \in {1, 2} |-> s1], Generators <- {g1},
       OutboxCasts <- {[who |-> {g1, Bot}, changes |-> 2, faults |-> 1, crashes |-> 0]},
       Unset <- None, Limit <- 1, MaxItems <- 2, MaxChanges <- 2,
       at <- outboxAt, crashes <- outboxCrashes

\* Two worker loops, of which one may die, and a client that may ask twice.
S == INSTANCE SyncJobs WITH
       Integrations <- {i1}, ServiceOf <- [i \in {i1} |-> s1], Workers <- Requests,
       Clients <- {c1}, RequestKinds <- {"organization"}, Dedupe <- TRUE, Postgres <- FALSE,
       MaxJobs <- 2, Minute <- 1, ProviderTimeout <- 1, RunningTimeout <- 1, MinInterval <- 0,
       RunBound <- 1, MaxCrashes <- 1, balance <- jobBalance, health <- jobHealth,
       todo <- queueing, crashes <- jobCrashes

LiveInit ==
  /\ part \in {"billing", "bootstrap", "outbox", "jobs"}
  /\ Init /\ A!BootInit /\ N!OutboxInit /\ S!Init
  /\ part = "outbox" \/ ~watching

\* The loop of the bot is one process, here that of r1.
ServerStep(r) ==
  \/ /\ part = "billing" /\ RequestStep(r)
     /\ UNCHANGED <<part, bootstrap, outbox, jobs>>
  \/ /\ part = "bootstrap" /\ A!SignInStep(r)
     /\ UNCHANGED <<part, billing, outbox, jobs>>
  \/ /\ part = "outbox" /\ r = r1 /\ N!BotStep
     /\ UNCHANGED <<part, billing, bootstrap, jobs>>
  \/ /\ part = "jobs" /\ S!WorkerStep(r)
     /\ UNCHANGED <<part, billing, bootstrap, outbox>>

\* Time passes and recovery is polled.
TimePasses == part = "jobs" /\ S!Tick /\ UNCHANGED <<part, billing, bootstrap, outbox>>
RecoveryPolled == part = "jobs" /\ S!Recover /\ UNCHANGED <<part, billing, bootstrap, outbox>>

\* The provider repeats the webhook of an invoice until it is on record; a user who has
\* no account asks again.
ServedAgain ==
  \/ /\ part = "billing"
     /\ \E i \in settled : paidEvents[i] = 0 /\ \E r \in Requests : LoadInvoice(r, i)
     /\ UNCHANGED <<part, bootstrap, outbox, jobs>>
  \/ /\ part = "bootstrap" /\ \E r \in Requests : A!BeginSignIn(r, u1)
     /\ UNCHANGED <<part, billing, outbox, jobs>>

LiveNext ==
  \/ part = "billing" /\ Next /\ UNCHANGED <<part, bootstrap, outbox, jobs>>
  \/ part = "bootstrap" /\ A!BootNext /\ UNCHANGED <<part, billing, outbox, jobs>>
  \/ part = "outbox" /\ N!OutboxNext /\ UNCHANGED <<part, billing, bootstrap, jobs>>
  \/ part = "jobs" /\ S!Next /\ UNCHANGED <<part, billing, bootstrap, outbox>>

LiveSpec ==
  /\ LiveInit /\ [][LiveNext]_liveVars
  /\ \A r \in Requests : WF_liveVars(ServerStep(r))
  /\ WF_liveVars(ServedAgain) /\ WF_liveVars(TimePasses) /\ WF_liveVars(RecoveryPolled)

-----------------------------------------------------------------------------
(* Properties: those of the modules, and PaymentArrives of Billing.          *)

\* The user who goes on asking gets an account, although others take the ids of that request.
Admitted == part = "bootstrap" => A!Admitted(u1)

\* An event that is queued is sent or marked as failed in the end, also when a newer one comes
\* before it: of two changes, each can queue the news of a service or of a transaction.
PendingEnds == \A e \in {<<s1, "unhealthy", 1>>, <<"transactions", 1>>} : N!PendingEnds(e)

\* Every queued job ends, whatever dies: recovery ends what nobody runs.
QueuedJobsEnd == S!QueuedJobsEnd
=============================================================================
