---------------------------- MODULE Notifications ----------------------------
(***************************************************************************)
(* The notification outbox of one user: the events that                    *)
(* app/services/notification_service.py derives from service statuses,     *)
(* sync jobs and transactions, and the loop of bot/notifications.py that   *)
(* sends them.                                                             *)
(*                                                                         *)
(* A generation is one call of POST /notifications/generate.  The loop     *)
(* asks for one in each round, but its HTTP call may time out while the    *)
(* backend goes on, so a second one can overlap.  A step is a read or a    *)
(* commit.  enqueue_event is one step: its look for the key and its insert *)
(* under the unique index together insert the event unless it is there.    *)
(***************************************************************************)
EXTENDS Integers, Sequences, FiniteSets

CONSTANTS
  Services,      \* rows of service_status, none of them muted; there is one at least
  TxService,     \* the service a transaction belongs to
  Generators,    \* generations that can be under way at once
  Bot,           \* the loop of the bot
  OutboxCasts,         \* bound: who takes part, and how much may happen
  Unset,          \* no cursor
  Limit,         \* events fetched per round, the literal 20 of the loop
  MaxItems,      \* bound: jobs, and transactions, ever inserted
  MaxChanges     \* bound: no cast has more changes than this

\* The cursor types that hold the largest id seen.
Streams == {"sync_jobs", "transactions"}
ItemIds     == 1 .. MaxItems
Healths == {"healthy", "unhealthy"}

\* dedupe_key: a status with its last_check, or the id of a job or transaction.
StatusEvents == Services \X Healths \X (0 .. MaxChanges)
ItemEvents   == Streams \X ItemIds
Events       == StatusEvents \union ItemEvents

\* A cast: its members; how many statuses are updated, items inserted or settled
\* and switches made; how many sends and marks fail or deaths the bot dies; how
\* many generations die.
OutboxCastType == [who : SUBSET (Generators \union {Bot}), changes : 0 .. MaxChanges,
             faults : Nat, crashes : Nat]

\* The cursor types of the streams name no service.
ASSUME OutboxAssumption ==
  /\ Services # {} /\ Services \intersect Streams = {}
  /\ OutboxCasts \subseteq OutboxCastType
  /\ TxService \in [ItemIds -> Services]
  /\ Unset \notin Nat \union Healths
  /\ Limit \in Nat \ {0} /\ MaxChanges \in Nat /\ MaxItems \in Nat

VARIABLES
  health, check,   \* service_status: is_healthy, last_check
  item,            \* jobs and transactions: "ready" is failed, or ok
  watching,        \* transaction_enabled of the user's settings
  seed,            \* the id that a switch-on has read and has yet to write
  known,           \* cursor of a service: the state seen last
  cursor,          \* cursor of a stream: the largest id seen
  event,           \* notification_events.status
  log,             \* the events in the order of their insertion
  at, stream,      \* where each generation stands, and in which stream
  snap, todo,      \* statuses it has read, services it has still to compare
  before,          \* the state its cursor had
  batch, last,     \* items it has read, and the cursor that it will write
  spc, inbox,      \* the loop of the bot: position, events it has fetched and not done
  delivered,       \* messages that the user has received, per event
  late, skipped,   \* history: items ready after a later one; filtered out
  baseline,        \* history: the largest id that seeding has passed over
  raced,           \* history: a generation overlapped another or a switch-on
  untold,          \* history: services of which a death has lost the last word
  changes, faults, crashes,
  outboxCast             \* who takes part in this behaviour

world    == <<health, check, item, changes>>
settings == <<watching, seed>>
outbox   == <<known, cursor, event, log>>
local    == <<at, stream, snap, todo, before, batch, last>>
bot      == <<spc, inbox, delivered, faults>>
history  == <<late, skipped, baseline, raced>>
outboxVars == <<world, settings, outbox, local, bot, history, crashes, untold, outboxCast>>

Nothing    == [s \in Services |-> <<"healthy", 0>>]
Item(k, n) == item[k][n]
Newest(k)  == Cardinality({n \in ItemIds : Item(k, n) # "none"})
Larger(a, b) == IF a > b THEN a ELSE b

Positions == {"idle", "comparing", "moving", "telling"}
               \union {"reading", "announcing", "advancing"}

OutboxTypeOK ==
  /\ health \in [Services -> Healths] /\ check \in [Services -> 0 .. MaxChanges]
  /\ item \in [Streams -> [ItemIds -> {"none", "open", "ready", "other"}]]
  /\ watching \in BOOLEAN /\ seed \in Nat \union {Unset}
  /\ known \in [Services -> Healths \union {Unset}]
  /\ cursor \in [Streams -> Nat \union {Unset}]
  /\ event \in [Events -> {"none", "pending", "sent", "failed"}]
  /\ log \in Seq(Events)
  /\ at \in [Generators -> Positions] /\ stream \in [Generators -> Streams]
  /\ todo \in [Generators -> SUBSET Services]
  /\ snap \in [Generators -> [Services -> Healths \X (0 .. MaxChanges)]]
  /\ before \in [Generators -> Healths \union {Unset}]
  /\ batch \in [Generators -> SUBSET ItemIds] /\ last \in [Generators -> Nat]
  /\ spc \in {"idle", "sending", "marking", "failing"}
  /\ inbox \subseteq DOMAIN log /\ delivered \in [Events -> Nat]
  /\ late \subseteq ItemEvents /\ skipped \subseteq ItemEvents
  /\ baseline \in [Streams -> Nat] /\ raced \in BOOLEAN /\ untold \subseteq Services
  /\ changes \in 0 .. MaxChanges /\ faults \in Nat /\ crashes \in Nat
  /\ outboxCast \in OutboxCasts

OutboxInit ==
  /\ health = [s \in Services |-> "healthy"] /\ check = [s \in Services |-> 0]
  /\ item = [k \in Streams |-> [n \in ItemIds |-> "none"]]
  /\ watching \in BOOLEAN /\ seed = Unset
  /\ known = [s \in Services |-> Unset] /\ cursor = [k \in Streams |-> Unset]
  /\ event = [e \in Events |-> "none"] /\ log = <<>>
  /\ at = [g \in Generators |-> "idle"]
  /\ stream = [g \in Generators |-> "sync_jobs"]
  /\ snap = [g \in Generators |-> Nothing]
  /\ todo = [g \in Generators |-> {}] /\ before = [g \in Generators |-> Unset]
  /\ batch = [g \in Generators |-> {}] /\ last = [g \in Generators |-> 0]
  /\ spc = "idle" /\ inbox = {} /\ delivered = [e \in Events |-> 0]
  /\ late = {} /\ skipped = {} /\ baseline = [k \in Streams |-> 0]
  /\ raced = FALSE /\ untold = {}
  /\ changes = 0 /\ faults = 0 /\ crashes = 0 /\ outboxCast \in OutboxCasts

-----------------------------------------------------------------------------
(* What the events are about: statuses, jobs and transactions change.        *)

Change == changes < outboxCast.changes /\ changes' = changes + 1

\* update_status, as workers and refreshes call it.
UpdateStatus(s) ==
  /\ Change
  /\ check' = [check EXCEPT ![s] = @ + 1]
  /\ \E h \in Healths : health' = [health EXCEPT ![s] = h]
  /\ UNCHANGED <<item, settings, outbox, local, bot, history, crashes, untold, outboxCast>>

\* A job is queued, or a transaction found that is not settled yet, or one
\* that is.
InsertItem(k) ==
  /\ Newest(k) < MaxItems /\ Change
  /\ \E v \in {"open", "ready"} :
       /\ k = "sync_jobs" => v = "open"
       /\ item' = [item EXCEPT ![k][Newest(k) + 1] = v]
  /\ UNCHANGED <<health, check, settings, outbox, local, bot, history, crashes, untold, outboxCast>>

\* The job fails or completes; the transaction becomes ok or fails.
SettleItem(k, n) ==
  /\ Item(k, n) = "open" /\ Change
  /\ \E v \in {"ready", "other"} :
       /\ item' = [item EXCEPT ![k][n] = v]
       /\ late' = IF v = "ready" /\ \E m \in ItemIds : m > n /\ Item(k, m) = "ready"
                  THEN late \union {<<k, n>>} ELSE late
  /\ UNCHANGED <<health, check, settings, outbox, local, bot, skipped,
                 baseline, raced, crashes, untold, outboxCast>>

-----------------------------------------------------------------------------
(* update_settings: transactions are switched off, or on with a baseline.    *)

Generating == \E g \in Generators : at[g] # "idle"

SwitchOff ==
  /\ watching /\ seed = Unset /\ Change
  /\ watching' = FALSE
  /\ UNCHANGED <<seed, health, check, item, outbox, local, bot, history, crashes, untold,
                 outboxCast>>

\* The commit of the setting; seed_transaction_baseline reads the largest id.
SwitchOn ==
  /\ ~watching /\ Change
  /\ watching' = TRUE /\ seed' = Newest("transactions")
  /\ raced' = (raced \/ Generating)
  /\ UNCHANGED <<health, check, item, outbox, local, bot, late, skipped, baseline,
                 crashes, untold, outboxCast>>

\* The cursor is written, and passes over what the largest id covers.
MoveTo(k, n) == cursor' = [cursor EXCEPT ![k] = n]
PassOver(k, n) == baseline' = [baseline EXCEPT ![k] = Larger(@, n)]

\* Faulty: the switch leaves the cursor where it was when the user switched off.
SeedOnlyOnce(n) ==
  IF cursor["transactions"] = Unset THEN MoveTo("transactions", n) ELSE UNCHANGED cursor

SeedBaseline(n) == MoveTo("transactions", n)

FinishSwitchOn ==
  /\ seed # Unset
  /\ SeedBaseline(seed)
  /\ PassOver("transactions", seed) /\ seed' = Unset
  /\ UNCHANGED <<watching, known, event, log, world, local, bot, late,
                 skipped, raced, crashes, untold, outboxCast>>

-----------------------------------------------------------------------------
(* A generation: statuses, then failed jobs, then transactions.              *)

Goto(g, p) == at' = [at EXCEPT ![g] = p] /\ UNCHANGED stream

\* The generation goes on to read stream k, or ends.
Read(g, k) ==
  /\ at' = [at EXCEPT ![g] = "reading"]
  /\ stream' = [stream EXCEPT ![g] = k]

EndGeneration(g) ==
  /\ at' = [at EXCEPT ![g] = "idle"]
  /\ stream' = [stream EXCEPT ![g] = "sync_jobs"]

\* What it has read is no longer used.
ForgetStatuses(g) ==
  /\ snap' = [snap EXCEPT ![g] = Nothing]
  /\ todo' = [todo EXCEPT ![g] = {}] /\ before' = [before EXCEPT ![g] = Unset]
ForgetItems(g) ==
  /\ batch' = [batch EXCEPT ![g] = {}] /\ last' = [last EXCEPT ![g] = 0]

\* enqueue_event.
Enqueue(e) ==
  IF event[e] = "none"
  THEN event' = [event EXCEPT ![e] = "pending"] /\ log' = Append(log, e)
  ELSE UNCHANGED <<event, log>>

\* Statuses are read at once; a caller may ask for transactions only.
StartGeneration(g) ==
  /\ at[g] = "idle" /\ g \in outboxCast.who
  /\ \/ /\ Goto(g, "comparing")
        /\ snap' = [snap EXCEPT ![g] = [s \in Services |-> <<health[s], check[s]>>]]
        /\ todo' = [todo EXCEPT ![g] = Services]
     \/ Read(g, "transactions") /\ UNCHANGED <<snap, todo>>
  /\ raced' = (raced \/ seed # Unset \/ Generating)
  /\ UNCHANGED <<world, settings, outbox, before, batch, last, bot, late, skipped,
                 baseline, crashes, untold, outboxCast>>

\* The service that is compared next; after the last one come the jobs.
Current(g) == CHOOSE s \in todo[g] : TRUE

DoneWithService(g) ==
  IF todo[g] = {Current(g)}
  THEN Read(g, "sync_jobs") /\ ForgetStatuses(g)
  ELSE /\ Goto(g, "comparing") /\ todo' = [todo EXCEPT ![g] = @ \ {Current(g)}]
       /\ UNCHANGED <<snap, before>>

\* get_cursor of the next service.
ReadKnown(g) ==
  /\ at[g] = "comparing"
  /\ Goto(g, "moving") /\ before' = [before EXCEPT ![g] = known[Current(g)]]
  /\ UNCHANGED <<world, settings, outbox, snap, todo, batch, last, bot, history,
                 crashes, untold, outboxCast>>

\* Faulty: a recovery is taken for no change.
TellOnlyTrouble(g) == before[g] # Unset /\ snap[g][Current(g)][1] = "unhealthy"

\* The state differs from the one the cursor had.
HasChanged(g) == before[g] \notin {Unset, snap[g][Current(g)][1]}

\* upsert_cursor commits the new state before the event is enqueued.
MoveKnown(g) ==
  /\ at[g] = "moving"
  /\ known' = [known EXCEPT ![Current(g)] = snap[g][Current(g)][1]]
  /\ IF HasChanged(g)
     THEN Goto(g, "telling") /\ UNCHANGED <<snap, todo, before>>
     ELSE DoneWithService(g)
  /\ UNCHANGED <<world, settings, cursor, event, log, batch, last, bot, history,
                 crashes, untold, outboxCast>>

TellStatus(g) ==
  /\ at[g] = "telling"
  /\ Enqueue(<<Current(g), snap[g][Current(g)][1], snap[g][Current(g)][2]>>)
  /\ DoneWithService(g)
  /\ untold' = untold \ {Current(g)}
  /\ UNCHANGED <<world, settings, known, cursor, batch, last, bot, history,
                 crashes, outboxCast>>

\* The stream after k, or the end: the caller may have asked for one part only.
After(g, k) ==
  \/ k = "sync_jobs" /\ Read(g, "transactions")
  \/ EndGeneration(g)

\* The failed jobs, or the ok transactions, beyond the cursor.
Beyond(k) == {n \in ItemIds : n > cursor[k] /\ Item(k, n) = "ready"}

\* Without a cursor the stream is seeded; transactions need the user's consent.
\* limit_per_user is larger than any batch here.
ReadStream(g, k) ==
  /\ at[g] = "reading" /\ stream[g] = k
  /\ IF k = "transactions" /\ ~watching
     THEN After(g, k) /\ UNCHANGED <<batch, last, baseline>>
     ELSE IF cursor[k] = Unset
     THEN /\ Goto(g, "advancing")
          /\ last' = [last EXCEPT ![g] = Newest(k)]
          /\ PassOver(k, Newest(k)) /\ UNCHANGED batch
     ELSE /\ IF Beyond(k) = {} THEN After(g, k) ELSE Goto(g, "announcing")
          /\ batch' = [batch EXCEPT ![g] = Beyond(k)]
          /\ UNCHANGED <<last, baseline>>
  /\ UNCHANGED <<world, settings, outbox, snap, todo, before, bot, late, skipped,
                 raced, crashes, untold, outboxCast>>

\* A transaction is announced while its service is healthy; a job if it failed
\* by a timeout, which is left open.
Announced(k, n) ==
  IF k = "transactions" THEN {health[TxService[n]] = "healthy"} ELSE BOOLEAN

\* The items of the batch in the order of their ids.
AnnounceItem(g, k) ==
  /\ at[g] = "announcing" /\ stream[g] = k
  /\ \E n \in batch[g] :
         /\ \A i \in batch[g] : n <= i
         /\ \E tell \in Announced(k, n) :
              IF tell THEN Enqueue(<<k, n>>) /\ UNCHANGED skipped
              ELSE skipped' = skipped \union {<<k, n>>} /\ UNCHANGED <<event, log>>
         /\ batch' = [batch EXCEPT ![g] = @ \ {n}]
         /\ last' = [last EXCEPT ![g] = n]
         /\ IF batch[g] = {n} THEN Goto(g, "advancing") ELSE UNCHANGED <<at, stream>>
  /\ UNCHANGED <<world, settings, known, cursor, snap, todo, before, bot, late,
                 baseline, raced, crashes, untold, outboxCast>>

\* Faulty: the cursor is written with the largest id there is.
LargestId(g, k) == Newest(k)

LargestSeen(g, k) == last[g]

\* upsert_cursor with the largest id seen.
AdvanceCursor(g, k) ==
  /\ at[g] = "advancing" /\ stream[g] = k
  /\ MoveTo(k, LargestSeen(g, k)) /\ After(g, k) /\ ForgetItems(g)
  /\ UNCHANGED <<world, settings, known, event, log, snap, todo, before, bot,
                 history, crashes, untold, outboxCast>>

\* The process dies between two commits; what it was about to tell is lost, for
\* the cursor has the new state.
CrashGeneration(g) ==
  /\ at[g] # "idle" /\ crashes < outboxCast.crashes
  /\ crashes' = crashes + 1
  /\ untold' = IF at[g] = "telling" THEN untold \union {Current(g)} ELSE untold
  /\ EndGeneration(g) /\ ForgetStatuses(g) /\ ForgetItems(g)
  /\ UNCHANGED <<world, settings, outbox, bot, history, outboxCast>>

-----------------------------------------------------------------------------
(* The loop of the bot.                                                      *)

KeepServer == UNCHANGED <<world, settings, outbox, local, history, crashes, untold, outboxCast>>

\* Faulty: the status filter of list_events is dropped.
Listed(e) == event[e] # "none"

\* Faulty: the loop remembers what it has sent.
NotSentYet(e) == event[e] = "pending" /\ delivered[e] = 0

Waiting(e) == event[e] = "pending"

\* list_events: the newest pending ones, by their places in the log.
NewestPending ==
  LET Pending == {i \in DOMAIN log : Waiting(log[i])}
  IN  {i \in Pending : Cardinality({j \in Pending : j >= i}) <= Limit}

FetchPending ==
  /\ spc = "idle" /\ Bot \in outboxCast.who
  /\ inbox' = NewestPending /\ inbox' # {}
  /\ spc' = "sending"
  /\ UNCHANGED <<delivered, faults>> /\ KeepServer

\* The newest one comes first.
IsFirst(i) == i \in inbox /\ \A j \in inbox : j <= i

\* send_message; a failure is reported as such.
SendMessage(i) ==
  /\ spc = "sending" /\ IsFirst(i)
  /\ \/ /\ delivered' = [delivered EXCEPT ![log[i]] = @ + 1]
        /\ spc' = "marking" /\ UNCHANGED faults
     \/ /\ faults < outboxCast.faults /\ faults' = faults + 1
        /\ spc' = "failing" /\ UNCHANGED delivered
  /\ UNCHANGED inbox /\ KeepServer

\* The message is done.
NextMessage(i) ==
  /\ inbox' = inbox \ {i}
  /\ spc' = IF inbox = {i} THEN "idle" ELSE "sending"

Mark(e, value) ==
  /\ event' = [event EXCEPT ![e] = value]
  /\ UNCHANGED <<known, cursor, log>>

\* mark_notification_event_sent: the call works, or raises before or after the
\* backend has seen it.
MarkSent(i) ==
  /\ spc = "marking" /\ IsFirst(i)
  /\ \/ Mark(log[i], "sent") /\ NextMessage(i) /\ UNCHANGED faults
     \/ /\ faults < outboxCast.faults /\ faults' = faults + 1
        /\ Mark(log[i], "sent") \/ UNCHANGED outbox
        /\ spc' = "failing" /\ UNCHANGED inbox
  /\ UNCHANGED <<delivered, world, settings, local, history, crashes, untold, outboxCast>>

\* mark_notification_event_failed, whose own failure is ignored.
MarkFailed(i) ==
  /\ spc = "failing" /\ IsFirst(i)
  /\ \/ Mark(log[i], "failed") /\ UNCHANGED faults
     \/ faults < outboxCast.faults /\ faults' = faults + 1 /\ UNCHANGED outbox
  /\ NextMessage(i)
  /\ UNCHANGED <<delivered, world, settings, local, history, crashes, untold, outboxCast>>

\* The bot is restarted; what it had fetched is forgotten.
RestartBot ==
  /\ spc # "idle" /\ faults < outboxCast.faults
  /\ faults' = faults + 1 /\ spc' = "idle" /\ inbox' = {}
  /\ UNCHANGED delivered /\ KeepServer

Generate(g) ==
  \/ ReadKnown(g) \/ MoveKnown(g) \/ TellStatus(g)
  \/ \E k \in Streams :
       ReadStream(g, k) \/ AnnounceItem(g, k) \/ AdvanceCursor(g, k)

BotStep ==
  FetchPending \/ \E i \in inbox : SendMessage(i) \/ MarkSent(i) \/ MarkFailed(i)

OutboxNext ==
  \/ \E s \in Services : UpdateStatus(s)
  \/ \E k \in Streams : InsertItem(k) \/ \E n \in ItemIds : SettleItem(k, n)
  \/ SwitchOff \/ SwitchOn \/ FinishSwitchOn
  \/ \E g \in Generators : StartGeneration(g) \/ Generate(g) \/ CrashGeneration(g)
  \/ BotStep \/ RestartBot

OutboxSpec == OutboxInit /\ [][OutboxNext]_outboxVars

\* The loop goes on; the rest need not.
OutboxFairSpec == OutboxSpec /\ WF_outboxVars(BotStep)

-----------------------------------------------------------------------------
(* Properties.                                                               *)

\* What a cursor has passed was announced, unless a filter left it out, it became
\* ready only after a later one, or it was there when the stream was seeded: the
\* cursor is written after the events, so no death in between loses one.
NothingPassedOver ==
  \A k \in Streams, n \in ItemIds :
    Item(k, n) = "ready" /\ cursor[k] # Unset /\ baseline[k] < n /\ n <= cursor[k] =>
      event[<<k, n>>] # "none" \/ <<k, n>> \in late \union skipped

\* The last word on a service is the state its cursor has, when generations do
\* not overlap.  A death between the commit of the cursor and that of the event
\* loses a word for good, but of that service only and only until the next one;
\* deaths at other places lose none.
LastWord ==
  ~raced /\ (\A g \in Generators : at[g] # "telling") =>
    \A s \in Services \ untold, i \in DOMAIN log :
      log[i][1] = s /\ (\A j \in DOMAIN log : log[j][1] = s => j <= i) => log[i][2] = known[s]

\* Transactions from before the switch-on are not announced, although the cursor that
\* the time before the switch-off has left would let them pass: unless generations
\* overlap one another or the switch, as one between its commit and that of the
\* baseline, which does announce them.
NoOldNews ==
  [][\A n \in ItemIds :
       event[<<"transactions", n>>] = "none" /\ event'[<<"transactions", n>>] # "none" =>
         n > baseline["transactions"] \/ raced]_outboxVars

\* A message comes twice only if a mark was lost or the bot died in between; an
\* event that says sent was delivered, one that says failed had a failure.
DeliveredOnce ==
  \A e \in Events :
    /\ delivered[e] <= 1 + faults
    /\ event[e] = "sent" => delivered[e] > 0
    /\ event[e] = "failed" => faults > 0

\* An event that is queued is sent or marked as failed in the end.
PendingEnds(e) == event[e] = "pending" ~> event[e] # "pending"
=============================================================================
