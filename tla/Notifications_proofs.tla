------------------------- MODULE Notifications_proofs -------------------------
(***************************************************************************)
(* Proofs about Notifications, for any number of services, items and       *)
(* generations that overlap and die.                                       *)
(*                                                                         *)
(* What the cursor of a stream has passed was announced.  A place in a     *)
(* stream is safe when every item up to it is accounted for and, beyond    *)
(* the baseline, is itself an item that is ready: so one that becomes      *)
(* ready below it does so late.  A cursor is only written with safe        *)
(* places.  Then: a message that has yet to be sent has been sent no more  *)
(* often than there were faults; an event about a status is of a newer     *)
(* check than those before it, so that it is never taken for one that was  *)
(* told; and what a generation may announce is above the baseline.         *)
(***************************************************************************)
EXTENDS Notifications, FiniteSetTheorems, TLAPS

\* The types of what decides about items.
Shapes ==
  /\ item \in [Streams -> [ItemIds -> {"none", "open", "ready", "other"}]]
  /\ seed \in Nat \union {Unset} /\ baseline \in [Streams -> Nat]
  /\ cursor \in [Streams -> Nat \union {Unset}]
  /\ event \in [Events -> {"none", "pending", "sent", "failed"}]
  /\ at \in [Generators -> Positions] /\ stream \in [Generators -> Streams]
  /\ batch \in [Generators -> SUBSET ItemIds] /\ last \in [Generators -> Nat]

\* Ids are given one after the other.
Prefix ==
  \A k \in Streams :
    Newest(k) \in Nat /\ {n \in ItemIds : Item(k, n) # "none"} = 1 .. Newest(k)

Baselines ==
  /\ \A k \in Streams : baseline[k] <= Newest(k)
  /\ seed # Unset => seed <= Newest("transactions")

\* The items that are announced, or for which there is a reason not to.
Accounted ==
  [k \in Streams |-> {n \in ItemIds : event[<<k, n>>] # "none" \/ <<k, n>> \in late \union skipped}]

Ready == [k \in Streams |-> {n \in ItemIds : Item(k, n) = "ready"}]

\* The items that are owed beyond the baseline.
Owed == [k \in Streams |-> {n \in Ready[k] : baseline[k] < n /\ n \notin Accounted[k]}]

Safe ==
  [k \in Streams |-> {m \in 0 .. Newest(k) : /\ m \in Ready[k] \/ m <= baseline[k]
                                             /\ \A n \in Owed[k] : n > m}]

\* A batch holds whatever is owed up to its largest item.
SafeBatches ==
  [k \in Streams |-> {B \in SUBSET ItemIds : /\ B \subseteq Ready[k]
                                             /\ \A b \in B, n \in Owed[k] : n <= b => n \in B}]

Cursors == \A k \in Streams : cursor[k] # Unset => cursor[k] \in Safe[k]
Batches == \A g \in Generators : at[g] = "announcing" => batch[g] \in SafeBatches[stream[g]]
Lasts == \A g \in Generators : at[g] = "advancing" => last[g] \in Safe[stream[g]]

Inv == Shapes /\ Prefix /\ Baselines /\ Cursors /\ Batches /\ Lasts

-----------------------------------------------------------------------------
(* What every step does to the items.                                        *)

\* An item stays ready, and stays accounted for; one becomes ready with a new id, or
\* late if a later one was ready.
Grows ==
  \A k \in Streams :
    /\ Ready[k] \subseteq Ready'[k] /\ Accounted[k] \subseteq Accounted'[k]
    /\ baseline[k] <= baseline'[k] /\ Newest(k) <= Newest(k)'
    /\ \A n \in Ready'[k] \ Ready[k] :
         n > Newest(k) \/ n \in Accounted'[k] \/ \A m \in Ready[k] : m <= n

\* The stream that can be switched.
LEMMA Transactions == "transactions" \in Streams
BY DEF Streams

\* What is ready has an id that was given.
LEMMA ReadyIsThere ==
  ASSUME Shapes, Prefix, NEW k \in Streams, NEW n \in Ready[k]
  PROVE  n \in ItemIds /\ n \in Nat /\ n <= Newest(k) /\ Item(k, n) = "ready"
<1>1. n \in ItemIds /\ Item(k, n) = "ready"
  BY DEF Ready
<1>2. n \in 1 .. Newest(k) /\ Newest(k) \in Nat
  BY <1>1 DEF Prefix
<1> QED
  BY <1>1, <1>2

\* A place that is safe stays so.
LEMMA SafeStays ==
  ASSUME Shapes, Shapes', Prefix, Prefix', Grows, NEW k \in Streams
  PROVE  Safe[k] \subseteq Safe'[k]
<1> SUFFICES ASSUME NEW m \in Safe[k] PROVE m \in Safe'[k]
  OBVIOUS
<1>1. /\ m \in 0 .. Newest(k)
      /\ m \in Ready[k] \/ m <= baseline[k]
      /\ \A n \in Owed[k] : n > m
  BY DEF Safe
<1>2. /\ Newest(k) \in Nat /\ Newest(k)' \in Nat /\ Newest(k) <= Newest(k)'
      /\ baseline[k] \in Nat /\ baseline'[k] \in Nat /\ baseline[k] <= baseline'[k]
  BY DEF Prefix, Grows, Shapes
<1>3. /\ m \in 0 .. Newest(k)'
      /\ m \in Ready'[k] \/ m <= baseline'[k]
  BY <1>1, <1>2 DEF Grows
<1>4. ASSUME NEW n \in Owed'[k] PROVE n > m
  <2>1. n \in Ready'[k] /\ baseline'[k] < n /\ n \notin Accounted'[k]
    BY <1>4 DEF Owed
  <2>2. n \in Nat
    BY <2>1 DEF Ready, ItemIds
  <2>3. n \notin Accounted[k] /\ baseline[k] < n
    BY <1>2, <2>1, <2>2 DEF Grows
  <2>4. CASE n \in Ready[k]
    BY <1>1, <2>3, <2>4 DEF Owed
  <2>5. CASE n \notin Ready[k]
    <3>1. n > Newest(k) \/ \A i \in Ready[k] : i <= n
      BY <2>1, <2>5 DEF Grows
    <3>2. n # m \/ m \notin Ready[k]
      BY <2>5
    <3> QED
      BY <1>1, <1>2, <2>2, <2>3, <3>1, <3>2
  <2> QED
    BY <2>4, <2>5
<1> QED
  BY <1>3, <1>4 DEF Safe

\* A batch that is safe stays so.
LEMMA SafeBatchStays ==
  ASSUME Shapes, Shapes', Prefix, Prefix', Grows, NEW k \in Streams
  PROVE  SafeBatches[k] \subseteq SafeBatches'[k]
<1> SUFFICES ASSUME NEW B \in SafeBatches[k] PROVE B \in SafeBatches'[k]
  OBVIOUS
<1>1. /\ B \in SUBSET ItemIds /\ B \subseteq Ready[k]
      /\ \A b \in B, n \in Owed[k] : n <= b => n \in B
  BY DEF SafeBatches
<1>2. B \subseteq Ready'[k]
  BY <1>1 DEF Grows
<1>3. ASSUME NEW b \in B, NEW n \in Owed'[k], n <= b PROVE n \in B
  <2>1. n \in Ready'[k] /\ baseline'[k] < n /\ n \notin Accounted'[k]
    BY <1>3 DEF Owed
  <2>2. n \in Nat /\ b \in Nat /\ b \in Ready[k] /\ b <= Newest(k) /\ Newest(k) \in Nat
    BY <1>1, <2>1, ReadyIsThere DEF Ready, ItemIds, Prefix
  <2>3. n \notin Accounted[k] /\ baseline[k] < n
    BY <2>1, <2>2 DEF Grows, Shapes
  <2>4. CASE n \in Ready[k]
    BY <1>1, <1>3, <2>3, <2>4 DEF Owed
  <2>5. CASE n \notin Ready[k]
    <3>1. n > Newest(k) \/ \A i \in Ready[k] : i <= n
      BY <2>1, <2>5 DEF Grows
    <3> QED
      BY <1>3, <2>2, <2>5, <3>1
  <2> QED
    BY <2>4, <2>5
<1> QED
  BY <1>1, <1>2, <1>3 DEF SafeBatches

\* A step that writes nothing but what is safe keeps all of it.
LEMMA SafeStep ==
  ASSUME Inv, Shapes', Prefix', Baselines', Grows,
         \A k \in Streams : cursor'[k] = cursor[k] \/ cursor'[k] \in Safe'[k],
         \A g \in Generators :
           at'[g] = "announcing" =>
             \/ at[g] = "announcing" /\ batch'[g] = batch[g] /\ stream'[g] = stream[g]
             \/ batch'[g] \in SafeBatches'[stream'[g]],
         \A g \in Generators :
           at'[g] = "advancing" =>
             \/ at[g] = "advancing" /\ last'[g] = last[g] /\ stream'[g] = stream[g]
             \/ last'[g] \in Safe'[stream'[g]]
  PROVE  Inv'
<1>1. \A k \in Streams : Safe[k] \subseteq Safe'[k] /\ SafeBatches[k] \subseteq SafeBatches'[k]
  BY SafeStays, SafeBatchStays DEF Inv
<1>2. Cursors'
  BY <1>1 DEF Inv, Cursors
<1>3. Batches' /\ Lasts'
  BY <1>1 DEF Inv, Batches, Lasts, Shapes
<1> QED
  BY <1>2, <1>3 DEF Inv

-----------------------------------------------------------------------------
(* Steps that change no item and no cursor.                                  *)

EventsGrow ==
  /\ event' \in [Events -> {"none", "pending", "sent", "failed"}]
  /\ \A e \in Events : event[e] # "none" => event'[e] # "none"

\* With the same items, no more is owed.
LEMMA SameItemsGrow ==
  ASSUME Inv, UNCHANGED <<item, late, baseline, seed>>, skipped \subseteq skipped', EventsGrow
  PROVE  Grows /\ Prefix' /\ Baselines'
<1>1. Prefix' /\ Baselines' /\ \A k \in Streams : Newest(k)' = Newest(k)
  BY DEF Inv, Prefix, Baselines, Newest, Item
<1>2. \A k \in Streams : Ready'[k] = Ready[k]
  BY DEF Ready, Item
<1>3. \A k \in Streams, n \in ItemIds : <<k, n>> \in Events
  BY DEF Events, ItemEvents
<1>4. \A k \in Streams : Accounted[k] \subseteq Accounted'[k]
  BY <1>3 DEF Accounted, EventsGrow
<1>5. \A k \in Streams : baseline[k] \in Nat /\ Newest(k) \in Nat
  BY DEF Inv, Shapes, Prefix
<1> QED
  BY <1>1, <1>2, <1>4, <1>5 DEF Grows

\* A generation that is elsewhere, or where it was with what it had.
Elsewhere(g) ==
  at'[g] \in {"announcing", "advancing"} =>
    at'[g] = at[g] /\ stream'[g] = stream[g] /\ batch'[g] = batch[g] /\ last'[g] = last[g]

\* Such a step.
LEMMA QuietStep ==
  ASSUME Inv, Shapes', UNCHANGED <<item, late, skipped, baseline, seed, cursor>>, EventsGrow,
         \A g \in Generators : Elsewhere(g)
  PROVE  Inv'
<1>1. Grows /\ Prefix' /\ Baselines'
  BY SameItemsGrow
<1> QED
  BY <1>1, SafeStep DEF Elsewhere

\* An event that is queued, or left as it was.
LEMMA EnqueueGrows ==
  ASSUME Shapes, NEW e, Enqueue(e)
  PROVE  EventsGrow /\ (e \in Events => event'[e] # "none")
BY DEF Shapes, Enqueue, EventsGrow

\* An event that is marked.
LEMMA MarkGrows ==
  ASSUME Shapes, NEW e, NEW v \in {"sent", "failed"}, Mark(e, v)
  PROVE  EventsGrow
BY DEF Shapes, Mark, EventsGrow

\* Statuses, switching off, and the steps of the bot.
LEMMA OtherSteps ==
  ASSUME Inv, (\E s \in Services : UpdateStatus(s)) \/ SwitchOff \/ BotStep \/ RestartBot
                \/ UNCHANGED outboxVars
  PROVE  Inv'
<1>1. UNCHANGED <<local, item, late, skipped, baseline, seed, cursor>> /\ EventsGrow
  <2>1. CASE (\E s \in Services : UpdateStatus(s)) \/ SwitchOff \/ RestartBot \/ FetchPending
               \/ (\E i \in inbox : SendMessage(i)) \/ UNCHANGED outboxVars
    <3>1. UNCHANGED <<local, item, late, skipped, baseline, seed, cursor, event>>
      BY <2>1 DEF UpdateStatus, SwitchOff, RestartBot, FetchPending, SendMessage, KeepServer, outboxVars,
                  world, settings, outbox, local, bot, history
    <3> QED
      BY <3>1 DEF EventsGrow, Inv, Shapes
  <2>2. ASSUME NEW i \in inbox, MarkSent(i) \/ MarkFailed(i)
        PROVE  UNCHANGED <<local, item, late, skipped, baseline, seed, cursor>> /\ EventsGrow
    <3>1. UNCHANGED <<local, item, late, skipped, baseline, seed, cursor>>
      BY <2>2 DEF MarkSent, MarkFailed, Mark, world, settings, outbox, history
    <3>2. UNCHANGED event \/ \E v \in {"sent", "failed"} : Mark(log[i], v)
      BY <2>2 DEF MarkSent, MarkFailed, outbox
    <3> QED
      BY <3>1, <3>2, MarkGrows DEF EventsGrow, Inv, Shapes
  <2> QED
    BY <2>1, <2>2 DEF BotStep
<1>2. Shapes'
  BY <1>1 DEF Inv, Shapes, local, EventsGrow
<1>3. \A g \in Generators : Elsewhere(g)
  BY <1>1 DEF Elsewhere, local
<1> QED
  BY <1>1, <1>2, <1>3, QuietStep

\* The steps of a generation about statuses, its start and its death.
LEMMA StatusSteps ==
  ASSUME Inv, NEW g \in Generators,
         StartGeneration(g) \/ ReadKnown(g) \/ MoveKnown(g) \/ TellStatus(g) \/ CrashGeneration(g)
  PROVE  Inv'
<1>1. UNCHANGED <<item, late, skipped, baseline, seed, cursor>>
  BY DEF StartGeneration, ReadKnown, MoveKnown, TellStatus, CrashGeneration, world, settings,
         outbox, history
<1>2. EventsGrow
  <2>1. CASE TellStatus(g)
    BY <2>1, EnqueueGrows DEF TellStatus, Inv
  <2>2. CASE UNCHANGED event
    BY <2>2 DEF EventsGrow, Inv, Shapes
  <2> QED
    BY <2>1, <2>2 DEF StartGeneration, ReadKnown, MoveKnown, CrashGeneration, outbox
<1>3. \E p \in Positions \ {"announcing", "advancing"}, k \in Streams :
        at' = [at EXCEPT ![g] = p] /\ stream' = [stream EXCEPT ![g] = k]
  <2>1. stream = [stream EXCEPT ![g] = stream[g]] /\ stream[g] \in Streams
    BY DEF Inv, Shapes
  <2>2. \A p : Goto(g, p) => at' = [at EXCEPT ![g] = p] /\ stream' = [stream EXCEPT ![g] = stream[g]]
    BY <2>1 DEF Goto
  <2>3. DoneWithService(g) => \E p \in Positions \ {"announcing", "advancing"}, k \in Streams :
          at' = [at EXCEPT ![g] = p] /\ stream' = [stream EXCEPT ![g] = k]
    BY <2>1, <2>2 DEF DoneWithService, Read, Positions, Streams
  <2> QED
    BY <2>1, <2>2, <2>3 DEF StartGeneration, ReadKnown, MoveKnown, TellStatus, CrashGeneration,
                            Read, EndGeneration, Positions, Streams
<1>4. batch' \in [Generators -> SUBSET ItemIds] /\ last' \in [Generators -> Nat]
      /\ \A h \in Generators \ {g} : batch'[h] = batch[h] /\ last'[h] = last[h]
  <2>1. CASE CrashGeneration(g)
    BY <2>1 DEF CrashGeneration, ForgetItems, Inv, Shapes
  <2>2. CASE UNCHANGED <<batch, last>>
    BY <2>2 DEF Inv, Shapes
  <2> QED
    BY <2>1, <2>2 DEF StartGeneration, ReadKnown, MoveKnown, TellStatus
<1>5. Shapes'
  BY ZenonT(40), <1>1, <1>2, <1>3, <1>4 DEF Inv, Shapes, EventsGrow
<1>6. \A h \in Generators : Elsewhere(h)
  BY <1>3, <1>4 DEF Elsewhere, Inv, Shapes
<1> QED
  BY <1>1, <1>2, <1>5, <1>6, QuietStep

-----------------------------------------------------------------------------
(* Steps that change items, cursors or batches.                              *)

\* An item that comes has the next id, beyond every safe place.
LEMMA InsertStep ==
  ASSUME Inv, NEW k \in Streams, InsertItem(k)
  PROVE  Inv'
<1> DEFINE new == Newest(k) + 1
<1>1. /\ Newest(k) \in Nat /\ MaxItems \in Nat /\ new \in ItemIds
      /\ {n \in ItemIds : Item(k, n) # "none"} = 1 .. Newest(k)
  BY OutboxAssumption DEF InsertItem, Inv, Prefix, ItemIds
<1>2. PICK v \in {"open", "ready"} : item' = [item EXCEPT ![k][new] = v]
  BY DEF InsertItem
<1>3. UNCHANGED <<late, skipped, baseline, seed, cursor, event, local>>
  BY DEF InsertItem, settings, outbox, history
<1>4. \A j \in Streams, n \in ItemIds :
        Item(j, n)' = IF j = k /\ n = new THEN v ELSE Item(j, n)
  BY <1>1, <1>2 DEF Item, Inv, Shapes
<1>5. {n \in ItemIds : Item(k, n) # "none"}' = 1 .. new
  <2>1. {n \in ItemIds : Item(k, n) # "none"}' = {n \in ItemIds : n = new \/ Item(k, n) # "none"}
    BY <1>1, <1>4
  <2> QED
    BY <1>1, <2>1 DEF ItemIds
<1>6. Newest(k)' = new
  <2>1. Cardinality(1 .. new) = new
    BY <1>1, FS_Interval
  <2> QED
    BY <1>5, <2>1 DEF Newest
<1>7. \A j \in Streams \ {k} :
        Newest(j)' = Newest(j) /\ {n \in ItemIds : Item(j, n) # "none"}' = {n \in ItemIds : Item(j, n) # "none"}
  BY <1>4 DEF Newest
<1>8. Shapes'
  BY <1>1, <1>2, <1>3 DEF Inv, Shapes, local
<1>9. Prefix'
  BY <1>1, <1>5, <1>6, <1>7 DEF Prefix, Inv
<1>10. Baselines'
  <2>1. \A j \in Streams : Newest(j) \in Nat /\ Newest(j) <= Newest(j)' /\ Newest(j)' \in Nat
    BY <1>1, <1>6, <1>7 DEF Inv, Prefix
  <2> QED
    BY <1>3, <2>1, Transactions DEF Baselines, Inv, Shapes
<1>11. Grows
  <2>1. Accounted' = Accounted
    BY <1>3 DEF Accounted
  <2>2. \A j \in Streams : Ready[j] \subseteq Ready'[j] /\ \A n \in Ready'[j] \ Ready[j] : n = new /\ j = k
    BY <1>1, <1>4 DEF Ready
  <2>3. \A j \in Streams : baseline[j] \in Nat /\ Newest(j) \in Nat
    BY DEF Inv, Shapes, Prefix
  <2> QED
    BY <1>1, <1>3, <1>6, <1>7, <2>1, <2>2, <2>3 DEF Grows
<1> QED
  BY <1>3, <1>8, <1>9, <1>10, <1>11, SafeStep DEF local

\* An item that becomes ready does so late, unless all that are ready come before it.
LEMMA SettleStep ==
  ASSUME Inv, NEW k \in Streams, NEW n \in ItemIds, SettleItem(k, n)
  PROVE  Inv'
<1>1. PICK v \in {"ready", "other"} :
        /\ item' = [item EXCEPT ![k][n] = v]
        /\ late' = IF v = "ready" /\ \E m \in ItemIds : m > n /\ Item(k, m) = "ready"
                   THEN late \union {<<k, n>>} ELSE late
  BY DEF SettleItem
<1>2. Item(k, n) = "open" /\ UNCHANGED <<skipped, baseline, seed, cursor, event, local>>
  BY DEF SettleItem, settings, outbox
<1>3. \A j \in Streams, i \in ItemIds :
        Item(j, i)' = IF j = k /\ i = n THEN v ELSE Item(j, i)
  BY <1>1 DEF Item, Inv, Shapes
<1>4. \A j \in Streams : {i \in ItemIds : Item(j, i) # "none"}' = {i \in ItemIds : Item(j, i) # "none"}
  BY <1>2, <1>3
<1>5. \A j \in Streams : Newest(j)' = Newest(j)
  BY <1>4 DEF Newest
<1>6. Shapes'
  BY <1>1, <1>2 DEF Inv, Shapes, local
<1>7. Prefix' /\ Baselines'
  BY <1>2, <1>4, <1>5, Transactions DEF Prefix, Baselines, Inv
<1>8. Grows
  <2>1. late \subseteq late' /\ skipped' = skipped /\ event' = event
    BY <1>1, <1>2
  <2>2. \A j \in Streams : Accounted[j] \subseteq Accounted'[j]
    BY <2>1 DEF Accounted
  <2>3. \A j \in Streams : Ready[j] \subseteq Ready'[j]
                         /\ \A i \in Ready'[j] \ Ready[j] : j = k /\ i = n /\ v = "ready"
    BY <1>2, <1>3 DEF Ready
  <2>4. v = "ready" => n \in Accounted'[k] \/ \A m \in Ready[k] : m <= n
    <3>1. CASE \E m \in ItemIds : m > n /\ Item(k, m) = "ready"
      <4>1. v = "ready" => <<k, n>> \in late'
        BY <1>1, <3>1
      <4> QED
        BY <4>1 DEF Accounted
    <3>2. CASE ~\E m \in ItemIds : m > n /\ Item(k, m) = "ready"
      BY <3>2 DEF Ready, ItemIds
    <3> QED
      BY <3>1, <3>2
  <2>5. \A j \in Streams : baseline[j] \in Nat /\ Newest(j) \in Nat
    BY DEF Inv, Shapes, Prefix
  <2> QED
    BY <1>2, <1>5, <2>2, <2>3, <2>4, <2>5 DEF Grows
<1> QED
  BY <1>2, <1>6, <1>7, <1>8, SafeStep DEF local

\* A baseline may only grow: less is owed.
LEMMA BaselineGrows ==
  ASSUME Inv, UNCHANGED <<item, late, skipped, event>>, NEW k \in Streams, NEW n \in 0 .. Newest(k),
         PassOver(k, n), seed' = seed \/ seed' = Unset
  PROVE  /\ Grows /\ Prefix' /\ Baselines' /\ n \in Safe'[k]
         /\ baseline' \in [Streams -> Nat]
<1>1. \A j \in Streams :
        /\ baseline[j] \in Nat /\ Newest(j) \in Nat /\ baseline[j] <= Newest(j)
        /\ Newest(j)' = Newest(j)
  BY DEF Inv, Shapes, Prefix, Baselines, Newest, Item
<1>2. /\ baseline' \in [Streams -> Nat] /\ n <= baseline'[k]
      /\ \A j \in Streams : baseline[j] <= baseline'[j] /\ baseline'[j] <= Newest(j)
  BY <1>1 DEF PassOver, Larger, Inv, Shapes
<1>3. Ready' = Ready /\ Accounted' = Accounted
  BY DEF Ready, Accounted, Item
<1>4. Grows
  BY <1>1, <1>2, <1>3 DEF Grows
<1>5. Prefix'
  BY <1>1 DEF Prefix, Inv, Item
<1>6. Baselines'
  BY <1>1, <1>2, Transactions DEF Baselines, Inv
<1>7. \A i \in Owed'[k] : i > n
  BY <1>1, <1>2, <1>3 DEF Owed, Ready, ItemIds
<1>8. n \in Safe'[k]
  BY <1>1, <1>2, <1>7 DEF Safe
<1> QED
  BY <1>2, <1>4, <1>5, <1>6, <1>8

\* Switching on writes a cursor at the baseline.
LEMMA SwitchSteps == ASSUME Inv, SwitchOn \/ FinishSwitchOn PROVE Inv'
<1>1. "transactions" \in Streams
  BY Transactions
<1>2. CASE SwitchOn
  <2>1. /\ UNCHANGED <<item, late, skipped, baseline, event, cursor, local>>
        /\ seed' = Newest("transactions") /\ Newest("transactions") \in Nat
    BY <1>1, <1>2 DEF SwitchOn, outbox, Inv, Prefix
  <2>2. Shapes'
    BY <2>1 DEF Inv, Shapes, local
  <2>3. \A k \in Streams : Newest(k)' = Newest(k) /\ Newest(k) \in Nat /\ baseline[k] \in Nat
    BY <2>1 DEF Newest, Item, Inv, Prefix, Shapes
  <2>4. Prefix' /\ Baselines'
    BY <1>1, <2>1, <2>3 DEF Inv, Prefix, Baselines, Item
  <2>5. Ready' = Ready /\ Accounted' = Accounted
    BY <2>1 DEF Ready, Accounted, Item
  <2>6. Grows
    BY <2>1, <2>3, <2>5 DEF Grows
  <2> QED
    BY <2>1, <2>2, <2>4, <2>6, SafeStep DEF local
<1>3. CASE FinishSwitchOn
  <2>1. /\ UNCHANGED <<item, late, skipped, event, local>>
        /\ seed \in 0 .. Newest("transactions") /\ seed' = Unset
        /\ PassOver("transactions", seed) /\ MoveTo("transactions", seed)
    BY <1>1, <1>3 DEF FinishSwitchOn, SeedBaseline, world, Inv, Baselines, Shapes, Prefix
  <2>2. /\ Grows /\ Prefix' /\ Baselines' /\ seed \in Safe'["transactions"]
        /\ baseline' \in [Streams -> Nat]
    BY <1>1, <2>1, BaselineGrows
  <2>3. /\ cursor' \in [Streams -> Nat \union {Unset}]
        /\ \A k \in Streams : cursor'[k] = cursor[k] \/ cursor'[k] \in Safe'[k]
    BY <1>1, <2>1, <2>2 DEF MoveTo, Inv, Shapes
  <2>4. Shapes'
    BY <2>1, <2>2, <2>3 DEF Inv, Shapes, local
  <2> QED
    BY <2>1, <2>2, <2>3, <2>4, SafeStep DEF local
<1> QED
  BY <1>2, <1>3

-----------------------------------------------------------------------------
(* A generation reads a stream, announces and moves the cursor.              *)

\* Where a generation goes after a stream.
LEMMA AfterStep ==
  ASSUME Shapes, NEW g \in Generators, NEW k \in Streams, After(g, k)
  PROVE  /\ at' \in [Generators -> Positions] /\ stream' \in [Generators -> Streams]
         /\ at'[g] \notin {"announcing", "advancing"}
         /\ \A h \in Generators \ {g} : at'[h] = at[h] /\ stream'[h] = stream[h]
BY DEF Shapes, After, Read, EndGeneration, Positions, Streams

\* The batch is what is ready beyond the cursor, or the stream is seeded.
LEMMA ReadStep ==
  ASSUME Inv, NEW g \in Generators, NEW k \in Streams, ReadStream(g, k)
  PROVE  Inv'
<1>1. /\ UNCHANGED <<item, late, skipped, event, seed, cursor>>
      /\ at[g] = "reading" /\ stream[g] = k
  BY DEF ReadStream, world, settings, outbox
<1>2. CASE After(g, k) /\ UNCHANGED <<last, baseline>> /\ batch' \in [Generators -> SUBSET ItemIds]
           /\ \A h \in Generators \ {g} : batch'[h] = batch[h]
  <2>1. Shapes'
    BY <1>1, <1>2, AfterStep DEF Inv, Shapes
  <2>2. \A h \in Generators : Elsewhere(h)
    BY <1>2, AfterStep DEF Elsewhere, Inv
  <2>3. EventsGrow
    BY <1>1 DEF EventsGrow, Inv, Shapes
  <2> QED
    BY <1>1, <1>2, <2>1, <2>2, <2>3, QuietStep
<1>3. CASE /\ cursor[k] = Unset /\ Goto(g, "advancing")
           /\ last' = [last EXCEPT ![g] = Newest(k)]
           /\ PassOver(k, Newest(k)) /\ UNCHANGED batch
  <2>1. Newest(k) \in 0 .. Newest(k)
    BY DEF Inv, Prefix
  <2>2. /\ Grows /\ Prefix' /\ Baselines' /\ Newest(k) \in Safe'[k]
        /\ baseline' \in [Streams -> Nat]
    BY <1>1, <1>3, <2>1, BaselineGrows
  <2>3. at' = [at EXCEPT ![g] = "advancing"] /\ UNCHANGED stream
    BY <1>3 DEF Goto
  <2>4. Shapes'
    BY <1>1, <1>3, <2>1, <2>2, <2>3 DEF Inv, Shapes, Positions
  <2>5. \A h \in Generators \ {g} : at'[h] = at[h] /\ last'[h] = last[h]
    BY <1>3, <2>3 DEF Inv, Shapes
  <2>6. at'[g] = "advancing" /\ last'[g] = Newest(k) /\ stream'[g] = k
    BY <1>1, <1>3, <2>3 DEF Inv, Shapes
  <2> QED
    BY <1>1, <1>3, <2>2, <2>3, <2>4, <2>5, <2>6, SafeStep
<1>4. CASE /\ cursor[k] # Unset /\ Goto(g, "announcing")
           /\ batch' = [batch EXCEPT ![g] = Beyond(k)] /\ UNCHANGED <<last, baseline>>
  <2>1. cursor[k] \in Nat /\ cursor[k] \in Safe[k]
    BY <1>4 DEF Inv, Shapes, Cursors
  <2>2. Beyond(k) \in SUBSET ItemIds /\ Beyond(k) \subseteq Ready[k]
    BY DEF Beyond, Ready
  <2>3. \A n \in Owed[k] : n \in Beyond(k)
    BY <2>1 DEF Safe, Owed, Ready, Beyond
  <2>4. Beyond(k) \in SafeBatches[k]
    BY <2>2, <2>3 DEF SafeBatches
  <2>5. EventsGrow
    BY <1>1 DEF EventsGrow, Inv, Shapes
  <2>6. Grows /\ Prefix' /\ Baselines'
    BY <1>1, <1>4, <2>5, SameItemsGrow
  <2>7. at' = [at EXCEPT ![g] = "announcing"] /\ UNCHANGED stream
    BY <1>4 DEF Goto
  <2>8. Shapes'
    BY <1>1, <1>4, <2>2, <2>7 DEF Inv, Shapes, Positions
  <2>9. Beyond(k) \in SafeBatches'[k]
    BY <2>4, <2>6, <2>8, SafeBatchStays DEF Inv
  <2>10. \A h \in Generators \ {g} : at'[h] = at[h] /\ batch'[h] = batch[h]
    BY <1>4, <2>7 DEF Inv, Shapes
  <2>11. at'[g] = "announcing" /\ batch'[g] = Beyond(k) /\ stream'[g] = k
    BY <1>1, <1>4, <2>7 DEF Inv, Shapes
  <2> QED
    BY <1>1, <1>4, <2>6, <2>7, <2>8, <2>9, <2>10, <2>11, SafeStep
<1>5. [batch EXCEPT ![g] = Beyond(k)] \in [Generators -> SUBSET ItemIds]
  BY DEF Beyond, Inv, Shapes
<1> QED
  BY <1>2, <1>3, <1>4, <1>5 DEF ReadStream, Inv, Shapes

\* The first item of the batch: all that is owed up to it is itself.
LEMMA AnnounceStep ==
  ASSUME Inv, NEW g \in Generators, NEW k \in Streams, AnnounceItem(g, k)
  PROVE  Inv'
<1>1. PICK n \in batch[g] :
        /\ \A i \in batch[g] : n <= i
        /\ \E tell \in Announced(k, n) :
             IF tell THEN Enqueue(<<k, n>>) /\ UNCHANGED skipped
             ELSE skipped' = skipped \union {<<k, n>>} /\ UNCHANGED <<event, log>>
        /\ batch' = [batch EXCEPT ![g] = @ \ {n}]
        /\ last' = [last EXCEPT ![g] = n]
        /\ IF batch[g] = {n} THEN Goto(g, "advancing") ELSE UNCHANGED <<at, stream>>
  BY DEF AnnounceItem
<1>2. /\ at[g] = "announcing" /\ stream[g] = k
      /\ UNCHANGED <<item, late, baseline, seed, cursor>>
  BY DEF AnnounceItem, world, settings
<1>3. /\ batch[g] \in SUBSET ItemIds /\ batch[g] \subseteq Ready[k] /\ n \in Nat /\ n \in ItemIds
      /\ \A b \in batch[g], i \in Owed[k] : i <= b => i \in batch[g]
  <2>1. batch[g] \in SafeBatches[k] /\ n \in batch[g] /\ batch[g] \in SUBSET ItemIds
    BY <1>2 DEF Inv, Batches, Shapes
  <2>2. n \in Nat /\ n \in ItemIds
    BY <2>1 DEF ItemIds
  <2> QED
    BY <2>1, <2>2 DEF SafeBatches
<1>4. <<k, n>> \in Events
  BY <1>3 DEF Events, ItemEvents
<1>5. skipped \subseteq skipped' /\ EventsGrow /\ (event'[<<k, n>>] # "none" \/ <<k, n>> \in skipped')
  <2>1. CASE Enqueue(<<k, n>>) /\ UNCHANGED skipped
    BY <1>4, <2>1, EnqueueGrows DEF Inv
  <2>2. CASE skipped' = skipped \union {<<k, n>>} /\ UNCHANGED <<event, log>>
    BY <2>2 DEF EventsGrow, Inv, Shapes
  <2> QED
    BY <1>1, <2>1, <2>2
<1>6. Grows /\ Prefix' /\ Baselines'
  BY <1>2, <1>5, SameItemsGrow
<1>7. /\ batch' \in [Generators -> SUBSET ItemIds] /\ last' \in [Generators -> Nat]
      /\ batch'[g] = batch[g] \ {n} /\ last'[g] = n /\ stream' = stream
      /\ \A h \in Generators \ {g} : batch'[h] = batch[h] /\ last'[h] = last[h] /\ at'[h] = at[h]
      /\ at' \in [Generators -> Positions]
      /\ at'[g] = IF batch[g] = {n} THEN "advancing" ELSE "announcing"
  BY <1>1, <1>2, <1>3 DEF Inv, Shapes, Goto, Positions
<1>8. Shapes'
  BY <1>2, <1>5, <1>7 DEF Inv, Shapes, EventsGrow
<1>9. \A i \in Owed'[k] : i \in Owed[k] /\ i # n /\ i \in Nat
  <2>1. n \in Accounted'[k]
    BY <1>3, <1>5 DEF Accounted
  <2>2. Ready' = Ready /\ Accounted[k] \subseteq Accounted'[k]
    BY <1>2, <1>6 DEF Ready, Item, Grows
  <2> QED
    BY <1>2, <2>1, <2>2 DEF Owed, Ready, ItemIds
<1>10. n \in Safe'[k]
  <2>1. n \in Ready'[k]
    BY <1>3, <1>6 DEF Grows
  <2>2. n \in 0 .. Newest(k)' /\ Newest(k)' \in Nat
    BY <1>3, <1>6, <1>8, <2>1, ReadyIsThere DEF Prefix, Inv, Ready, Newest, Item
  <2>3. \A i \in Owed'[k] : i > n
    BY <1>1, <1>3, <1>9
  <2> QED
    BY <2>1, <2>2, <2>3 DEF Safe
<1>11. batch[g] \ {n} \in SafeBatches'[k]
  BY <1>3, <1>6, <1>9 DEF SafeBatches, Grows
<1> QED
  BY <1>2, <1>6, <1>7, <1>8, <1>10, <1>11, SafeStep

\* The cursor moves to the last item that was announced.
LEMMA AdvanceStep ==
  ASSUME Inv, NEW g \in Generators, NEW k \in Streams, AdvanceCursor(g, k)
  PROVE  Inv'
<1>1. /\ at[g] = "advancing" /\ stream[g] = k /\ After(g, k) /\ ForgetItems(g)
      /\ cursor' = [cursor EXCEPT ![k] = last[g]]
      /\ UNCHANGED <<item, late, skipped, baseline, seed, event>>
  BY DEF AdvanceCursor, MoveTo, LargestSeen, world, settings, history
<1>2. last[g] \in Safe[k] /\ last[g] \in Nat
  BY <1>1 DEF Inv, Lasts, Shapes
<1>3. EventsGrow
  BY <1>1 DEF EventsGrow, Inv, Shapes
<1>4. Grows /\ Prefix' /\ Baselines'
  BY <1>1, <1>3, SameItemsGrow
<1>5. /\ at' \in [Generators -> Positions] /\ stream' \in [Generators -> Streams]
      /\ at'[g] \notin {"announcing", "advancing"}
      /\ \A h \in Generators \ {g} : at'[h] = at[h] /\ stream'[h] = stream[h]
  BY <1>1, AfterStep DEF Inv
<1>6. /\ batch' \in [Generators -> SUBSET ItemIds] /\ last' \in [Generators -> Nat]
      /\ \A h \in Generators \ {g} : batch'[h] = batch[h] /\ last'[h] = last[h]
  BY <1>1 DEF ForgetItems, Inv, Shapes
<1>7. Shapes'
  BY <1>1, <1>2, <1>3, <1>5, <1>6 DEF Inv, Shapes
<1>8. Safe[k] \subseteq Safe'[k]
  BY <1>4, <1>7, SafeStays DEF Inv
<1>9. \A j \in Streams : cursor'[j] = cursor[j] \/ cursor'[j] \in Safe'[j]
  BY <1>1, <1>2, <1>8 DEF Inv, Shapes
<1> QED
  BY <1>4, <1>5, <1>6, <1>7, <1>9, SafeStep

\* Nothing is there at first.
LEMMA NothingYet == ASSUME OutboxInit PROVE Inv
<1>1. Shapes
  BY DEF OutboxInit, Shapes, Streams, Positions
<1>2. \A k \in Streams : {n \in ItemIds : Item(k, n) # "none"} = {} /\ Newest(k) = 0
  <2>1. \A k \in Streams : {n \in ItemIds : Item(k, n) # "none"} = {}
    BY DEF OutboxInit, Item
  <2> QED
    BY <2>1, FS_EmptySet DEF Newest
<1>3. Prefix /\ Baselines
  BY <1>2 DEF OutboxInit, Prefix, Baselines
<1>4. Cursors /\ Batches /\ Lasts
  BY DEF OutboxInit, Cursors, Batches, Lasts
<1> QED
  BY <1>1, <1>3, <1>4 DEF Inv

-----------------------------------------------------------------------------

\* What a cursor has passed was announced or has a reason not to be, for any number of
\* items and of generations that overlap and die.
THEOREM NothingIsPassedOver == OutboxSpec => []NothingPassedOver
<1>1. Inv /\ [OutboxNext]_outboxVars => Inv'
  <2> SUFFICES ASSUME Inv, [OutboxNext]_outboxVars PROVE Inv'
    OBVIOUS
  <2> QED
    BY OtherSteps, StatusSteps, InsertStep, SettleStep, SwitchSteps, ReadStep, AnnounceStep,
       AdvanceStep DEF OutboxNext, Generate
<1>2. Inv => NothingPassedOver
  <2> SUFFICES ASSUME Inv, NEW k \in Streams, NEW n \in ItemIds, Item(k, n) = "ready",
                      cursor[k] # Unset, baseline[k] < n, n <= cursor[k]
               PROVE  event[<<k, n>>] # "none" \/ <<k, n>> \in late \union skipped
    BY DEF NothingPassedOver
  <2>1. cursor[k] \in Nat /\ cursor[k] \in Safe[k] /\ n \in Nat
    BY DEF Inv, Cursors, Shapes, ItemIds
  <2>2. n \notin Owed[k]
    BY <2>1 DEF Safe
  <2> QED
    BY <2>2 DEF Owed, Ready, Accounted
<1> QED
  BY <1>1, <1>2, NothingYet, PTL DEF OutboxSpec
-----------------------------------------------------------------------------
(* The log of the events, and what the loop of the bot does with it.         *)

\* What statuses, snapshots and bounds are.
StatusShapes ==
  /\ health \in [Services -> Healths] /\ check \in [Services -> Nat]
  /\ outboxCast \in OutboxCasts /\ changes \in 0 .. outboxCast.changes
  /\ \A s \in Services : check[s] <= changes
  /\ known \in [Services -> Healths \union {Unset}]
  /\ snap \in [Generators -> [Services -> Healths \X (0 .. MaxChanges)]]
  /\ todo \in [Generators -> SUBSET Services]
  /\ before \in [Generators -> Healths \union {Unset}]
  /\ raced \in BOOLEAN /\ crashes \in Nat
  /\ \A g \in Generators : at[g] \in {"comparing", "moving", "telling"} => todo[g] # {}

\* An event is in the log once, as soon as it is there at all.
Logged ==
  /\ log \in Seq(Events)
  /\ \A i, j \in DOMAIN log : log[i] = log[j] => i = j
  /\ \A e \in Events : event[e] # "none" <=> \E i \in DOMAIN log : log[i] = e

\* The message that was sent, or failed, and has yet to be marked.
Handled(i) == spc \in {"marking", "failing"} /\ IsFirst(i)

\* Every message that was sent and is to be sent again has cost a fault.
Deliveries ==
  /\ delivered \in [Events -> Nat] /\ faults \in Nat /\ inbox \subseteq DOMAIN log
  /\ spc \in {"idle", "sending", "marking", "failing"}
  /\ \A e \in Events : event[e] = "none" => delivered[e] = 0
  /\ \A i \in DOMAIN log : (event[log[i]] = "pending" \/ i \in inbox) /\ ~Handled(i) =>
                             delivered[log[i]] <= faults
  /\ spc = "marking" => \A i \in inbox : IsFirst(i) => delivered[log[i]] > 0
  /\ spc = "failing" => faults > 0
  /\ DeliveredOnce

-----------------------------------------------------------------------------
(* What is told of a service.                                                *)

OneGeneration == \A g, h \in Generators : at[g] # "idle" /\ at[h] # "idle" => g = h

\* A state that was told, or read by a generation, is of a check that is not newer; of
\* the same check it is the same state.
NotNewer(h, c, state, chk) == c <= chk /\ (c = chk => h = state)

Told ==
  \A i \in DOMAIN log, s \in Services :
    log[i][1] = s => NotNewer(log[i][2], log[i][3], health[s], check[s])

Snapshots ==
  \A g \in Generators, s \in Services :
    at[g] \in {"comparing", "moving", "telling"} =>
      /\ NotNewer(snap[g][s][1], snap[g][s][2], health[s], check[s])
      /\ \A i \in DOMAIN log :
           log[i][1] = s => NotNewer(log[i][2], log[i][3], snap[g][s][1], snap[g][s][2])

\* The events of a service are of rising checks.
Rising ==
  \A i, j \in DOMAIN log, s \in Services :
    log[i][1] = s /\ log[j][1] = s /\ i < j => log[i][3] < log[j][3]

\* A death has lost the last word on s, nothing was said of s, or h last.
LastSaid(s, h) ==
  \/ s \in untold
  \/ \A i \in DOMAIN log : log[i][1] # s
  \/ \E i \in DOMAIN log : log[i][1] = s /\ log[i][2] = h
                           /\ \A j \in DOMAIN log : log[j][1] = s => j <= i

\* The cursor has what was said last, or what is about to be said.
Words ==
  /\ \A s \in Services :
       (\A g \in Generators : at[g] = "telling" => Current(g) # s) => LastSaid(s, known[s])
  /\ \A g \in Generators :
       /\ at[g] = "moving" => before[g] = known[Current(g)]
       /\ at[g] = "telling" => /\ LastSaid(Current(g), before[g])
                               /\ known[Current(g)] = snap[g][Current(g)][1]
                               /\ before[g] \notin {Unset, snap[g][Current(g)][1]}

WordsInv == ~raced => OneGeneration /\ Told /\ Snapshots /\ Rising /\ Words

-----------------------------------------------------------------------------
(* The transactions from before a switch.                                    *)

\* The baseline is below what may be announced, and below what a cursor may become.
NewsInv ==
  ~raced =>
    /\ OneGeneration
    /\ seed # Unset => baseline["transactions"] <= seed /\ \A g \in Generators : at[g] = "idle"
    /\ cursor["transactions"] # Unset => baseline["transactions"] <= cursor["transactions"]
    /\ \A g \in Generators : stream[g] = "transactions" =>
         /\ at[g] = "announcing" => \A n \in batch[g] : baseline["transactions"] < n
         /\ at[g] = "advancing" => baseline["transactions"] <= last[g]
-----------------------------------------------------------------------------
(* The types.                                                                *)

Comparing == {"comparing", "moving", "telling"}

\* The service that is compared is one of those that are left.
LEMMA CurrentIsThere ==
  ASSUME StatusShapes, NEW g \in Generators, at[g] \in Comparing
  PROVE  Current(g) \in todo[g] /\ Current(g) \in Services
<1>1. todo[g] # {} /\ todo[g] \subseteq Services
  BY DEF StatusShapes, Comparing
<1> QED
  BY <1>1 DEF Current

\* After a service comes the next one, or the jobs.
LEMMA DoneStep ==
  ASSUME Inv, StatusShapes, NEW g \in Generators, at[g] \in Comparing, DoneWithService(g)
  PROVE  /\ \A h \in Generators \ {g} : at'[h] = at[h] /\ snap'[h] = snap[h] /\ todo'[h] = todo[h]
                                        /\ before'[h] = before[h] /\ stream'[h] = stream[h]
         /\ snap' \in [Generators -> [Services -> Healths \X (0 .. MaxChanges)]]
         /\ todo' \in [Generators -> SUBSET Services]
         /\ before' \in [Generators -> Healths \union {Unset}]
         /\ \/ at'[g] = "reading" /\ stream'[g] = "sync_jobs"
            \/ at'[g] = "comparing" /\ todo'[g] # {} /\ snap'[g] = snap[g] /\ stream'[g] = stream[g]
<1> USE DEF Inv, Shapes, StatusShapes
<1>1. Current(g) \in todo[g] /\ Current(g) \in Services
  BY CurrentIsThere
<1>2. CASE todo[g] = {Current(g)}
  <2>1. Nothing \in [Services -> Healths \X (0 .. MaxChanges)]
    BY OutboxAssumption DEF Nothing, Healths
  <2>2. /\ at' = [at EXCEPT ![g] = "reading"] /\ stream' = [stream EXCEPT ![g] = "sync_jobs"]
        /\ snap' = [snap EXCEPT ![g] = Nothing] /\ todo' = [todo EXCEPT ![g] = {}]
        /\ before' = [before EXCEPT ![g] = Unset]
    BY <1>2 DEF DoneWithService, Read, ForgetStatuses
  <2> QED
    BY <2>1, <2>2
<1>3. CASE todo[g] # {Current(g)}
  <2>1. /\ at' = [at EXCEPT ![g] = "comparing"] /\ stream' = stream
        /\ todo' = [todo EXCEPT ![g] = todo[g] \ {Current(g)}]
        /\ UNCHANGED <<snap, before>>
    BY <1>3 DEF DoneWithService, Goto
  <2>2. todo[g] \ {Current(g)} # {}
    BY <1>1, <1>3
  <2> QED
    BY <2>1, <2>2
<1> QED
  BY <1>2, <1>3

\* Statuses and other things change, no generation moves.
LEMMA ShapesOfChanges ==
  ASSUME Inv, StatusShapes, UNCHANGED <<at, snap, todo, before, known, raced, crashes, outboxCast>>,
         \/ \E s \in Services : UpdateStatus(s)
         \/ UNCHANGED <<health, check>> /\ (Change \/ UNCHANGED changes)
  PROVE  StatusShapes'
<1> USE DEF StatusShapes
<1>1. outboxCast.changes \in 0 .. MaxChanges /\ MaxChanges \in Nat
  BY OutboxAssumption DEF OutboxCastType
<1>2. CASE UNCHANGED <<health, check>> /\ (Change \/ UNCHANGED changes)
  BY <1>1, <1>2 DEF Change
<1>3. ASSUME NEW s \in Services, UpdateStatus(s) PROVE StatusShapes'
  <2>1. /\ changes < outboxCast.changes /\ changes' = changes + 1
        /\ check' = [check EXCEPT ![s] = check[s] + 1]
        /\ \E h \in Healths : health' = [health EXCEPT ![s] = h]
    BY <1>3 DEF UpdateStatus, Change
  <2>2. changes' \in 0 .. outboxCast.changes /\ \A q \in Services : check'[q] <= changes'
    BY <1>1, <2>1
  <2> QED
    BY <2>1, <2>2
<1> QED
  BY <1>2, <1>3

\* A generation moves in its streams, or starts, or dies.
LEMMA ShapesOfMoves ==
  ASSUME Inv, StatusShapes, Inv', NEW g \in Generators,
         StartGeneration(g) \/ Generate(g) \/ CrashGeneration(g)
  PROVE  StatusShapes'
<1> USE DEF StatusShapes, Inv, Shapes
<1>1. UNCHANGED <<health, check, changes, outboxCast>>
  BY DEF StartGeneration, Generate, ReadKnown, MoveKnown, TellStatus, ReadStream, AnnounceItem,
         AdvanceCursor, CrashGeneration, world
<1>2. raced' \in BOOLEAN /\ crashes' \in Nat
  <2>1. CASE StartGeneration(g)
    <3>1. raced' = (raced \/ seed # Unset \/ Generating) /\ crashes' = crashes
      BY <2>1 DEF StartGeneration
    <3> HIDE DEF Inv, Shapes
    <3>2. raced' \in BOOLEAN
      BY <3>1 DEF Generating
    <3> QED
      BY <3>1, <3>2
  <2>2. CASE CrashGeneration(g)
    BY <2>2 DEF CrashGeneration, history
  <2>3. CASE Generate(g)
    BY <2>3 DEF Generate, ReadKnown, MoveKnown, TellStatus, ReadStream, AnnounceItem, AdvanceCursor,
                history
  <2> QED
    BY <2>1, <2>2, <2>3
<1>3. outboxCast.changes \in 0 .. MaxChanges /\ MaxChanges \in Nat
  BY OutboxAssumption DEF OutboxCastType
<1> DEFINE Others ==
  \A h \in Generators \ {g} : at'[h] = at[h] /\ todo'[h] = todo[h]
<1>4. ASSUME NEW k \in Streams, ReadStream(g, k) \/ AnnounceItem(g, k) \/ AdvanceCursor(g, k)
      PROVE  StatusShapes'
  <2>1. /\ UNCHANGED <<snap, todo, before, known>>
        /\ at'[g] \notin Comparing /\ Others
    <3>1. UNCHANGED <<snap, todo, before, known>>
      BY <1>4 DEF ReadStream, AnnounceItem, AdvanceCursor, outbox
    <3>2. \/ at' = at /\ at[g] = "announcing"
          \/ \E q \in {"idle", "reading", "announcing", "advancing"} : at' = [at EXCEPT ![g] = q]
      BY <1>4 DEF ReadStream, AnnounceItem, AdvanceCursor, After, Read, EndGeneration, Goto
    <3> QED
      BY <3>1, <3>2 DEF Comparing
  <2> QED
    BY <1>1, <1>2, <2>1 DEF Comparing
<1>5. CASE CrashGeneration(g)
  <2>1. Nothing \in [Services -> Healths \X (0 .. MaxChanges)]
    BY OutboxAssumption DEF Nothing, Healths
  <2>2. /\ known' = known /\ at' = [at EXCEPT ![g] = "idle"]
        /\ snap' = [snap EXCEPT ![g] = Nothing] /\ todo' = [todo EXCEPT ![g] = {}]
        /\ before' = [before EXCEPT ![g] = Unset]
    BY <1>5 DEF CrashGeneration, EndGeneration, ForgetStatuses, outbox
  <2> QED
    BY <1>1, <1>2, <2>1, <2>2
<1>6. CASE StartGeneration(g)
  <2>1. UNCHANGED <<known, before>>
    BY <1>6 DEF StartGeneration, outbox
  <2>2. CASE Read(g, "transactions") /\ UNCHANGED <<snap, todo>>
    BY <1>1, <1>2, <2>1, <2>2 DEF Read
  <2>3. CASE /\ Goto(g, "comparing")
             /\ snap' = [snap EXCEPT ![g] = [s \in Services |-> <<health[s], check[s]>>]]
             /\ todo' = [todo EXCEPT ![g] = Services]
    <3>1. [s \in Services |-> <<health[s], check[s]>>] \in [Services -> Healths \X (0 .. MaxChanges)]
      <4>1. \A s \in Services : health[s] \in Healths /\ check[s] \in 0 .. MaxChanges
        BY <1>3
      <4> QED
        BY <4>1
    <3>2. at' = [at EXCEPT ![g] = "comparing"]
      BY <2>3 DEF Goto
    <3>3. snap' \in [Generators -> [Services -> Healths \X (0 .. MaxChanges)]]
      BY <2>3, <3>1
    <3>4. todo' \in [Generators -> SUBSET Services] /\ todo'[g] # {} /\ Others
      BY <2>3, <3>2, OutboxAssumption
    <3> QED
      BY <1>1, <1>2, <2>1, <3>2, <3>3, <3>4
  <2> QED
    BY <1>6, <2>2, <2>3 DEF StartGeneration
<1>7. CASE ReadKnown(g)
  <2>1. /\ at[g] = "comparing" /\ at' = [at EXCEPT ![g] = "moving"]
        /\ before' = [before EXCEPT ![g] = known[Current(g)]] /\ UNCHANGED <<known, snap, todo>>
    BY <1>7 DEF ReadKnown, Goto, outbox
  <2>2. known[Current(g)] \in Healths \union {Unset}
    BY <2>1, CurrentIsThere DEF Comparing
  <2> QED
    BY <1>1, <1>2, <2>1, <2>2
<1>8. CASE MoveKnown(g)
  <2>1. /\ at[g] = "moving" /\ at[g] \in Comparing
        /\ known' = [known EXCEPT ![Current(g)] = snap[g][Current(g)][1]]
    BY <1>8 DEF MoveKnown, Comparing
  <2>2. known' \in [Services -> Healths \union {Unset}]
    BY <2>1, CurrentIsThere
  <2>3. CASE Goto(g, "telling") /\ UNCHANGED <<snap, todo, before>>
    BY <1>1, <1>2, <2>1, <2>2, <2>3 DEF Goto
  <2>4. CASE DoneWithService(g)
    BY ZenonT(40), <1>1, <1>2, <2>1, <2>2, <2>4, DoneStep
  <2> QED
    BY <1>8, <2>3, <2>4 DEF MoveKnown
<1>9. CASE TellStatus(g)
  <2>1. at[g] \in Comparing /\ DoneWithService(g) /\ known' = known
    BY <1>9 DEF TellStatus, Comparing
  <2> QED
    BY <1>1, <1>2, <2>1, DoneStep
<1> QED
  BY <1>4, <1>5, <1>6, <1>7, <1>8, <1>9 DEF Generate

\* The types of every step.
LEMMA ShapesStep ==
  ASSUME Inv, StatusShapes, Inv', [OutboxNext]_outboxVars
  PROVE  StatusShapes'
<1>1. CASE \/ \E s \in Services : UpdateStatus(s)
           \/ \E k \in Streams : InsertItem(k) \/ \E n \in ItemIds : SettleItem(k, n)
           \/ SwitchOff \/ FinishSwitchOn \/ BotStep \/ RestartBot \/ UNCHANGED outboxVars
  <2>1. UNCHANGED <<at, snap, todo, before, known, raced, crashes, outboxCast>>
    BY <1>1 DEF UpdateStatus, InsertItem, SettleItem, SwitchOff, FinishSwitchOn, BotStep, RestartBot,
                FetchPending, SendMessage, MarkSent, MarkFailed, Mark, KeepServer, outboxVars,
                settings, outbox, local, bot, history
  <2>2. CASE \E s \in Services : UpdateStatus(s)
    BY <2>1, <2>2, ShapesOfChanges
  <2>3. CASE ~\E s \in Services : UpdateStatus(s)
    <3>1. UNCHANGED <<health, check>> /\ (Change \/ UNCHANGED changes)
      BY <1>1, <2>3 DEF InsertItem, SettleItem, SwitchOff, FinishSwitchOn, BotStep, RestartBot,
                FetchPending, SendMessage, MarkSent, MarkFailed, KeepServer, outboxVars, world
    <3> QED
      BY <2>1, <3>1, ShapesOfChanges
  <2> QED
    BY <2>2, <2>3
<1>2. CASE SwitchOn
  <2>1. /\ UNCHANGED <<at, snap, todo, before, known, crashes, outboxCast, health, check>>
        /\ Change /\ raced' \in BOOLEAN
    BY <1>2 DEF SwitchOn, outbox, local, Generating, StatusShapes
  <2>2. outboxCast.changes \in 0 .. MaxChanges /\ MaxChanges \in Nat
    BY OutboxAssumption DEF OutboxCastType, StatusShapes
  <2> QED
    BY <2>1, <2>2 DEF StatusShapes, Change
<1>3. CASE \E g \in Generators : StartGeneration(g) \/ Generate(g) \/ CrashGeneration(g)
  BY <1>3, ShapesOfMoves
<1> QED
  BY <1>1, <1>2, <1>3 DEF OutboxNext

-----------------------------------------------------------------------------
(* The log and the deliveries.                                               *)

\* An event that is enqueued, and which it is.
LEMMA TellLogs ==
  ASSUME StatusShapes, NEW g \in Generators, TellStatus(g)
  PROVE  \E s \in Services, h \in Healths, c \in 0 .. MaxChanges :
           /\ s = Current(g) /\ h = snap[g][s][1] /\ c = snap[g][s][2]
           /\ <<s, h, c>> \in Events /\ Enqueue(<<s, h, c>>)
<1>1. Current(g) \in Services
  BY CurrentIsThere DEF TellStatus, Comparing
<1>2. snap[g][Current(g)] \in Healths \X (0 .. MaxChanges)
  BY <1>1 DEF StatusShapes
<1>3. PICK s \in Services, h \in Healths, c \in 0 .. MaxChanges :
        s = Current(g) /\ h = snap[g][s][1] /\ c = snap[g][s][2]
  BY <1>1, <1>2
<1>4. <<s, h, c>> \in Events /\ Enqueue(<<s, h, c>>)
  BY <1>3 DEF Events, StatusEvents, TellStatus
<1> QED
  BY <1>3, <1>4

\* What is done to the log: nothing, an event is enqueued, or the loop marks one.
LEMMA WhatIsLogged ==
  ASSUME Inv, StatusShapes, [OutboxNext]_outboxVars
  PROVE  \/ UNCHANGED <<event, log>> /\ (UNCHANGED bot \/ BotStep \/ RestartBot)
         \/ \E e \in Events : Enqueue(e) /\ UNCHANGED bot
         \/ BotStep
<1>1. CASE BotStep \/ UNCHANGED outboxVars
  BY <1>1 DEF outboxVars, outbox
<1>2. CASE RestartBot
  BY <1>2 DEF RestartBot, KeepServer, outbox
<1>3. CASE \/ \E s \in Services : UpdateStatus(s)
           \/ \E k \in Streams : InsertItem(k) \/ \E n \in ItemIds : SettleItem(k, n)
           \/ SwitchOff \/ SwitchOn \/ FinishSwitchOn
  BY <1>3 DEF UpdateStatus, InsertItem, SettleItem, SwitchOff, SwitchOn, FinishSwitchOn, outbox
<1>4. ASSUME NEW g \in Generators, TellStatus(g)
      PROVE  \E e \in Events : Enqueue(e) /\ UNCHANGED bot
  BY <1>4, TellLogs DEF TellStatus
<1>5. ASSUME NEW g \in Generators, NEW k \in Streams, AnnounceItem(g, k)
      PROVE  \/ UNCHANGED <<event, log, bot>>
             \/ \E e \in Events : Enqueue(e) /\ UNCHANGED bot
  <2>1. \A n \in batch[g] : <<k, n>> \in Events
    BY DEF Inv, Shapes, Events, ItemEvents
  <2> QED
    BY <1>5, <2>1 DEF AnnounceItem
<1>6. ASSUME NEW g \in Generators,
             StartGeneration(g) \/ CrashGeneration(g) \/ ReadKnown(g) \/ MoveKnown(g)
               \/ \E k \in Streams : ReadStream(g, k) \/ AdvanceCursor(g, k)
      PROVE  UNCHANGED <<event, log, bot>>
  BY <1>6 DEF StartGeneration, CrashGeneration, ReadKnown, MoveKnown, ReadStream, AdvanceCursor, outbox
<1> QED
  BY <1>1, <1>2, <1>3, <1>4, <1>5, <1>6 DEF OutboxNext, Generate

\* The place of an event that is appended is the last one.
LEMMA Appended ==
  ASSUME Inv, Logged, NEW e \in Events, Enqueue(e), event[e] = "none"
  PROVE  /\ Len(log) \in Nat /\ DOMAIN log = 1 .. Len(log)
         /\ log' \in Seq(Events) /\ DOMAIN log' = 1 .. Len(log) + 1
         /\ \A i \in DOMAIN log : log'[i] = log[i]
         /\ log'[Len(log) + 1] = e /\ \A i \in DOMAIN log : log[i] # e
         /\ \A d \in Events : event'[d] = IF d = e THEN "pending" ELSE event[d]
<1>1. log \in Seq(Events) /\ log' = Append(log, e) /\ event' = [event EXCEPT ![e] = "pending"]
  BY DEF Logged, Enqueue
<1>2. \A i \in DOMAIN log : log[i] # e
  BY DEF Logged
<1> QED
  BY <1>1, <1>2 DEF Inv, Shapes

\* An event that is enqueued comes after the others.
LEMMA EnqueueLogs ==
  ASSUME Inv, Logged, NEW e \in Events, Enqueue(e)
  PROVE  Logged'
<1>1. CASE UNCHANGED <<event, log>>
  BY <1>1 DEF Logged
<1>2. CASE event[e] = "none"
  <2> DEFINE n == Len(log) + 1
  <2>1. /\ n \in Nat \ {0} /\ DOMAIN log = 1 .. n - 1 /\ log' \in Seq(Events) /\ DOMAIN log' = 1 .. n
        /\ \A i \in DOMAIN log : log'[i] = log[i]
        /\ log'[n] = e /\ \A i \in DOMAIN log : log[i] # e
        /\ \A d \in Events : event'[d] = IF d = e THEN "pending" ELSE event[d]
    BY <1>2, Appended
  <2> HIDE DEF n
  <2>2. ASSUME NEW i \in DOMAIN log', NEW j \in DOMAIN log', log'[i] = log'[j] PROVE i = j
    BY <2>1, <2>2 DEF Logged
  <2>3. ASSUME NEW d \in Events PROVE event'[d] # "none" <=> \E i \in DOMAIN log' : log'[i] = d
    <3>1. CASE d = e
      BY <2>1, <3>1
    <3>2. CASE d # e
      <4>1. event[d] # "none" <=> \E i \in DOMAIN log : log[i] = d
        BY DEF Logged
      <4>2. (\E i \in DOMAIN log' : log'[i] = d) <=> \E i \in DOMAIN log : log[i] = d
        BY <2>1, <3>2
      <4> QED
        BY <2>1, <3>2, <4>1, <4>2
    <3> QED
      BY <3>1, <3>2
  <2> QED
    BY <2>1, <2>2, <2>3 DEF Logged
<1> QED
  BY <1>1, <1>2 DEF Enqueue

\* A mark leaves the event in the log.
LEMMA MarkLogs ==
  ASSUME Inv, Logged, NEW i \in DOMAIN log, NEW v \in {"sent", "failed"}, Mark(log[i], v)
  PROVE  Logged' /\ log' = log
         /\ \A e \in Events : event'[e] = IF e = log[i] THEN v ELSE event[e]
<1>1. log' = log /\ event' = [event EXCEPT ![log[i]] = v] /\ log[i] \in Events
  BY DEF Mark, Logged
<1>2. \A e \in Events : event'[e] = IF e = log[i] THEN v ELSE event[e]
  BY <1>1 DEF Inv, Shapes
<1>3. \A e \in Events : event'[e] # "none" <=> event[e] # "none"
  BY <1>1, <1>2 DEF Logged
<1> QED
  BY <1>1, <1>2, <1>3 DEF Logged

\* One message is first.
LEMMA OneFirst ==
  ASSUME Logged, Deliveries, NEW i, NEW j, IsFirst(i), IsFirst(j)
  PROVE  i = j
<1>1. DOMAIN log = 1 .. Len(log) /\ i \in DOMAIN log /\ j \in DOMAIN log
  BY DEF Logged, Deliveries, IsFirst
<1> QED
  BY <1>1 DEF IsFirst

\* An event that is enqueued has not been delivered.
LEMMA EnqueueDelivers ==
  ASSUME Inv, Logged, Deliveries, NEW e \in Events, Enqueue(e), UNCHANGED bot
  PROVE  Deliveries'
<1>1. UNCHANGED <<spc, inbox, delivered, faults>>
  BY DEF bot
<1>2. CASE UNCHANGED <<event, log>>
  BY <1>1, <1>2 DEF Deliveries, DeliveredOnce, Handled, IsFirst
<1>3. CASE event[e] = "none"
  <2> DEFINE n == Len(log) + 1
  <2>1. /\ n \in Nat \ {0} /\ DOMAIN log = 1 .. n - 1 /\ DOMAIN log' = 1 .. n
        /\ \A i \in DOMAIN log : log'[i] = log[i]
        /\ log'[n] = e /\ \A i \in DOMAIN log : log[i] # e
        /\ \A d \in Events : event'[d] = IF d = e THEN "pending" ELSE event[d]
    BY <1>3, Appended
  <2> HIDE DEF n
  <2>2. delivered[e] = 0
    BY <1>3 DEF Deliveries
  <2>3. \A i \in DOMAIN log : event'[log'[i]] = event[log[i]] /\ log'[i] = log[i] /\ log[i] \in Events
    BY <2>1 DEF Logged
  <2>4. \A i : Handled(i)' <=> Handled(i)
    BY <1>1 DEF Handled, IsFirst
  <2>5. ASSUME NEW i \in DOMAIN log', event'[log'[i]] = "pending" \/ i \in inbox', ~Handled(i)'
        PROVE  delivered'[log'[i]] <= faults'
    <3>1. CASE i \in DOMAIN log
      BY <1>1, <2>3, <2>4, <2>5, <3>1 DEF Deliveries
    <3>2. CASE i = n
      BY <1>1, <2>1, <2>2, <3>2 DEF Deliveries
    <3> QED
      BY <2>1, <3>1, <3>2
  <2>6. DeliveredOnce' /\ \A d \in Events : event'[d] = "none" => delivered'[d] = 0
    BY <1>1, <2>1, <2>2 DEF Deliveries, DeliveredOnce
  <2>7. inbox' \subseteq DOMAIN log'
    BY <1>1, <2>1 DEF Deliveries
  <2>8. \A i \in inbox : IsFirst(i)' => IsFirst(i) /\ log'[i] = log[i]
    BY <1>1, <2>1 DEF Deliveries, IsFirst
  <2> QED
    BY <1>1, <2>5, <2>6, <2>7, <2>8 DEF Deliveries
<1> QED
  BY <1>2, <1>3 DEF Enqueue

\* The loop fetches, or is restarted.
LEMMA FetchDelivers ==
  ASSUME Inv, Logged, Deliveries, FetchPending \/ RestartBot
  PROVE  Deliveries' /\ UNCHANGED <<event, log>>
<1>1. UNCHANGED <<event, log, delivered>>
  BY DEF FetchPending, RestartBot, KeepServer, outbox
<1>2. CASE FetchPending
  <2>1. /\ faults' = faults /\ spc = "idle" /\ spc' = "sending"
        /\ inbox' \subseteq DOMAIN log /\ \A i \in inbox' : event[log[i]] = "pending"
    BY <1>2 DEF FetchPending, NewestPending, Waiting
  <2> QED
    BY <1>1, <2>1 DEF Deliveries, DeliveredOnce, Handled
<1>3. CASE RestartBot
  <2>1. faults' = faults + 1 /\ spc' = "idle" /\ inbox' = {}
    BY <1>3 DEF RestartBot
  <2>2. \A i \in DOMAIN log : log[i] \in Events
    BY DEF Logged
  <2> QED
    BY <1>1, <2>1, <2>2 DEF Deliveries, DeliveredOnce
<1> QED
  BY <1>1, <1>2, <1>3

\* The first message is sent: it is not sent again without a fault.
LEMMA SendDelivers ==
  ASSUME Inv, Logged, Deliveries, NEW i \in inbox, SendMessage(i)
  PROVE  Deliveries' /\ UNCHANGED <<event, log>>
<1>1. UNCHANGED <<event, log, inbox>> /\ spc = "sending" /\ IsFirst(i)
  BY DEF SendMessage, KeepServer, outbox
<1>2. i \in DOMAIN log /\ log[i] \in Events /\ delivered[log[i]] <= faults /\ event[log[i]] # "none"
  BY <1>1 DEF Deliveries, Handled, Logged
<1>3. \A j : IsFirst(j) => j = i
  BY <1>1, OneFirst
<1>4. CASE delivered' = [delivered EXCEPT ![log[i]] = @ + 1] /\ spc' = "marking" /\ UNCHANGED faults
  <2>1. \A e \in Events : delivered'[e] = IF e = log[i] THEN delivered[e] + 1 ELSE delivered[e]
    BY <1>4 DEF Deliveries
  <2>2. \A j \in DOMAIN log : j # i => log[j] \in Events /\ log[j] # log[i]
    BY <1>2 DEF Logged
  <2>3. ASSUME NEW j \in DOMAIN log, event[log[j]] = "pending" \/ j \in inbox, ~Handled(j)'
        PROVE  delivered'[log[j]] <= faults
    <3>1. j # i
      BY <1>1, <1>4, <2>3 DEF Handled, IsFirst
    <3> QED
      BY <1>1, <2>1, <2>2, <2>3, <3>1 DEF Deliveries, Handled
  <2>4. delivered' \in [Events -> Nat]
    BY <1>2, <1>4 DEF Deliveries
  <2>5. DeliveredOnce'
    BY <1>1, <1>2, <1>4, <2>1 DEF Deliveries, DeliveredOnce
  <2>6. \A j \in inbox : IsFirst(j)' => delivered'[log[j]] > 0
    <3>1. \A j \in inbox : IsFirst(j)' => j = i
      BY <1>1, <1>3 DEF IsFirst
    <3> QED
      BY <1>2, <2>1, <3>1 DEF Deliveries
  <2>7. \A e \in Events : event[e] = "none" => delivered'[e] = 0
    BY <1>2, <2>1 DEF Deliveries
  <2> QED
    BY <1>1, <1>4, <2>3, <2>4, <2>5, <2>6, <2>7 DEF Deliveries
<1>5. CASE faults' = faults + 1 /\ spc' = "failing" /\ UNCHANGED delivered
  <2>1. \A j \in DOMAIN log : log[j] \in Events
    BY DEF Logged
  <2> QED
    BY <1>1, <1>5, <2>1 DEF Deliveries, DeliveredOnce, Handled
<1> QED
  BY <1>1, <1>4, <1>5 DEF SendMessage

\* A message is marked, or its mark is lost at the cost of a fault.
LEMMA MarkDelivers ==
  ASSUME Inv, Logged, Deliveries, NEW i \in inbox, MarkSent(i) \/ MarkFailed(i)
  PROVE  Deliveries' /\ Logged' /\ log' = log
<1>1. UNCHANGED delivered /\ IsFirst(i) /\ Handled(i) /\ i \in DOMAIN log /\ log[i] \in Events
  BY DEF MarkSent, MarkFailed, Handled, Deliveries, Logged
<1>2. \A j : IsFirst(j) => j = i
  BY <1>1, OneFirst
<1>3. \A j \in DOMAIN log : log[j] \in Events /\ (log[j] = log[i] => j = i)
  BY <1>1 DEF Logged
<1>4. \/ UNCHANGED outbox
      \/ spc = "marking" /\ Mark(log[i], "sent")
      \/ spc = "failing" /\ Mark(log[i], "failed")
  BY DEF MarkSent, MarkFailed
<1>5. /\ Logged' /\ log' = log
      /\ \A e \in Events : event'[e] = event[e] \/ /\ e = log[i] /\ event[e] # "none"
                                                   /\ \/ spc = "marking" /\ event'[e] = "sent"
                                                      \/ spc = "failing" /\ event'[e] = "failed"
  <2>1. CASE UNCHANGED outbox
    BY <2>1 DEF outbox, Logged
  <2>2. ASSUME NEW v \in {"sent", "failed"}, Mark(log[i], v)
        PROVE  /\ Logged' /\ log' = log
               /\ \A e \in Events : event'[e] = IF e = log[i] THEN v ELSE event[e]
    BY <1>1, <2>2, MarkLogs
  <2>3. event[log[i]] # "none"
    BY <1>1 DEF Logged
  <2> QED
    BY <1>4, <2>1, <2>2, <2>3
<1>6. \/ faults' = faults + 1
      \/ faults' = faults /\ event'[log[i]] # "pending" /\ i \notin inbox'
  <2>1. ASSUME NEW v \in {"sent", "failed"}, Mark(log[i], v) PROVE event'[log[i]] # "pending"
    BY <1>1, <2>1, MarkLogs
  <2> QED
    BY <2>1 DEF MarkSent, MarkFailed, NextMessage
<1>7. \/ spc' = "failing" /\ inbox' = inbox /\ faults' = faults + 1
      \/ spc' \in {"idle", "sending"} /\ inbox' = inbox \ {i}
  BY DEF MarkSent, MarkFailed, NextMessage
<1>8. ASSUME NEW j \in DOMAIN log, event'[log[j]] = "pending" \/ j \in inbox', ~Handled(j)'
      PROVE  delivered[log[j]] <= faults'
  <2>1. CASE j = i
    <3>1. faults' = faults + 1 \/ (event'[log[i]] # "pending" /\ i \notin inbox')
      BY <1>6
    <3> QED
      BY <1>1, <1>8, <2>1, <3>1 DEF Deliveries, DeliveredOnce
  <2>2. CASE j # i
    <3>1. ~Handled(j) /\ event'[log[j]] = event[log[j]]
      BY <1>2, <1>3, <1>5, <2>2 DEF Handled
    <3>2. j \in inbox' => j \in inbox
      BY <1>7
    <3>3. delivered[log[j]] <= faults /\ delivered[log[j]] \in Nat /\ faults \in Nat
      BY <1>3, <1>8, <3>1, <3>2 DEF Deliveries
    <3> QED
      BY <1>6, <3>3
  <2> QED
    BY <2>1, <2>2
<1>9. faults' \in Nat /\ faults' >= faults /\ faults \in Nat
  BY <1>6 DEF Deliveries
<1>10. DeliveredOnce'
  <2>1. spc = "marking" => delivered[log[i]] > 0
    BY <1>1 DEF Deliveries
  <2>2. spc = "failing" => faults > 0
    BY DEF Deliveries
  <2>3. \A e \in Events : delivered[e] \in Nat
    BY DEF Deliveries
  <2> QED
    BY <1>1, <1>5, <1>9, <2>1, <2>2, <2>3 DEF Deliveries, DeliveredOnce
<1>11. spc' = "failing" => faults' > 0
  BY <1>7, <1>9
<1>12. \A e \in Events : event'[e] = "none" => delivered'[e] = 0
  BY <1>1, <1>5 DEF Deliveries
<1>13. spc' # "marking" /\ inbox' \subseteq DOMAIN log' /\ spc' \in {"idle", "sending", "marking", "failing"}
  BY <1>5, <1>7 DEF Deliveries
<1> QED
  BY <1>1, <1>5, <1>8, <1>9, <1>10, <1>11, <1>12, <1>13 DEF Deliveries

\* The log and the deliveries of every step.
LEMMA DeliveryStep ==
  ASSUME Inv, StatusShapes, Logged, Deliveries, [OutboxNext]_outboxVars
  PROVE  Logged' /\ Deliveries'
<1>1. CASE UNCHANGED <<event, log>> /\ UNCHANGED bot
  BY <1>1 DEF bot, Logged, Deliveries, DeliveredOnce, Handled, IsFirst
<1>2. CASE \E e \in Events : Enqueue(e) /\ UNCHANGED bot
  BY <1>2, EnqueueLogs, EnqueueDelivers
<1>3. CASE FetchPending \/ RestartBot \/ \E i \in inbox : SendMessage(i)
  <2>1. Deliveries' /\ UNCHANGED <<event, log>>
    BY <1>3, FetchDelivers, SendDelivers
  <2> QED
    BY <2>1 DEF Logged
<1>4. CASE \E i \in inbox : MarkSent(i) \/ MarkFailed(i)
  BY <1>4, MarkDelivers
<1> QED
  BY <1>1, <1>2, <1>3, <1>4, WhatIsLogged DEF BotStep

-----------------------------------------------------------------------------
(* What is told of a service.                                                *)

\* What was said last stays so while nothing is said.
LEMMA SameLastSaid ==
  ASSUME UNCHANGED <<log, untold>>, NEW s, NEW h, LastSaid(s, h)
  PROVE  LastSaid(s, h)'
BY DEF LastSaid

\* An overlap is not forgotten.
LEMMA OverlapStays ==
  ASSUME StatusShapes, [OutboxNext]_outboxVars
  PROVE  ~raced' => ~raced
<1>1. raced' = raced \/ raced' = (raced \/ Generating)
        \/ raced' = (raced \/ seed # Unset \/ Generating)
  BY ZenonT(40) DEF OutboxNext, UpdateStatus, InsertItem, SettleItem, SwitchOff, SwitchOn, FinishSwitchOn,
         StartGeneration, Generate, CrashGeneration, ReadKnown, MoveKnown, TellStatus, ReadStream,
         AnnounceItem, AdvanceCursor, BotStep, RestartBot, FetchPending, SendMessage, MarkSent,
         MarkFailed, KeepServer, history, outboxVars
<1> QED
  BY <1>1 DEF StatusShapes

\* Generations begin one after the other.
LEMMA OneGenerationStep ==
  ASSUME Inv, StatusShapes, OneGeneration, ~raced', [OutboxNext]_outboxVars
  PROVE  OneGeneration'
<1>1. ASSUME NEW g \in Generators, StartGeneration(g) PROVE OneGeneration'
  <2>1. \A h \in Generators : at[h] = "idle"
    BY <1>1 DEF StartGeneration, Generating
  <2>2. \A h \in Generators \ {g} : at'[h] = at[h]
    BY <1>1 DEF StartGeneration, Goto, Read, Inv, Shapes
  <2> QED
    BY <2>1, <2>2 DEF OneGeneration
<1>2. ASSUME NEW g \in Generators, Generate(g) \/ CrashGeneration(g) PROVE OneGeneration'
  <2>1. at[g] # "idle"
    BY <1>2 DEF Generate, CrashGeneration, ReadKnown, MoveKnown, TellStatus, ReadStream, AnnounceItem,
                AdvanceCursor
  <2>2. \A h \in Generators \ {g} : at'[h] = at[h]
    <3>1. CASE MoveKnown(g) \/ TellStatus(g)
      BY <3>1, DoneStep DEF MoveKnown, TellStatus, Goto, Comparing, Inv, Shapes
    <3>2. CASE ReadKnown(g) \/ CrashGeneration(g)
                 \/ \E k \in Streams : ReadStream(g, k) \/ AnnounceItem(g, k) \/ AdvanceCursor(g, k)
      BY ZenonT(40), <3>2
      DEF CrashGeneration, ReadKnown, ReadStream, AnnounceItem, AdvanceCursor, Goto, After, Read,
          EndGeneration, Inv, Shapes
    <3> QED
      BY <1>2, <3>1, <3>2 DEF Generate
  <2> QED
    BY <2>1, <2>2 DEF OneGeneration
<1>3. CASE UNCHANGED at
  BY <1>3 DEF OneGeneration
<1> QED
  BY <1>1, <1>2, <1>3 DEF OutboxNext, UpdateStatus, InsertItem, SettleItem, SwitchOff, SwitchOn,
       FinishSwitchOn, BotStep, RestartBot, FetchPending, SendMessage, MarkSent, MarkFailed, KeepServer,
       local, outboxVars

\* Nothing is said of a service, and no generation begins or ends to compare one.
LEMMA NothingSaid ==
  ASSUME Inv, StatusShapes, Logged, Told, Snapshots, Rising, Words,
         UNCHANGED <<known, snap, todo, before, untold>>,
         UNCHANGED log \/ \E e \in ItemEvents : log' = Append(log, e),
         UNCHANGED <<health, check>> \/ \E s \in Services : UpdateStatus(s),
         \A g \in Generators : at'[g] = at[g] \/ (at[g] # "telling" /\ at'[g] \notin Comparing)
  PROVE  Told' /\ Snapshots' /\ Rising' /\ Words'
<1>1. \A s \in Services :
        /\ check[s] \in Nat /\ check'[s] \in Nat /\ check[s] <= check'[s]
        /\ check[s] = check'[s] => health[s] = health'[s]
  BY DEF StatusShapes, UpdateStatus
<1>2. \A i \in DOMAIN log : i \in DOMAIN log' /\ log'[i] = log[i]
  BY DEF Logged
<1>3. \A i \in DOMAIN log', s \in Services : log'[i][1] = s => i \in DOMAIN log
  <2>1. CASE UNCHANGED log
    BY <2>1
  <2>2. ASSUME NEW e \in ItemEvents, log' = Append(log, e)
        PROVE  \A i \in DOMAIN log', s \in Services : log'[i][1] = s => i \in DOMAIN log
    <3>1. DOMAIN log = 1 .. Len(log) /\ DOMAIN log' = 1 .. Len(log) + 1 /\ Len(log) \in Nat
          /\ log'[Len(log) + 1] = e
      BY <2>2 DEF Logged
    <3>2. e[1] \in Streams
      BY <2>2 DEF ItemEvents
    <3> QED
      BY <3>1, <3>2, OutboxAssumption
  <2> QED
    BY <2>1, <2>2
<1>4. \A i \in DOMAIN log, s \in Services : log[i][1] = s => log[i][3] \in Nat
  <2>1. \A e \in Events, s \in Services : e[1] = s => e[3] \in Nat
    BY OutboxAssumption DEF Events, StatusEvents, ItemEvents
  <2> QED
    BY <2>1 DEF Logged
<1>5. Told'
  BY SMTT(30), <1>1, <1>2, <1>3, <1>4 DEF Told, NotNewer
<1>6. Rising'
  BY <1>2, <1>3 DEF Rising
<1>7. Snapshots'
  <2> SUFFICES ASSUME NEW g \in Generators, NEW s \in Services, at'[g] \in Comparing
               PROVE  /\ NotNewer(snap[g][s][1], snap[g][s][2], health'[s], check'[s])
                      /\ \A i \in DOMAIN log' :
                           log'[i][1] = s => NotNewer(log'[i][2], log'[i][3], snap[g][s][1], snap[g][s][2])
    BY DEF Snapshots, Comparing
  <2>1. at[g] \in Comparing
    OBVIOUS
  <2>2. snap[g][s][2] \in Nat
    <3>1. snap[g][s] \in Healths \X (0 .. MaxChanges)
      BY DEF StatusShapes
    <3> QED
      BY <3>1
  <2>3. /\ NotNewer(snap[g][s][1], snap[g][s][2], health[s], check[s])
        /\ \A i \in DOMAIN log :
             log[i][1] = s => NotNewer(log[i][2], log[i][3], snap[g][s][1], snap[g][s][2])
    BY <2>1 DEF Snapshots, Comparing
  <2>4. NotNewer(snap[g][s][1], snap[g][s][2], health'[s], check'[s])
    BY <1>1, <2>2, <2>3 DEF NotNewer
  <2> QED
    BY <1>2, <1>3, <2>3, <2>4
<1>8. \A h : \A s \in Services : LastSaid(s, h) => LastSaid(s, h)'
  BY <1>2, <1>3 DEF LastSaid
<1>9. \A g \in Generators : /\ at'[g] = "telling" <=> at[g] = "telling"
                            /\ at'[g] = "moving" => at[g] = "moving"
                            /\ Current(g)' = Current(g)
  BY DEF Comparing, Current
<1>10. \A g \in Generators : at[g] = "telling" => Current(g) \in Services
  BY CurrentIsThere DEF Comparing
<1>11. Words'
  BY <1>8, <1>9, <1>10 DEF Words
<1> QED
  BY <1>5, <1>6, <1>7, <1>11

\* A generation begins with what is there.
LEMMA StartSays ==
  ASSUME Inv, StatusShapes, Logged, Told, Snapshots, Rising, Words, OneGeneration, ~raced',
         NEW g \in Generators, StartGeneration(g)
  PROVE  Told' /\ Snapshots' /\ Rising' /\ Words'
<1>1. UNCHANGED <<health, check, known, log, before, untold>>
  BY DEF StartGeneration, world, outbox
<1>2. \A h \in Generators : at[h] = "idle"
  BY DEF StartGeneration, Generating
<1>3. \A h \in Generators \ {g} : at'[h] = "idle"
  BY <1>2 DEF StartGeneration, Goto, Read, Inv, Shapes
<1>4. at'[g] \in {"comparing", "reading"}
  BY DEF StartGeneration, Goto, Read, Inv, Shapes
<1>5. Told' /\ Rising'
  BY <1>1 DEF Told, Rising
<1>6. Words'
  BY <1>1, <1>2, <1>3, <1>4, SameLastSaid DEF Words
<1>7. Snapshots'
  <2>1. at'[g] = "comparing" => snap' = [snap EXCEPT ![g] = [s \in Services |-> <<health[s], check[s]>>]]
    BY DEF StartGeneration, Goto, Read, Inv, Shapes
  <2>2. \A s \in Services : at'[g] = "comparing" => snap'[g][s][1] = health[s] /\ snap'[g][s][2] = check[s]
    BY <2>1 DEF StatusShapes
  <2>3. \A s \in Services : check[s] \in Nat
    BY DEF StatusShapes
  <2> QED
    BY <1>1, <1>3, <1>4, <2>2, <2>3 DEF Snapshots, Told, NotNewer
<1> QED
  BY <1>5, <1>6, <1>7

\* A generation looks at the cursor of a service, and moves it.
LEMMA CompareSays ==
  ASSUME Inv, StatusShapes, Logged, Told, Snapshots, Rising, Words, OneGeneration,
         NEW g \in Generators, ReadKnown(g) \/ MoveKnown(g)
  PROVE  Told' /\ Snapshots' /\ Rising' /\ Words'
<1>1. UNCHANGED <<health, check, log, untold>> /\ at[g] \in Comparing
  BY DEF ReadKnown, MoveKnown, world, outbox, Comparing
<1>2. \A h \in Generators \ {g} : at[h] = "idle"
  BY <1>1 DEF OneGeneration, Comparing
<1>3. Told' /\ Rising'
  BY <1>1 DEF Told, Rising
<1>4. Current(g) \in Services
  BY <1>1, CurrentIsThere
<1>5. \A s \in Services : at[g] # "telling" => LastSaid(s, known[s])
  BY <1>2 DEF Words
<1>6. CASE ReadKnown(g)
  <2>1. /\ at[g] = "comparing" /\ at' = [at EXCEPT ![g] = "moving"]
        /\ before' = [before EXCEPT ![g] = known[Current(g)]] /\ UNCHANGED <<known, snap, todo>>
    BY <1>6 DEF ReadKnown, Goto, outbox
  <2>2. \A h \in Generators : at'[h] = IF h = g THEN "moving" ELSE at[h]
    BY <2>1 DEF Inv, Shapes
  <2>3. before'[g] = known'[Current(g)'] /\ Current(g)' = Current(g)
    BY <2>1 DEF StatusShapes, Current
  <2>4. Words'
    BY <1>1, <1>2, <1>5, <2>1, <2>2, <2>3, SameLastSaid DEF Words
  <2>5. Snapshots'
    BY <1>1, <1>2, <2>1, <2>2 DEF Snapshots
  <2> QED
    BY <1>3, <2>4, <2>5
<1>7. CASE MoveKnown(g)
  <2>1. PICK s \in Services, h \in Healths : s = Current(g) /\ h = snap[g][s][1]
    <3>1. snap[g][Current(g)] \in Healths \X (0 .. MaxChanges)
      BY <1>4 DEF StatusShapes
    <3> QED
      BY <1>4, <3>1
  <2>2. PICK b : b = before[g]
    OBVIOUS
  <2>3. /\ at[g] = "moving" /\ known' = [known EXCEPT ![s] = h]
        /\ b = known[s] /\ LastSaid(s, b)
    BY <1>4, <1>5, <1>7, <2>1, <2>2 DEF MoveKnown, Words
  <2>4. \A q \in Services : known'[q] = IF q = s THEN h ELSE known[q]
    BY <2>3 DEF StatusShapes
  <2>5. \A x : \A q \in Services : LastSaid(q, x) => LastSaid(q, x)'
    BY <1>1, SameLastSaid
  <2>6. \A q \in Services \ {s} : LastSaid(q, known[q])'
    <3> SUFFICES ASSUME NEW q \in Services \ {s} PROVE LastSaid(q, known[q])'
      OBVIOUS
    <3>1. LastSaid(q, known[q])
      BY <1>5, <2>3
    <3>2. known'[q] = known[q]
      BY <2>4
    <3> QED
      BY <1>1, <3>1, <3>2 DEF LastSaid
  <2>7. CASE HasChanged(g)
    <3>1. at' = [at EXCEPT ![g] = "telling"] /\ UNCHANGED <<snap, todo, before>>
      BY <1>7, <2>7 DEF MoveKnown, Goto
    <3>2. \A f \in Generators : at'[f] = IF f = g THEN "telling" ELSE at[f]
      BY <3>1 DEF Inv, Shapes
    <3>3. Current(g)' = s /\ snap'[g][s][1] = h /\ before'[g] = b /\ b \notin {Unset, h}
      BY <2>1, <2>2, <2>7, <3>1 DEF Current, HasChanged
    <3>4. LastSaid(s, b)'
      BY <2>3, <2>5
    <3>5. LastSaid(Current(g), before[g])'
      BY <3>3, <3>4 DEF LastSaid
    <3>6. known'[s] = h
      BY <2>4
    <3>7. ASSUME NEW f \in Generators, at'[f] \in {"moving", "telling"} PROVE f = g
      BY <1>2, <3>2, <3>7
    <3>8. /\ at'[g] = "telling"
          /\ known'[Current(g)'] = snap'[g][Current(g)'][1]
          /\ before'[g] \notin {Unset, snap'[g][Current(g)'][1]}
      BY <3>2, <3>3, <3>6
    <3>9. \A q \in Services : (\A f \in Generators : at'[f] = "telling" => Current(f)' # q) => q # s
      BY <3>3, <3>8
    <3>10. Words'
      BY <2>6, <3>5, <3>7, <3>8, <3>9 DEF Words
    <3>11. Snapshots'
      BY <1>1, <1>2, <2>3, <3>1, <3>2 DEF Snapshots
    <3> QED
      BY <1>3, <3>10, <3>11
  <2>8. CASE ~HasChanged(g)
    <3>1. DoneWithService(g)
      BY <1>7, <2>8 DEF MoveKnown
    <3>2. \A f \in Generators \ {g} : at'[f] = "idle"
      BY <1>1, <1>2, <3>1, DoneStep
    <3>3. at'[g] = "reading" \/ (at'[g] = "comparing" /\ snap'[g] = snap[g])
      BY <1>1, <3>1, DoneStep
    <3>4. LastSaid(s, h)
      <4>1. b = h \/ b = Unset
        BY <2>1, <2>2, <2>8 DEF HasChanged
      <4>2. \A i \in DOMAIN log : log[i][1] = s => log[i][2] \in Healths
        <5>1. \A e \in Events : e[1] = s => e[2] \in Healths
          BY OutboxAssumption DEF Events, StatusEvents, ItemEvents
        <5> QED
          BY <5>1 DEF Logged
      <4>3. b = Unset => s \in untold \/ \A i \in DOMAIN log : log[i][1] # s
        BY <2>3, <4>2, OutboxAssumption DEF LastSaid
      <4> QED
        BY <2>3, <4>1, <4>3 DEF LastSaid
    <3>5. LastSaid(s, known[s])'
      <4>1. LastSaid(s, h)' /\ known'[s] = h
        BY <2>4, <2>5, <3>4
      <4> QED
        BY <4>1 DEF LastSaid
    <3>6. \A q \in Services : LastSaid(q, known[q])'
      BY <2>6, <3>5
    <3>7. \A f \in Generators : at'[f] \notin {"moving", "telling"}
      BY <3>2, <3>3
    <3>8. Words'
      BY <3>6, <3>7 DEF Words
    <3>9. Snapshots'
      BY <1>1, <3>2, <3>3, <1>2 DEF Snapshots, Comparing
    <3> QED
      BY <1>3, <3>8, <3>9
  <2> QED
    BY <2>7, <2>8
<1> QED
  BY <1>6, <1>7

\* What is told is new: an event of the same check would have been of the same state.
LEMMA TellSays ==
  ASSUME Inv, StatusShapes, Logged, Told, Snapshots, Rising, Words, OneGeneration,
         NEW g \in Generators, TellStatus(g)
  PROVE  Told' /\ Snapshots' /\ Rising' /\ Words'
<1>1. /\ UNCHANGED <<health, check, known>> /\ at[g] = "telling" /\ at[g] \in Comparing
      /\ DoneWithService(g) /\ untold' = untold \ {Current(g)}
  BY DEF TellStatus, world, Comparing
<1>2. \A f \in Generators \ {g} : at[f] = "idle"
  BY <1>1 DEF OneGeneration
<1>3. PICK s \in Services, h \in Healths, c \in 0 .. MaxChanges :
        /\ s = Current(g) /\ h = snap[g][s][1] /\ c = snap[g][s][2]
        /\ <<s, h, c>> \in Events /\ Enqueue(<<s, h, c>>)
  BY TellLogs
<1> DEFINE e == <<s, h, c>>
<1>4. /\ LastSaid(s, before[g]) /\ known[s] = h /\ before[g] # h
      /\ \A q \in Services \ {s} : LastSaid(q, known[q])
  BY <1>1, <1>2, <1>3 DEF Words
<1>5. /\ NotNewer(h, c, health[s], check[s])
      /\ \A i \in DOMAIN log : log[i][1] = s => NotNewer(log[i][2], log[i][3], h, c)
  BY <1>1, <1>3 DEF Snapshots
<1>6. \A f \in Generators \ {g} : at'[f] = "idle"
  BY <1>1, <1>2, DoneStep
<1>7. at'[g] = "reading" \/ (at'[g] = "comparing" /\ snap'[g] = snap[g])
  BY <1>1, DoneStep
<1>8. \A i \in DOMAIN log : log[i][1] = s => log[i][3] \in Nat /\ log[i] = <<s, log[i][2], log[i][3]>>
  <2>1. \A d \in Events : d[1] = s => d[3] \in Nat /\ d = <<s, d[2], d[3]>>
    BY OutboxAssumption DEF Events, StatusEvents, ItemEvents
  <2> QED
    BY <2>1 DEF Logged
<1>9. \A j \in DOMAIN log : log[j] = e =>
        s \in untold /\ \A i \in DOMAIN log : log[i][1] = s => i <= j
  <2> SUFFICES ASSUME NEW j \in DOMAIN log, log[j] = e
               PROVE  s \in untold /\ \A i \in DOMAIN log : log[i][1] = s => i <= j
    OBVIOUS
  <2>1. log[j][1] = s /\ log[j][2] = h /\ log[j][3] = c
    OBVIOUS
  <2>2. \A i \in DOMAIN log : log[i][1] = s => i <= j
    <3> SUFFICES ASSUME NEW i \in DOMAIN log, log[i][1] = s, j < i PROVE FALSE
      BY DEF Logged
    <3>1. log[j][3] < log[i][3] /\ log[i][3] <= c /\ log[i][3] \in Nat
      BY <1>5, <1>8, <2>1 DEF Rising, NotNewer
    <3> QED
      BY <2>1, <3>1
  <2>3. s \in untold
    <3> SUFFICES ASSUME s \notin untold PROVE FALSE
      OBVIOUS
    <3>1. PICK i \in DOMAIN log : log[i][1] = s /\ log[i][2] = before[g]
                                  /\ \A m \in DOMAIN log : log[m][1] = s => m <= i
      BY <1>4, <2>1 DEF LastSaid
    <3>2. i \in Nat /\ j \in Nat /\ i <= j /\ j <= i
      BY <2>1, <2>2, <3>1 DEF Logged
    <3> QED
      BY <1>4, <2>1, <3>1, <3>2
  <2> QED
    BY <2>2, <2>3
<1>10. CASE event[e] # "none"
  <2>1. PICK j \in DOMAIN log : log[j] = e
    BY <1>3, <1>10 DEF Logged
  <2>2. UNCHANGED log
    BY <1>3, <1>10 DEF Enqueue
  <2>3. Told' /\ Rising'
    BY <1>1, <2>2 DEF Told, Rising
  <2>4. \A q \in Services : LastSaid(q, known[q])'
    <3>1. log[j][1] = s /\ log[j][2] = h
      BY <2>1
    <3>2. LastSaid(s, known[s])'
      BY <1>1, <1>4, <1>9, <2>1, <2>2, <3>1 DEF LastSaid
    <3>3. ASSUME NEW q \in Services, q # s PROVE LastSaid(q, known[q])'
      BY <1>1, <1>3, <1>4, <2>2, <3>3 DEF LastSaid
    <3> QED
      BY <3>2, <3>3
  <2>5. Words'
    BY <1>6, <1>7, <2>4 DEF Words
  <2>6. Snapshots'
    BY <1>1, <1>6, <1>7, <2>2 DEF Snapshots
  <2> QED
    BY <2>3, <2>5, <2>6
<1>11. CASE event[e] = "none"
  <2> DEFINE n == Len(log) + 1
  <2>1. /\ n \in Nat \ {0} /\ DOMAIN log = 1 .. n - 1 /\ DOMAIN log' = 1 .. n
        /\ \A i \in DOMAIN log : log'[i] = log[i]
        /\ log'[n] = e /\ \A i \in DOMAIN log : log[i] # e
    <3> HIDE DEF e
    <3> QED
      BY <1>3, <1>11, Appended DEF e
  <2> HIDE DEF n
  <2>2. log'[n][1] = s /\ log'[n][2] = h /\ log'[n][3] = c
    BY <2>1
  <2>3. \A i \in DOMAIN log : log[i][1] = s => log[i][3] < c
    <3> SUFFICES ASSUME NEW i \in DOMAIN log, log[i][1] = s PROVE log[i][3] < c
      OBVIOUS
    <3>1. log[i][3] \in Nat /\ log[i][3] <= c /\ (log[i][3] = c => log[i][2] = h)
      BY <1>5, <1>8 DEF NotNewer
    <3>2. log[i][3] # c
      BY <1>8, <2>1, <3>1
    <3> QED
      BY <3>1, <3>2
  <2>4. \A i \in DOMAIN log' : i # n => i \in DOMAIN log /\ log'[i] = log[i] /\ i < n
    BY <2>1
  <2>5. Told'
    BY <1>1, <1>5, <2>2, <2>4 DEF Told
  <2>6. Rising'
    <3> SUFFICES ASSUME NEW i \in DOMAIN log', NEW j \in DOMAIN log', NEW q \in Services,
                        log'[i][1] = q, log'[j][1] = q, i < j
                 PROVE  log'[i][3] < log'[j][3]
      BY DEF Rising
    <3>1. i # n
      BY <2>1
    <3>2. CASE j = n
      BY <2>2, <2>3, <2>4, <3>1, <3>2
    <3>3. CASE j # n
      BY <2>4, <3>1, <3>3 DEF Rising
    <3> QED
      BY <3>2, <3>3
  <2>7. \A q \in Services : LastSaid(q, known[q])'
    <3>1. LastSaid(s, known[s])'
      <4>1. \A j \in DOMAIN log' : j <= n
        BY <2>1
      <4>2. n \in DOMAIN log'
        BY <2>1
      <4> QED
        BY <1>1, <1>4, <2>2, <4>1, <4>2 DEF LastSaid
    <3>2. ASSUME NEW q \in Services, q # s PROVE LastSaid(q, known[q])'
      <4>1. \A i \in DOMAIN log' : log'[i][1] = q => i \in DOMAIN log
        BY <2>2, <2>4, <3>2
      <4>2. \A i \in DOMAIN log : i \in DOMAIN log' /\ log'[i] = log[i]
        BY <2>1
      <4>3. LastSaid(q, known[q]) /\ (q \in untold => q \in untold')
        BY <1>1, <1>3, <1>4, <3>2
      <4> QED
        BY <1>1, <4>1, <4>2, <4>3 DEF LastSaid
    <3> QED
      BY <3>1, <3>2
  <2>8. Words'
    BY <1>6, <1>7, <2>7 DEF Words
  <2>9. Snapshots'
    <3> SUFFICES ASSUME NEW q \in Services, at'[g] = "comparing"
                 PROVE  /\ NotNewer(snap[g][q][1], snap[g][q][2], health[q], check[q])
                        /\ \A i \in DOMAIN log' :
                             log'[i][1] = q => NotNewer(log'[i][2], log'[i][3], snap[g][q][1], snap[g][q][2])
      BY <1>1, <1>6, <1>7 DEF Snapshots
    <3>1. /\ NotNewer(snap[g][q][1], snap[g][q][2], health[q], check[q])
          /\ \A i \in DOMAIN log :
               log[i][1] = q => NotNewer(log[i][2], log[i][3], snap[g][q][1], snap[g][q][2])
      BY <1>1 DEF Snapshots
    <3>2. NotNewer(h, c, h, c)
      BY DEF NotNewer
    <3> QED
      BY <1>3, <2>2, <2>4, <3>1, <3>2
  <2> QED
    BY <2>5, <2>6, <2>8, <2>9
<1> QED
  BY <1>10, <1>11

\* A death loses what was about to be told, and nothing else.
LEMMA DeathSays ==
  ASSUME Inv, StatusShapes, Logged, Told, Snapshots, Rising, Words, OneGeneration,
         NEW g \in Generators, CrashGeneration(g)
  PROVE  Told' /\ Snapshots' /\ Rising' /\ Words'
<1>1. /\ UNCHANGED <<health, check, known, log>> /\ at[g] # "idle"
      /\ at' = [at EXCEPT ![g] = "idle"]
      /\ untold' = IF at[g] = "telling" THEN untold \union {Current(g)} ELSE untold
  BY DEF CrashGeneration, EndGeneration, world, outbox
<1>2. \A h \in Generators : at'[h] = "idle"
  BY <1>1 DEF OneGeneration, Inv, Shapes
<1>3. Told' /\ Rising' /\ Snapshots'
  BY <1>1, <1>2 DEF Told, Rising, Snapshots
<1>4. ASSUME NEW s \in Services PROVE LastSaid(s, known[s])'
  <2>1. CASE at[g] = "telling" /\ Current(g) = s
    BY <1>1, <2>1 DEF LastSaid
  <2>2. CASE ~(at[g] = "telling" /\ Current(g) = s)
    <3>1. LastSaid(s, known[s])
      BY <1>1, <2>2 DEF OneGeneration, Words
    <3>2. s \in untold => s \in untold'
      BY <1>1
    <3> QED
      BY <1>1, <3>1, <3>2 DEF LastSaid
  <2> QED
    BY <2>1, <2>2
<1>5. Words'
  BY <1>2, <1>4 DEF Words
<1> QED
  BY <1>3, <1>5

\* What is told, after every step.
LEMMA WordsStep ==
  ASSUME Inv, StatusShapes, Logged, WordsInv, [OutboxNext]_outboxVars
  PROVE  WordsInv'
<1> SUFFICES ASSUME ~raced'
             PROVE  OneGeneration' /\ Told' /\ Snapshots' /\ Rising' /\ Words'
  BY DEF WordsInv
<1>1. OneGeneration /\ Told /\ Snapshots /\ Rising /\ Words
  BY OverlapStays DEF WordsInv
<1>2. OneGeneration'
  BY <1>1, OneGenerationStep
<1>3. CASE \/ \E s \in Services : UpdateStatus(s)
           \/ \E k \in Streams : InsertItem(k) \/ \E n \in ItemIds : SettleItem(k, n)
           \/ SwitchOff \/ SwitchOn \/ FinishSwitchOn \/ BotStep \/ RestartBot \/ UNCHANGED outboxVars
  <2>1. UNCHANGED <<known, snap, todo, before, log, at, untold>>
    BY <1>3 DEF UpdateStatus, InsertItem, SettleItem, SwitchOff, SwitchOn, FinishSwitchOn, BotStep,
                RestartBot, FetchPending, SendMessage, MarkSent, MarkFailed, Mark, KeepServer, outboxVars,
                outbox, local
  <2>2. UNCHANGED <<health, check>> \/ \E s \in Services : UpdateStatus(s)
    BY <1>3 DEF InsertItem, SettleItem, SwitchOff, SwitchOn, FinishSwitchOn, BotStep, RestartBot,
                FetchPending, SendMessage, MarkSent, MarkFailed, KeepServer, outboxVars, world
  <2> QED
    BY <1>1, <1>2, <2>1, <2>2, NothingSaid
<1>4. ASSUME NEW g \in Generators, NEW k \in Streams,
             ReadStream(g, k) \/ AnnounceItem(g, k) \/ AdvanceCursor(g, k)
      PROVE  Told' /\ Snapshots' /\ Rising' /\ Words'
  <2>1. UNCHANGED <<health, check, known, snap, todo, before, untold>>
    BY <1>4 DEF ReadStream, AnnounceItem, AdvanceCursor, world, outbox
  <2>2. UNCHANGED log \/ \E e \in ItemEvents : log' = Append(log, e)
    <3>1. CASE ReadStream(g, k) \/ AdvanceCursor(g, k)
      BY <3>1 DEF ReadStream, AdvanceCursor, outbox
    <3>2. CASE AnnounceItem(g, k)
      <4>1. \A n \in batch[g] : <<k, n>> \in ItemEvents
        BY DEF Inv, Shapes, ItemEvents
      <4> QED
        BY <3>2, <4>1 DEF AnnounceItem, Enqueue
    <3> QED
      BY <1>4, <3>1, <3>2
  <2>3. /\ at[g] \in {"reading", "announcing", "advancing"}
        /\ \/ at' = at
           \/ \E q \in {"idle", "reading", "announcing", "advancing"} : at' = [at EXCEPT ![g] = q]
    BY <1>4 DEF ReadStream, AnnounceItem, AdvanceCursor, After, Read, EndGeneration, Goto
  <2>4. \A f \in Generators : at'[f] = at[f] \/ (at[f] # "telling" /\ at'[f] \notin Comparing)
    BY <2>3 DEF Inv, Shapes, Comparing
  <2> QED
    BY <1>1, <2>1, <2>2, <2>4, NothingSaid
<1>5. ASSUME NEW g \in Generators, StartGeneration(g)
      PROVE  Told' /\ Snapshots' /\ Rising' /\ Words'
  BY <1>1, <1>5, StartSays
<1>6. ASSUME NEW g \in Generators, ReadKnown(g) \/ MoveKnown(g) \/ TellStatus(g)
      PROVE  Told' /\ Snapshots' /\ Rising' /\ Words'
  BY <1>1, <1>6, CompareSays, TellSays
<1>7. ASSUME NEW g \in Generators, CrashGeneration(g)
      PROVE  Told' /\ Snapshots' /\ Rising' /\ Words'
  BY <1>1, <1>7, DeathSays
<1> QED
  BY <1>2, <1>3, <1>4, <1>5, <1>6, <1>7 DEF OutboxNext, Generate

-----------------------------------------------------------------------------
(* The transactions from before a switch.                                    *)

\* A switch is seeded with the largest id, and its cursor is the new baseline.
LEMMA SwitchNews ==
  ASSUME Inv, StatusShapes, NewsInv, ~raced', SwitchOn \/ FinishSwitchOn
  PROVE  NewsInv'
<1>1. /\ baseline["transactions"] \in Nat /\ Newest("transactions") \in Nat
      /\ baseline["transactions"] <= Newest("transactions")
  BY Transactions DEF Inv, Shapes, Prefix, Baselines
<1>2. UNCHANGED <<at, stream, batch, last>>
  BY DEF SwitchOn, FinishSwitchOn, local
<1>3. CASE SwitchOn
  <2>1. /\ ~raced /\ (\A g \in Generators : at[g] = "idle")
        /\ UNCHANGED <<baseline, cursor>> /\ seed' = Newest("transactions")
    BY <1>3 DEF SwitchOn, Generating, outbox
  <2> QED
    BY <1>1, <1>2, <2>1 DEF NewsInv, OneGeneration
<1>4. CASE FinishSwitchOn
  <2>1. /\ ~raced /\ seed # Unset /\ seed' = Unset
        /\ cursor' = [cursor EXCEPT !["transactions"] = seed]
        /\ baseline' = [baseline EXCEPT !["transactions"] = Larger(@, seed)]
    BY <1>4 DEF FinishSwitchOn, SeedBaseline, MoveTo, PassOver
  <2>2. /\ baseline["transactions"] <= seed /\ (\A g \in Generators : at[g] = "idle")
        /\ seed \in Nat
    BY <2>1 DEF NewsInv, Inv, Shapes
  <2>3. baseline'["transactions"] = seed /\ cursor'["transactions"] = seed
    BY <1>1, <2>1, <2>2, Transactions DEF Larger, Inv, Shapes
  <2> QED
    BY <1>2, <2>1, <2>2, <2>3 DEF NewsInv, OneGeneration
<1> QED
  BY <1>3, <1>4

\* A generation that reads, announces or advances stays above the baseline.
LEMMA StreamNews ==
  ASSUME Inv, StatusShapes, NewsInv, ~raced', OneGeneration',
         NEW g \in Generators, NEW k \in Streams,
         ReadStream(g, k) \/ AnnounceItem(g, k) \/ AdvanceCursor(g, k)
  PROVE  NewsInv'
<1> DEFINE t == "transactions"
<1>1. /\ baseline[t] \in Nat /\ Newest(t) \in Nat /\ baseline[t] <= Newest(t) /\ t \in Streams
  BY Transactions DEF Inv, Shapes, Prefix, Baselines
<1>2. ~raced /\ at[g] # "idle" /\ stream[g] = k /\ seed' = seed
  BY DEF ReadStream, AnnounceItem, AdvanceCursor, settings, history
<1>3. /\ seed = Unset /\ \A h \in Generators \ {g} : at[h] = "idle"
      /\ cursor[t] # Unset => baseline[t] <= cursor[t]
  BY <1>2 DEF NewsInv, OneGeneration
<1>4. \A h \in Generators \ {g} : at'[h] = "idle"
  BY <1>3 DEF ReadStream, AnnounceItem, AdvanceCursor, After, Read, EndGeneration, Goto, Inv, Shapes
<1> DEFINE Above == stream'[g] = t => /\ at'[g] = "announcing" => \A n \in batch'[g] : baseline'[t] < n
                                      /\ at'[g] = "advancing" => baseline'[t] <= last'[g]
           Moved == cursor'[t] # Unset => baseline'[t] <= cursor'[t]
<1>5. ASSUME Above, Moved PROVE NewsInv'
  <2>1. seed' = Unset
    BY <1>2, <1>3
  <2>2. ASSUME NEW h \in Generators, stream'[h] = t
        PROVE  /\ at'[h] = "announcing" => \A n \in batch'[h] : baseline'[t] < n
               /\ at'[h] = "advancing" => baseline'[t] <= last'[h]
    <3>1. CASE h = g
      BY <1>5, <2>2, <3>1
    <3>2. CASE h # g
      BY <1>4, <3>2
    <3> QED
      BY <3>1, <3>2
  <2> QED
    BY <1>5, <2>1, <2>2 DEF NewsInv
<1>6. CASE ReadStream(g, k)
  <2>1. cursor' = cursor
    BY <1>6 DEF ReadStream, outbox
  <2>2. CASE After(g, k) /\ UNCHANGED baseline
    <3>1. Above
      BY <2>2 DEF After, Read, EndGeneration, Inv, Shapes
    <3>2. Moved
      BY <1>3, <2>1, <2>2
    <3> HIDE DEF Above, Moved
    <3> QED
      BY <1>5, <3>1, <3>2
  <2>3. CASE cursor[k] = Unset /\ Goto(g, "advancing") /\ PassOver(k, Newest(k))
             /\ last' = [last EXCEPT ![g] = Newest(k)]
    <3>1. CASE k = t
      <4>1. baseline'[t] = Newest(t) /\ last'[g] = Newest(t)
        BY <1>1, <2>3, <3>1 DEF PassOver, Larger, Inv, Shapes
      <4>2. Above
        BY <1>1, <2>3, <4>1 DEF Goto, Inv, Shapes
      <4> QED
        BY <1>5, <2>1, <2>3, <3>1, <4>2
    <3>2. CASE k # t
      <4>1. baseline'[t] = baseline[t] /\ stream'[g] # t
        BY <1>1, <1>2, <2>3, <3>2 DEF PassOver, Goto, Inv, Shapes
      <4> QED
        BY <1>3, <1>5, <2>1, <4>1
    <3> QED
      BY <3>1, <3>2
  <2>4. CASE cursor[k] # Unset /\ Goto(g, "announcing") /\ UNCHANGED baseline
             /\ batch' = [batch EXCEPT ![g] = Beyond(k)]
    <3>1. k = t => \A n \in Beyond(k) : baseline[t] < n
      <4>1. k = t => cursor[t] \in Nat /\ baseline[t] <= cursor[t]
        BY <1>1, <1>3, <2>4 DEF Inv, Shapes
      <4> QED
        BY <1>1, <4>1 DEF Beyond, ItemIds
    <3>2. Above
      BY <1>2, <2>4, <3>1 DEF Goto, Inv, Shapes
    <3> QED
      BY <1>3, <1>5, <2>1, <2>4, <3>2
  <2> QED
    BY <1>6, <2>2, <2>3, <2>4 DEF ReadStream
<1>7. CASE AnnounceItem(g, k)
  <2>1. UNCHANGED <<cursor, baseline>>
    BY <1>7 DEF AnnounceItem
  <2>2. PICK n \in batch[g] :
          /\ batch' = [batch EXCEPT ![g] = @ \ {n}] /\ last' = [last EXCEPT ![g] = n]
          /\ IF batch[g] = {n} THEN Goto(g, "advancing") ELSE UNCHANGED <<at, stream>>
    BY <1>7 DEF AnnounceItem
  <2>3. stream[g] = t => \A i \in batch[g] : baseline[t] < i
    BY <1>2, <1>7 DEF NewsInv, AnnounceItem
  <2>4. n \in Nat /\ stream'[g] = stream[g] /\ batch'[g] \subseteq batch[g] /\ last'[g] = n
    BY <2>2 DEF Inv, Shapes, ItemIds, Goto
  <2>5. Above
    BY <1>1, <2>1, <2>3, <2>4
  <2> QED
    BY <1>3, <1>5, <2>1, <2>5
<1>8. CASE AdvanceCursor(g, k)
  <2>1. /\ UNCHANGED baseline /\ After(g, k) /\ cursor' = [cursor EXCEPT ![k] = last[g]]
        /\ at[g] = "advancing"
    BY <1>8 DEF AdvanceCursor, MoveTo, LargestSeen, history
  <2>2. k = t => baseline[t] <= last[g]
    BY <1>2, <2>1 DEF NewsInv
  <2>3. cursor'[t] # Unset => baseline[t] <= cursor'[t]
    BY <1>1, <1>3, <2>1, <2>2 DEF Inv, Shapes
  <2>4. Above
    BY <2>1 DEF After, Read, EndGeneration, Inv, Shapes
  <2> QED
    BY <1>5, <2>1, <2>3, <2>4
<1> QED
  BY <1>6, <1>7, <1>8

\* What is above the baseline, after every step.
LEMMA NewsStep ==
  ASSUME Inv, Inv', StatusShapes, NewsInv, [OutboxNext]_outboxVars
  PROVE  NewsInv'
<1> SUFFICES ASSUME ~raced' PROVE NewsInv'
  BY DEF NewsInv
<1>1. ~raced /\ OneGeneration /\ OneGeneration'
  BY OverlapStays, OneGenerationStep DEF NewsInv
<1>2. CASE SwitchOn \/ FinishSwitchOn
  BY <1>2, SwitchNews
<1>3. CASE \E g \in Generators, k \in Streams :
             ReadStream(g, k) \/ AnnounceItem(g, k) \/ AdvanceCursor(g, k)
  BY <1>1, <1>3, StreamNews
<1>4. ASSUME NEW g \in Generators,
             StartGeneration(g) \/ ReadKnown(g) \/ MoveKnown(g) \/ TellStatus(g) \/ CrashGeneration(g)
      PROVE  NewsInv'
  <2>1. UNCHANGED <<baseline, cursor, seed>>
    BY <1>4 DEF StartGeneration, ReadKnown, MoveKnown, TellStatus, CrashGeneration, outbox, settings,
                history
  <2>2. seed = Unset
    <3>1. CASE StartGeneration(g)
      BY <3>1 DEF StartGeneration
    <3>2. CASE at[g] # "idle"
      BY <1>1, <3>2 DEF NewsInv
    <3> QED
      BY <1>4, <3>1, <3>2 DEF ReadKnown, MoveKnown, TellStatus, CrashGeneration
  <2>3. at'[g] \notin {"announcing", "advancing"} /\ \A h \in Generators \ {g} : at'[h] = at[h]
    <3>1. CASE MoveKnown(g) \/ TellStatus(g)
      <4>1. at[g] \in Comparing
        BY <3>1 DEF MoveKnown, TellStatus, Comparing
      <4> QED
        BY <3>1, <4>1, DoneStep DEF MoveKnown, TellStatus, Goto, Inv, Shapes
    <3>2. CASE StartGeneration(g) \/ ReadKnown(g) \/ CrashGeneration(g)
      BY <3>2 DEF StartGeneration, ReadKnown, CrashGeneration, Goto, Read, EndGeneration, Inv, Shapes
    <3> QED
      BY <1>4, <3>1, <3>2
  <2>4. \A h \in Generators \ {g} : at'[h] = "idle"
    <3>1. CASE StartGeneration(g)
      BY <2>3, <3>1 DEF StartGeneration, Generating
    <3>2. CASE at[g] # "idle"
      BY <1>1, <2>3, <3>2 DEF OneGeneration
    <3> QED
      BY <1>4, <3>1, <3>2 DEF ReadKnown, MoveKnown, TellStatus, CrashGeneration
  <2> QED
    BY <1>1, <2>1, <2>2, <2>3, <2>4 DEF NewsInv
<1>5. CASE \/ \E s \in Services : UpdateStatus(s)
           \/ \E k \in Streams : InsertItem(k) \/ \E n \in ItemIds : SettleItem(k, n)
           \/ SwitchOff \/ BotStep \/ RestartBot \/ UNCHANGED outboxVars
  <2>1. UNCHANGED <<baseline, cursor, seed, local>>
    BY <1>5 DEF UpdateStatus, InsertItem, SettleItem, SwitchOff, BotStep, RestartBot, FetchPending,
                SendMessage, MarkSent, MarkFailed, Mark, KeepServer, outboxVars, outbox, settings, history
  <2> QED
    BY <1>1, <2>1 DEF NewsInv, local
<1> QED
  BY <1>2, <1>3, <1>4, <1>5 DEF OutboxNext, Generate

\* What a step announces is above the baseline.
LEMMA NewsAreNew ==
  ASSUME Inv, StatusShapes, Logged, Deliveries, NewsInv, [OutboxNext]_outboxVars, NEW n \in ItemIds,
         event[<<"transactions", n>>] = "none", event'[<<"transactions", n>>] # "none"
  PROVE  n > baseline["transactions"] \/ raced
<1> DEFINE e == <<"transactions", n>>
<1>1. e \in Events /\ "transactions" \notin Services
  BY Transactions, OutboxAssumption DEF Events, ItemEvents
<1>2. ASSUME NEW d \in Events, Enqueue(d) PROVE d = e
  <2> HIDE DEF e
  <2>1. event[e] = "none" /\ event'[e] # "none"
    BY DEF e
  <2> QED
    BY <1>1, <1>2, <2>1 DEF Enqueue, Inv, Shapes
<1>3. ASSUME NEW g \in Generators, TellStatus(g) PROVE FALSE
  <2>1. PICK s \in Services, h \in Healths, c \in 0 .. MaxChanges :
          <<s, h, c>> \in Events /\ Enqueue(<<s, h, c>>)
    BY <1>3, TellLogs
  <2>2. <<s, h, c>> = e
    BY <1>2, <2>1
  <2>3. <<s, h, c>>[1] = s /\ e[1] = "transactions"
    OBVIOUS
  <2> QED
    BY <1>1, <2>2, <2>3
<1>4. ASSUME NEW g \in Generators, NEW k \in Streams, AnnounceItem(g, k)
      PROVE  n > baseline["transactions"] \/ raced
  <2>1. PICK m \in batch[g] : Enqueue(<<k, m>>) \/ UNCHANGED event
    BY <1>4 DEF AnnounceItem
  <2>2. m \in ItemIds /\ <<k, m>> \in Events
    BY <2>1 DEF Inv, Shapes, Events, ItemEvents
  <2>3. <<k, m>> = e
    BY <1>2, <2>1, <2>2
  <2>4. k = "transactions" /\ m = n
    BY <2>3
  <2>5. ~raced => baseline["transactions"] < n
    BY <1>4, <2>1, <2>4 DEF AnnounceItem, NewsInv
  <2>6. baseline["transactions"] \in Nat /\ n \in Nat
    BY Transactions DEF Inv, Shapes, ItemIds
  <2> QED
    BY <2>5, <2>6
<1>5. ASSUME NEW i \in inbox, MarkSent(i) \/ MarkFailed(i) PROVE FALSE
  <2>1. i \in DOMAIN log /\ log[i] \in Events /\ event[log[i]] # "none"
    BY DEF Logged, Deliveries
  <2>2. UNCHANGED event \/ \E v \in {"sent", "failed"} : Mark(log[i], v)
    BY <1>5 DEF MarkSent, MarkFailed, outbox
  <2> HIDE DEF e
  <2>3. event[e] = "none" /\ event'[e] # "none"
    BY DEF e
  <2> QED
    BY <1>1, <2>1, <2>2, <2>3 DEF Mark, Inv, Shapes
<1> QED
  BY <1>3, <1>4, <1>5 DEF OutboxNext, UpdateStatus, InsertItem, SettleItem, SwitchOff, SwitchOn,
       FinishSwitchOn, StartGeneration, Generate, CrashGeneration, ReadKnown, MoveKnown, ReadStream,
       AdvanceCursor, BotStep, RestartBot, FetchPending, SendMessage, KeepServer, outboxVars, outbox

-----------------------------------------------------------------------------

AllInv == Inv /\ StatusShapes /\ Logged /\ Deliveries /\ WordsInv /\ NewsInv

\* Nothing is told at first.
LEMMA NothingToldYet == ASSUME OutboxInit PROVE AllInv
<1>1. Inv
  BY NothingYet
<1>2. StatusShapes
  <2>1. Nothing \in [Services -> Healths \X (0 .. MaxChanges)]
    BY OutboxAssumption DEF Nothing, Healths
  <2>2. outboxCast \in OutboxCasts /\ changes \in 0 .. outboxCast.changes
    <3>1. \A c \in OutboxCasts : c.changes \in Nat
      BY OutboxAssumption DEF OutboxCastType
    <3> QED
      BY <3>1 DEF OutboxInit
  <2>3. health \in [Services -> Healths] /\ check \in [Services -> Nat] /\ changes = 0
        /\ \A s \in Services : check[s] = 0
    BY DEF OutboxInit, Healths
  <2>4. /\ known \in [Services -> Healths \union {Unset}]
        /\ snap \in [Generators -> [Services -> Healths \X (0 .. MaxChanges)]]
        /\ todo \in [Generators -> SUBSET Services]
        /\ before \in [Generators -> Healths \union {Unset}]
    BY <2>1 DEF OutboxInit
  <2>5. raced \in BOOLEAN /\ crashes \in Nat /\ \A g \in Generators : at[g] = "idle"
    BY DEF OutboxInit
  <2> QED
    BY <2>2, <2>3, <2>4, <2>5 DEF StatusShapes
<1>3. Logged /\ Deliveries
  BY DEF OutboxInit, Logged, Deliveries, DeliveredOnce
<1>4. /\ DOMAIN log = {} /\ seed = Unset /\ \A g \in Generators : at[g] = "idle"
      /\ \A k \in Streams : cursor[k] = Unset
  BY DEF OutboxInit
<1>5. WordsInv
  BY <1>4 DEF WordsInv, OneGeneration, Told, Snapshots, Rising, Words, LastSaid
<1>6. NewsInv
  BY <1>4, Transactions DEF NewsInv, OneGeneration
<1> QED
  BY <1>1, <1>2, <1>3, <1>5, <1>6 DEF AllInv

\* Every step keeps the invariant.
LEMMA AllInvStep == AllInv /\ [OutboxNext]_outboxVars => AllInv'
<1> SUFFICES ASSUME AllInv, [OutboxNext]_outboxVars PROVE AllInv'
  OBVIOUS
<1>1. Inv'
  BY OtherSteps, StatusSteps, InsertStep, SettleStep, SwitchSteps, ReadStep, AnnounceStep,
     AdvanceStep DEF OutboxNext, Generate, AllInv
<1> QED
  BY <1>1, ShapesStep, DeliveryStep, WordsStep, NewsStep DEF AllInv

\* A message comes twice only at the cost of a fault, and the mark of an event is true,
\* for any number of events, generations and faults and any size of a fetch.
THEOREM DeliveredAndMarked == OutboxSpec => []DeliveredOnce
<1>1. AllInv => DeliveredOnce
  BY DEF AllInv, Deliveries
<1> QED
  BY <1>1, NothingToldYet, AllInvStep, PTL DEF OutboxSpec

\* What was said last of a service is the state that its cursor has, unless generations
\* overlapped, one is about to say more, or one died when it was about to and no other
\* has spoken since.
THEOREM TheLastWord == OutboxSpec => []LastWord
<1>1. AllInv => LastWord
  <2> SUFFICES ASSUME AllInv, ~raced, \A g \in Generators : at[g] # "telling",
                      NEW s \in Services \ untold, NEW i \in DOMAIN log, log[i][1] = s,
                      \A j \in DOMAIN log : log[j][1] = s => j <= i
               PROVE  log[i][2] = known[s]
    BY DEF LastWord
  <2>1. LastSaid(s, known[s])
    BY DEF AllInv, WordsInv, Words
  <2>2. PICK m \in DOMAIN log : log[m][1] = s /\ log[m][2] = known[s]
                                /\ \A j \in DOMAIN log : log[j][1] = s => j <= m
    BY <2>1 DEF LastSaid
  <2>3. i \in Nat /\ m \in Nat /\ i <= m /\ m <= i
    BY <2>2 DEF AllInv, Logged
  <2> QED
    BY <2>2, <2>3
<1> QED
  BY <1>1, NothingToldYet, AllInvStep, PTL DEF OutboxSpec

\* No transaction from before the switch-on is announced, unless generations overlapped
\* one another or the switch.
THEOREM OldNewsAreNotTold == OutboxSpec => NoOldNews
<1>1. AllInv /\ [OutboxNext]_outboxVars =>
        [\A n \in ItemIds :
           event[<<"transactions", n>>] = "none" /\ event'[<<"transactions", n>>] # "none" =>
             n > baseline["transactions"] \/ raced]_outboxVars
  BY NewsAreNew DEF AllInv
<1> QED
  BY <1>1, NothingToldYet, AllInvStep, PTL DEF OutboxSpec, NoOldNews

-----------------------------------------------------------------------------
\* The types of what decides nothing of the above.
HistoryShapes == watching \in BOOLEAN /\ late \subseteq ItemEvents /\ skipped \subseteq ItemEvents
                 /\ untold \subseteq Services

\* An item that is settled or announced is one of its stream.
LEMMA HistoryStep ==
  ASSUME Inv, StatusShapes, HistoryShapes, [OutboxNext]_outboxVars
  PROVE  HistoryShapes'
<1>1. ASSUME NEW k \in Streams, NEW n \in ItemIds, SettleItem(k, n) PROVE HistoryShapes'
  BY <1>1 DEF SettleItem, HistoryShapes, ItemEvents, bot, settings
<1>2. ASSUME NEW g \in Generators, NEW k \in Streams, AnnounceItem(g, k) PROVE HistoryShapes'
  <2>1. batch[g] \subseteq ItemIds
    BY DEF Inv, Shapes
  <2>2. \A n \in batch[g] : <<k, n>> \in ItemEvents
    BY <2>1 DEF ItemEvents
  <2>3. UNCHANGED <<watching, late, untold>>
    BY <1>2 DEF AnnounceItem, settings
  <2>4. skipped' = skipped \/ \E n \in batch[g] : skipped' = skipped \union {<<k, n>>}
    BY <1>2 DEF AnnounceItem
  <2> QED
    BY <2>2, <2>3, <2>4 DEF HistoryShapes
<1>3. CASE SwitchOff \/ SwitchOn \/ FinishSwitchOn
  BY <1>3 DEF SwitchOff, SwitchOn, FinishSwitchOn, HistoryShapes, history
<1>4. CASE \/ \E s \in Services : UpdateStatus(s)
           \/ \E k \in Streams : InsertItem(k)
           \/ BotStep \/ RestartBot
  BY <1>4 DEF UpdateStatus, InsertItem, BotStep, FetchPending, SendMessage, MarkSent, MarkFailed,
              RestartBot, KeepServer, HistoryShapes, history, settings
<1>5. ASSUME NEW g \in Generators,
             \/ StartGeneration(g) \/ CrashGeneration(g)
             \/ ReadKnown(g) \/ MoveKnown(g) \/ TellStatus(g)
             \/ \E k \in Streams : ReadStream(g, k) \/ AdvanceCursor(g, k)
      PROVE  HistoryShapes'
  <2>1. UNCHANGED <<watching, late, skipped>>
    BY <1>5 DEF StartGeneration, CrashGeneration, ReadKnown, MoveKnown, TellStatus, ReadStream,
                AdvanceCursor, history, settings
  <2>2. \/ untold' \subseteq untold
        \/ at[g] = "telling" /\ untold' = untold \union {Current(g)}
    BY <1>5 DEF StartGeneration, CrashGeneration, ReadKnown, MoveKnown, TellStatus, ReadStream,
                AdvanceCursor
  <2>3. at[g] = "telling" => Current(g) \in Services
    BY CurrentIsThere DEF Comparing
  <2> QED
    BY <2>1, <2>2, <2>3 DEF HistoryShapes
<1>6. CASE UNCHANGED outboxVars
  BY <1>6 DEF outboxVars, HistoryShapes, history, settings
<1> QED
  BY <1>1, <1>2, <1>3, <1>4, <1>5, <1>6 DEF OutboxNext, Generate

\* Every variable of Notifications has its type.
THEOREM OutboxTypes == OutboxSpec => []OutboxTypeOK
<1>1. OutboxInit => HistoryShapes
  BY DEF OutboxInit, HistoryShapes
<1>2. AllInv /\ HistoryShapes /\ [OutboxNext]_outboxVars => HistoryShapes'
  BY HistoryStep DEF AllInv
<1>3. AllInv /\ HistoryShapes => OutboxTypeOK
  <2> SUFFICES ASSUME AllInv, HistoryShapes PROVE OutboxTypeOK
    OBVIOUS
  <2>1. changes \in 0 .. MaxChanges
    <3>1. outboxCast.changes \in 0 .. MaxChanges /\ MaxChanges \in Nat
      BY OutboxAssumption DEF AllInv, StatusShapes, OutboxCastType
    <3> QED
      BY <3>1 DEF AllInv, StatusShapes
  <2>2. check \in [Services -> 0 .. MaxChanges]
    <3>1. \A s \in Services : check[s] \in Nat /\ check[s] <= changes
      BY DEF AllInv, StatusShapes
    <3>2. \A s \in Services : check[s] \in 0 .. MaxChanges
      BY <2>1, <3>1, OutboxAssumption
    <3> QED
      BY <3>2 DEF AllInv, StatusShapes
  <2> QED
    BY <2>1, <2>2 DEF AllInv, Inv, Shapes, StatusShapes, Logged, Deliveries, HistoryShapes,
                      OutboxTypeOK
<1> QED
  BY <1>1, <1>2, <1>3, NothingToldYet, AllInvStep, PTL DEF OutboxSpec
===============================================================================
