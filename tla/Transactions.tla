----------------------------- MODULE Transactions -----------------------------
(***************************************************************************)
(* The saving of transactions: TransactionService.refresh_transactions,    *)
(* app/services/transaction_service.py, over TransactionRepository,        *)
(* app/repositories/balance.py, on PostgreSQL.                             *)
(*                                                                         *)
(* A refresh fetches the transactions of an integration and saves them as  *)
(* one batch in one database transaction.  Every look-up flushes what was  *)
(* added before it, so that a row another refresh has inserted meanwhile   *)
(* is met at a look-up or at the commit: at the commit the batch is saved  *)
(* again one by one; at a look-up the session is lost.  A writer waits for *)
(* the transaction that holds its row.                                     *)
(*                                                                         *)
(* One integration; its transactions are numbered in the order in which    *)
(* every answer lists them.  enable_ccxt_singleflight is off, its default. *)
(***************************************************************************)
EXTENDS Integers

CONSTANTS
  Savers,    \* refreshes of the transactions of the integration
  MaxTx      \* bound: transactions

ASSUME TransactionsAssumption == MaxTx \in Nat

Txs == 1 .. MaxTx
Statuses == {"none", "pending", "ok"}

VARIABLES
  provider,   \* the status of every transaction at the provider
  rows,       \* table transactions, committed
  saving,     \* the refreshes and their sessions
  counted     \* history: how often a transaction was counted as a new one

txVars == <<provider, rows, saving, counted>>

NoRow == [tx |-> 0, insert |-> FALSE]

SavingType ==
  [at : {"idle", "batch", "one", "saved", "broken"}, fetched : [Txs -> Statuses],
   todo : SUBSET Txs, last : [tx : 0 .. MaxTx, insert : BOOLEAN],
   inserted : SUBSET Txs, updated : SUBSET Txs, alone : BOOLEAN]

NoSaving == [at |-> "idle", fetched |-> [t \in Txs |-> "none"], todo |-> {}, last |-> NoRow,
             inserted |-> {}, updated |-> {}, alone |-> FALSE]

TxTypeOK ==
  /\ provider \in [Txs -> Statuses] /\ rows \in [Txs -> Statuses]
  /\ counted \in [Txs -> 0 .. 2] /\ saving \in [Savers -> SavingType]

TxInit ==
  /\ provider = [t \in Txs |-> "none"] /\ rows = [t \in Txs |-> "none"]
  /\ saving = [r \in Savers |-> NoSaving]
  /\ counted = [t \in Txs |-> 0]

\* A transaction appears at the provider, or ends.
Happen(t) ==
  /\ provider[t] # "ok"
  /\ provider' = [provider EXCEPT ![t] = IF @ = "none" THEN "pending" ELSE "ok"]
  /\ UNCHANGED <<rows, saving, counted>>

Fetched(r) == {t \in Txs : saving[r].fetched[t] # "none"}

\* A session with nothing in it, in which the rows of todo have yet to be saved.
Session(at, fetched, todo, alone) ==
  [at |-> at, fetched |-> fetched, todo |-> todo, last |-> NoRow,
   inserted |-> {}, updated |-> {}, alone |-> alone]

\* The refresh goes on with such a session.
GoesOnWith(r, at, todo) ==
  saving' = [saving EXCEPT ![r] = Session(at, saving[r].fetched, todo, saving[r].alone)]

\* Another refresh runs from now on.
NotAlone(s) ==
  [at |-> s.at, fetched |-> s.fetched, todo |-> s.todo, last |-> s.last,
   inserted |-> s.inserted, updated |-> s.updated, alone |-> FALSE]

\* The provider has answered.
FetchTxs(r) ==
  /\ saving[r].at = "idle"
  /\ saving' = [q \in Savers |->
       IF q = r
       THEN Session("batch", provider, {t \in Txs : provider[t] # "none"},
                    \A p \in Savers \ {r} : saving[p].at = "idle")
       ELSE NotAlone(saving[q])]
  /\ UNCHANGED <<provider, rows, counted>>

-----------------------------------------------------------------------------
(* The session.                                                              *)

\* The row is not held by the transaction of another session.
RowIsFree(r, t) ==
  \A q \in Savers \ {r} : t \notin saving[q].inserted \union saving[q].updated

\* What was added last can be flushed; it is refused when its row is there by now:
\* ix_transactions_org_integration_tx_id is unique.
MayFlush(r) == RowIsFree(r, saving[r].last.tx)
Conflicts(r) == saving[r].last.insert /\ rows[saving[r].last.tx] # "none"

\* The rows that the session has inserted and updated when it is flushed.
Inserted(r) ==
  saving[r].inserted \union IF saving[r].last.insert THEN {saving[r].last.tx} ELSE {}
Updated(r) ==
  saving[r].updated \union
    IF saving[r].last.tx # 0 /\ ~saving[r].last.insert THEN {saving[r].last.tx} ELSE {}

\* get_by_tx_id, then _apply_transaction_updates or a new row.
ToWrite(r, t) ==
  IF rows[t] = "none" THEN [tx |-> t, insert |-> TRUE]
  ELSE IF rows[t] # saving[r].fetched[t] THEN [tx |-> t, insert |-> FALSE]
  ELSE NoRow

Written(r) ==
  [t \in Txs |-> IF t \in Inserted(r) \union Updated(r) THEN saving[r].fetched[t] ELSE rows[t]]

CountedWith(S) == [t \in Txs |-> IF t \in S /\ counted[t] < 2 THEN counted[t] + 1 ELSE counted[t]]

\* The next one of what has yet to be saved.
IsNext(r, t) == t \in saving[r].todo /\ \A s \in saving[r].todo : t <= s

-----------------------------------------------------------------------------
(* save_transactions_batch.                                                  *)

SaveItem(r, t) ==
  /\ saving[r].at = "batch" /\ IsNext(r, t) /\ MayFlush(r) /\ ~Conflicts(r)
  /\ saving' = [saving EXCEPT ![r] =
       [at |-> "batch", fetched |-> saving[r].fetched, todo |-> saving[r].todo \ {t},
        last |-> ToWrite(r, t), inserted |-> Inserted(r), updated |-> Updated(r),
        alone |-> saving[r].alone]]
  /\ UNCHANGED <<provider, rows, counted>>

\* The look-up fails with the flush, outside of the try: every later statement of the
\* session fails as well, the saving item by item included, and is only logged.
ItemBreaks(r) ==
  /\ saving[r].at = "batch" /\ saving[r].todo # {} /\ MayFlush(r) /\ Conflicts(r)
  /\ GoesOnWith(r, "broken", {})
  /\ UNCHANGED <<provider, rows, counted>>

CommitBatch(r) ==
  /\ saving[r].at = "batch" /\ saving[r].todo = {} /\ MayFlush(r) /\ ~Conflicts(r)
  /\ rows' = Written(r)
  /\ counted' = CountedWith(Inserted(r))
  /\ GoesOnWith(r, "saved", {})
  /\ UNCHANGED provider

\* Faulty: only what was refused is saved again.
RefusedOnly(r) == {saving[r].last.tx}

\* IntegrityError: the batch is rolled back, and saved again one by one.
Again(r) == Fetched(r)

CommitConflicts(r) ==
  /\ saving[r].at = "batch" /\ saving[r].todo = {} /\ MayFlush(r) /\ Conflicts(r)
  /\ GoesOnWith(r, "one", Again(r))
  /\ UNCHANGED <<provider, rows, counted>>

-----------------------------------------------------------------------------
(* save_transaction.                                                         *)

\* What is there and has not changed is not written.
LookOne(r, t) ==
  /\ saving[r].at = "one" /\ IsNext(r, t) /\ saving[r].last = NoRow
  /\ saving' = [saving EXCEPT ![r] =
       [at |-> "one", fetched |-> saving[r].fetched,
        todo |-> IF ToWrite(r, t) = NoRow THEN saving[r].todo \ {t} ELSE saving[r].todo,
        last |-> ToWrite(r, t), inserted |-> {}, updated |-> {}, alone |-> saving[r].alone]]
  /\ UNCHANGED <<provider, rows, counted>>

\* Only a row that this commit has inserted is a new one.
Added(r) == IF saving[r].last.insert /\ ~Conflicts(r) THEN {saving[r].last.tx} ELSE {}

\* A row that is there by now is left as it is.
CommitOne(r) ==
  /\ saving[r].at = "one" /\ saving[r].last # NoRow /\ MayFlush(r)
  /\ rows' = IF Conflicts(r) THEN rows ELSE Written(r)
  /\ counted' = CountedWith(Added(r))
  /\ GoesOnWith(r, "one", saving[r].todo \ {saving[r].last.tx})
  /\ UNCHANGED provider

SavedAll(r) ==
  /\ saving[r].at = "one" /\ saving[r].todo = {}
  /\ GoesOnWith(r, "saved", {})
  /\ UNCHANGED <<provider, rows, counted>>

\* The answer; or the request is cancelled, or the process dies: what is not committed
\* is rolled back.
SavingEnds(r) ==
  /\ saving[r].at # "idle"
  /\ saving' = [saving EXCEPT ![r] = NoSaving]
  /\ UNCHANGED <<provider, rows, counted>>

SavingStep(r) ==
  \/ FetchTxs(r) \/ ItemBreaks(r) \/ CommitBatch(r) \/ CommitConflicts(r)
  \/ CommitOne(r) \/ SavedAll(r) \/ SavingEnds(r)
  \/ \E t \in saving[r].todo : SaveItem(r, t) \/ LookOne(r, t)

TxNext == (\E t \in Txs : Happen(t)) \/ (\E r \in Savers : SavingStep(r))

TxSpec == TxInit /\ [][TxNext]_txVars

-----------------------------------------------------------------------------
(* Properties.                                                               *)

\* A refresh that reports its batch as saved has stored every transaction of it, in the
\* state it was fetched in if no other refresh ran; a session is lost in a race only.
\* However refreshes race, batches are rolled back and processes die, a transaction
\* is counted as new by one refresh at most, and by one if it is stored.
ReportedIsStored ==
  /\ \A r \in Savers :
       /\ saving[r].at = "saved" =>
            \A t \in Fetched(r) : /\ rows[t] # "none"
                                  /\ saving[r].alone => rows[t] = saving[r].fetched[t]
       /\ saving[r].at = "broken" => ~saving[r].alone
  /\ \A t \in Txs : counted[t] = IF rows[t] = "none" THEN 0 ELSE 1
=============================================================================
