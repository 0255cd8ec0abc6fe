--------------------------- MODULE HotResponseCache ---------------------------
(***************************************************************************)
(* The cache of answers, app/services/response_cache.py, in front of the   *)
(* reads of app/routers/transactions.py and app/routers/balances.py.       *)
(*                                                                         *)
(* One process; a step of a reader or a writer runs up to its next await.  *)
(* A value is the version of the data that its loader has read.  The keys  *)
(* are the filters of one list, so that they share the prefix that a       *)
(* refresh invalidates.                                                    *)
(***************************************************************************)
EXTENDS Integers, Sequences

CONSTANTS
  Keys,         \* keys of one prefix
  Readers,      \* GET requests
  Refreshers,   \* requests that write and then invalidate the prefix
  Nobody,         \* nobody
  MaxEntries,   \* api_hot_cache_max_entries
  Ttl,          \* api_hot_cache_ttl_seconds
  MaxWrites,    \* bound: commits
  MaxCacheNow        \* bound: the clock

\* max_entries is at least 1, and a time to live of zero bypasses the cache.
ASSUME CacheAssumption ==
  /\ Nobody \notin Readers
  /\ MaxEntries \in Nat \ {0} /\ Ttl \in Nat \ {0} /\ MaxWrites \in Nat

VARIABLES
  version,      \* of the data, counted by commits
  cacheNow,          \* time.monotonic()
  values,       \* _values: [key, value, at], the most recently used last
  owner,        \* _locks: the reader that holds the lock of a key
  reader,       \* position, key and local variables of a reader
  refresher,    \* position of a refresher
  floor,        \* history: the version when the last invalidation ended
  replaced,     \* history: when a version was replaced
  cacheAnswer        \* history: the answer that was given last

cacheVars == <<version, cacheNow, values, owner, reader, refresher, floor, replaced, cacheAnswer>>

IdleReader == [at |-> "idle", key |-> Nobody, atLeast |-> 0, value |-> 0, overtaken |-> FALSE]

EntryType == [key : Keys, value : 0 .. MaxWrites, at : 0 .. MaxCacheNow, overtaken : BOOLEAN]
AnswerType == [value : 0 .. MaxWrites, atLeast : 0 .. MaxWrites, at : 0 .. MaxCacheNow,
               overtaken : BOOLEAN]

CacheTypeOK ==
  /\ version \in 0 .. MaxWrites /\ cacheNow \in 0 .. MaxCacheNow
  /\ values \in Seq(EntryType)
  /\ owner \in [Keys -> Readers \union {Nobody}]
  /\ reader \in [Readers -> [at : {"idle", "locking", "loading", "storing"},
                             key : Keys \union {Nobody}, atLeast : 0 .. MaxWrites,
                             value : 0 .. MaxWrites, overtaken : BOOLEAN]]
  /\ refresher \in [Refreshers -> {"idle", "written"}]
  /\ floor \in 0 .. MaxWrites /\ replaced \in [0 .. MaxWrites -> 0 .. MaxCacheNow]
  /\ cacheAnswer \in AnswerType

CacheInit ==
  /\ version = 0 /\ cacheNow = 0 /\ values = <<>>
  /\ owner = [k \in Keys |-> Nobody]
  /\ reader = [r \in Readers |-> IdleReader]
  /\ refresher = [w \in Refreshers |-> "idle"]
  /\ floor = 0 /\ replaced = [v \in 0 .. MaxWrites |-> 0]
  /\ cacheAnswer = [value |-> 0, atLeast |-> 0, at |-> 0, overtaken |-> FALSE]

-----------------------------------------------------------------------------
(* _get and _put.                                                            *)

IsFreshEntry(e) == cacheNow - e.at < Ttl

\* Where the entry of a key is; there is one at most.
Places(k) == {i \in DOMAIN values : values[i].key = k}
Place(k) == CHOOSE i \in Places(k) : TRUE
Hit(k) == Places(k) # {} /\ IsFreshEntry(values[Place(k)])

\* The entries of the other keys.
Others(k) ==
  IF Places(k) = {} THEN values
  ELSE [i \in 1 .. Len(values) - 1 |-> IF i < Place(k) THEN values[i] ELSE values[i + 1]]

\* move_to_end.
Touch(k) == Append(Others(k), values[Place(k)])

\* The entry becomes the most recent one, or is dropped when it is too old.
AfterGet(k) == IF Hit(k) THEN Touch(k) ELSE Others(k)

\* The least recently used entry goes when there are too many.
AfterPut(k, e) ==
  LET All == Append(Others(k), e)
  IN  IF Len(All) > MaxEntries THEN Tail(All) ELSE All

-----------------------------------------------------------------------------
(* get_or_set.                                                               *)

Give(r, value, overtaken) ==
  /\ cacheAnswer' = [value |-> value, atLeast |-> reader[r].atLeast, at |-> cacheNow,
                overtaken |-> overtaken]
  /\ reader' = [reader EXCEPT ![r] = IdleReader]

Steady == UNCHANGED <<version, cacheNow, refresher, floor, replaced>>

\* The request comes in.
Request(r, k) ==
  /\ reader[r].at = "idle"
  /\ reader' = [reader EXCEPT ![r] = [at |-> "locking", key |-> k, atLeast |-> floor,
                                      value |-> 0, overtaken |-> FALSE]]
  /\ values' = AfterGet(k)
  /\ ~Hit(k) /\ UNCHANGED <<cacheAnswer, owner>> /\ Steady

\* ... and is answered at once.
RequestHit(r, k) ==
  /\ reader[r].at = "idle" /\ Hit(k)
  /\ cacheAnswer' = [value |-> values[Place(k)].value, atLeast |-> floor, at |-> cacheNow,
                overtaken |-> values[Place(k)].overtaken]
  /\ values' = AfterGet(k)
  /\ UNCHANGED <<reader, owner>> /\ Steady

\* Faulty: every request makes its own lock.
LockOfMyOwn(k) == TRUE

LockIsFree(k) == owner[k] = Nobody

\* The lock of the key, and the second look.
TakeLock(r) ==
  LET k == reader[r].key
  IN  /\ reader[r].at = "locking" /\ LockIsFree(k)
      /\ values' = AfterGet(k)
      /\ IF Hit(k)
         THEN Give(r, values[Place(k)].value, values[Place(k)].overtaken) /\ UNCHANGED owner
         ELSE /\ reader' = [reader EXCEPT ![r].at = "loading"]
              /\ owner' = [owner EXCEPT ![k] = r] /\ UNCHANGED cacheAnswer
      /\ Steady

\* The loader reads the data.
Load(r) ==
  /\ reader[r].at = "loading"
  /\ reader' = [reader EXCEPT ![r] = [at |-> "storing", key |-> @.key, atLeast |-> @.atLeast,
                                      value |-> version, overtaken |-> @.overtaken]]
  /\ UNCHANGED <<values, owner, cacheAnswer>> /\ Steady

\* The loader raises, or the request is cancelled while it loads.
LoadFails(r) ==
  /\ reader[r].at \in {"loading", "storing"}
  /\ owner' = [owner EXCEPT ![reader[r].key] = Nobody]
  /\ reader' = [reader EXCEPT ![r] = IdleReader]
  /\ UNCHANGED <<values, cacheAnswer>> /\ Steady

Store(r) ==
  LET k == reader[r].key
  IN  /\ reader[r].at = "storing"
      /\ values' = AfterPut(k, [key |-> k, value |-> reader[r].value, at |-> cacheNow,
                                overtaken |-> reader[r].overtaken])
      /\ owner' = [owner EXCEPT ![k] = Nobody]
      /\ Give(r, reader[r].value, reader[r].overtaken) /\ Steady

-----------------------------------------------------------------------------
(* Writers.                                                                  *)

\* What is being stored is older than the data from now on.
Overtake(c) ==
  [at |-> c.at, key |-> c.key, atLeast |-> c.atLeast, value |-> c.value,
   overtaken |-> c.overtaken \/ c.at = "storing"]

Commit ==
  /\ version < MaxWrites /\ version' = version + 1
  /\ replaced' = [replaced EXCEPT ![version] = cacheNow]
  /\ reader' = [r \in Readers |-> Overtake(reader[r])]

\* A worker of another process commits; nobody tells this cache.
WorkerWrites ==
  /\ Commit
  /\ UNCHANGED <<cacheNow, values, owner, refresher, floor, cacheAnswer>>

\* A refresh of this process commits ...
Write(w) ==
  /\ refresher[w] = "idle" /\ Commit
  /\ refresher' = [refresher EXCEPT ![w] = "written"]
  /\ UNCHANGED <<cacheNow, values, owner, floor, cacheAnswer>>

\* Faulty: only the key of the list without a filter is dropped.
InvalidateFirst == SelectSeq(values, LAMBDA e : e.key # CHOOSE k \in Keys : TRUE)

InvalidatePrefix == <<>>

\* ... and invalidates the prefix.
Invalidate(w) ==
  /\ refresher[w] = "written"
  /\ values' = InvalidatePrefix
  /\ refresher' = [refresher EXCEPT ![w] = "idle"] /\ floor' = version
  /\ UNCHANGED <<version, cacheNow, owner, reader, replaced, cacheAnswer>>

CacheTick ==
  /\ cacheNow < MaxCacheNow /\ cacheNow' = cacheNow + 1
  /\ UNCHANGED <<version, values, owner, reader, refresher, floor, replaced, cacheAnswer>>

Finish(r) == TakeLock(r) \/ Load(r) \/ LoadFails(r) \/ Store(r)

CacheNext ==
  \/ \E r \in Readers : Finish(r) \/ \E k \in Keys : Request(r, k) \/ RequestHit(r, k)
  \/ WorkerWrites \/ CacheTick
  \/ \E w \in Refreshers : Write(w) \/ Invalidate(w)

CacheSpec == CacheInit /\ [][CacheNext]_cacheVars

-----------------------------------------------------------------------------
(* Properties.                                                               *)

Loading(k) == {r \in Readers : reader[r].key = k /\ reader[r].at \in {"loading", "storing"}}

\* The requests that miss one key load it once: nobody else loads it meanwhile,
\* although entries are evicted, dropped and invalidated under the waiting ones.
OneLoader == \A k \in Keys : \A r, s \in Loading(k) : r = s

\* Who asks after a refresh has invalidated the prefix sees what it wrote, and an
\* answer is never outdated for as long as the time to live, except when the data
\* changed between the read of its loader and the store: a value that was being
\* loaded is stored after the invalidation.
NotOutdated ==
  ~cacheAnswer.overtaken =>
    /\ cacheAnswer.value >= cacheAnswer.atLeast
    /\ cacheAnswer.value = version \/ cacheAnswer.at - replaced[cacheAnswer.value] < Ttl
=============================================================================
