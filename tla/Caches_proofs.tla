----------------------------- MODULE Caches_proofs -----------------------------
(***************************************************************************)
(* Proofs about the two places where answers are kept for a while, the     *)
(* HotResponseCache of the backend and the caches of the bot: how old an   *)
(* answer may be, and whose it is.                                         *)
(***************************************************************************)
EXTENDS HotResponseCache, BotCaches, TLAPS

-----------------------------------------------------------------------------
(* HotResponseCache, for any number of keys, readers and refreshers and any*)
(* size of the cache: who loads holds the lock of its key, and nothing but the*)
(* end of the load takes it away; an entry, and a value about to be stored, was*)
(* current when it was read or is known to have been overtaken.            *)

\* The types of what the locks are about.
ReaderShapes ==
  /\ owner \in [Keys -> Readers \union {Nobody}]
  /\ reader \in [Readers -> [at : {"idle", "locking", "loading", "storing"},
                             key : Keys \union {Nobody}, atLeast : Int, value : Int,
                             overtaken : BOOLEAN]]
  /\ version \in Int /\ floor \in Int

\* A reader that waits or loads has its key.
HasKey == \A r \in Readers : reader[r].at # "idle" => reader[r].key \in Keys

HoldsLock ==
  \A r \in Readers : reader[r].at \in {"loading", "storing"} => owner[reader[r].key] = r

LockInv == ReaderShapes /\ HasKey /\ HoldsLock

-----------------------------------------------------------------------------

\* A reader that comes in waits for the lock.
LEMMA RequestStep ==
  ASSUME LockInv, NEW r \in Readers, NEW k \in Keys, Request(r, k) \/ RequestHit(r, k)
  PROVE  LockInv'
<1> USE DEF LockInv, ReaderShapes, HasKey, HoldsLock
<1>1. CASE Request(r, k)
  <2>1. /\ reader[r].at = "idle" /\ UNCHANGED <<owner, version, floor>>
        /\ reader' = [reader EXCEPT ![r] = [at |-> "locking", key |-> k, atLeast |-> floor,
                                           value |-> 0, overtaken |-> FALSE]]
    BY <1>1 DEF Request, Steady
  <2> QED
    BY <2>1
<1>2. CASE RequestHit(r, k)
  <2>1. UNCHANGED <<owner, reader, version, floor>>
    BY <1>2 DEF RequestHit, Steady
  <2> QED
    BY <2>1
<1> QED
  BY <1>1, <1>2

\* A reader takes the lock only when nobody has it: no loader owns that key.
LEMMA TakeStep ==
  ASSUME LockInv, NEW r \in Readers, TakeLock(r)
  PROVE  LockInv'
<1> USE DEF LockInv, ReaderShapes, HasKey, HoldsLock
<1>1. /\ reader[r].at = "locking" /\ reader[r].key \in Keys /\ owner[reader[r].key] = Nobody
      /\ UNCHANGED <<version, floor>>
  BY DEF TakeLock, LockIsFree, Steady
<1>2. CASE reader' = [reader EXCEPT ![r] = IdleReader] /\ owner' = owner
  BY <1>1, <1>2 DEF IdleReader
<1>3. CASE /\ reader' = [reader EXCEPT ![r].at = "loading"]
           /\ owner' = [owner EXCEPT ![reader[r].key] = r]
  BY <1>1, <1>3, CacheAssumption
<1> QED
  BY <1>2, <1>3 DEF TakeLock, Give

\* Who ends gives back its own lock, and leaves the others their keys.
LEMMA FinishStep ==
  ASSUME LockInv, NEW r \in Readers, Load(r) \/ LoadFails(r) \/ Store(r)
  PROVE  LockInv'
<1> USE DEF LockInv, ReaderShapes, HasKey, HoldsLock
<1>1. CASE Load(r)
  BY <1>1 DEF Load, Steady
<1>2. CASE LoadFails(r) \/ Store(r)
  <2>1. /\ reader[r].at \in {"loading", "storing"}
        /\ reader' = [reader EXCEPT ![r] = IdleReader]
        /\ owner' = [owner EXCEPT ![reader[r].key] = Nobody]
        /\ UNCHANGED <<version, floor>>
    BY <1>2 DEF LoadFails, Store, Give, Steady
  <2> QED
    BY <2>1 DEF IdleReader
<1> QED
  BY <1>1, <1>2

\* Writers touch no lock.
LEMMA WriterStep ==
  ASSUME LockInv, WorkerWrites \/ CacheTick \/ \E w \in Refreshers : Write(w) \/ Invalidate(w)
  PROVE  LockInv'
<1> USE DEF LockInv, ReaderShapes, HasKey, HoldsLock
<1>1. CASE Commit /\ UNCHANGED <<owner, floor>>
  <2>1. /\ reader' \in [Readers -> [at : {"idle", "locking", "loading", "storing"},
                                   key : Keys \union {Nobody}, atLeast : Int, value : Int,
                                   overtaken : BOOLEAN]]
        /\ \A r \in Readers : reader'[r].at = reader[r].at /\ reader'[r].key = reader[r].key
    BY <1>1 DEF Commit, Overtake
  <2> QED
    BY <1>1, <2>1 DEF Commit
<1>2. CASE UNCHANGED <<owner, reader, version>> /\ floor' \in {floor, version}
  BY <1>2
<1> QED
  BY <1>1, <1>2 DEF WorkerWrites, CacheTick, Write, Invalidate

-----------------------------------------------------------------------------

\* The requests that miss one key load it once, for any number of them.
THEOREM OneLoaderPerKey == CacheSpec => []OneLoader
<1>1. CacheInit => LockInv
  BY DEF CacheInit, LockInv, ReaderShapes, HasKey, HoldsLock, IdleReader
<1>2. LockInv /\ [CacheNext]_cacheVars => LockInv'
  <2> SUFFICES ASSUME LockInv, [CacheNext]_cacheVars PROVE LockInv'
    OBVIOUS
  <2>1. CASE CacheNext
    BY <2>1, RequestStep, TakeStep, FinishStep, WriterStep DEF CacheNext, Finish
  <2>2. CASE UNCHANGED cacheVars
    BY <2>2 DEF cacheVars, LockInv, ReaderShapes, HasKey, HoldsLock
  <2> QED
    BY <2>1, <2>2
<1>3. LockInv => OneLoader
  BY DEF LockInv, HoldsLock, OneLoader, Loading
<1> QED
  BY <1>1, <1>2, <1>3, PTL DEF CacheSpec

-----------------------------------------------------------------------------
(* The values.                                                               *)

EntryShape == [key : Keys, value : Nat, at : Nat, overtaken : BOOLEAN]

\* What was current when it was stored: nothing has been invalidated since, and what
\* replaced it came later.
Current(e) ==
  ~e.overtaken => e.value >= floor /\ (e.value = version \/ replaced[e.value] >= e.at)
Kept(e) == e.value <= version /\ e.at <= cacheNow /\ Current(e)

AllKept(s) ==
  /\ s \in Seq(EntryShape)
  /\ \A i \in DOMAIN s : Kept(s[i])
  /\ \A i, j \in DOMAIN s : s[i].key = s[j].key => i = j

Clocks ==
  /\ version \in 0 .. MaxWrites /\ floor \in 0 .. version /\ cacheNow \in Nat
  /\ replaced \in [0 .. MaxWrites -> Nat]

\* What a reader has read was current when it read it, and what it may expect is no
\* more than what is there.
Read ==
  \A r \in Readers :
    /\ reader[r].at # "idle" => reader[r].atLeast \in 0 .. floor
    /\ reader[r].at = "storing" =>
         reader[r].value \in 0 .. version /\ (reader[r].overtaken \/ reader[r].value = version)

Answered ==
  /\ cacheAnswer.value \in 0 .. version /\ cacheAnswer.at \in 0 .. cacheNow
  /\ NotOutdated

ValuesInv == Clocks /\ AllKept(values) /\ Read /\ Answered

-----------------------------------------------------------------------------

\* The entries of the other keys are as they were.
LEMMA OthersKept ==
  ASSUME AllKept(values), NEW k \in Keys
  PROVE  /\ AllKept(Others(k))
         /\ \A i \in DOMAIN Others(k) : Others(k)[i].key # k
<1>1. CASE Places(k) = {}
  BY <1>1 DEF Others, Places
<1>2. CASE Places(k) # {}
  <2>1. Place(k) \in DOMAIN values /\ values[Place(k)].key = k
    BY <1>2 DEF Place, Places
  <2>2. DOMAIN values = 1 .. Len(values) /\ Len(values) \in Nat
    BY DEF AllKept
  <2> DEFINE p == Place(k)
             n == Len(values) - 1
             f(i) == IF i < p THEN i ELSE i + 1
             s == [i \in 1 .. n |-> IF i < p THEN values[i] ELSE values[i + 1]]
  <2>3. p \in 1 .. n + 1 /\ n \in Nat
    BY <2>1, <2>2
  <2> HIDE DEF p, n
  <2>4. Others(k) = s
    BY <1>2 DEF Others, p, n
  <2>5. \A i \in 1 .. n : s[i] = values[f(i)] /\ f(i) \in DOMAIN values /\ f(i) # p
    BY <2>2, <2>3 DEF n
  <2>6. \A i, j \in 1 .. n : f(i) = f(j) => i = j
    BY <2>3
  <2> HIDE DEF f
  <2>7. \A i \in 1 .. n : s[i] \in EntryShape
    BY <2>5 DEF AllKept
  <2>8. s \in Seq(EntryShape) /\ Len(s) = n /\ DOMAIN s = 1 .. n
    BY <2>3, <2>7
  <2>9. \A i \in 1 .. n : Kept(s[i]) /\ s[i].key # k
    BY <2>1, <2>5 DEF AllKept, p
  <2>10. \A i, j \in 1 .. n : s[i].key = s[j].key => i = j
    BY <2>5, <2>6 DEF AllKept
  <2> QED
    BY <2>4, <2>8, <2>9, <2>10 DEF AllKept
<1> QED
  BY <1>1, <1>2

\* An entry takes the last place.
LEMMA AppendKept ==
  ASSUME AllKept(values), NEW k \in Keys, NEW e \in EntryShape, Kept(e), e.key = k
  PROVE  AllKept(Append(Others(k), e))
<1> DEFINE s == Others(k)
<1>1. /\ AllKept(s) /\ \A i \in DOMAIN s : s[i].key # k
  BY OthersKept
<1> HIDE DEF s
<1>2. s \in Seq(EntryShape) /\ Len(s) \in Nat /\ DOMAIN s = 1 .. Len(s)
  BY <1>1 DEF AllKept
<1>3. /\ Append(s, e) \in Seq(EntryShape) /\ DOMAIN Append(s, e) = 1 .. Len(s) + 1
      /\ \A i \in 1 .. Len(s) : Append(s, e)[i] = s[i]
      /\ Append(s, e)[Len(s) + 1] = e
  BY <1>2
<1>4. AllKept(Append(s, e))
  BY <1>1, <1>2, <1>3 DEF AllKept
<1> QED
  BY <1>4 DEF s

\* The first entry goes.
LEMMA TailKept ==
  ASSUME NEW s, AllKept(s), s # <<>>
  PROVE  AllKept(Tail(s))
<1>1. s \in Seq(EntryShape) /\ Len(s) \in Nat \ {0} /\ DOMAIN s = 1 .. Len(s)
  BY DEF AllKept
<1>2. /\ Tail(s) \in Seq(EntryShape) /\ DOMAIN Tail(s) = 1 .. Len(s) - 1
      /\ \A i \in 1 .. Len(s) - 1 : Tail(s)[i] = s[i + 1]
  BY <1>1
<1> QED
  BY <1>1, <1>2 DEF AllKept

\* A look-up keeps the entries, and a hit is an entry that has not expired.
LEMMA GetKept ==
  ASSUME AllKept(values), NEW k \in Keys
  PROVE  /\ AllKept(AfterGet(k))
         /\ Hit(k) => /\ values[Place(k)] \in EntryShape /\ Kept(values[Place(k)])
                      /\ cacheNow - values[Place(k)].at < Ttl
<1>1. CASE Hit(k)
  <2>1. Place(k) \in DOMAIN values /\ values[Place(k)].key = k
    BY <1>1 DEF Hit, Place, Places
  <2>2. values[Place(k)] \in EntryShape /\ Kept(values[Place(k)])
    BY <2>1 DEF AllKept
  <2> QED
    BY <1>1, <2>1, <2>2, AppendKept DEF AfterGet, Touch, Hit, IsFreshEntry
<1>2. CASE ~Hit(k)
  BY <1>2, OthersKept DEF AfterGet
<1> QED
  BY <1>1, <1>2

\* A store keeps the entries, whatever it evicts.
LEMMA PutKept ==
  ASSUME AllKept(values), NEW k \in Keys, NEW e \in EntryShape, Kept(e), e.key = k
  PROVE  AllKept(AfterPut(k, e))
<1> DEFINE s == Append(Others(k), e)
<1>1. AllKept(s)
  BY AppendKept
<1> HIDE DEF s
<1>2. Len(s) > MaxEntries => s # <<>>
  BY CacheAssumption
<1>3. AfterPut(k, e) = IF Len(s) > MaxEntries THEN Tail(s) ELSE s
  BY DEF AfterPut, s
<1> QED
  BY <1>1, <1>2, <1>3, TailKept

-----------------------------------------------------------------------------

\* What is kept stays as it is while neither the data nor the clock moves.
LEMMA StillKept ==
  ASSUME NEW s, AllKept(s), values' = s, UNCHANGED <<version, cacheNow, floor, replaced>>
  PROVE  AllKept(values)'
BY DEF AllKept, Kept, Current

\* The lock of a key, or an entry that is fresh.
LEMMA GetData ==
  ASSUME LockInv, ValuesInv, NEW r \in Readers, NEW k \in Keys,
         Request(r, k) \/ RequestHit(r, k) \/ TakeLock(r)
  PROVE  ValuesInv'
<1> USE DEF LockInv, ValuesInv
<1>1. UNCHANGED <<version, cacheNow, floor, replaced>>
  BY DEF Request, RequestHit, TakeLock, Steady
<1>2. Clocks'
  BY <1>1 DEF Clocks
<1> DEFINE q == IF TakeLock(r) THEN reader[r].key ELSE k
<1>3. q \in Keys /\ values' = AfterGet(q)
  BY DEF TakeLock, Request, RequestHit, HasKey
<1> HIDE DEF q
<1>4. AllKept(values)'
  BY <1>1, <1>3, GetKept, StillKept
<1>5. Read'
  <2>1. CASE Request(r, k)
    <3>1. reader' = [reader EXCEPT ![r] = [at |-> "locking", key |-> k, atLeast |-> floor,
                                           value |-> 0, overtaken |-> FALSE]]
      BY <2>1 DEF Request
    <3> QED
      BY <1>1, <3>1 DEF Read, Clocks, ReaderShapes
  <2>2. CASE RequestHit(r, k)
    BY <1>1, <2>2 DEF RequestHit, Read
  <2>3. CASE TakeLock(r)
    <3>1. CASE reader' = [reader EXCEPT ![r] = IdleReader]
      BY <1>1, <3>1 DEF Read, IdleReader, ReaderShapes
    <3>2. CASE reader' = [reader EXCEPT ![r].at = "loading"] /\ reader[r].at = "locking"
      BY <1>1, <3>2 DEF Read, ReaderShapes
    <3> QED
      BY <2>3, <3>1, <3>2 DEF TakeLock, Give
  <2> QED
    BY <2>1, <2>2, <2>3
<1>6. Answered'
  <2>1. CASE UNCHANGED cacheAnswer
    BY <1>1, <2>1 DEF Answered, NotOutdated
  <2>2. ASSUME NEW m, m \in Keys, Hit(m), NEW n, n \in 0 .. floor,
               cacheAnswer' = [value |-> values[Place(m)].value, atLeast |-> n,
                               at |-> cacheNow, overtaken |-> values[Place(m)].overtaken]
        PROVE  Answered'
    <3> DEFINE e == values[Place(m)]
    <3>1. e \in EntryShape /\ Kept(e) /\ cacheNow - e.at < Ttl
      BY <2>2, GetKept
    <3> HIDE DEF e
    <3>2. cacheAnswer' = [value |-> e.value, atLeast |-> n, at |-> cacheNow,
                          overtaken |-> e.overtaken]
      BY <2>2 DEF e
    <3>3. e.value \in 0 .. version /\ e.at \in Nat /\ e.overtaken \in BOOLEAN
      BY <3>1 DEF EntryShape, Kept, Clocks
    <3>4. ~e.overtaken => /\ e.value >= n
                          /\ e.value = version \/ cacheNow - replaced[e.value] < Ttl
      <4>1. PICK v \in Nat : v = e.value
        BY <3>1 DEF EntryShape
      <4>2. PICK a \in Nat : a = e.at
        BY <3>1 DEF EntryShape
      <4>3. v \in 0 .. version /\ version \in Nat /\ floor \in Nat
        BY <3>3, <4>1 DEF Clocks
      <4>4. replaced[v] \in Nat /\ cacheNow \in Nat /\ Ttl \in Nat
        BY <4>3, CacheAssumption DEF Clocks
      <4>5. ~e.overtaken => v >= floor /\ (v = version \/ replaced[v] >= a)
        BY <3>1, <4>1, <4>2 DEF Kept, Current
      <4>6. cacheNow - a < Ttl
        BY <3>1, <4>2
      <4>7. ~e.overtaken => v >= n /\ (v = version \/ cacheNow - replaced[v] < Ttl)
        BY <2>2, <4>2, <4>3, <4>4, <4>5, <4>6
      <4> QED
        BY <4>1, <4>7
    <3> QED
      BY <1>1, <3>2, <3>3, <3>4 DEF Answered, NotOutdated, Clocks
  <2>3. CASE RequestHit(r, k)
    <3>1. floor \in 0 .. floor
      BY DEF Clocks
    <3> QED
      BY <2>2, <2>3, <3>1 DEF RequestHit
  <2>4. CASE TakeLock(r) /\ ~UNCHANGED cacheAnswer
    <3>1. reader[r].key \in Keys /\ reader[r].atLeast \in 0 .. floor
      BY <2>4 DEF TakeLock, HasKey, Read
    <3> QED
      BY <2>2, <2>4, <3>1 DEF TakeLock, Give
  <2> QED
    BY <2>1, <2>3, <2>4 DEF Request
<1> QED
  BY <1>2, <1>4, <1>5, <1>6

\* A value that is stored is the current one, unless it has been overtaken.
LEMMA StoreData ==
  ASSUME LockInv, ValuesInv, NEW r \in Readers, Load(r) \/ LoadFails(r) \/ Store(r)
  PROVE  ValuesInv'
<1> USE DEF LockInv, ValuesInv
<1>1. UNCHANGED <<version, cacheNow, floor, replaced>>
  BY DEF Load, LoadFails, Store, Steady
<1>2. Clocks'
  BY <1>1 DEF Clocks
<1>3. CASE Load(r)
  <2>1. /\ UNCHANGED <<values, cacheAnswer>> /\ reader[r].at = "loading"
        /\ reader' = [reader EXCEPT ![r] =
             [at |-> "storing", key |-> reader[r].key, atLeast |-> reader[r].atLeast,
              value |-> version, overtaken |-> reader[r].overtaken]]
    BY <1>3 DEF Load, ReaderShapes
  <2>2. Read'
    BY <1>1, <2>1 DEF Read, ReaderShapes, Clocks
  <2>3. AllKept(values)'
    BY <1>1, <2>1, StillKept
  <2>4. Answered'
    BY <1>1, <2>1 DEF Answered, NotOutdated
  <2> QED
    BY <1>2, <2>2, <2>3, <2>4
<1>4. CASE LoadFails(r)
  <2>1. UNCHANGED <<values, cacheAnswer>> /\ reader' = [reader EXCEPT ![r] = IdleReader]
    BY <1>4 DEF LoadFails
  <2>2. Read'
    BY <1>1, <2>1 DEF Read, IdleReader, ReaderShapes
  <2>3. AllKept(values)'
    BY <1>1, <2>1, StillKept
  <2>4. Answered'
    BY <1>1, <2>1 DEF Answered, NotOutdated
  <2> QED
    BY <1>2, <2>2, <2>3, <2>4
<1>5. CASE Store(r)
  <2> DEFINE k == reader[r].key
             e == [key |-> k, value |-> reader[r].value, at |-> cacheNow,
                   overtaken |-> reader[r].overtaken]
  <2>1. /\ reader[r].at = "storing" /\ values' = AfterPut(k, e)
        /\ reader' = [reader EXCEPT ![r] = IdleReader]
        /\ cacheAnswer' = [value |-> reader[r].value, atLeast |-> reader[r].atLeast,
                           at |-> cacheNow, overtaken |-> reader[r].overtaken]
    BY <1>5 DEF Store, Give
  <2>2. /\ k \in Keys /\ reader[r].value \in 0 .. version /\ reader[r].overtaken \in BOOLEAN
        /\ reader[r].overtaken \/ reader[r].value = version
        /\ reader[r].atLeast \in 0 .. floor
    BY <2>1 DEF HasKey, Read, ReaderShapes
  <2>3. e \in EntryShape /\ Kept(e)
    BY <2>2 DEF EntryShape, Kept, Current, Clocks
  <2>4. AllKept(AfterPut(k, e))
    <3> HIDE DEF e
    <3>1. e.key = k
      BY DEF e
    <3> QED
      BY <2>2, <2>3, <3>1, PutKept
  <2>5. AllKept(values)'
    BY <1>1, <2>1, <2>4, StillKept
  <2>6. Read'
    BY <1>1, <2>1 DEF Read, IdleReader, ReaderShapes
  <2>7. Answered'
    BY <1>1, <2>1, <2>2 DEF Answered, NotOutdated, Clocks
  <2> QED
    BY <1>2, <2>5, <2>6, <2>7
<1> QED
  BY <1>3, <1>4, <1>5

\* A commit outdates what is kept, or being stored, at the time it comes.
LEMMA CommitData ==
  ASSUME LockInv, ValuesInv, Commit, UNCHANGED <<cacheNow, values, floor, cacheAnswer>>
  PROVE  ValuesInv'
<1> USE DEF LockInv, ValuesInv
<1>1. /\ version \in Nat /\ version < MaxWrites /\ version' = version + 1
      /\ replaced' = [replaced EXCEPT ![version] = cacheNow]
      /\ reader' = [r \in Readers |-> Overtake(reader[r])]
  BY DEF Commit, Clocks
<1>2. Clocks'
  BY <1>1, CacheAssumption DEF Clocks
<1>3. \A e \in EntryShape : Kept(e) => Kept(e)'
  BY <1>1 DEF Kept, Current, EntryShape, Clocks
<1>4. AllKept(values)'
  BY <1>3 DEF AllKept
<1>5. Read'
  <2>1. \A r \in Readers : /\ reader'[r].at = reader[r].at
                           /\ reader'[r].atLeast = reader[r].atLeast
                           /\ reader'[r].value = reader[r].value
                           /\ reader[r].at = "storing" => reader'[r].overtaken
    BY <1>1 DEF Overtake
  <2> QED
    BY <1>1, <2>1 DEF Read
<1>6. Answered'
  BY <1>1, CacheAssumption DEF Answered, NotOutdated, Clocks
<1> QED
  BY <1>2, <1>4, <1>5, <1>6

\* An invalidation drops every entry; time makes none newer.
LEMMA WriterData ==
  ASSUME LockInv, ValuesInv,
         WorkerWrites \/ CacheTick \/ \E w \in Refreshers : Write(w) \/ Invalidate(w)
  PROVE  ValuesInv'
<1> USE DEF LockInv, ValuesInv
<1>1. CASE Commit /\ UNCHANGED <<cacheNow, values, floor, cacheAnswer>>
  BY <1>1, CommitData
<1>2. CASE CacheTick
  <2>1. /\ cacheNow' = cacheNow + 1
        /\ UNCHANGED <<version, values, reader, floor, replaced, cacheAnswer>>
    BY <1>2 DEF CacheTick
  <2>2. Clocks'
    BY <2>1 DEF Clocks
  <2>3. \A e \in EntryShape : Kept(e) => Kept(e)'
    BY <2>1 DEF Kept, Current, EntryShape, Clocks
  <2>4. AllKept(values)'
    BY <2>1, <2>3 DEF AllKept
  <2>5. Read' /\ Answered'
    BY <2>1 DEF Read, Answered, NotOutdated, Clocks
  <2> QED
    BY <2>2, <2>4, <2>5
<1>3. CASE \E w \in Refreshers : Invalidate(w)
  <2>1. /\ values' = <<>> /\ floor' = version
        /\ UNCHANGED <<version, cacheNow, reader, replaced, cacheAnswer>>
    BY <1>3 DEF Invalidate, InvalidatePrefix
  <2>2. Clocks' /\ Read' /\ Answered'
    BY <2>1 DEF Clocks, Read, Answered, NotOutdated
  <2>3. AllKept(values)'
    BY <2>1 DEF AllKept
  <2> QED
    BY <2>2, <2>3
<1> QED
  BY <1>1, <1>2, <1>3 DEF WorkerWrites, Write

-----------------------------------------------------------------------------

\* Nothing is loaded or kept at first.
LEMMA CacheInvInit == CacheInit => LockInv /\ ValuesInv
<1> SUFFICES ASSUME CacheInit PROVE LockInv /\ ValuesInv
  OBVIOUS
<1>1. LockInv
  BY DEF CacheInit, LockInv, ReaderShapes, HasKey, HoldsLock, IdleReader
<1>2. Clocks /\ Read /\ Answered
  BY CacheAssumption DEF CacheInit, Clocks, Read, Answered, NotOutdated, IdleReader
<1>3. AllKept(values)
  BY DEF CacheInit, AllKept
<1> QED
  BY <1>1, <1>2, <1>3 DEF ValuesInv

\* Every step keeps both invariants.
LEMMA CacheInvStep ==
  ASSUME LockInv, ValuesInv, [CacheNext]_cacheVars
  PROVE  LockInv' /\ ValuesInv'
<1>1. CASE CacheNext
  <2>1. LockInv'
    BY <1>1, RequestStep, TakeStep, FinishStep, WriterStep DEF CacheNext, Finish
  <2>2. ASSUME NEW r \in Readers, TakeLock(r) PROVE ValuesInv'
    <3>1. PICK k \in Keys : k = reader[r].key
      BY <2>2 DEF TakeLock, LockInv, HasKey
    <3> QED
      BY <2>2, <3>1, GetData
  <2>3. ValuesInv'
    BY <1>1, <2>2, GetData, StoreData, WriterData DEF CacheNext, Finish
  <2> QED
    BY <2>1, <2>3
<1>2. CASE UNCHANGED cacheVars
  BY <1>2 DEF cacheVars, LockInv, ReaderShapes, HasKey, HoldsLock, ValuesInv, Clocks, AllKept,
              Kept, Current, Read, Answered, NotOutdated
<1> QED
  BY <1>1, <1>2

\* Who asks after an invalidation sees what was written before it, and an answer is
\* outdated by less than the time to live, unless its value was being stored when the
\* data changed: for any number of keys, requests and writers.
THEOREM AnswersNotOutdated == CacheSpec => []NotOutdated
<1>1. ValuesInv => NotOutdated
  BY DEF ValuesInv, Answered
<1> QED
  BY <1>1, CacheInvInit, CacheInvStep, PTL DEF CacheSpec

-----------------------------------------------------------------------------
(* The bounds of what the readers, the refreshers and the answers hold.      *)

AnswerShape == [value : Nat, atLeast : Nat, at : Nat, overtaken : BOOLEAN]

\* What a reader expects and has read, also when it has none.
ReadersBounded ==
  \A r \in Readers : reader[r].atLeast \in 0 .. floor /\ reader[r].value \in 0 .. version

CacheBounds ==
  /\ refresher \in [Refreshers -> {"idle", "written"}]
  /\ cacheNow \in 0 .. MaxCacheNow /\ ReadersBounded
  /\ cacheAnswer \in AnswerShape /\ cacheAnswer.atLeast \in 0 .. floor
  /\ \A v \in 0 .. MaxWrites : replaced[v] <= cacheNow

\* An answer has the value of an entry, or the one its reader has read.
LEMMA AnswerBounded ==
  ASSUME LockInv, ValuesInv, CacheBounds, UNCHANGED <<version, cacheNow, refresher, floor, replaced>>,
         NEW v \in 0 .. version, NEW n \in 0 .. floor, NEW o \in BOOLEAN,
         \/ UNCHANGED cacheAnswer
         \/ cacheAnswer' = [value |-> v, atLeast |-> n, at |-> cacheNow, overtaken |-> o],
         ReadersBounded'
  PROVE  CacheBounds'
<1>1. cacheNow \in Nat /\ v \in Nat /\ n \in Nat
  BY DEF ValuesInv, Clocks
<1>2. (cacheAnswer \in AnswerShape /\ cacheAnswer.atLeast \in 0 .. floor)'
  BY <1>1 DEF CacheBounds, AnswerShape
<1> QED
  BY <1>2 DEF CacheBounds

\* The steps of a reader.
LEMMA ReaderBounds ==
  ASSUME LockInv, ValuesInv, CacheBounds, NEW r \in Readers,
         Finish(r) \/ \E k \in Keys : Request(r, k) \/ RequestHit(r, k)
  PROVE  CacheBounds'
<1>1. UNCHANGED <<version, cacheNow, refresher, floor, replaced>>
  BY DEF Finish, TakeLock, Load, LoadFails, Store, Request, RequestHit, Steady
<1>2. floor \in Nat /\ version \in Nat /\ 0 \in 0 .. floor /\ 0 \in 0 .. version
      /\ floor \in 0 .. floor /\ version \in 0 .. version
  BY DEF ValuesInv, Clocks
<1>3. ReadersBounded'
  <2>1. \A q \in Readers : q # r => reader'[q] = reader[q]
    BY DEF Finish, TakeLock, Load, LoadFails, Store, Give, Request, RequestHit,
           LockInv, ReaderShapes
  <2>2. reader'[r].atLeast \in {0, floor, reader[r].atLeast}
        /\ reader'[r].value \in {0, version, reader[r].value}
    <3>1. CASE Finish(r)
      BY <3>1 DEF Finish, TakeLock, Load, LoadFails, Store, Give, IdleReader, LockInv, ReaderShapes
    <3>2. ASSUME NEW k \in Keys, Request(r, k) \/ RequestHit(r, k)
          PROVE  reader'[r].atLeast \in {0, floor, reader[r].atLeast}
                 /\ reader'[r].value \in {0, version, reader[r].value}
      BY <3>2 DEF Request, RequestHit, LockInv, ReaderShapes
    <3> QED
      BY <3>1, <3>2
  <2>3. reader'[r].atLeast \in 0 .. floor /\ reader'[r].value \in 0 .. version
    BY <1>2, <2>2 DEF CacheBounds, ReadersBounded
  <2> QED
    BY <1>1, <2>1, <2>3 DEF CacheBounds, ReadersBounded
<1>4. ASSUME NEW k \in Keys, Hit(k)
      PROVE  values[Place(k)].value \in 0 .. version /\ values[Place(k)].overtaken \in BOOLEAN
  BY <1>2, <1>4, GetKept DEF ValuesInv, EntryShape, Kept
<1>5. /\ reader[r].atLeast \in 0 .. floor /\ reader[r].value \in 0 .. version
      /\ reader[r].overtaken \in BOOLEAN
  BY DEF CacheBounds, ReadersBounded, LockInv, ReaderShapes
<1>6. CASE UNCHANGED cacheAnswer
  BY <1>1, <1>2, <1>3, <1>6, AnswerBounded
<1>7. CASE TakeLock(r) /\ ~UNCHANGED cacheAnswer
  <2>1. reader[r].key \in Keys /\ Hit(reader[r].key)
    BY <1>7 DEF TakeLock, LockInv, HasKey
  <2>2. cacheAnswer' = [value |-> values[Place(reader[r].key)].value,
                        atLeast |-> reader[r].atLeast, at |-> cacheNow,
                        overtaken |-> values[Place(reader[r].key)].overtaken]
    BY <1>7 DEF TakeLock, Give
  <2> QED
    BY <1>1, <1>3, <1>4, <1>5, <2>1, <2>2, AnswerBounded
<1>8. CASE Store(r)
  <2>1. cacheAnswer' = [value |-> reader[r].value, atLeast |-> reader[r].atLeast,
                        at |-> cacheNow, overtaken |-> reader[r].overtaken]
    BY <1>8 DEF Store, Give
  <2> QED
    BY <1>1, <1>3, <1>5, <2>1, AnswerBounded
<1>9. ASSUME NEW k \in Keys, RequestHit(r, k) PROVE CacheBounds'
  <2>1. /\ Hit(k)
        /\ cacheAnswer' = [value |-> values[Place(k)].value, atLeast |-> floor,
                           at |-> cacheNow, overtaken |-> values[Place(k)].overtaken]
    BY <1>9 DEF RequestHit
  <2> QED
    BY <1>1, <1>2, <1>3, <1>4, <2>1, AnswerBounded
<1> QED
  BY <1>6, <1>7, <1>8, <1>9 DEF Finish, Load, LoadFails, Request

\* A version is replaced now, and what is read stays below it.
LEMMA WriterBounds ==
  ASSUME MaxCacheNow \in Nat, LockInv, ValuesInv, CacheBounds,
         WorkerWrites \/ CacheTick \/ \E w \in Refreshers : Write(w) \/ Invalidate(w)
  PROVE  CacheBounds'
<1>1. floor \in Nat /\ version \in Nat /\ floor <= version /\ cacheNow \in Nat
  BY DEF ValuesInv, Clocks
<1>2. CASE Commit /\ UNCHANGED <<cacheNow, floor, cacheAnswer>>
           /\ refresher' \in [Refreshers -> {"idle", "written"}]
  <2>1. \A r \in Readers : reader'[r].atLeast = reader[r].atLeast /\ reader'[r].value = reader[r].value
    BY <1>2 DEF Commit, Overtake
  <2>2. version' = version + 1 /\ \A n \in 0 .. version : n \in 0 .. version + 1
    BY <1>1, <1>2 DEF Commit
  <2>3. ReadersBounded'
    BY <1>2, <2>1, <2>2 DEF CacheBounds, ReadersBounded
  <2>4. \A v \in 0 .. MaxWrites : replaced'[v] <= cacheNow
    <3>1. \A v \in 0 .. MaxWrites : replaced'[v] = replaced[v] \/ replaced'[v] = cacheNow
      BY <1>2 DEF Commit, ValuesInv, Clocks
    <3> QED
      BY <1>1, <3>1 DEF CacheBounds
  <2> QED
    BY <1>2, <2>3, <2>4 DEF CacheBounds
<1>3. CASE CacheTick
  <2>1. cacheNow < MaxCacheNow /\ cacheNow' = cacheNow + 1 /\ cacheNow \in 0 .. MaxCacheNow
        /\ UNCHANGED <<version, reader, refresher, floor, replaced, cacheAnswer>>
    BY <1>3 DEF CacheTick, CacheBounds
  <2>2. \A v \in 0 .. MaxWrites : replaced[v] \in Nat /\ replaced[v] <= cacheNow
    BY DEF ValuesInv, Clocks, CacheBounds
  <2>3. cacheNow' \in 0 .. MaxCacheNow
    BY <1>1, <2>1
  <2>4. \A v \in 0 .. MaxWrites : replaced'[v] <= cacheNow'
    BY <1>1, <2>1, <2>2
  <2> QED
    BY <2>1, <2>3, <2>4 DEF CacheBounds, ReadersBounded
<1>4. CASE \E w \in Refreshers : Invalidate(w)
  <2>1. /\ floor' = version /\ UNCHANGED <<version, cacheNow, reader, replaced, cacheAnswer>>
        /\ refresher' \in [Refreshers -> {"idle", "written"}]
    BY <1>4 DEF Invalidate, CacheBounds
  <2>2. \A n \in 0 .. floor : n \in 0 .. version
    BY <1>1
  <2>3. ReadersBounded' /\ (cacheAnswer.atLeast \in 0 .. floor)'
    BY <2>1, <2>2 DEF CacheBounds, ReadersBounded
  <2> QED
    BY <2>1, <2>3 DEF CacheBounds
<1>5. WorkerWrites => Commit /\ UNCHANGED <<cacheNow, floor, cacheAnswer, refresher>>
  BY DEF WorkerWrites
<1>6. ASSUME NEW w \in Refreshers, Write(w)
      PROVE  Commit /\ UNCHANGED <<cacheNow, floor, cacheAnswer>>
             /\ refresher' \in [Refreshers -> {"idle", "written"}]
  BY <1>6 DEF Write, CacheBounds
<1> QED
  BY <1>2, <1>3, <1>4, <1>5, <1>6 DEF CacheBounds

\* Every variable of HotResponseCache has its type, within the bounds of an instance.
THEOREM CacheTypes ==
  ASSUME MaxCacheNow \in Nat
  PROVE  CacheSpec => []CacheTypeOK
<1> DEFINE CacheInv == LockInv /\ ValuesInv /\ CacheBounds
<1>1. CacheInit => CacheInv
  BY CacheInvInit, CacheAssumption
  DEF CacheInit, CacheBounds, ReadersBounded, AnswerShape, IdleReader
<1>2. CacheInv /\ [CacheNext]_cacheVars => CacheInv'
  <2>1. ASSUME CacheInv, UNCHANGED cacheVars PROVE CacheBounds'
    BY <2>1 DEF cacheVars, CacheBounds, ReadersBounded
  <2> QED
    BY <2>1, CacheInvStep, ReaderBounds, WriterBounds DEF CacheNext
<1>3. CacheInv => CacheTypeOK
  <2> SUFFICES ASSUME LockInv, ValuesInv, CacheBounds PROVE CacheTypeOK
    OBVIOUS
  <2>1. /\ version \in 0 .. MaxWrites /\ floor \in 0 .. version /\ floor \in 0 .. MaxWrites
        /\ cacheNow \in 0 .. MaxCacheNow /\ MaxWrites \in Nat
    BY CacheAssumption DEF ValuesInv, Clocks, CacheBounds
  <2>2. /\ \A n \in 0 .. version : n \in 0 .. MaxWrites
        /\ \A n \in 0 .. floor : n \in 0 .. MaxWrites
        /\ \A n \in Nat : n <= version => n \in 0 .. MaxWrites
        /\ \A n \in Nat : n <= cacheNow => n \in 0 .. MaxCacheNow
    BY <2>1
  <2>3. values \in Seq(EntryType)
    <3>1. values \in Seq(EntryShape) /\ DOMAIN values = 1 .. Len(values) /\ Len(values) \in Nat
      BY DEF ValuesInv, AllKept
    <3>2. ASSUME NEW i \in 1 .. Len(values) PROVE values[i] \in EntryType
      <4>1. values[i] \in EntryShape /\ Kept(values[i])
        BY <3>1 DEF ValuesInv, AllKept
      <4>2. values[i].value \in 0 .. MaxWrites /\ values[i].at \in 0 .. MaxCacheNow
        BY <2>2, <4>1 DEF EntryShape, Kept
      <4> QED
        BY <4>1, <4>2 DEF EntryShape, EntryType
    <3> QED
      BY <3>1, <3>2
  <2>4. reader \in [Readers -> [at : {"idle", "locking", "loading", "storing"},
                                key : Keys \union {Nobody}, atLeast : 0 .. MaxWrites,
                                value : 0 .. MaxWrites, overtaken : BOOLEAN]]
    BY <2>2 DEF CacheBounds, ReadersBounded, LockInv, ReaderShapes
  <2>5. replaced \in [0 .. MaxWrites -> 0 .. MaxCacheNow]
    BY <2>2 DEF CacheBounds, ValuesInv, Clocks
  <2>6. cacheAnswer \in AnswerType
    <3>1. cacheAnswer.value \in 0 .. MaxWrites /\ cacheAnswer.atLeast \in 0 .. MaxWrites
      BY <2>2 DEF ValuesInv, Answered, CacheBounds
    <3>2. cacheAnswer.at \in 0 .. MaxCacheNow
      BY <2>1, <2>2 DEF ValuesInv, Answered
    <3> QED
      BY <3>1, <3>2 DEF CacheBounds, AnswerShape, AnswerType
  <2> QED
    BY <2>1, <2>3, <2>4, <2>5, <2>6 DEF CacheTypeOK, CacheBounds, LockInv, ReaderShapes
<1> QED
  BY <1>1, <1>2, <1>3, PTL DEF CacheSpec

-----------------------------------------------------------------------------
(* BotCaches, for any number of users, updates, tokens and versions: an entry*)
(* is the answer of the user whose identity it is stored under, and was current*)
(* at the time that is stored with it; so is the answer that an update has. *)
(* Nothing that can still reach the entry is older than a refresh whose      *)
(* screen has not been drawn, if nothing older was under way at the refresh.  *)

\* With the versions S, of which O says when they were replaced, the answer v is one for
\* the user u, and not older than the time t.
Recent(S, O, u, v, t) ==
  /\ v \in Answers /\ v.of = u /\ v.version <= S[u]
  /\ v.version = S[u] \/ O[u][v.version] >= t

\* An entry of the balances of u.
EntryKept(S, O, n, u, e) == e.value # NoAnswer => e.at <= n /\ Recent(S, O, u, e.value, e.at)

\* An update on its way: who has an answer has one from after its question.
Underway(S, O, n, h) ==
  /\ h.at # "free" => h.user \in BotUsers /\ h.begun <= n /\ h.atLeast <= S[h.user]
  /\ h.at \notin {"free", "signing"} => h.token \in Tokens
  /\ h.at \in {"free", "signing", "ready"} => h.atLeast = 0
  /\ h.at = "answered" => /\ Recent(S, O, h.user, h.got, h.begun)
                          /\ h.got.version >= h.atLeast

\* Balances that were shown.
Justified(S, O, n, s) ==
  s.key = "balances" =>
    /\ s.user \in BotUsers /\ s.begun \in Nat /\ s.begun <= n
    /\ s.value \in Answers /\ s.value.of = s.user
    /\ s.value.version <= S[s.user] /\ s.value.version >= s.atLeast
    /\ ~s.failed => \/ s.value.version = S[s.user]
                    \/ s.begun - O[s.user][s.value.version] < Lifetime["balances"]

HasExpiry == \A u \in BotUsers : session[u].token = 0 => session[u].until = 0

EntriesKept ==
  \A u \in BotUsers, t \in Tokens : EntryKept(stored, outdated, now, u, balances[<<u, t>>])
AllUnderway == \A p \in Handlers : Underway(stored, outdated, now, handling[p])

\* What an update with the identity of p has been given for the balances, but not stored yet.
HasBalancesFor(p, q) ==
  /\ handling[q].at = "answered" /\ handling[q].key \in {"balances", "forced"}
  /\ IdentityKey(q) = IdentityKey(p)

\* The balances that the updates with the identity of p may store, and once its refresh
\* has returned those of the cache, are no older than the refresh.
Refreshed(p) ==
  handling[p].atLeast > 0 =>
    /\ \A q \in Handlers : HasBalancesFor(p, q) => handling[q].got.version >= handling[p].atLeast
    /\ LET e == balances[IdentityKey(p)]
       IN  handling[p].at # "written" /\ e.value # NoAnswer => e.value.version >= handling[p].atLeast
AllRefreshed == \A p \in Handlers : Refreshed(p)

BotInv ==
  /\ BotTypeOK /\ HasExpiry /\ EntriesKept /\ AllUnderway /\ AllRefreshed
  /\ Justified(stored, outdated, now, shown)

-----------------------------------------------------------------------------
\* What a statement about the time and the data needs: later times and versions.
LEMMA RecentStays ==
  ASSUME BotAssumption, BotTypeOK, NEW u \in BotUsers, Changes(u),
         NEW w \in BotUsers, NEW v, NEW t \in Nat, t <= now, Recent(stored, outdated, w, v, t)
  PROVE  Recent(stored', outdated', w, v, t)
<1>1. /\ stored' = [stored EXCEPT ![u] = stored[u] + 1]
      /\ outdated' = [outdated EXCEPT ![u] = [outdated[u] EXCEPT ![stored[u]] = now]]
  BY DEF Changes
<1>2. stored \in [BotUsers -> Versions] /\ outdated \in [BotUsers -> [Versions -> Nat]] /\ now \in Nat
  BY DEF BotTypeOK
<1>3. v \in Answers /\ v.of = w /\ v.version <= stored[w] /\ v.version \in Versions
      /\ (v.version = stored[w] \/ outdated[w][v.version] >= t)
  BY DEF Recent, Answers
<1>4. stored[u] \in Int /\ stored[w] \in Int /\ v.version \in Int
  BY <1>2, <1>3 DEF Versions
<1>5. CASE w = u
  <2>1. stored'[w] = stored[u] + 1 /\ outdated'[w] = [outdated[u] EXCEPT ![stored[u]] = now]
    BY <1>1, <1>2, <1>5
  <2>2. outdated'[w][v.version] = IF v.version = stored[u] THEN now ELSE outdated[u][v.version]
    BY <2>1, <1>2, <1>3
  <2> QED  BY <2>1, <2>2, <1>2, <1>3, <1>4, <1>5 DEF Recent
<1>6. CASE w # u
  <2>1. stored'[w] = stored[w] /\ outdated'[w] = outdated[w]
    BY <1>1, <1>2, <1>6
  <2> QED  BY <2>1 DEF Recent
<1> QED  BY <1>5, <1>6

\* A change of the data of a user leaves every entry, update and screen as good as it was.
LEMMA ChangeKeeps ==
  ASSUME BotAssumption, BotInv, NEW u \in BotUsers, Changes(u)
  PROVE  /\ stored' \in [BotUsers -> Versions] /\ outdated' \in [BotUsers -> [Versions -> Nat]]
         /\ \A w \in BotUsers, t \in Tokens : EntryKept(stored', outdated', now, w, balances[<<w, t>>])
         /\ \A p \in Handlers : Underway(stored', outdated', now, handling[p])
         /\ Justified(stored', outdated', now, shown)
<1>1. /\ stored' = [stored EXCEPT ![u] = stored[u] + 1] /\ stored[u] < botCast.changes
      /\ outdated' = [outdated EXCEPT ![u] = [outdated[u] EXCEPT ![stored[u]] = now]]
  BY DEF Changes
<1>2. stored \in [BotUsers -> Versions] /\ outdated \in [BotUsers -> [Versions -> Nat]] /\ now \in Nat
      /\ botCast.changes \in Versions
  BY BotAssumption DEF BotInv, BotTypeOK
<1>3. stored[u] \in Int /\ stored[u] + 1 \in Versions
  BY <1>1, <1>2, BotAssumption DEF Versions
<1>4. stored' \in [BotUsers -> Versions] /\ outdated' \in [BotUsers -> [Versions -> Nat]]
  BY <1>1, <1>2, <1>3
<1>5. \A w \in BotUsers : stored'[w] \in Int /\ stored[w] \in Int /\ stored[w] <= stored'[w]
  <2>1. stored'[u] = stored[u] + 1
    BY <1>1, <1>2
  <2>2. \A w \in BotUsers : w # u => stored'[w] = stored[w]
    BY <1>1, <1>2
  <2>3. \A w \in BotUsers : stored[w] \in Int
    BY <1>2 DEF Versions
  <2> QED  BY <1>3, <2>1, <2>2, <2>3
<1>6. ASSUME NEW w \in BotUsers, NEW t \in Tokens
      PROVE  EntryKept(stored', outdated', now, w, balances[<<w, t>>])
  <2>1. balances[<<w, t>>].at \in Nat /\ EntryKept(stored, outdated, now, w, balances[<<w, t>>])
    BY DEF BotInv, BotTypeOK, BotEntryType, EntriesKept
  <2> QED  BY <2>1, RecentStays DEF EntryKept, BotInv
<1>7. ASSUME NEW p \in Handlers
      PROVE  Underway(stored', outdated', now, handling[p])
  <2>1. handling[p] \in HandlingType /\ Underway(stored, outdated, now, handling[p])
    BY DEF BotInv, BotTypeOK, AllUnderway
  <2>2. handling[p].begun \in Nat /\ handling[p].atLeast \in Int
    BY <2>1 DEF HandlingType, Versions
  <2>3. handling[p].at = "answered" =>
          Recent(stored', outdated', handling[p].user, handling[p].got, handling[p].begun)
    BY <2>1, <2>2, RecentStays DEF Underway, BotInv
  <2> QED  BY <2>1, <2>2, <2>3, <1>5 DEF Underway
<1>8. Justified(stored', outdated', now, shown)
  <2> SUFFICES ASSUME shown.key = "balances" PROVE Justified(stored', outdated', now, shown)
    BY DEF Justified
  <2> DEFINE w == shown.user
             v == shown.value
  <2>1. /\ w \in BotUsers /\ shown.begun \in Nat /\ shown.begun <= now
        /\ v \in Answers /\ v.of = w
        /\ v.version <= stored[w] /\ v.version >= shown.atLeast
        /\ ~shown.failed => \/ v.version = stored[w]
                            \/ shown.begun - outdated[w][v.version] < Lifetime["balances"]
    BY DEF BotInv, Justified
  <2>2. v.version \in Versions /\ v.version \in Int
    BY <2>1 DEF Answers, Versions
  <2>3. w = u => outdated'[w][v.version] = IF v.version = stored[u] THEN now ELSE outdated[u][v.version]
    BY <1>1, <1>2, <2>1, <2>2
  <2>4. w # u => outdated'[w][v.version] = outdated[w][v.version] /\ stored'[w] = stored[w]
    BY <1>1, <1>2, <2>1
  <2>5. outdated[w][v.version] \in Int /\ Lifetime["balances"] \in Nat \ {0}
    BY <1>2, <2>1, <2>2, BotAssumption
  <2>6. ~shown.failed => \/ v.version = stored'[w]
                         \/ shown.begun - outdated'[w][v.version] < Lifetime["balances"]
    <3>1. CASE w # u
      BY <2>1, <2>4, <3>1
    <3>2. CASE w = u /\ v.version = stored[u]
      <4>1. outdated'[w][v.version] = now
        BY <2>3, <3>2
      <4>2. shown.begun - now < Lifetime["balances"]
        <5>1. shown.begun \in Nat /\ shown.begun <= now /\ now \in Nat
          BY <2>1, <1>2
        <5>2. PICK l \in Nat \ {0} : l = Lifetime["balances"]
          BY <2>5
        <5>3. shown.begun - now < l
          BY <5>1
        <5> QED  BY <5>2, <5>3
      <4>3. shown.begun - outdated'[w][v.version] < Lifetime["balances"]
        BY <4>1, <4>2, Zenon
      <4> QED  BY <4>3, Zenon
    <3>3. CASE w = u /\ v.version # stored[u]
      BY <2>1, <2>3, <3>3
    <3> QED  BY <3>1, <3>2, <3>3
  <2>7. v.version <= stored'[w]
    BY <2>1, <2>2, <1>5
  <2> QED  BY <2>1, <2>6, <2>7 DEF Justified
<1> QED  BY <1>4, <1>6, <1>7, <1>8

\* A step of p leaves the balances, drops some, or stores what p has been given.
StoresOwn(p) ==
  \A i \in BotUsers \X Tokens :
    \/ balances'[i] = balances[i] \/ balances'[i].value = NoAnswer
    \/ HasBalancesFor(p, p) /\ i = IdentityKey(p) /\ balances'[i].value = handling[p].got

\* The update p goes on as h: what it is given is current, and what it expects is what it
\* expected, from the time on at which its refresh has dropped the entry.
GoesOn(p, h) ==
  /\ h.at = "answered" => h.got.version = stored[h.user]
  /\ \/ h.atLeast = 0
     \/ /\ h.atLeast = handling[p].atLeast
        /\ h.user = handling[p].user /\ h.token = handling[p].token
        /\ handling[p].at = "written" => balances'[IdentityKey(p)].value = NoAnswer

\* Such a step brings nothing older than a refresh into the cache.
LEMMA RefreshedStay ==
  ASSUME BotAssumption, BotInv, NEW p \in Handlers, NEW h, h \in HandlingType,
         handling' = [handling EXCEPT ![p] = h], StoresOwn(p), GoesOn(p, h)
  PROVE  AllRefreshed'
<1>1. /\ \A q \in Handlers : handling'[q] = IF q = p THEN h ELSE handling[q]
      /\ \A q \in Handlers : handling[q] \in HandlingType /\ Refreshed(q)
  BY DEF BotInv, BotTypeOK, AllRefreshed
<1>2. ASSUME NEW q \in Handlers, handling[q].atLeast > 0
      PROVE  /\ handling[q].user \in BotUsers /\ handling[q].token \in Tokens
             /\ handling[q].atLeast <= stored[handling[q].user]
  <2>1. Underway(stored, outdated, now, handling[q]) /\ handling[q].atLeast \in Versions
    BY <1>1 DEF BotInv, AllUnderway, HandlingType
  <2>2. handling[q].at \notin {"free", "signing"}
    BY <1>2, <2>1
    DEF Underway
  <2> QED  BY <2>1, <2>2 DEF Underway
\* The update that p was, or another: what it expects is kept.
<1>3. ASSUME NEW q \in Handlers, handling[q].atLeast > 0, NEW g, g = handling'[q],
             g.atLeast = handling[q].atLeast, g.user = handling[q].user,
             g.token = handling[q].token,
             handling[q].at = "written" =>
               g.at = "written" \/ balances'[IdentityKey(q)].value = NoAnswer
      PROVE  Refreshed(q)'
  <2> DEFINE i == IdentityKey(q)
  <2>1. /\ i = <<handling[q].user, handling[q].token>> /\ i \in BotUsers \X Tokens
        /\ handling[q].atLeast <= stored[handling[q].user]
    BY <1>2, <1>3 DEF IdentityKey
  <2>2. IdentityKey(q)' = i
    BY <1>3 DEF IdentityKey
  <2>3. ASSUME NEW r \in Handlers, HasBalancesFor(q, r)'
        PROVE  handling'[r].got.version >= handling[q].atLeast
    <3>1. CASE r = p
      <4>1. handling'[r] = h /\ h.at = "answered" /\ h.user = handling[q].user
        BY <1>1, <2>1, <2>2, <2>3, <3>1 DEF HasBalancesFor, IdentityKey
      <4> QED  BY <2>1, <4>1 DEF GoesOn
    <3>2. CASE r # p
      <4>1. handling'[r] = handling[r]
        BY <1>1, <3>2
      <4>2. HasBalancesFor(q, r)
        BY <2>2, <2>3, <4>1 DEF HasBalancesFor, IdentityKey
      <4> QED  BY <1>1, <1>3, <4>1, <4>2 DEF Refreshed
    <3> QED  BY <3>1, <3>2
  <2>4. ASSUME g.at # "written", balances'[i].value # NoAnswer
        PROVE  balances'[i].value.version >= handling[q].atLeast
    <3>1. CASE balances'[i] = balances[i]
      BY <1>1, <1>3, <2>4, <3>1 DEF Refreshed
    <3>2. CASE HasBalancesFor(p, p) /\ i = IdentityKey(p) /\ balances'[i].value = handling[p].got
      <4>1. HasBalancesFor(q, p)
        BY <3>2 DEF HasBalancesFor
      <4> QED  BY <1>1, <1>3, <3>2, <4>1 DEF Refreshed
    <3> QED  BY <2>1, <2>4, <3>1, <3>2 DEF StoresOwn
  <2> QED  BY <1>3, <2>2, <2>3, <2>4 DEF Refreshed
<1>4. ASSUME NEW q \in Handlers, handling'[q].atLeast > 0 PROVE Refreshed(q)'
  <2>1. CASE q = p
    <3>1. handling'[q] = h /\ h.atLeast > 0 /\ h.atLeast # 0
      BY <1>1, <1>4, <2>1
    <3>2. /\ h.atLeast = handling[q].atLeast
          /\ h.user = handling[q].user /\ h.token = handling[q].token
          /\ handling[q].at = "written" => balances'[IdentityKey(q)].value = NoAnswer
      BY <2>1, <3>1 DEF GoesOn
    <3> QED  BY <1>3, <3>1, <3>2
  <2>2. CASE q # p
    <3>1. handling'[q] = handling[q]
      BY <1>1, <2>2
    <3> QED  BY <1>3, <1>4, <3>1
  <2> QED  BY <2>1, <2>2
<1> QED  BY <1>4 DEF AllRefreshed, Refreshed

\* A step of one update: what it leaves behind is in order, and the data are as they were.
LEMMA OneHandles ==
  ASSUME BotAssumption, BotInv, NEW p \in Handlers, NEW h,
         handling' = [handling EXCEPT ![p] = h],
         h \in HandlingType, Underway(stored, outdated, now, h), StoresOwn(p), GoesOn(p, h),
         UNCHANGED <<botCast, now, stored, outdated>>,
         updatesLeft' \in 0 .. botCast.count,
         session' \in [BotUsers -> [token : Tokens \union {0}, until : Nat]],
         HasExpiry',
         balances' \in [BotUsers \X Tokens -> BotEntryType], EntriesKept',
         shared' \in [SharedKeys -> BotEntryType], billing' \in BotEntryType,
         Justified(stored, outdated, now, shown')
  PROVE  BotInv'
<1>1. handling' \in [Handlers -> HandlingType]
  BY DEF BotInv, BotTypeOK
<1>2. BotTypeOK'
  BY <1>1 DEF BotInv, BotTypeOK
<1>3. \A q \in Handlers : handling'[q] = IF q = p THEN h ELSE handling[q]
  BY DEF BotInv, BotTypeOK
<1>4. AllUnderway'
  BY <1>3 DEF BotInv, AllUnderway
<1>5. AllRefreshed'
  BY RefreshedStay
<1> QED  BY <1>2, <1>4, <1>5 DEF BotInv

-----------------------------------------------------------------------------
(* The steps of an update.                                                   *)

\* What is known of an update that is on its way.
LEMMA OfHandling ==
  ASSUME BotAssumption, BotInv, NEW p \in Handlers, handling[p].at # "free"
  PROVE  LET h == handling[p]
         IN  /\ h \in HandlingType /\ h.user \in BotUsers /\ h.begun \in Nat /\ h.begun <= now
             /\ h.atLeast \in Versions /\ h.atLeast <= stored[h.user] /\ stored[h.user] \in Versions
             /\ h.at # "signing" => h.token \in Tokens
             /\ now \in Nat
BY DEF BotInv, BotTypeOK, AllUnderway, Underway, HandlingType

\* Nothing is shown at first, nor when an update begins.
LEMMA NothingToJustify ==
  ASSUME NEW S, NEW O, NEW n
  PROVE  Justified(S, O, n, NothingShown)
BY DEF Justified, NothingShown

\* A place that is free again.
LEMMA FreeAgain ==
  ASSUME BotAssumption, NEW S, NEW O, NEW n
  PROVE  NotHandling \in HandlingType /\ Underway(S, O, n, NotHandling)
BY DEF NotHandling, HandlingType, Underway, CallKeys, BotAssumption, Versions

\* The caches stay, and what they say of the time.
LEMMA CachesStay ==
  ASSUME BotAssumption, BotInv, UNCHANGED <<now, stored, outdated, balances>>
  PROVE  /\ balances' \in [BotUsers \X Tokens -> BotEntryType] /\ EntriesKept'
         /\ \A p \in Handlers : StoresOwn(p)
BY DEF BotInv, BotTypeOK, EntriesKept, StoresOwn

\* BeginUpdate: the token of a session that has not expired is one.
LEMMA BeginKeeps ==
  ASSUME BotAssumption, BotInv, NEW p \in Handlers, NEW u \in BotUsers, BeginUpdate(p, u)
  PROVE  BotInv'
<1> DEFINE h == IF Expired(session[u])
                THEN [at |-> "signing", user |-> u, token |-> 0, key |-> "none", begun |-> now,
                      got |-> NoAnswer, atLeast |-> 0]
                ELSE [at |-> "ready", user |-> u, token |-> session[u].token, key |-> "none",
                      begun |-> now, got |-> NoAnswer, atLeast |-> 0]
<1>1. handling' = [handling EXCEPT ![p] = h]
  BY DEF BeginUpdate, HandlingOf
<1>2. /\ session[u].token \in Tokens \union {0} /\ session[u].until \in Nat /\ now \in Nat
      /\ session[u].token = 0 => session[u].until = 0
      /\ stored[u] \in Versions /\ 0 \in Versions /\ "none" \in CallKeys
  BY BotAssumption DEF BotInv, BotTypeOK, HasExpiry, Versions, CallKeys
<1>3. ~Expired(session[u]) => session[u].token \in Tokens
  BY <1>2 DEF Expired
<1>4. h \in HandlingType
  BY <1>2, <1>3 DEF HandlingType
<1>5. 0 <= stored[u]
  BY <1>2 DEF Versions
<1>6. Underway(stored, outdated, now, h) /\ GoesOn(p, h)
  BY <1>2, <1>3, <1>5 DEF Underway, GoesOn
<1> HIDE DEF h
<1>7. /\ updatesLeft' \in 0 .. botCast.count
      /\ session' = session /\ shared' = shared /\ billing' = billing /\ shown' = NothingShown
      /\ UNCHANGED <<botCast, now, stored, outdated, balances>>
  BY BotAssumption DEF BeginUpdate, BotInv, BotTypeOK, caches
<1>8. HasExpiry' /\ session' \in [BotUsers -> [token : Tokens \union {0}, until : Nat]]
      /\ shared' \in [SharedKeys -> BotEntryType] /\ billing' \in BotEntryType
  BY <1>7 DEF BotInv, BotTypeOK, HasExpiry
<1> QED  BY <1>1, <1>4, <1>6, <1>7, <1>8, CachesStay, NothingToJustify, OneHandles

\* GetSession: the token that is stored is one, and the update goes on with it.
LEMMA SessionKeeps ==
  ASSUME BotAssumption, BotInv, NEW p \in Handlers, GetSession(p)
  PROVE  BotInv'
<1> DEFINE u == handling[p].user
           token == session[u].token + 1
           h == [at |-> "ready", user |-> u, token |-> token, key |-> "none", begun |-> now,
                 got |-> NoAnswer, atLeast |-> 0]
           s == [token |-> token, until |-> now + Life]
<1>1. /\ token \in Tokens /\ handling[p].at = "signing"
      /\ handling' = [handling EXCEPT ![p] = h] /\ session' = [session EXCEPT ![u] = s]
      /\ UNCHANGED <<botCast, updatesLeft, now, stored, outdated, caches, shown>>
  BY DEF GetSession, HandlingOf
<1>2. u \in BotUsers /\ stored[u] \in Versions /\ now \in Nat
  BY <1>1, OfHandling
<1>3. 0 \in Versions /\ 0 <= stored[u] /\ "none" \in CallKeys
  BY <1>2, BotAssumption DEF Versions, CallKeys
<1>4. h \in HandlingType /\ Underway(stored, outdated, now, h) /\ GoesOn(p, h)
  BY <1>1, <1>2, <1>3 DEF HandlingType, Underway, GoesOn
<1>5. s \in [token : Tokens \union {0}, until : Nat] /\ s.token # 0
  BY <1>1, <1>2 DEF Life, Tokens
<1> HIDE DEF h, s, token
<1>6. session' \in [BotUsers -> [token : Tokens \union {0}, until : Nat]] /\ HasExpiry'
  BY <1>1, <1>2, <1>5 DEF BotInv, BotTypeOK, HasExpiry
<1>7. /\ updatesLeft' \in 0 .. botCast.count
      /\ shared' \in [SharedKeys -> BotEntryType] /\ billing' \in BotEntryType
      /\ Justified(stored, outdated, now, shown')
      /\ UNCHANGED <<botCast, now, stored, outdated, balances>>
  BY <1>1 DEF BotInv, BotTypeOK, caches
<1> QED  BY <1>1, <1>4, <1>6, <1>7, CachesStay, OneHandles

\* What a step leaves alone that neither begins nor signs in.
LEMMA SessionsStay ==
  ASSUME BotAssumption, BotInv, UNCHANGED <<botCast, updatesLeft, session>>
  PROVE  /\ updatesLeft' \in 0 .. botCast.count /\ HasExpiry'
         /\ session' \in [BotUsers -> [token : Tokens \union {0}, until : Nat]]
BY DEF BotInv, BotTypeOK, HasExpiry

\* An update that ends, whatever it shows.
LEMMA EndKeeps ==
  ASSUME BotAssumption, BotInv, NEW p \in Handlers, Leaves(p),
         UNCHANGED <<botCast, updatesLeft, now, stored, outdated, session>>, StoresOwn(p),
         balances' \in [BotUsers \X Tokens -> BotEntryType], EntriesKept',
         shared' \in [SharedKeys -> BotEntryType], billing' \in BotEntryType,
         Justified(stored, outdated, now, shown')
  PROVE  BotInv'
<1>1. handling' = [handling EXCEPT ![p] = NotHandling]
  BY DEF Leaves
<1>2. GoesOn(p, NotHandling)
  BY DEF GoesOn, NotHandling
<1> QED  BY <1>1, <1>2, FreeAgain, SessionsStay, OneHandles

\* Another position of an update: what it is given is what the backend has, and it
\* expects nothing, or what it expected.
LEMMA CallKeeps ==
  ASSUME BotAssumption, BotInv, NEW p \in Handlers,
         NEW at \in {"asking", "answered", "drawing", "written"},
         NEW key \in CallKeys, NEW begun \in Nat, begun <= now,
         NEW got \in Answers \union {NoAnswer}, handling[p].at \notin {"free", "signing"},
         NEW atLeast \in {0, handling[p].atLeast}, CallAt(p, at, key, begun, got, atLeast),
         at = "answered" => got = Answer(handling[p].user),
         \/ atLeast = 0 \/ handling[p].at # "written"
         \/ balances'[IdentityKey(p)].value = NoAnswer,
         UNCHANGED <<botCast, updatesLeft, now, stored, outdated, session, shown>>, StoresOwn(p),
         balances' \in [BotUsers \X Tokens -> BotEntryType], EntriesKept',
         shared' \in [SharedKeys -> BotEntryType], billing' \in BotEntryType
  PROVE  BotInv'
<1> DEFINE h == [at |-> at, user |-> handling[p].user, token |-> handling[p].token, key |-> key,
                 begun |-> begun, got |-> got, atLeast |-> atLeast]
<1>1. handling' = [handling EXCEPT ![p] = h]
  BY DEF CallAt
<1>2. /\ handling[p].user \in BotUsers /\ handling[p].token \in Tokens
      /\ atLeast \in Versions /\ stored[handling[p].user] \in Versions
      /\ atLeast <= stored[handling[p].user]
  BY OfHandling, BotAssumption DEF Versions
<1>3. h \in HandlingType
  BY <1>2 DEF HandlingType
<1>4. at = "answered" => /\ Recent(stored, outdated, handling[p].user, got, begun)
                         /\ got.version = stored[handling[p].user] /\ got.version >= atLeast
  <2> SUFFICES ASSUME at = "answered"
               PROVE  /\ Recent(stored, outdated, handling[p].user, got, begun)
                      /\ got.version = stored[handling[p].user] /\ got.version >= atLeast
    OBVIOUS
  <2>1. /\ got \in Answers /\ got.of = handling[p].user
        /\ got.version = stored[handling[p].user]
    BY <1>2 DEF Answer, Answers
  <2>2. got.version <= stored[handling[p].user] /\ got.version >= atLeast
    BY <1>2, <2>1 DEF Versions
  <2> QED  BY <2>1, <2>2 DEF Recent
<1>5. Underway(stored, outdated, now, h)
  BY <1>2, <1>4 DEF Underway
<1>6. GoesOn(p, h)
  BY <1>4 DEF GoesOn
<1> HIDE DEF h
<1>7. Justified(stored, outdated, now, shown')
  BY DEF BotInv
<1> QED  BY <1>1, <1>3, <1>5, <1>6, <1>7, SessionsStay, OneHandles

\* Asks: the question is put now.
LEMMA AskKeeps ==
  ASSUME BotAssumption, BotInv, NEW p \in Handlers, NEW key \in CallKeys, AsksFor(p, key),
         handling[p].at \notin {"free", "signing"},
         handling[p].at = "written" => balances'[IdentityKey(p)].value = NoAnswer,
         UNCHANGED <<botCast, updatesLeft, now, stored, outdated, session>>, StoresOwn(p),
         balances' \in [BotUsers \X Tokens -> BotEntryType], EntriesKept',
         shared' \in [SharedKeys -> BotEntryType], billing' \in BotEntryType
  PROVE  BotInv'
<1>1. now \in Nat /\ now <= now
  BY DEF BotInv, BotTypeOK
<1>2. CallAt(p, "asking", key, now, NoAnswer, handling[p].atLeast) /\ UNCHANGED shown
  BY DEF AsksFor
<1> QED  BY <1>1, <1>2, CallKeeps

\* Draws: what the change has left is looked at now.
LEMMA DrawKeeps ==
  ASSUME BotAssumption, BotInv, NEW p \in Handlers,
         NEW atLeast \in {0, handling[p].atLeast}, Draws(p, atLeast),
         handling[p].at \notin {"free", "signing"}, atLeast = 0 \/ handling[p].at # "written",
         UNCHANGED <<botCast, updatesLeft, now, stored, outdated, session>>, StoresOwn(p),
         balances' \in [BotUsers \X Tokens -> BotEntryType], EntriesKept',
         shared' \in [SharedKeys -> BotEntryType], billing' \in BotEntryType
  PROVE  BotInv'
<1>1. now \in Nat /\ now <= now /\ "none" \in CallKeys
  BY DEF BotInv, BotTypeOK, CallKeys
<1>2. CallAt(p, "drawing", "none", now, NoAnswer, atLeast) /\ UNCHANGED shown
  BY DEF Draws
<1> QED  BY <1>1, <1>2, CallKeeps

\* A screen that is not about balances needs no justification.
LEMMA OtherScreens ==
  ASSUME NEW p, NEW key, key # "balances", NEW value, NEW failed, Shows(p, key, value, failed),
         NEW S, NEW O, NEW n
  PROVE  Justified(S, O, n, shown') /\ Leaves(p)
BY DEF Shows, Justified

\* What a step leaves alone that neither stores nor drops anything.
LEMMA AnswersStay ==
  ASSUME BotAssumption, BotInv, UNCHANGED caches
  PROVE  /\ balances' = balances
         /\ shared' \in [SharedKeys -> BotEntryType] /\ billing' \in BotEntryType
BY DEF BotInv, BotTypeOK, caches

\* ReadBalances: an entry that counts as fresh was current not long before the update began.
LEMMA ReadBalancesKeeps ==
  ASSUME BotAssumption, BotInv, NEW p \in Handlers, ReadBalances(p)
  PROVE  BotInv'
<1> DEFINE e == balances[IdentityKey(p)]
           u == handling[p].user
<1>1. /\ handling[p].at \in {"ready", "drawing"}
      /\ IF IsFresh(e, Lifetime["balances"]) THEN Shows(p, "balances", e.value, FALSE)
                                             ELSE AsksFor(p, "balances")
      /\ UNCHANGED <<botCast, updatesLeft, now, stored, outdated, session, caches>>
  BY DEF ReadBalances, IsReady
<1>2. /\ balances' \in [BotUsers \X Tokens -> BotEntryType] /\ EntriesKept' /\ StoresOwn(p)
      /\ shared' \in [SharedKeys -> BotEntryType] /\ billing' \in BotEntryType
  BY <1>1, CachesStay, AnswersStay
<1>3. CASE IsFresh(e, Lifetime["balances"])
  <2>1. /\ u \in BotUsers /\ handling[p].token \in Tokens /\ handling[p].begun \in Nat
        /\ handling[p].begun <= now /\ now \in Nat /\ stored[u] \in Versions
    BY <1>1, OfHandling
  <2>2. handling[p].atLeast > 0 => e.value.version >= handling[p].atLeast
    BY <1>1, <1>3 DEF BotInv, AllRefreshed, Refreshed, IsFresh
  <2>3. e \in BotEntryType /\ EntryKept(stored, outdated, now, u, e)
    BY <2>1 DEF BotInv, BotTypeOK, EntriesKept, IdentityKey
  <2>4. e.value # NoAnswer /\ now - e.at < Lifetime["balances"]
    BY <1>3 DEF IsFresh
  <2>5. Recent(stored, outdated, u, e.value, e.at) /\ e.at \in Nat
    BY <2>3, <2>4 DEF EntryKept, BotEntryType
  <2>6. e.value.version \in Versions /\ e.value.version >= handling[p].atLeast
    <3>1. e.value.version \in Versions /\ handling[p].atLeast \in Versions
      BY <1>1, <2>5, OfHandling DEF Recent, Answers
    <3> QED  BY <2>2, <3>1 DEF Versions
  <2>7. e.value.version = stored[u]
        \/ handling[p].begun - outdated[u][e.value.version] < Lifetime["balances"]
    <3>1. PICK l \in Nat : l = Lifetime["balances"]
      BY BotAssumption
    <3>2. PICK x \in Nat : x = outdated[u][e.value.version]
      BY <2>1, <2>6 DEF BotInv, BotTypeOK
    <3>3. e.value.version = stored[u] \/ x >= e.at
      BY <2>5, <3>2 DEF Recent
    <3>4. x >= e.at => handling[p].begun - x < l
      BY <2>1, <2>4, <2>5, <3>1
    <3> QED  BY <3>1, <3>2, <3>3, <3>4
  <2>8. /\ shown'.user = u /\ shown'.value = e.value /\ shown'.begun = handling[p].begun
        /\ shown'.atLeast = handling[p].atLeast /\ Leaves(p)
    BY <1>1, <1>3 DEF Shows
  <2> HIDE DEF e, u
  <2>9. Justified(stored, outdated, now, shown')
    BY <2>1, <2>5, <2>6, <2>7, <2>8 DEF Justified, Recent
  <2> QED  BY <1>1, <1>2, <2>8, <2>9, EndKeeps
<1>4. CASE ~IsFresh(e, Lifetime["balances"])
  BY <1>1, <1>2, <1>4, AskKeeps DEF CallKeys
<1> QED  BY <1>3, <1>4

\* ReadShared: the caches that all users share are not about balances.
LEMMA ReadSharedKeeps ==
  ASSUME BotAssumption, BotInv, NEW p \in Handlers, NEW key \in SharedKeys, ReadShared(p, key)
  PROVE  BotInv'
<1>1. /\ handling[p].at \in {"ready", "drawing"} /\ key # "balances" /\ key \in CallKeys
      /\ Shows(p, key, shared[key].value, FALSE) \/ AsksFor(p, key)
      /\ UNCHANGED <<botCast, updatesLeft, now, stored, outdated, session, caches>>
  BY DEF ReadShared, IsReady, CallKeys
<1>2. /\ balances' \in [BotUsers \X Tokens -> BotEntryType] /\ EntriesKept' /\ StoresOwn(p)
      /\ shared' \in [SharedKeys -> BotEntryType] /\ billing' \in BotEntryType
  BY <1>1, CachesStay, AnswersStay
<1>3. CASE Shows(p, key, shared[key].value, FALSE)
  BY <1>1, <1>2, <1>3, OtherScreens, EndKeeps
<1>4. CASE AsksFor(p, key)
  BY <1>1, <1>2, <1>4, AskKeeps
<1> QED  BY <1>1, <1>3, <1>4

\* ReadBilling: nor is the billing payload.
LEMMA ReadBillingKeeps ==
  ASSUME BotAssumption, BotInv, NEW p \in Handlers, ReadBilling(p)
  PROVE  BotInv'
<1> DEFINE e == shared["billing_current"]
<1>1. /\ handling[p].at \in {"ready", "drawing"}
      /\ UNCHANGED <<botCast, updatesLeft, now, stored, outdated, session, balances, shared>>
  BY DEF ReadBilling, IsReady
<1>2. e \in BotEntryType /\ now \in Nat /\ billing \in BotEntryType /\ shared' \in [SharedKeys -> BotEntryType]
  BY <1>1 DEF BotInv, BotTypeOK, SharedKeys
<1>3. balances' \in [BotUsers \X Tokens -> BotEntryType] /\ EntriesKept' /\ StoresOwn(p)
  BY <1>1, CachesStay
<1>4. CASE Shows(p, "billing_current", billing.value, FALSE) /\ UNCHANGED billing
  <2>1. billing' \in BotEntryType
    BY <1>2, <1>4
  <2> QED  BY <1>1, <1>2, <1>3, <1>4, <2>1, OtherScreens, EndKeeps
<1>5. CASE Shows(p, "billing_current", e.value, FALSE) /\ billing' = Entry(e.value, now)
  <2>1. billing' \in BotEntryType
    BY <1>2, <1>5 DEF BotEntryType, Entry
  <2> QED  BY <1>1, <1>2, <1>3, <1>5, <2>1, OtherScreens, EndKeeps
<1>6. CASE AsksFor(p, "billing_current") /\ UNCHANGED billing
  <2>1. billing' \in BotEntryType /\ "billing_current" \in CallKeys
    BY <1>2, <1>6 DEF CallKeys, SharedKeys
  <2> QED  BY <1>1, <1>2, <1>3, <1>6, <2>1, AskKeeps
<1> QED  BY <1>4, <1>5, <1>6 DEF ReadBilling

\* Compute: the backend has the current version, which is no older than any change.
LEMMA ComputeKeeps ==
  ASSUME BotAssumption, BotInv, NEW p \in Handlers, Compute(p)
  PROVE  BotInv'
<1> DEFINE u == handling[p].user
           v == Answer(u)
<1>1. /\ handling[p].at = "asking"
      /\ CallAt(p, "answered", handling[p].key, handling[p].begun, v, handling[p].atLeast)
      /\ UNCHANGED <<botCast, updatesLeft, now, stored, outdated, session, caches, shown>>
  BY DEF Compute
<1>2. /\ u \in BotUsers /\ handling[p].begun \in Nat /\ handling[p].begun <= now
      /\ handling[p].atLeast <= stored[u] /\ stored[u] \in Versions
      /\ handling[p].key \in CallKeys /\ handling[p].atLeast \in Versions
  BY <1>1, OfHandling DEF HandlingType
<1>3. v \in Answers
  BY <1>2 DEF Answer, Answers
<1>4. v = Answer(handling[p].user)
  OBVIOUS
<1> HIDE DEF v
<1>5. /\ balances' \in [BotUsers \X Tokens -> BotEntryType] /\ EntriesKept' /\ StoresOwn(p)
      /\ shared' \in [SharedKeys -> BotEntryType] /\ billing' \in BotEntryType
  BY <1>1, CachesStay, AnswersStay
<1>6. UNCHANGED <<botCast, updatesLeft, now, stored, outdated, session, shown>>
      /\ handling[p].at \notin {"free", "signing", "written"} /\ v \in Answers \union {NoAnswer}
  BY <1>1, <1>3
<1> QED  BY <1>1, <1>2, <1>4, <1>5, <1>6, CallKeeps

\* Arrive: the entry is stored under the identity that has asked, as of when it asked.
LEMMA ArriveKeeps ==
  ASSUME BotAssumption, BotInv, NEW p \in Handlers, Arrive(p)
  PROVE  BotInv'
<1> DEFINE h == handling[p]
           u == h.user
           t == h.token
           e == Entry(h.got, h.begun)
<1>1. /\ h.at = "answered"
      /\ balances' = IF h.key \in {"balances", "forced"}
                     THEN [balances EXCEPT ![<<u, t>>] = e] ELSE balances
      /\ shared' = IF h.key \in SharedKeys THEN [shared EXCEPT ![h.key] = Entry(h.got, now)]
                                           ELSE shared
      /\ billing' = IF h.key \in {"billing_current", "capabilities"} THEN e ELSE billing
      /\ IF h.key = "forced" THEN Draws(p, h.atLeast) ELSE Shows(p, h.key, h.got, FALSE)
      /\ UNCHANGED <<botCast, updatesLeft, now, stored, outdated, session>>
  BY DEF Arrive, IdentityKey
<1>2. /\ u \in BotUsers /\ t \in Tokens /\ h.begun \in Nat /\ h.begun <= now /\ now \in Nat
      /\ stored[u] \in Versions
  BY <1>1, OfHandling
<1>3. Recent(stored, outdated, u, h.got, h.begun) /\ h.got.version >= h.atLeast
  BY <1>1 DEF BotInv, AllUnderway, Underway
<1>4. h.got \in Answers /\ h.got.version \in Versions
  BY <1>3 DEF Recent, Answers
<1>5. /\ e \in BotEntryType /\ e.value = h.got /\ e.at = h.begun
      /\ Entry(h.got, now) \in BotEntryType
  BY <1>2, <1>4 DEF Entry, BotEntryType
<1>6. EntryKept(stored, outdated, now, u, e)
  BY <1>2, <1>3, <1>5 DEF EntryKept
<1>7. h.begun - outdated[u][h.got.version] < Lifetime["balances"] \/ h.got.version = stored[u]
  <2>1. PICK l \in Nat \ {0} : l = Lifetime["balances"]
    BY BotAssumption
  <2>2. PICK x \in Nat : x = outdated[u][h.got.version]
    BY <1>2, <1>4 DEF BotInv, BotTypeOK
  <2>3. h.got.version = stored[u] \/ x >= h.begun
    BY <1>3, <2>2 DEF Recent
  <2>4. x >= h.begun => h.begun - x < l
    BY <1>2, <2>1
  <2> QED  BY <2>1, <2>2, <2>3, <2>4
<1>8. h.got.of = u /\ h.got.version <= stored[u]
  BY <1>3 DEF Recent
<1> HIDE DEF e
<1>9. /\ balances' \in [BotUsers \X Tokens -> BotEntryType] /\ EntriesKept' /\ StoresOwn(p)
  <2>1. balances \in [BotUsers \X Tokens -> BotEntryType] /\ <<u, t>> \in BotUsers \X Tokens
    BY <1>2 DEF BotInv, BotTypeOK
  <2>2. CASE h.key \in {"balances", "forced"}
    <3>1. balances' = [balances EXCEPT ![<<u, t>>] = e]
      BY <1>1, <2>2
    <3>2. \A w \in BotUsers, s \in Tokens :
            balances'[<<w, s>>] = IF w = u /\ s = t THEN e ELSE balances[<<w, s>>]
      BY <2>1, <3>1
    <3>3. \A w \in BotUsers, s \in Tokens : EntryKept(stored, outdated, now, w, balances'[<<w, s>>])
      BY <1>6, <3>2 DEF BotInv, EntriesKept
    <3>4. EntriesKept'
      BY <1>1, <3>3 DEF EntriesKept
    <3>5. ASSUME NEW i \in BotUsers \X Tokens
          PROVE  \/ balances'[i] = balances[i]
                 \/ i = IdentityKey(p) /\ balances'[i].value = h.got
      BY <1>5, <2>1, <3>1 DEF IdentityKey
    <3>6. HasBalancesFor(p, p)
      BY <1>1, <2>2 DEF HasBalancesFor
    <3>7. StoresOwn(p)
      BY <3>5, <3>6 DEF StoresOwn
    <3> QED  BY <1>5, <2>1, <3>1, <3>4, <3>7
  <2>3. CASE h.key \notin {"balances", "forced"}
    BY <1>1, <2>3, CachesStay
  <2> QED  BY <2>2, <2>3
<1>10. shared' \in [SharedKeys -> BotEntryType] /\ billing' \in BotEntryType
  BY <1>1, <1>5 DEF BotInv, BotTypeOK
<1>11. CASE h.key # "forced"
  <2>1. /\ shown'.user = u /\ shown'.value = h.got /\ shown'.begun = h.begun
        /\ shown'.atLeast = h.atLeast /\ Leaves(p)
    BY <1>1, <1>11 DEF Shows
  <2>2. Justified(stored, outdated, now, shown')
    BY <1>2, <1>3, <1>4, <1>7, <1>8, <2>1 DEF Justified
  <2> QED  BY <1>1, <1>9, <1>10, <2>1, <2>2, EndKeeps
<1>12. CASE h.key = "forced"
  BY <1>1, <1>9, <1>10, <1>12, DrawKeeps
<1> QED  BY <1>11, <1>12

\* BalancesFail: what is shown instead is still the user's own.
LEMMA BalancesFailKeeps ==
  ASSUME BotAssumption, BotInv, NEW p \in Handlers, BalancesFail(p)
  PROVE  BotInv'
<1> DEFINE e == balances[IdentityKey(p)]
           u == handling[p].user
<1>1. /\ handling[p].at \in {"asking", "answered"}
      /\ IF e.value # NoAnswer THEN Shows(p, "balances", e.value, TRUE) ELSE ShowsNothing(p)
      /\ UNCHANGED <<botCast, updatesLeft, now, stored, outdated, session, caches>>
  BY DEF BalancesFail, CallsFor
<1>2. /\ balances' \in [BotUsers \X Tokens -> BotEntryType] /\ EntriesKept' /\ StoresOwn(p)
      /\ shared' \in [SharedKeys -> BotEntryType] /\ billing' \in BotEntryType
  BY <1>1, CachesStay, AnswersStay
<1>3. CASE e.value # NoAnswer
  <2>1. /\ u \in BotUsers /\ handling[p].token \in Tokens /\ handling[p].begun \in Nat
        /\ handling[p].begun <= now
    BY <1>1, OfHandling
  <2>2. EntryKept(stored, outdated, now, u, e)
    BY <2>1 DEF BotInv, EntriesKept, IdentityKey
  <2>3. e.value \in Answers /\ e.value.of = u /\ e.value.version <= stored[u]
    BY <1>3, <2>2 DEF EntryKept, Recent
  <2>4. e.value.version >= handling[p].atLeast
    <3>1. e.value.version \in Versions /\ handling[p].atLeast \in Versions
      BY <1>1, <2>3, OfHandling DEF Answers
    <3>2. handling[p].atLeast > 0 => e.value.version >= handling[p].atLeast
      BY <1>1, <1>3 DEF BotInv, AllRefreshed, Refreshed
    <3> QED  BY <3>1, <3>2 DEF Versions
  <2>5. /\ shown'.user = u /\ shown'.value = e.value /\ shown'.begun = handling[p].begun
        /\ shown'.atLeast = handling[p].atLeast /\ shown'.failed /\ Leaves(p)
    BY <1>1, <1>3 DEF Shows
  <2> HIDE DEF e, u
  <2>6. Justified(stored, outdated, now, shown')
    BY <1>3, <2>1, <2>3, <2>4, <2>5 DEF Justified
  <2> QED  BY <1>1, <1>2, <2>5, <2>6, EndKeeps
<1>4. CASE ShowsNothing(p)
  BY <1>1, <1>2, <1>4, EndKeeps DEF ShowsNothing, BotInv
<1> QED  BY <1>1, <1>3, <1>4

\* ForcedFails: what is drawn is what is there, or nothing.
LEMMA ForcedFailKeeps ==
  ASSUME BotAssumption, BotInv, NEW p \in Handlers, ForcedFails(p)
  PROVE  BotInv'
<1>1. /\ handling[p].at \in {"asking", "answered"}
      /\ ShowsNothing(p) \/ Draws(p, handling[p].atLeast)
      /\ UNCHANGED <<botCast, updatesLeft, now, stored, outdated, session, caches>>
  BY DEF ForcedFails, CallsFor
<1>2. /\ balances' \in [BotUsers \X Tokens -> BotEntryType] /\ EntriesKept' /\ StoresOwn(p)
      /\ shared' \in [SharedKeys -> BotEntryType] /\ billing' \in BotEntryType
  BY <1>1, CachesStay, AnswersStay
<1>3. CASE ShowsNothing(p)
  BY <1>1, <1>2, <1>3, EndKeeps DEF ShowsNothing, BotInv
<1>4. CASE Draws(p, handling[p].atLeast)
  BY <1>1, <1>2, <1>4, DrawKeeps
<1> QED  BY <1>1, <1>3, <1>4

\* The other calls that fail show nothing, or what is not about balances.
LEMMA OthersFailKeep ==
  ASSUME BotAssumption, BotInv, NEW p \in Handlers,
         SharedFails(p) \/ BillingFails(p) \/ CapabilitiesFail(p)
  PROVE  BotInv'
<1>1. /\ handling[p].at \in {"asking", "answered"}
      /\ UNCHANGED <<botCast, updatesLeft, now, stored, outdated, session, balances>>
  BY DEF SharedFails, BillingFails, CapabilitiesFail, CallsFor, caches
<1>2. balances' \in [BotUsers \X Tokens -> BotEntryType] /\ EntriesKept' /\ StoresOwn(p)
  BY <1>1, CachesStay
<1>3. /\ shared \in [SharedKeys -> BotEntryType] /\ billing \in BotEntryType /\ now \in Nat
      /\ handling[p].begun \in Nat /\ handling[p].begun <= now
      /\ handling[p].got \in Answers \union {NoAnswer}
      /\ Justified(stored, outdated, now, shown)
  BY <1>1, OfHandling DEF BotInv, BotTypeOK, HandlingType
<1>4. CASE SharedFails(p)
  BY <1>1, <1>2, <1>3, <1>4, EndKeeps DEF SharedFails, ShowsNothing, caches
<1>5. CASE BillingFails(p)
  <2>1. shared' = shared /\ shared["capabilities"].value \in Answers \union {NoAnswer}
    BY <1>3, <1>5 DEF BillingFails, SharedKeys, BotEntryType
  <2>2. CASE /\ billing' = Entry(shared["capabilities"].value, handling[p].begun)
             /\ Shows(p, "billing_current", shared["capabilities"].value, FALSE)
    <3>1. billing' \in BotEntryType
      BY <1>3, <2>1, <2>2 DEF BotEntryType, Entry
    <3> QED  BY <1>1, <1>2, <1>3, <2>1, <2>2, <3>1, OtherScreens, EndKeeps
  <2>3. CASE /\ CallAt(p, "asking", "capabilities", handling[p].begun, handling[p].got,
                       handling[p].atLeast)
             /\ UNCHANGED <<billing, shown>>
    <3>1. "capabilities" \in CallKeys /\ handling[p].at \notin {"free", "signing"}
      BY <1>1 DEF CallKeys, SharedKeys
    <3> QED  BY <1>1, <1>2, <1>3, <2>1, <2>3, <3>1, CallKeeps
  <2> QED  BY <1>5, <2>2, <2>3 DEF BillingFails
<1>6. CASE CapabilitiesFail(p)
  <2>1. Entry(NoAnswer, now) \in BotEntryType
    BY <1>3 DEF BotEntryType, Entry
  <2>2. shared' \in [SharedKeys -> BotEntryType] /\ billing' \in BotEntryType
    BY <1>3, <1>6, <2>1 DEF CapabilitiesFail
  <2>3. CASE ShowsNothing(p)
    BY <1>1, <1>2, <1>3, <2>2, <2>3, EndKeeps DEF ShowsNothing
  <2>4. CASE Shows(p, "billing_current", billing.value, TRUE)
    BY <1>1, <1>2, <2>2, <2>4, OtherScreens, EndKeeps
  <2> QED  BY <1>6, <2>3, <2>4 DEF CapabilitiesFail
<1> QED  BY <1>4, <1>5, <1>6

\* Written: an entry that is dropped says nothing; what a refresh expects counts from now on.
LEMMA WrittenKeeps ==
  ASSUME BotAssumption, BotInv, NEW p \in Handlers, Written(p)
  PROVE  BotInv'
<1> DEFINE u == handling[p].user
           t == handling[p].token
<1>1. /\ handling[p].at = "written"
      /\ \/ balances' = balances
         \/ balances' = [balances EXCEPT ![<<u, t>>] = Empty]
      /\ \/ ShowsNothing(p) \/ Draws(p, 0)
         \/ AsksFor(p, "forced") /\ balances' = [balances EXCEPT ![<<u, t>>] = Empty]
      /\ UNCHANGED <<botCast, updatesLeft, now, stored, outdated, session, billing>>
  BY DEF Written, IdentityKey
<1>2. Empty \in BotEntryType /\ Empty.value = NoAnswer
  BY DEF Empty, Entry, BotEntryType
<1>3. u \in BotUsers /\ t \in Tokens
  BY <1>1, OfHandling
<1>4. balances' \in [BotUsers \X Tokens -> BotEntryType] /\ EntriesKept' /\ StoresOwn(p)
  <2>1. CASE balances' = balances
    BY <1>1, <2>1, CachesStay
  <2>2. CASE balances' = [balances EXCEPT ![<<u, t>>] = Empty]
    <3>1. balances \in [BotUsers \X Tokens -> BotEntryType] /\ <<u, t>> \in BotUsers \X Tokens
      BY <1>3 DEF BotInv, BotTypeOK
    <3>2. \A w \in BotUsers, s \in Tokens :
            balances'[<<w, s>>] = IF w = u /\ s = t THEN Empty ELSE balances[<<w, s>>]
      BY <2>2, <3>1
    <3>3. EntriesKept'
      BY <1>1, <1>2, <3>2 DEF BotInv, EntriesKept, EntryKept
    <3>4. \A i \in BotUsers \X Tokens :
            balances'[i] = balances[i] \/ balances'[i].value = NoAnswer
      BY <1>2, <2>2, <3>1
    <3>5. StoresOwn(p)
      BY <3>4 DEF StoresOwn
    <3> QED  BY <1>2, <2>2, <3>1, <3>3, <3>5
  <2> QED  BY <1>1, <2>1, <2>2
<1>5. shared' \in [SharedKeys -> BotEntryType] /\ billing' \in BotEntryType
  <2>1. shared' = [k \in SharedKeys |-> IF k \in Drops(handling[p].key) THEN Empty ELSE shared[k]]
    BY DEF Written
  <2>2. shared \in [SharedKeys -> BotEntryType] /\ billing \in BotEntryType
    BY DEF BotInv, BotTypeOK
  <2> QED  BY <1>1, <1>2, <2>1, <2>2
<1>6. CASE ShowsNothing(p)
  BY <1>1, <1>4, <1>5, <1>6, EndKeeps DEF ShowsNothing, BotInv
<1>7. CASE Draws(p, 0)
  BY <1>1, <1>4, <1>5, <1>7, DrawKeeps
<1>8. CASE AsksFor(p, "forced") /\ balances' = [balances EXCEPT ![<<u, t>>] = Empty]
  <2>1. balances'[IdentityKey(p)].value = NoAnswer
    BY <1>2, <1>3, <1>8 DEF IdentityKey, BotInv, BotTypeOK
  <2>2. "forced" \in CallKeys
    BY DEF CallKeys
  <2> QED  BY <1>1, <1>4, <1>5, <1>8, <2>1, <2>2, AskKeeps
<1> QED  BY <1>1, <1>6, <1>7, <1>8

\* NoAccess and WriteFails: nothing is stored; QueueRefresh: nor is anything expected.
LEMMA OthersKeep ==
  ASSUME BotAssumption, BotInv, NEW p \in Handlers,
         NoAccess(p) \/ WriteFails(p) \/ QueueRefresh(p)
  PROVE  BotInv'
<1>1. UNCHANGED <<botCast, updatesLeft, now, stored, outdated, session, caches>>
  BY DEF NoAccess, WriteFails, QueueRefresh, caches
<1>2. /\ balances' \in [BotUsers \X Tokens -> BotEntryType] /\ EntriesKept' /\ StoresOwn(p)
      /\ shared' \in [SharedKeys -> BotEntryType] /\ billing' \in BotEntryType
  BY <1>1, CachesStay, AnswersStay
<1>3. CASE ShowsNothing(p)
  BY <1>1, <1>2, <1>3, EndKeeps DEF ShowsNothing, BotInv
<1>4. CASE handling[p].at = "written" /\ Draws(p, 0)
  BY <1>1, <1>2, <1>4, DrawKeeps
<1>5. CASE QueueRefresh(p)
  <2>1. /\ handling[p].at = "ready" /\ UNCHANGED shown /\ "queued" \in CallKeys
        /\ CallAt(p, "written", "queued", handling[p].begun, NoAnswer, 0)
    BY <1>5 DEF QueueRefresh, CallKeys
  <2>2. handling[p].begun \in Nat /\ handling[p].begun <= now
    BY <2>1, OfHandling
  <2> QED  BY <1>1, <1>2, <2>1, <2>2, CallKeeps
<1> QED  BY <1>3, <1>4, <1>5 DEF NoAccess, WriteFails, ShowsNothing

\* ChangeBy: a refresh expects what it has brought if nothing older is under way.
LEMMA WriteKeeps ==
  ASSUME BotAssumption, BotInv, NEW p \in Handlers, NEW write \in Writes, ChangeBy(p, write)
  PROVE  BotInv'
<1> DEFINE u == handling[p].user
           h == [at |-> "written", user |-> u, token |-> handling[p].token, key |-> write,
                 begun |-> handling[p].begun, got |-> NoAnswer, atLeast |-> Promised(p, write)]
<1>1. /\ handling[p].at = "ready" /\ Changes(u)
      /\ handling' = [handling EXCEPT ![p] = h]
      /\ UNCHANGED <<botCast, updatesLeft, now, session, caches, shown>>
  BY DEF ChangeBy, CallAt
<1>2. /\ u \in BotUsers /\ handling[p].begun \in Nat /\ handling[p].begun <= now
      /\ handling[p].token \in Tokens /\ stored[u] \in Versions /\ now \in Nat
  BY <1>1, OfHandling
<1>3. /\ stored' \in [BotUsers -> Versions] /\ outdated' \in [BotUsers -> [Versions -> Nat]]
      /\ \A w \in BotUsers, t \in Tokens : EntryKept(stored', outdated', now, w, balances[<<w, t>>])
      /\ \A q \in Handlers : Underway(stored', outdated', now, handling[q])
      /\ Justified(stored', outdated', now, shown)
  BY <1>1, <1>2, ChangeKeeps
<1>4. stored'[u] = stored[u] + 1 /\ stored'[u] \in Versions
  <2>1. stored' = [stored EXCEPT ![u] = stored[u] + 1] /\ stored \in [BotUsers -> Versions]
    BY <1>1 DEF Changes, BotInv, BotTypeOK
  <2> QED  BY <1>2, <1>3, <2>1
<1>5. /\ Promised(p, write) \in Versions /\ Promised(p, write) <= stored'[u]
      /\ Promised(p, write) > 0 => ~OlderUnderWay(p)
  BY <1>2, <1>4, BotAssumption DEF Promised, Versions
<1>6. h \in HandlingType /\ h.at = "written" /\ h.user = u /\ h.begun = handling[p].begun
      /\ h.token = handling[p].token /\ h.atLeast = Promised(p, write)
  BY <1>2, <1>5 DEF HandlingType, CallKeys
<1> HIDE DEF h
<1>7. Underway(stored', outdated', now, h)
  BY <1>2, <1>5, <1>6 DEF Underway
<1>8. /\ handling' \in [Handlers -> HandlingType]
      /\ \A q \in Handlers : handling'[q] = IF q = p THEN h ELSE handling[q]
  BY <1>1, <1>6 DEF BotInv, BotTypeOK
<1>9. AllUnderway'
  BY <1>1, <1>3, <1>7, <1>8 DEF AllUnderway
<1>10. BotTypeOK' /\ HasExpiry' /\ EntriesKept' /\ Justified(stored, outdated, now, shown)'
  BY <1>1, <1>3, <1>8 DEF BotInv, BotTypeOK, HasExpiry, EntriesKept, caches
<1>11. balances' = balances /\ \A q \in Handlers : IdentityKey(q)' = IdentityKey(q)
  BY <1>1, <1>6, <1>8 DEF caches, IdentityKey
<1>12. \A q, r \in Handlers : HasBalancesFor(q, r)' => r # p /\ HasBalancesFor(q, r)
  BY <1>6, <1>8, <1>11 DEF HasBalancesFor
<1>13. ASSUME NEW q \in Handlers, q # p PROVE Refreshed(q)'
  <2>1. Refreshed(q) /\ handling'[q] = handling[q]
    BY <1>8, <1>13 DEF BotInv, AllRefreshed
  <2>2. \A r \in Handlers : HasBalancesFor(q, r)' => HasBalancesFor(q, r) /\ handling'[r] = handling[r]
    BY <1>8, <1>12
  <2> QED  BY <1>11, <2>1, <2>2 DEF Refreshed
<1>14. Refreshed(p)'
  <2> SUFFICES ASSUME h.atLeast > 0 PROVE Refreshed(p)'
    BY <1>8 DEF Refreshed
  <2>1. \A r \in Handlers : ~HasBalancesFor(p, r)'
    BY <1>5, <1>6, <1>12 DEF OlderUnderWay, HasBalancesFor
  <2>2. handling'[p].at = "written"
    BY <1>6, <1>8
  <2> QED  BY <2>1, <2>2 DEF Refreshed
<1>15. AllRefreshed'
  BY <1>13, <1>14 DEF AllRefreshed
<1> QED  BY <1>9, <1>10, <1>15 DEF BotInv

\* BackendWrites: the backend changes something on its own.
LEMMA WorkerKeeps ==
  ASSUME BotAssumption, BotInv, NEW u \in BotUsers, BackendWrites(u)
  PROVE  BotInv'
<1>1. Changes(u) /\ UNCHANGED <<botCast, updatesLeft, now, session, caches, handling, shown>>
  BY DEF BackendWrites
<1>2. /\ stored' \in [BotUsers -> Versions] /\ outdated' \in [BotUsers -> [Versions -> Nat]]
      /\ \A w \in BotUsers, t \in Tokens : EntryKept(stored', outdated', now, w, balances[<<w, t>>])
      /\ \A q \in Handlers : Underway(stored', outdated', now, handling[q])
      /\ Justified(stored', outdated', now, shown)
  BY <1>1, ChangeKeeps
<1>3. AllRefreshed'
  BY <1>1 DEF BotInv, AllRefreshed, Refreshed, HasBalancesFor, IdentityKey, caches
<1> QED
  BY <1>1, <1>2, <1>3 DEF BotInv, BotTypeOK, HasExpiry, EntriesKept, AllUnderway, caches

\* TimeGoesOn: what was true of the past is true of it later.
LEMMA TimeKeeps ==
  ASSUME BotAssumption, BotInv, TimeGoesOn
  PROVE  BotInv'
<1>1. /\ now' = now + 1 /\ now \in Nat
      /\ UNCHANGED <<botCast, updatesLeft, stored, outdated, session, caches, handling, shown>>
  BY DEF TimeGoesOn, BotInv, BotTypeOK
<1>2. BotTypeOK' /\ HasExpiry'
  BY <1>1 DEF BotInv, BotTypeOK, HasExpiry, caches
<1>3. ASSUME NEW u \in BotUsers, NEW t \in Tokens
      PROVE  EntryKept(stored, outdated, now + 1, u, balances[<<u, t>>])
  <2>1. balances[<<u, t>>].at \in Nat /\ EntryKept(stored, outdated, now, u, balances[<<u, t>>])
    BY DEF BotInv, BotTypeOK, BotEntryType, EntriesKept
  <2> QED  BY <1>1, <2>1 DEF EntryKept
<1>4. ASSUME NEW p \in Handlers
      PROVE  Underway(stored, outdated, now + 1, handling[p])
  <2>1. handling[p].begun \in Nat /\ Underway(stored, outdated, now, handling[p])
    BY DEF BotInv, BotTypeOK, HandlingType, AllUnderway
  <2> QED  BY <1>1, <2>1 DEF Underway
<1>5. Justified(stored, outdated, now + 1, shown)
  BY <1>1 DEF BotInv, Justified
<1>6. AllRefreshed'
  BY <1>1 DEF BotInv, AllRefreshed, Refreshed, HasBalancesFor, IdentityKey, caches
<1> QED  BY <1>1, <1>2, <1>3, <1>4, <1>5, <1>6 DEF BotInv, EntriesKept, AllUnderway, caches

-----------------------------------------------------------------------------
(* The theorem.                                                              *)

\* At first the bot knows nothing.
LEMMA BotKnowsNothing ==
  ASSUME BotAssumption, BotInit
  PROVE  BotInv
<1>1. /\ NoSession \in [token : Tokens \union {0}, until : Nat] /\ NoSession.until = 0
      /\ Empty \in BotEntryType /\ Empty.value = NoAnswer /\ 0 \in Versions
      /\ botCast \in BotCasts /\ updatesLeft \in 0 .. botCast.count
  BY BotAssumption DEF BotInit, NoSession, Empty, Entry, BotEntryType, Versions
<1>2. NotHandling \in HandlingType
  BY FreeAgain
<1>3. BotTypeOK
  BY <1>1, <1>2 DEF BotInit, BotTypeOK
<1>4. HasExpiry /\ EntriesKept
  BY <1>1 DEF BotInit, HasExpiry, EntriesKept, EntryKept
<1>5. AllUnderway
  BY FreeAgain DEF BotInit, AllUnderway
<1>6. Justified(stored, outdated, now, shown)
  BY NothingToJustify DEF BotInit
<1>7. AllRefreshed
  BY DEF BotInit, AllRefreshed, Refreshed, NotHandling
<1> QED  BY <1>3, <1>4, <1>5, <1>6, <1>7 DEF BotInv

\* Every step keeps the invariant.
LEMMA BotStep ==
  ASSUME BotAssumption, BotInv, [BotNext]_botVars
  PROVE  BotInv'
<1>1. botCast.users \subseteq BotUsers /\ botCast.writes \subseteq Writes
  BY BotAssumption DEF BotInv, BotTypeOK
<1>2. ASSUME NEW p \in Handlers, HandleStep(p) PROVE BotInv'
  BY <1>1, <1>2, BeginKeeps, SessionKeeps, ReadBalancesKeeps, ReadSharedKeeps, ReadBillingKeeps,
     ComputeKeeps, ArriveKeeps, BalancesFailKeeps, ForcedFailKeeps, OthersFailKeep, WriteKeeps,
     WrittenKeeps, OthersKeep DEF HandleStep
<1>3. ASSUME NEW u \in botCast.users, BackendWrites(u) PROVE BotInv'
  BY <1>1, <1>3, WorkerKeeps
<1>4. CASE UNCHANGED botVars
  BY <1>4 DEF botVars, caches, BotInv, BotTypeOK, HasExpiry, EntriesKept, AllUnderway,
              AllRefreshed, Refreshed, HasBalancesFor, IdentityKey
<1> QED  BY <1>2, <1>3, <1>4, TimeKeeps DEF BotNext

\* The caches of the bot, for any number of users, updates, tokens and versions: the
\* balances that are shown are the user's own and current within the time to live; and no
\* older than the refresh before them, if nothing older was under way when it was made.
THEOREM BalancesAreOwn == BotSpec => []OwnBalances
<1>1. BotInv => OwnBalances
  BY DEF BotInv, Justified, OwnBalances
<1>2. BotAssumption
  BY BotAssumption
<1>3. BotInit => BotInv
  BY <1>2, BotKnowsNothing
<1>4. BotInv /\ [BotNext]_botVars => BotInv'
  BY <1>2, BotStep
<1> QED  BY <1>1, <1>3, <1>4, PTL DEF BotSpec

\* Every variable of BotCaches has its type.
THEOREM BotTypes == BotSpec => []BotTypeOK
<1>1. BotInv => BotTypeOK
  BY DEF BotInv
<1>2. BotAssumption
  BY BotAssumption
<1>3. BotInit => BotInv
  BY <1>2, BotKnowsNothing
<1>4. BotInv /\ [BotNext]_botVars => BotInv'
  BY <1>2, BotStep
<1> QED
  BY <1>1, <1>3, <1>4, PTL DEF BotSpec
================================================================================
