------------------------- MODULE BalanceRefresh_proofs -------------------------
(***************************************************************************)
(* Proofs about BalanceRefresh, for any number of organizations, services, *)
(* requests and failures: a request between two commits has left its       *)
(* target in order, unless another request of the organization came in     *)
(* between; what a request has loaded of a row is what is stored, unless   *)
(* another one has written the row since; and a circuit never counts more  *)
(* failures than there were since the provider answered.                   *)
(***************************************************************************)
EXTENDS BalanceRefresh, TLAPS

Gots == Results \union {"current", "done"}
RequestType ==
  [at : Stages, org : Organizations \union {None}, locked : BOOLEAN, got : [Services -> Gots],
   value : [Services -> Values]]
Row == [value : Values, actual : BOOLEAN]
LoadedType ==
  [row : Refreshes \union {None}, changed : BOOLEAN, actual : BOOLEAN,
   since : SUBSET (Refreshes \X BOOLEAN)]

\* The types of the tables.
StoredShapes ==
  /\ balance \in [Targets -> [Refreshes -> Row]]
  /\ latest \in [Targets -> Refreshes \union {None}]
  /\ history \in [Targets -> Values] /\ recorded \in [Targets -> SUBSET Values]
  /\ crossed \in SUBSET Targets

\* The types of what decides, without the bounds of an instance.
Shapes ==
  /\ now \in Nat /\ holding \in [Targets -> Sizes]
  /\ StoredShapes
  /\ status \in [Targets -> {"unknown", "healthy", "unhealthy"}]
  /\ circuit \in [Services -> [failures : Nat, until : Nat]]
  /\ request \in [Refreshes -> RequestType]
  /\ loaded \in [Refreshes -> LoadedType]
  /\ overlapped \in SUBSET Organizations /\ streak \in [Services -> 0 .. OpenAfter]

\* A request under way is one of an organization; two of them are known to overlap.
HasOrg == \A r \in Refreshes : request[r].at # "idle" => request[r].org \in Organizations

Alone ==
  \A p, q \in Refreshes :
    p # q /\ request[p].at # "idle" /\ request[q].at # "idle" /\ request[p].org = request[q].org =>
      request[p].org \in overlapped

\* A request is at the result of one service at most, and then waits for no provider.
AtOne(r) ==
  \A s \in Services :
    /\ request[r].got[s] = "asked" => request[r].at = "fetching"
    /\ request[r].got[s] = "current" =>
         /\ request[r].at \notin {"idle", "fetching"}
         /\ \A q \in Services : request[r].got[q] = "current" => s = q

\* What a request will save is a balance.
HasFetched(r) ==
  \A s \in Services :
    request[r].got[s] = "good" \/ At(r, "accepted", s) \/ At(r, "saving", s) =>
      request[r].value[s] \in Sizes

\* What the first commit of a request has written is still there.
HasStored(r) ==
  \A s \in Services :
    At(r, "saved", s) => Stored(<<request[r].org, s>>).actual \/ request[r].org \in overlapped
HasReported(r) ==
  \A s \in Services :
    At(r, "failing", s) \/ At(r, "marking", s) =>
      status[<<request[r].org, s>>] # "healthy" \/ request[r].org \in overlapped

Exists(t, i) == balance[t][i].value \in Sizes

\* The row that a request has loaded is the latest one as it is, or others have written
\* the target since.
LoadedIsStored(r, t) ==
  /\ loaded[r].row = None => request[r].at = "saving" /\ loaded[r].changed
  /\ loaded[r].row # None => Exists(t, loaded[r].row)
  /\ \A w \in loaded[r].since : Exists(t, w[1])
  /\ loaded[r].since # {} => request[r].org \in overlapped
  /\ loaded[r].since = {} => loaded[r].row = latest[t] /\ loaded[r].actual = Stored(t).actual
HasLoaded(r) ==
  \A s \in Services :
    At(r, "saving", s) \/ At(r, "marking", s) => LoadedIsStored(r, <<request[r].org, s>>)

InOrder(r) == HasFetched(r) /\ HasStored(r) /\ HasReported(r) /\ HasLoaded(r)

\* Every row has a value that the history holds, and the latest one is there.
RowsKept ==
  \A t \in Targets :
    /\ \A i \in Refreshes :
         balance[t][i] = NoBalance \/ (Exists(t, i) /\ balance[t][i].value \in recorded[t])
    /\ latest[t] # None => Exists(t, latest[t])

\* A circuit that is open has counted enough failures, and they came one after the other.
Counted ==
  \A s \in Services :
    /\ circuit[s].failures <= streak[s]
    /\ circuit[s].until > now => circuit[s].failures = OpenAfter

Requesting == HasOrg /\ Alone /\ \A r \in Refreshes : AtOne(r)
Storing ==
  /\ \A r \in Refreshes : InOrder(r)
  /\ RowsKept /\ HealthyIsActual /\ HistoryIsCurrent
Inv == Shapes /\ Requesting /\ Storing /\ Counted

-----------------------------------------------------------------------------
(* The requests.                                                             *)

\* A request that goes on: the others stay where they were.
LEMMA GoesOn ==
  ASSUME Shapes, NEW r \in Refreshes, NEW s \in Services, NEW at \in Stages,
         NEW what \in Gots, NEW v \in Values, request' = Goes(r, at, s, what, v)
  PROVE  /\ request' \in [Refreshes -> RequestType]
         /\ request'[r].at = at /\ request'[r].org = request[r].org
         /\ request'[r].got[s] = what /\ request'[r].value[s] = v
         /\ \A q \in Services \ {s} : /\ request'[r].got[q] = request[r].got[q]
                                      /\ request'[r].value[q] = request[r].value[q]
         /\ \A p \in Refreshes \ {r} : request'[p] = request[p]
<1>1. request[r] \in RequestType
  BY DEF Shapes
<1>2. /\ request[r].org \in Organizations \union {None} /\ request[r].locked \in BOOLEAN
      /\ request[r].got \in [Services -> Gots] /\ request[r].value \in [Services -> Values]
  BY <1>1 DEF RequestType
<1> DEFINE next == [at |-> at, org |-> request[r].org, locked |-> request[r].locked,
                    got |-> [request[r].got EXCEPT ![s] = what],
                    value |-> [request[r].value EXCEPT ![s] = v]]
<1>3. next \in RequestType
  BY <1>2 DEF RequestType
<1>4. /\ next.at = at /\ next.org = request[r].org /\ next.got[s] = what /\ next.value[s] = v
      /\ \A q \in Services \ {s} : /\ next.got[q] = request[r].got[q]
                                   /\ next.value[q] = request[r].value[q]
  BY <1>2
<1>5. request' = [request EXCEPT ![r] = next]
  BY DEF Goes
<1> HIDE DEF next
<1>6. request'[r] = next /\ \A p \in Refreshes \ {r} : request'[p] = request[p]
  BY <1>5 DEF Shapes
<1> QED
  BY <1>3, <1>4, <1>5, <1>6 DEF Shapes

\* Such a request that was under way keeps the requests in order.
LEMMA RequestingStays ==
  ASSUME Shapes, Requesting, NEW r \in Refreshes, NEW s \in Services, NEW at \in Stages \ {"idle"},
         NEW what \in Gots, NEW v \in Values, request' = Goes(r, at, s, what, v),
         request[r].at # "idle", UNCHANGED overlapped,
         what = "current" => at # "fetching",
         \A q \in Services \ {s} : request[r].got[q] # "current",
         at = "fetching" \/ (what # "asked" /\ \A q \in Services : request[r].got[q] # "asked")
  PROVE  Requesting'
<1>1. /\ request'[r].at = at /\ request'[r].org = request[r].org
      /\ request'[r].got[s] = what
      /\ \A q \in Services \ {s} : request'[r].got[q] = request[r].got[q]
      /\ \A p \in Refreshes \ {r} : request'[p] = request[p]
  BY GoesOn
<1>2. HasOrg' /\ Alone'
  BY <1>1 DEF Requesting, HasOrg, Alone
<1>3. ASSUME NEW p \in Refreshes PROVE AtOne(p)'
  <2>1. CASE p # r
    BY <1>1, <2>1 DEF Requesting, AtOne
  <2>2. CASE p = r
    BY <1>1, <2>2 DEF Requesting, AtOne
  <2> QED
    BY <2>1, <2>2
<1> QED
  BY <1>2, <1>3 DEF Requesting

\* A request that fetches is at the result of no service.
LEMMA NotCurrent ==
  ASSUME Requesting, NEW r \in Refreshes, request[r].at = "fetching"
  PROVE  \A q \in Services : request[r].got[q] # "current"
BY DEF Requesting, AtOne

\* A request that is at the result of a service is so of this one alone.
LEMMA Current ==
  ASSUME Inv, NEW r \in Refreshes, NEW s \in Services, request[r].got[s] = "current"
  PROVE  /\ request[r].at \notin {"idle", "fetching"} /\ <<request[r].org, s>> \in Targets
         /\ \A q \in Services \ {s} : request[r].got[q] # "current"
         /\ \A q \in Services : request[r].got[q] # "asked"
<1>1. request[r].at \notin {"idle", "fetching"}
  BY DEF Inv, Requesting, AtOne
<1>2. request[r].org \in Organizations
  BY <1>1 DEF Inv, Requesting, HasOrg
<1>3. <<request[r].org, s>> \in Targets
  BY <1>2 DEF Targets
<1> QED
  BY <1>1, <1>3 DEF Inv, Requesting, AtOne

\* Two requests at work on one target overlap.
LEMMA OthersOverlap ==
  ASSUME Inv, NEW r \in Refreshes, NEW p \in Refreshes \ {r}, NEW s \in Services, NEW q \in Services,
         request[r].at # "idle", request[p].at # "idle",
         <<request[p].org, q>> = <<request[r].org, s>>
  PROVE  request[p].org \in overlapped
BY DEF Inv, Requesting, Alone

\* A step of r that writes nothing but the state of its target disturbs no other request.
LEMMA OthersStay ==
  ASSUME Inv, NEW r \in Refreshes, NEW s \in Services, NEW p \in Refreshes \ {r},
         request[r].at # "idle", request'[p] = request[p], loaded'[p] = loaded[p],
         UNCHANGED <<stored, overlapped>>,
         \A u \in Targets \ {<<request[r].org, s>>} : status'[u] = status[u]
  PROVE  InOrder(p)'
<1>1. UNCHANGED <<balance, latest, history, recorded, crossed>>
  BY DEF stored
<1>2. InOrder(p)
  BY DEF Inv, Storing
<1>3. HasFetched(p)' /\ HasStored(p)'
  BY <1>1, <1>2 DEF InOrder, HasFetched, HasStored, At, Stored
<1>4. HasLoaded(p)'
  BY <1>1, <1>2 DEF InOrder, HasLoaded, LoadedIsStored, Exists, At, Stored
<1>5. HasReported(p)'
  <2> SUFFICES ASSUME NEW q \in Services, request[p].at \in {"failing", "marking"},
                      request[p].got[q] = "current", request[p].org \notin overlapped
               PROVE  status'[<<request[p].org, q>>] # "healthy"
    BY DEF HasReported, At
  <2>1. <<request[p].org, q>> \in Targets
    BY Current
  <2>2. <<request[p].org, q>> # <<request[r].org, s>>
    BY OthersOverlap
  <2>3. status[<<request[p].org, q>>] # "healthy"
    BY <1>2 DEF InOrder, HasReported, At
  <2> QED
    BY <2>1, <2>2, <2>3
<1> QED
  BY <1>3, <1>4, <1>5 DEF InOrder

-----------------------------------------------------------------------------
(* A commit.                                                                 *)

\* What a request has loaded, and so what it may write.
LEMMA WhatIsLoaded ==
  ASSUME Inv, NEW r \in Refreshes, NEW s \in Services, At(r, "saving", s) \/ At(r, "marking", s)
  PROVE  LoadedIsStored(r, <<request[r].org, s>>) /\ loaded[r] \in LoadedType
BY DEF Inv, Shapes, Storing, InOrder, HasLoaded

\* A row is committed, with a row of the history if its value is new: the target is in
\* order, and the requests that have loaded its row know that it is not what it was.
LEMMA CommitStays ==
  ASSUME Inv, NEW r \in Refreshes, NEW s \in Services, NEW t, t = <<request[r].org, s>>,
         At(r, "saving", s) \/ At(r, "marking", s),
         NEW i \in Refreshes, NEW b \in Row, NEW adds \in BOOLEAN,
         b.value \in Sizes, ~adds => b.value \in recorded[t],
         loaded[r].since = {} /\ ~adds => b.value = Stored(t).value,
         request[r].org \notin overlapped /\ status[t] = "healthy" => b.actual,
         Commits(r, t, i, b, adds), UNCHANGED <<status, overlapped>>,
         \A p \in Refreshes \ {r} : request'[p] = request[p]
  PROVE  /\ StoredShapes' /\ loaded' \in [Refreshes -> LoadedType]
         /\ RowsKept' /\ HealthyIsActual' /\ HistoryIsCurrent'
         /\ \A p \in Refreshes \ {r} : InOrder(p)'
         /\ request[r].org \in overlapped \/ Stored(t)' = b
<1> USE RefreshAssumption
<1>1. /\ t \in Targets /\ t[1] = request[r].org /\ t[2] = s
      /\ request[r].at # "idle" /\ request[r].got[s] = "current"
  BY Current DEF At
<1>2. LoadedIsStored(r, t) /\ loaded[r] \in LoadedType
  BY WhatIsLoaded
<1>3. StoredShapes /\ loaded \in [Refreshes -> LoadedType]
  BY DEF Inv, Shapes
<1>4. /\ balance' \in [Targets -> [Refreshes -> Row]] /\ balance'[t][i] = b
      /\ \A j \in Refreshes \ {i} : balance'[t][j] = balance[t][j]
      /\ \A u \in Targets \ {t} : balance'[u] = balance[u]
  BY <1>1, <1>3 DEF Commits, StoredShapes
<1>5. PICK later \in SUBSET loaded[r].since :
        /\ \/ later = {} /\ latest' = [latest EXCEPT ![t] = i]
           \/ \E w \in later : latest' = [latest EXCEPT ![t] = w[1]]
        /\ history' = IF adds /\ (\A w \in later : ~w[2])
                      THEN [history EXCEPT ![t] = b.value] ELSE history
  BY DEF Commits
<1>6. /\ \A w \in later : w[1] \in Refreshes
      /\ latest' \in [Targets -> Refreshes \union {None}]
      /\ latest'[t] = i \/ (loaded[r].since # {} /\ \E w \in later : latest'[t] = w[1])
      /\ \A u \in Targets \ {t} : latest'[u] = latest[u]
  <2>1. latest \in [Targets -> Refreshes \union {None}]
    BY <1>3 DEF StoredShapes
  <2>2. \A w \in later : w \in Refreshes \X BOOLEAN
    BY <1>2 DEF LoadedType
  <2>3. later # {} => loaded[r].since # {}
    OBVIOUS
  <2> QED
    BY <1>1, <1>5, <2>1, <2>2, <2>3
<1>7. /\ history' \in [Targets -> Values]
      /\ loaded[r].since = {} => history'[t] = IF adds THEN b.value ELSE history[t]
      /\ \A u \in Targets \ {t} : history'[u] = history[u]
  BY <1>1, <1>3, <1>5 DEF StoredShapes, Row
<1>8. /\ recorded' \in [Targets -> SUBSET Values] /\ b.value \in recorded'[t]
      /\ \A u \in Targets : recorded[u] \subseteq recorded'[u]
  <2>1. recorded' = IF adds THEN [recorded EXCEPT ![t] = @ \union {b.value}] ELSE recorded
    BY DEF Commits
  <2>2. recorded \in [Targets -> SUBSET Values] /\ b.value \in Values
    BY <1>3 DEF StoredShapes, Values
  <2>3. CASE adds
    BY <1>1, <2>1, <2>2, <2>3
  <2>4. CASE ~adds
    BY <1>1, <2>1, <2>2, <2>4
  <2> QED
    BY <2>3, <2>4
<1>9. /\ crossed' \in SUBSET Targets
      /\ loaded[r].since # {} => t \in crossed'
      /\ t \notin crossed' => adds \/ t \notin crossed
      /\ \A u \in Targets \ {t} : u \in crossed' <=> u \in crossed
  BY <1>1, <1>3 DEF Commits, StoredShapes
<1>10. StoredShapes'
  BY <1>4, <1>6, <1>7, <1>8, <1>9 DEF StoredShapes
<1>11. /\ \A u \in Targets, j \in Refreshes : Exists(u, j) => Exists(u, j)'
       /\ Exists(t, i)'
  BY <1>1, <1>4 DEF Exists
<1>12. RowsKept'
  <2>1. RowsKept /\ \A w \in later : Exists(t, w[1])
    BY <1>2 DEF Inv, Storing, LoadedIsStored
  <2> SUFFICES ASSUME NEW u \in Targets
               PROVE  /\ \A j \in Refreshes :
                           balance'[u][j] = NoBalance
                           \/ (Exists(u, j)' /\ balance'[u][j].value \in recorded'[u])
                      /\ latest'[u] # None => Exists(u, latest[u])'
    BY DEF RowsKept
  <2>2. CASE u # t
    BY <1>4, <1>6, <1>8, <2>1, <2>2 DEF RowsKept, Exists
  <2>3. CASE u = t
    <3>1. Exists(t, latest[t])'
      BY <1>1, <1>6, <1>11, <2>1 DEF Exists
    <3>2. ASSUME NEW j \in Refreshes
          PROVE  balance'[t][j] = NoBalance
                 \/ (Exists(t, j)' /\ balance'[t][j].value \in recorded'[t])
      <4>1. CASE j = i
        BY <1>4, <1>8, <1>11, <4>1
      <4>2. CASE j # i
        <5>1. balance'[t][j] = balance[t][j]
          BY <1>4, <4>2
        <5>2. balance[t][j] = NoBalance \/ (Exists(t, j) /\ balance[t][j].value \in recorded[t])
          BY <1>1, <2>1 DEF RowsKept
        <5> QED
          BY <1>1, <1>8, <1>11, <5>1, <5>2
      <4> QED
        BY <4>1, <4>2
    <3> QED
      BY <2>3, <3>1, <3>2
  <2> QED
    BY <2>2, <2>3
<1>13. /\ loaded[r].since = {} => Stored(t)' = b
       /\ \A u \in Targets \ {t} : Stored(u)' = Stored(u)
  BY <1>1, <1>4, <1>6 DEF Stored
<1>14. request[r].org \in overlapped \/ loaded[r].since = {}
  BY <1>2 DEF LoadedIsStored
<1>15. HealthyIsActual'
  BY <1>1, <1>13, <1>14 DEF Inv, Storing, HealthyIsActual
<1>16. HistoryIsCurrent'
  <2>1. ASSUME NEW u \in Targets, NEW j \in Refreshes, balance'[u][j] # NoBalance
        PROVE  balance'[u][j].value \in recorded'[u]
    BY <1>12, <2>1 DEF RowsKept
  <2>2. ASSUME NEW u \in Targets, u \notin crossed' PROVE history'[u] = Stored(u)'.value
    <3>1. CASE u = t
      BY <1>7, <1>9, <1>13, <2>2, <3>1 DEF Inv, Storing, HistoryIsCurrent
    <3>2. CASE u # t
      BY <1>7, <1>9, <1>13, <2>2, <3>2 DEF Inv, Storing, HistoryIsCurrent
    <3> QED
      BY <3>1, <3>2
  <2> QED
    BY <2>1, <2>2 DEF HistoryIsCurrent
<1>17. /\ loaded' \in [Refreshes -> LoadedType]
       /\ \A p \in Refreshes \ {r} :
            /\ ~Writes(p, t) => loaded'[p] = loaded[p]
            /\ Writes(p, t) =>
                 loaded'[p] = [row |-> loaded[p].row, changed |-> loaded[p].changed,
                               actual |-> loaded[p].actual,
                               since |-> loaded[p].since \union {<<i, adds>>}]
  <2>1. NotLoaded \in LoadedType
    BY DEF NotLoaded, LoadedType
  <2>2. ASSUME NEW p \in Refreshes
        PROVE  [row |-> loaded[p].row, changed |-> loaded[p].changed, actual |-> loaded[p].actual,
                since |-> loaded[p].since \union {<<i, adds>>}] \in LoadedType
    BY <1>3 DEF LoadedType
  <2>3. loaded' = [q \in Refreshes |->
          IF q = r THEN NotLoaded
          ELSE IF Writes(q, t)
          THEN [row |-> loaded[q].row, changed |-> loaded[q].changed, actual |-> loaded[q].actual,
                since |-> loaded[q].since \union {<<i, adds>>}]
          ELSE loaded[q]]
    BY DEF Commits
  <2> QED
    BY <1>3, <2>1, <2>2, <2>3
<1>18. ASSUME NEW p \in Refreshes \ {r} PROVE InOrder(p)'
  <2>1. request'[p] = request[p] /\ InOrder(p)
    BY DEF Inv, Storing
  <2>2. HasFetched(p)' /\ HasReported(p)'
    BY <2>1 DEF InOrder, HasFetched, HasReported, At
  <2>3. ASSUME NEW q \in Services, At(p, "saved", q), request[p].org \notin overlapped
        PROVE  Stored(<<request[p].org, q>>)'.actual
    <3>1. /\ <<request[p].org, q>> \in Targets
          /\ request[p].at # "idle"
      BY <2>3, Current DEF At
    <3>2. <<request[p].org, q>> # t
      BY <1>1, <2>3, <3>1, OthersOverlap
    <3>3. Stored(<<request[p].org, q>>).actual
      BY <2>1, <2>3 DEF InOrder, HasStored
    <3> QED
      BY <1>13, <3>1, <3>2, <3>3
  <2>4. HasStored(p)'
    BY <2>1, <2>3 DEF HasStored, At
  <2>5. ASSUME NEW q \in Services, NEW u, u = <<request[p].org, q>>,
               At(p, "saving", q) \/ At(p, "marking", q)
        PROVE  LoadedIsStored(p, u)'
    <3>1. u \in Targets /\ request[p].at # "idle" /\ loaded[p] \in LoadedType
      BY <1>3, <2>5, Current DEF At
    <3>2. LoadedIsStored(p, u)
      BY <2>5, WhatIsLoaded
    <3>3. CASE u = t
      <4>1. Writes(p, t)
        BY <1>1, <2>5, <3>3 DEF Writes, At
      <4>2. request[p].org \in overlapped
        BY <1>1, <2>5, <3>1, <3>3, OthersOverlap
      <4>3. /\ loaded'[p].row = loaded[p].row /\ loaded'[p].changed = loaded[p].changed
            /\ loaded'[p].actual = loaded[p].actual
            /\ loaded'[p].since = loaded[p].since \union {<<i, adds>>}
        BY <1>17, <4>1
      <4>4. \A w \in loaded'[p].since : Exists(t, w[1])'
        BY <1>1, <1>11, <3>1, <3>2, <4>3, <3>3, <4>1 DEF LoadedIsStored, LoadedType
      <4>5. loaded'[p].row # None => Exists(t, loaded[p].row)'
        BY <1>1, <1>11, <3>1, <3>2, <4>3, <3>3 DEF LoadedIsStored, LoadedType, Exists
      <4>6. loaded'[p].since # {}
        BY <4>3, <4>1
      <4> QED
        BY <2>1, <3>2, <4>3, <3>3, <4>2, <4>4, <4>5, <4>6 DEF LoadedIsStored, Exists
    <3>4. CASE u # t
      <4>1. ~Writes(p, t)
        <5> SUFFICES ASSUME Writes(p, t) PROVE FALSE
          OBVIOUS
        <5>1. request[p].org = t[1] /\ request[p].got[t[2]] = "current"
          BY DEF Writes
        <5>2. q = t[2]
          BY <1>1, <2>5, <5>1, Current DEF At
        <5> QED
          BY <1>1, <2>5, <3>4, <5>1, <5>2
      <4>2. loaded'[p] = loaded[p]
        BY <1>17, <4>1
      <4>3. Stored(u)' = Stored(u) /\ latest'[u] = latest[u]
        BY <1>6, <1>13, <3>1, <3>4
      <4>4. \A j : Exists(u, j)' <=> Exists(u, j)
        BY <1>4, <3>1, <3>4 DEF Exists
      <4> QED
        BY <2>1, <3>2, <4>2, <4>3, <4>4 DEF LoadedIsStored
    <3> QED
      BY <3>3, <3>4
  <2>6. HasLoaded(p)'
    BY <2>1, <2>5 DEF HasLoaded, At
  <2> QED
    BY <2>2, <2>4, <2>6 DEF InOrder
<1> QED
  BY <1>10, <1>12, <1>13, <1>14, <1>15, <1>16, <1>17, <1>18

-----------------------------------------------------------------------------
(* A request fetches.                                                        *)

Fetch(r, s) == Skip(r, s) \/ Ask(r, s) \/ ProviderAnswers(r, s) \/ Fail(r, s)

\* What a request fetches is stored nowhere yet.
LEMMA FetchStep ==
  ASSUME Inv, NEW r \in Refreshes, NEW s \in Services, Fetch(r, s)
  PROVE  Requesting' /\ Storing' /\ request' \in [Refreshes -> RequestType]
<1>1. /\ UNCHANGED <<now, holding, stored, loaded, status, overlapped>>
      /\ request[r].at = "fetching"
  <2>1. UNCHANGED <<now, holding, stored, loaded, status, overlapped>>
    BY DEF Fetch, Skip, Ask, ProviderAnswers, Fail, world, begins
  <2>2. request[r].at = "fetching"
    BY DEF Fetch, Skip, Ask, ProviderAnswers, Fail, Inv, Requesting, AtOne
  <2> QED
    BY <2>1, <2>2
<1>2. request[r].org \in Organizations
  BY <1>1 DEF Inv, Requesting, HasOrg
<1>3. holding[<<request[r].org, s>>] \in Sizes
  BY <1>2 DEF Inv, Shapes, Targets
<1>4. PICK what \in Gots \ {"current"}, v \in Values :
        request' = Goes(r, "fetching", s, what, v) /\ (what = "good" => v \in Sizes)
  BY <1>1, <1>3 DEF Fetch, Skip, Ask, ProviderAnswers, Fail, Outcome, Gots, Results, Values
<1>5. \A q \in Services : request[r].got[q] # "current"
  BY <1>1, NotCurrent DEF Inv
<1>6. Requesting'
  BY <1>1, <1>4, <1>5, RequestingStays DEF Inv, Stages
<1>7. /\ request' \in [Refreshes -> RequestType] /\ request'[r].at = "fetching"
      /\ request'[r].got[s] = what /\ request'[r].value[s] = v
      /\ \A q \in Services \ {s} : /\ request'[r].got[q] = request[r].got[q]
                                   /\ request'[r].value[q] = request[r].value[q]
      /\ \A p \in Refreshes \ {r} : request'[p] = request[p]
  BY <1>4, GoesOn DEF Inv, Stages
<1>8. HasFetched(r)'
  BY <1>1, <1>4, <1>7 DEF Inv, Storing, InOrder, HasFetched, At
<1>9. HasStored(r)' /\ HasReported(r)' /\ HasLoaded(r)'
  BY <1>7 DEF HasStored, HasReported, HasLoaded, At
<1>10. \A p \in Refreshes \ {r} : InOrder(p)'
  BY <1>1, <1>7, OthersStay
<1>11. RowsKept' /\ HealthyIsActual' /\ HistoryIsCurrent'
  BY <1>1 DEF stored, Inv, Storing, RowsKept, Exists, HealthyIsActual, HistoryIsCurrent, Stored
<1> QED
  BY <1>6, <1>7, <1>8, <1>9, <1>10, <1>11 DEF Storing, InOrder

\* A failure more.
LEMMA OneMoreFailure ==
  ASSUME NEW f \in Nat, NEW m \in 0 .. OpenAfter, f <= m
  PROVE  /\ (IF f + 1 > OpenAfter THEN OpenAfter ELSE f + 1) <= IF m < OpenAfter THEN m + 1 ELSE m
         /\ f = OpenAfter => f + 1 >= OpenAfter
         /\ f + 1 >= OpenAfter => (IF f + 1 > OpenAfter THEN OpenAfter ELSE f + 1) = OpenAfter
BY RefreshAssumption

\* The circuit follows the answers and the failures.
LEMMA CircuitStep ==
  ASSUME Inv, NEW r \in Refreshes, NEW s \in Services, Fetch(r, s)
  PROVE  /\ circuit' \in [Services -> [failures : Nat, until : Nat]]
         /\ streak' \in [Services -> 0 .. OpenAfter] /\ Counted'
<1> USE RefreshAssumption DEF Inv, Shapes, Counted
<1>1. now' = now /\ now \in Nat
  BY DEF Fetch, Skip, Ask, ProviderAnswers, Fail, world
<1>2. CASE UNCHANGED <<circuit, streak>>
  BY <1>1, <1>2
<1>3. CASE circuit' = AfterSuccess(s) /\ (streak' = streak \/ streak' = [streak EXCEPT ![s] = 0])
  <2>1. /\ circuit'[s] = Closed /\ circuit' \in [Services -> [failures : Nat, until : Nat]]
        /\ \A q \in Services \ {s} : circuit'[q] = circuit[q] /\ streak'[q] = streak[q]
        /\ streak' \in [Services -> 0 .. OpenAfter]
    BY <1>3 DEF AfterSuccess, Closed
  <2>2. Closed.failures = 0 /\ Closed.until = 0 /\ streak'[s] \in Nat
    BY <2>1 DEF Closed
  <2> QED
    BY <1>1, <2>1, <2>2
<1>4. CASE /\ circuit' = AfterFailure(s)
           /\ streak' = [streak EXCEPT ![s] = IF @ < OpenAfter THEN @ + 1 ELSE @]
  <2> DEFINE n == circuit[s].failures + 1
  <2>1. circuit' = [circuit EXCEPT ![s] =
          [failures |-> IF n > OpenAfter THEN OpenAfter ELSE n,
           until |-> IF n >= OpenAfter THEN now + OpenFor ELSE circuit[s].until]]
    BY <1>4 DEF AfterFailure
  <2>2. /\ circuit[s].failures \in Nat /\ circuit[s].until \in Nat /\ streak[s] \in 0 .. OpenAfter
        /\ circuit[s].failures <= streak[s]
        /\ circuit[s].until > now => circuit[s].failures = OpenAfter
    OBVIOUS
  <2>3. /\ circuit'[s].failures = IF n > OpenAfter THEN OpenAfter ELSE n
        /\ circuit'[s].until = IF n >= OpenAfter THEN now + OpenFor ELSE circuit[s].until
        /\ streak'[s] = IF streak[s] < OpenAfter THEN streak[s] + 1 ELSE streak[s]
        /\ \A q \in Services \ {s} : circuit'[q] = circuit[q] /\ streak'[q] = streak[q]
    BY <1>4, <2>1
  <2>4. circuit' \in [Services -> [failures : Nat, until : Nat]]
        /\ streak' \in [Services -> 0 .. OpenAfter]
    BY <1>1, <1>4, <2>1, <2>2
  <2>5. /\ circuit'[s].failures <= streak'[s]
        /\ circuit'[s].until > now => circuit'[s].failures = OpenAfter
    BY <1>1, <2>2, <2>3, OneMoreFailure
  <2> QED
    BY <1>1, <2>3, <2>4, <2>5
<1> QED
  BY <1>2, <1>3, <1>4 DEF Fetch, Skip, Ask, ProviderAnswers, Fail, AfterSuccess

-----------------------------------------------------------------------------
(* A request stores.                                                         *)

\* A balance that is fetched passes the guard or is refused.
LEMMA GuardStep ==
  ASSUME Inv, NEW r \in Refreshes, NEW s \in Services, Guard(r, s)
  PROVE  Requesting' /\ Shapes' /\ Storing'
<1>1. /\ UNCHANGED <<now, holding, stored, loaded, status, circuit, streak, overlapped>>
      /\ request[r].at = "fetching" /\ request[r].got[s] = "good"
      /\ \A q \in Services : request[r].got[q] # "asked"
  BY DEF Guard, Ready, world, begins
<1>2. request[r].value[s] \in Sizes
  BY <1>1 DEF Inv, Storing, InOrder, HasFetched
<1>3. PICK at \in {"refused", "accepted"} :
        request' = Goes(r, at, s, "current", request[r].value[s])
  BY DEF Guard
<1>4. \A q \in Services : request[r].got[q] # "current"
  BY <1>1, NotCurrent DEF Inv
<1>5. at \in Stages /\ at \notin {"idle", "fetching"} /\ "current" \in Gots
      /\ request[r].value[s] \in Values
  BY <1>2 DEF Stages, Gots, Values
<1>6. Requesting'
  BY <1>1, <1>3, <1>4, <1>5, RequestingStays DEF Inv
<1>7. /\ request' \in [Refreshes -> RequestType] /\ request'[r].at = at
      /\ request'[r].got[s] = "current" /\ request'[r].value[s] = request[r].value[s]
      /\ \A q \in Services \ {s} : /\ request'[r].got[q] = request[r].got[q]
                                   /\ request'[r].value[q] = request[r].value[q]
      /\ \A p \in Refreshes \ {r} : request'[p] = request[p]
  BY <1>3, <1>5, GoesOn DEF Inv
<1>8. InOrder(r)'
  <2>1. HasFetched(r)'
    BY <1>2, <1>4, <1>7 DEF Inv, Storing, InOrder, HasFetched, At
  <2>2. HasStored(r)' /\ HasReported(r)' /\ HasLoaded(r)'
    BY <1>7 DEF HasStored, HasReported, HasLoaded, At
  <2> QED
    BY <2>1, <2>2 DEF InOrder
<1>9. \A p \in Refreshes \ {r} : InOrder(p)'
  BY <1>1, <1>7, OthersStay
<1>10. RowsKept' /\ HealthyIsActual' /\ HistoryIsCurrent'
  BY <1>1 DEF stored, Inv, Storing, RowsKept, Exists, HealthyIsActual, HistoryIsCurrent, Stored
<1>11. Shapes'
  BY <1>1, <1>7 DEF stored, Inv, Shapes, StoredShapes
<1> QED
  BY <1>6, <1>8, <1>9, <1>10, <1>11 DEF Storing

\* The row is loaded as it is.
LEMMA LoadStep ==
  ASSUME Inv, NEW r \in Refreshes, NEW s \in Services, NEW at \in {"saving", "marking"},
         NEW v \in Values, NEW w \in Values, request[r].got[s] = "current",
         at = "saving" => request[r].at = "accepted" /\ v \in Sizes /\ w = v,
         at = "marking" => request[r].at = "failing" /\ latest[<<request[r].org, s>>] # None,
         request' = Goes(r, at, s, "current", v),
         Loads(r, <<request[r].org, s>>, w),
         UNCHANGED <<now, holding, stored, status, circuit, streak, overlapped>>
  PROVE  Requesting' /\ Shapes' /\ Storing'
<1> DEFINE t == <<request[r].org, s>>
<1>1. /\ t \in Targets /\ \A q \in Services \ {s} : request[r].got[q] # "current"
      /\ \A q \in Services : request[r].got[q] # "asked"
      /\ request[r].at \notin {"idle", "fetching"}
  BY Current
<1>2. at \in Stages /\ at \notin {"idle", "fetching"} /\ "current" \in Gots
  BY DEF Stages, Gots
<1>3. Requesting'
  BY <1>1, <1>2, RequestingStays DEF Inv
<1>4. /\ request' \in [Refreshes -> RequestType] /\ request'[r].at = at
      /\ request'[r].org = request[r].org
      /\ request'[r].got[s] = "current" /\ request'[r].value[s] = v
      /\ \A q \in Services \ {s} : /\ request'[r].got[q] = request[r].got[q]
                                   /\ request'[r].value[q] = request[r].value[q]
      /\ \A p \in Refreshes \ {r} : request'[p] = request[p]
  BY <1>2, GoesOn DEF Inv
<1>5. /\ balance \in [Targets -> [Refreshes -> Row]]
      /\ latest \in [Targets -> Refreshes \union {None}] /\ loaded \in [Refreshes -> LoadedType]
  BY DEF Inv, Shapes, StoredShapes
<1>6. Stored(t) \in Row
  <2>1. NoBalance \in Row
    BY DEF NoBalance, Row, Values
  <2> QED
    BY <1>1, <1>5, <2>1 DEF Stored
<1> DEFINE found == [row |-> latest[t], changed |-> Stored(t).value # w,
                     actual |-> Stored(t).actual, since |-> {}]
<1>7. loaded' = [loaded EXCEPT ![r] = found]
  BY DEF Loads
<1>8. found \in LoadedType
  BY <1>1, <1>5, <1>6 DEF LoadedType, Row
<1>9. /\ loaded' \in [Refreshes -> LoadedType]
      /\ loaded'[r].row = latest[t] /\ loaded'[r].actual = Stored(t).actual
      /\ loaded'[r].changed = (Stored(t).value # w) /\ loaded'[r].since = {}
      /\ \A p \in Refreshes \ {r} : loaded'[p] = loaded[p]
  BY <1>5, <1>7, <1>8
<1>10. /\ UNCHANGED <<balance, latest, history, recorded, crossed>>
       /\ Stored(t)' = Stored(t)
  BY <1>4 DEF stored, Stored
<1>11. LoadedIsStored(r, t)'
  <2>1. latest[t] = None => at = "saving" /\ Stored(t).value # w
    BY RefreshAssumption DEF Stored, NoBalance
  <2>2. latest[t] # None => Exists(t, latest[t])
    BY <1>1 DEF Inv, Storing, RowsKept
  <2> QED
    BY <1>4, <1>9, <1>10, <2>1, <2>2 DEF LoadedIsStored, Exists
<1>12. InOrder(r)'
  <2>1. \A q \in Services \ {s} : request'[r].got[q] # "current"
    BY <1>1, <1>4
  <2>2. HasLoaded(r)'
    BY <1>4, <1>11, <2>1 DEF HasLoaded, At
  <2>3. HasFetched(r)'
    BY <1>4, <2>1 DEF Inv, Storing, InOrder, HasFetched, At
  <2>4. HasReported(r)'
    BY <1>4, <2>1 DEF Inv, Storing, InOrder, HasReported, At
  <2>5. HasStored(r)'
    BY <1>4, <2>1 DEF HasStored, At
  <2> QED
    BY <2>2, <2>3, <2>4, <2>5 DEF InOrder
<1>13. \A p \in Refreshes \ {r} : InOrder(p)'
  BY <1>1, <1>4, <1>9, OthersStay
<1>14. RowsKept' /\ HealthyIsActual' /\ HistoryIsCurrent'
  BY <1>10 DEF Inv, Storing, RowsKept, Exists, HealthyIsActual, HistoryIsCurrent, Stored
<1>15. Shapes'
  BY <1>4, <1>9, <1>10 DEF Inv, Shapes, StoredShapes
<1> QED
  BY <1>3, <1>12, <1>13, <1>14, <1>15 DEF Storing

\* The row that a request has loaded has a balance of the history; alone, the request
\* has it as it is.
LEMMA LoadedRow ==
  ASSUME Inv, NEW r \in Refreshes, NEW s \in Services, NEW t, t = <<request[r].org, s>>,
         At(r, "saving", s) \/ At(r, "marking", s), loaded[r].row # None
  PROVE  /\ loaded[r].row \in Refreshes /\ t \in Targets
         /\ balance[t][loaded[r].row] \in Row
         /\ balance[t][loaded[r].row].value \in Sizes
         /\ balance[t][loaded[r].row].value \in recorded[t]
         /\ loaded[r].since = {} => /\ Stored(t) = balance[t][loaded[r].row]
                                    /\ loaded[r].actual = Stored(t).actual
         /\ request[r].org \in overlapped \/ loaded[r].since = {}
<1>1. t \in Targets
  BY Current DEF At
<1>2. LoadedIsStored(r, t) /\ loaded[r] \in LoadedType
  BY WhatIsLoaded
<1>3. loaded[r].row \in Refreshes
  BY <1>2 DEF LoadedType
<1>4. balance[t][loaded[r].row] \in Row
  BY <1>1, <1>3 DEF Inv, Shapes, StoredShapes
<1>5. balance[t][loaded[r].row].value \in Sizes
  BY <1>2 DEF LoadedIsStored, Exists
<1>6. balance[t][loaded[r].row] # NoBalance
  BY <1>5, RefreshAssumption DEF NoBalance
<1>7. balance[t][loaded[r].row].value \in recorded[t]
  BY <1>1, <1>3, <1>6 DEF Inv, Storing, RowsKept
<1>8. loaded[r].since = {} => /\ Stored(t) = balance[t][loaded[r].row]
                              /\ loaded[r].actual = Stored(t).actual
  BY <1>2 DEF LoadedIsStored, Stored
<1> QED
  BY <1>1, <1>2, <1>3, <1>4, <1>5, <1>7, <1>8 DEF LoadedIsStored

\* The row that a request saves.
LEMMA SavedRow ==
  ASSUME Inv, NEW r \in Refreshes, NEW s \in Services, NEW t, t = <<request[r].org, s>>,
         Save(r, s)
  PROVE  \E i \in Refreshes, b \in Row :
           /\ Commits(r, t, i, b, loaded[r].changed) /\ b.value \in Sizes
           /\ ~loaded[r].changed => b.value \in recorded[t]
           /\ loaded[r].since = {} /\ ~loaded[r].changed => b.value = Stored(t).value
           /\ request[r].org \in overlapped \/ b.actual
<1> DEFINE v == request[r].value[s]
           old == balance[t][loaded[r].row]
<1>1. At(r, "saving", s)
  BY DEF Save
<1>2. v \in Sizes
  BY <1>1 DEF Inv, Storing, InOrder, HasFetched
<1>3. LoadedIsStored(r, t) /\ loaded[r] \in LoadedType
  BY <1>1, WhatIsLoaded
<1>4. CASE loaded[r].row = None
  <2>1. loaded[r].changed
    BY <1>3, <1>4 DEF LoadedIsStored
  <2>2. Commits(r, t, r, [value |-> v, actual |-> TRUE], loaded[r].changed)
    BY <1>4 DEF Save, HasChanged
  <2>3. [value |-> v, actual |-> TRUE] \in Row
    BY <1>2 DEF Row, Values
  <2> QED
    BY <1>2, <2>1, <2>2, <2>3
<1>5. CASE loaded[r].row # None
  <2> DEFINE b == [value |-> IF loaded[r].changed THEN v ELSE old.value,
                   actual |-> old.actual \/ ~loaded[r].actual]
  <2>1. Commits(r, t, loaded[r].row, b, loaded[r].changed)
    BY <1>5 DEF Save, HasChanged
  <2>2. /\ loaded[r].row \in Refreshes /\ old \in Row /\ old.value \in Sizes
        /\ old.value \in recorded[t]
        /\ loaded[r].since = {} => Stored(t) = old /\ loaded[r].actual = Stored(t).actual
        /\ request[r].org \in overlapped \/ loaded[r].since = {}
    BY <1>1, <1>5, LoadedRow
  <2>3. b \in Row /\ b.value \in Sizes
    BY <1>2, <1>3, <2>2 DEF Row, Values, LoadedType
  <2>4. /\ ~loaded[r].changed => b.value = old.value
        /\ loaded[r].actual = old.actual => b.actual
    BY <1>3, <2>2 DEF Row, LoadedType
  <2> HIDE DEF b
  <2> QED
    BY <2>1, <2>2, <2>3, <2>4
<1> QED
  BY <1>4, <1>5

\* A balance that is saved is up to date.
LEMMA SaveStep ==
  ASSUME Inv, NEW r \in Refreshes, NEW s \in Services, Save(r, s)
  PROVE  Requesting' /\ Shapes' /\ Storing'
<1>1. PICK t : t = <<request[r].org, s>>
  OBVIOUS
<1>2. /\ At(r, "saving", s)
      /\ UNCHANGED <<now, holding, status, circuit, streak, overlapped>>
      /\ request' = Goes(r, "saved", s, "current", request[r].value[s])
  BY DEF Save, world, begins
<1>3. PICK i \in Refreshes, b \in Row :
        /\ Commits(r, t, i, b, loaded[r].changed) /\ b.value \in Sizes
        /\ ~loaded[r].changed => b.value \in recorded[t]
        /\ loaded[r].since = {} /\ ~loaded[r].changed => b.value = Stored(t).value
        /\ request[r].org \in overlapped \/ b.actual
  BY <1>1, SavedRow
<1>4. /\ request[r].value[s] \in Values
      /\ "saved" \in Stages \ {"idle", "fetching"} /\ "current" \in Gots
  BY <1>2 DEF Inv, Storing, InOrder, HasFetched, Values, Stages, Gots
<1>5. /\ request[r].at \notin {"idle", "fetching"} /\ t \in Targets
      /\ \A q \in Services \ {s} : request[r].got[q] # "current"
      /\ \A q \in Services : request[r].got[q] # "asked"
  BY <1>1, <1>2, Current DEF At
<1>6. Requesting'
  BY <1>2, <1>4, <1>5, RequestingStays DEF Inv
<1>7. /\ request' \in [Refreshes -> RequestType] /\ request'[r].at = "saved"
      /\ request'[r].org = request[r].org /\ request'[r].got[s] = "current"
      /\ \A q \in Services \ {s} : /\ request'[r].got[q] = request[r].got[q]
                                   /\ request'[r].value[q] = request[r].value[q]
      /\ \A p \in Refreshes \ {r} : request'[p] = request[p]
  BY <1>2, <1>4, GoesOn DEF Inv
<1>8. loaded[r].changed \in BOOLEAN
  BY DEF Inv, Shapes, LoadedType
<1>9. /\ StoredShapes' /\ loaded' \in [Refreshes -> LoadedType]
      /\ RowsKept' /\ HealthyIsActual' /\ HistoryIsCurrent'
      /\ \A p \in Refreshes \ {r} : InOrder(p)'
      /\ request[r].org \in overlapped \/ Stored(t)' = b
  BY <1>1, <1>2, <1>3, <1>7, <1>8, CommitStays
<1>10. InOrder(r)'
  <2>1. HasStored(r)'
    BY <1>1, <1>2, <1>3, <1>5, <1>7, <1>9 DEF HasStored, At
  <2>2. HasFetched(r)'
    BY <1>5, <1>7 DEF Inv, Storing, InOrder, HasFetched, At, Requesting, AtOne
  <2>3. HasReported(r)' /\ HasLoaded(r)'
    BY <1>7 DEF HasReported, HasLoaded, At
  <2> QED
    BY <2>1, <2>2, <2>3 DEF InOrder
<1>11. Shapes'
  BY <1>2, <1>7, <1>9 DEF Inv, Shapes
<1> QED
  BY <1>6, <1>9, <1>10, <1>11 DEF Storing

\* A request settles the result of a service: of it nothing is left to do.
LEMMA Settled ==
  ASSUME Inv, NEW r \in Refreshes, NEW s \in Services, request[r].got[s] = "current",
         request' = Settle(r, s), UNCHANGED overlapped
  PROVE  /\ Requesting' /\ request' \in [Refreshes -> RequestType]
         /\ InOrder(r)' /\ \A p \in Refreshes \ {r} : request'[p] = request[p]
<1>1. /\ request[r].at \notin {"idle", "fetching"}
      /\ \A q \in Services \ {s} : request[r].got[q] # "current"
      /\ \A q \in Services : request[r].got[q] # "asked"
  BY Current
<1>2. -1 \in Values /\ "fetching" \in Stages \ {"idle"} /\ "done" \in Gots
  BY DEF Values, Stages, Gots
<1>3. request' = Goes(r, "fetching", s, "done", -1)
  BY DEF Settle
<1>4. Requesting'
  BY <1>1, <1>2, <1>3, RequestingStays DEF Inv
<1>5. /\ request' \in [Refreshes -> RequestType] /\ request'[r].at = "fetching"
      /\ request'[r].got[s] = "done"
      /\ \A q \in Services \ {s} : /\ request'[r].got[q] = request[r].got[q]
                                   /\ request'[r].value[q] = request[r].value[q]
      /\ \A p \in Refreshes \ {r} : request'[p] = request[p]
  BY <1>2, <1>3, GoesOn DEF Inv
<1>6. HasFetched(r)'
  BY <1>5 DEF Inv, Storing, InOrder, HasFetched, At
<1>7. HasStored(r)' /\ HasReported(r)' /\ HasLoaded(r)'
  BY <1>5 DEF HasStored, HasReported, HasLoaded, At
<1> QED
  BY <1>4, <1>5, <1>6, <1>7 DEF InOrder

\* The state is reported: over a balance that is up to date, or for a failure.
LEMMA ReportStep ==
  ASSUME Inv, NEW r \in Refreshes, NEW s \in Services,
         ReportHealthy(r, s) \/ ReportUnhealthy(r, s)
  PROVE  Requesting' /\ Shapes' /\ Storing'
<1>1. PICK t : t = <<request[r].org, s>>
  OBVIOUS
<1>2. UNCHANGED <<now, holding, stored, loaded, circuit, streak, overlapped>>
  BY DEF ReportHealthy, ReportUnhealthy, world, begins
<1>3. UNCHANGED <<balance, latest, history, recorded, crossed>>
  BY <1>2 DEF stored
<1>4. request[r].at # "idle" /\ t \in Targets
  <2>1. request[r].at # "idle"
    BY Current DEF ReportHealthy, ReportUnhealthy, Ready, At
  <2> QED
    BY <1>1, <2>1 DEF Inv, Requesting, HasOrg, Targets
<1>5. PICK new \in {"healthy", "unhealthy"} :
        /\ status' = [status EXCEPT ![t] = new]
        /\ new = "healthy" => ReportHealthy(r, s)
        /\ new = "unhealthy" => ReportUnhealthy(r, s)
  BY <1>1 DEF ReportHealthy, ReportUnhealthy, Unhealthy
<1>6. /\ status' \in [Targets -> {"unknown", "healthy", "unhealthy"}] /\ status'[t] = new
      /\ \A u \in Targets \ {t} : status'[u] = status[u]
  BY <1>4, <1>5 DEF Inv, Shapes
<1>7. /\ Requesting' /\ request' \in [Refreshes -> RequestType]
      /\ InOrder(r)' /\ \A p \in Refreshes \ {r} : request'[p] = request[p]
  <2>1. CASE new = "healthy"
    <3>1. request[r].got[s] = "current" /\ request' = Settle(r, s)
      BY <1>5, <2>1 DEF ReportHealthy, At
    <3> QED
      BY <1>2, <3>1, Settled
  <2>2. CASE new = "unhealthy"
    <3>1. /\ request' = Goes(r, "failing", s, "current", -1)
          /\ \A q \in Services \ {s} : request[r].got[q] # "current"
          /\ \A q \in Services : request[r].got[q] # "asked"
      <4>1. request' = Goes(r, "failing", s, "current", -1)
        BY <1>5, <2>2 DEF ReportUnhealthy
      <4>2. CASE Ready(r, s)
        BY <4>1, <4>2, NotCurrent DEF Inv, Ready
      <4>3. CASE At(r, "refused", s)
        BY <4>1, <4>3, Current DEF At
      <4> QED
        BY <1>5, <2>2, <4>2, <4>3 DEF ReportUnhealthy
    <3>2. -1 \in Values /\ "failing" \in Stages \ {"idle", "fetching"} /\ "current" \in Gots
      BY DEF Values, Stages, Gots
    <3>3. Requesting'
      BY <1>2, <1>4, <3>1, <3>2, RequestingStays DEF Inv
    <3>4. /\ request' \in [Refreshes -> RequestType] /\ request'[r].at = "failing"
          /\ request'[r].org = request[r].org /\ request'[r].got[s] = "current"
          /\ \A q \in Services \ {s} : /\ request'[r].got[q] = request[r].got[q]
                                       /\ request'[r].value[q] = request[r].value[q]
          /\ \A p \in Refreshes \ {r} : request'[p] = request[p]
      BY <3>1, <3>2, GoesOn DEF Inv
    <3>5. HasReported(r)'
      BY <1>1, <1>6, <2>2, <3>1, <3>4 DEF HasReported, At
    <3>6. HasFetched(r)'
      BY <3>1, <3>4 DEF Inv, Storing, InOrder, HasFetched, At
    <3>7. HasStored(r)' /\ HasLoaded(r)'
      BY <3>4 DEF HasStored, HasLoaded, At
    <3> QED
      BY <3>3, <3>4, <3>5, <3>6, <3>7 DEF InOrder
  <2> QED
    BY <2>1, <2>2
<1>8. \A p \in Refreshes \ {r} : InOrder(p)'
  BY <1>1, <1>2, <1>4, <1>6, <1>7, OthersStay
<1>9. RowsKept' /\ HistoryIsCurrent'
  BY <1>3 DEF Inv, Storing, RowsKept, Exists, HistoryIsCurrent, Stored
<1>10. HealthyIsActual'
  <2>1. new = "healthy" => Stored(t).actual \/ request[r].org \in overlapped
    BY <1>1, <1>5 DEF ReportHealthy, Inv, Storing, InOrder, HasStored
  <2>2. \A u \in Targets : Stored(u)' = Stored(u)
    BY <1>3 DEF Stored
  <2>3. t[1] = request[r].org
    BY <1>1
  <2> QED
    BY <1>2, <1>6, <2>1, <2>2, <2>3 DEF Inv, Storing, HealthyIsActual
<1>11. Shapes'
  BY <1>2, <1>3, <1>6, <1>7 DEF Inv, Shapes, StoredShapes
<1> QED
  BY <1>7, <1>8, <1>9, <1>10, <1>11 DEF Storing

\* There is no row to mark.
LEMMA NothingToMark ==
  ASSUME Inv, NEW r \in Refreshes, NEW s \in Services, At(r, "failing", s),
         request' = Settle(r, s),
         UNCHANGED <<now, holding, stored, loaded, status, circuit, streak, overlapped>>
  PROVE  Requesting' /\ Shapes' /\ Storing'
<1>1. request[r].at # "idle"
  BY DEF At
<1>2. /\ Requesting' /\ request' \in [Refreshes -> RequestType]
      /\ InOrder(r)' /\ \A p \in Refreshes \ {r} : request'[p] = request[p]
  BY Settled DEF At
<1>3. \A p \in Refreshes \ {r} : InOrder(p)'
  BY <1>1, <1>2, OthersStay
<1>4. RowsKept' /\ HealthyIsActual' /\ HistoryIsCurrent'
  BY DEF stored, Inv, Storing, RowsKept, Exists, HealthyIsActual, HistoryIsCurrent, Stored
<1>5. Shapes'
  BY <1>2 DEF stored, Inv, Shapes, StoredShapes
<1> QED
  BY <1>2, <1>3, <1>4, <1>5 DEF Storing

\* A stale balance is marked under a state that says so.
LEMMA MarkStep ==
  ASSUME Inv, NEW r \in Refreshes, NEW s \in Services, MarkStale(r, s)
  PROVE  Requesting' /\ Shapes' /\ Storing'
<1>1. PICK t : t = <<request[r].org, s>>
  OBVIOUS
<1> DEFINE old == balance[t][loaded[r].row]
           b == [value |-> old.value, actual |-> old.actual /\ ~loaded[r].actual]
<1>2. /\ At(r, "marking", s) /\ request' = Settle(r, s)
      /\ UNCHANGED <<now, holding, status, circuit, streak, overlapped>>
      /\ Commits(r, t, loaded[r].row, b, FALSE)
  BY <1>1 DEF MarkStale, world, begins
<1>3. /\ Requesting' /\ request' \in [Refreshes -> RequestType]
      /\ InOrder(r)' /\ \A p \in Refreshes \ {r} : request'[p] = request[p]
  BY <1>2, Settled DEF At
<1>4. loaded[r].row # None
  <2>1. LoadedIsStored(r, t)
    BY <1>1, <1>2, WhatIsLoaded
  <2> QED
    BY <1>2, <2>1 DEF LoadedIsStored, At
<1>5. /\ loaded[r].row \in Refreshes /\ old \in Row /\ old.value \in Sizes
      /\ old.value \in recorded[t]
      /\ loaded[r].since = {} => Stored(t) = old
  BY <1>1, <1>2, <1>4, LoadedRow
<1>6. /\ b \in Row /\ b.value \in Sizes /\ b.value \in recorded[t]
      /\ loaded[r].since = {} => b.value = Stored(t).value
  BY <1>5 DEF Row
<1>7. request[r].org \in overlapped \/ status[t] # "healthy"
  BY <1>1, <1>2 DEF Inv, Storing, InOrder, HasReported
<1> HIDE DEF b
<1>8. /\ StoredShapes' /\ loaded' \in [Refreshes -> LoadedType]
      /\ RowsKept' /\ HealthyIsActual' /\ HistoryIsCurrent'
      /\ \A p \in Refreshes \ {r} : InOrder(p)'
  BY <1>1, <1>2, <1>3, <1>5, <1>6, <1>7, CommitStays
<1>9. Shapes'
  BY <1>2, <1>3, <1>8 DEF Inv, Shapes
<1> QED
  BY <1>3, <1>8, <1>9 DEF Storing

Store(r, s) ==
  \/ Guard(r, s) \/ LoadToSave(r, s) \/ Save(r, s) \/ ReportHealthy(r, s)
  \/ ReportUnhealthy(r, s) \/ LoadToMark(r, s) \/ MarkStale(r, s)

\* Whatever a request does with a result.
LEMMA StoreStep ==
  ASSUME Inv, NEW r \in Refreshes, NEW s \in Services, Store(r, s)
  PROVE  Requesting' /\ Shapes' /\ Storing'
<1>1. CASE LoadToSave(r, s)
  <2>1. At(r, "accepted", s) /\ request[r].value[s] \in Sizes
    BY <1>1 DEF LoadToSave, Inv, Storing, InOrder, HasFetched
  <2>2. request[r].value[s] \in Values /\ "saving" \in {"saving", "marking"}
    BY <2>1 DEF Values
  <2>3. /\ Loads(r, <<request[r].org, s>>, request[r].value[s])
        /\ request' = Goes(r, "saving", s, "current", request[r].value[s])
        /\ UNCHANGED <<now, holding, stored, status, circuit, streak, overlapped>>
    BY <1>1 DEF LoadToSave, world, begins
  <2> QED
    BY <2>1, <2>2, <2>3, LoadStep DEF At
<1>2. CASE LoadToMark(r, s)
  <2>1. At(r, "failing", s) /\ UNCHANGED <<now, holding, stored, status, circuit, streak, overlapped>>
    BY <1>2 DEF LoadToMark, world, begins
  <2>2. CASE /\ latest[<<request[r].org, s>>] = None
             /\ request' = Settle(r, s) /\ UNCHANGED loaded
    BY <2>1, <2>2, NothingToMark
  <2>3. CASE /\ latest[<<request[r].org, s>>] # None
             /\ request' = Goes(r, "marking", s, "current", -1)
             /\ Loads(r, <<request[r].org, s>>, Stored(<<request[r].org, s>>).value)
    <3>1. /\ -1 \in Values /\ "marking" \in {"saving", "marking"}
          /\ Stored(<<request[r].org, s>>).value \in Values
      <4>1. <<request[r].org, s>> \in Targets
        BY <2>1, Current DEF At
      <4> QED
        BY <4>1, <2>3 DEF Values, Inv, Shapes, StoredShapes, Stored, Row
    <3> QED
      BY <2>1, <2>3, <3>1, LoadStep DEF At
  <2> QED
    BY <1>2, <2>2, <2>3 DEF LoadToMark
<1> QED
  BY <1>1, <1>2, GuardStep, SaveStep, ReportStep, MarkStep DEF Store

-----------------------------------------------------------------------------
(* Requests come and end; the world changes.                                 *)

\* A request that comes in while another one is under way overlaps with it.
LEMMA BeginStep ==
  ASSUME Inv, NEW r \in Refreshes, NEW o \in Organizations, NEW locked \in BOOLEAN,
         NEW got \in [Services -> {"none", "done"}], Begin(r, o, locked, got)
  PROVE  Inv'
<1> DEFINE new == [at |-> "fetching", org |-> o, locked |-> locked, got |-> got,
                   value |-> [s \in Services |-> -1]]
<1>1. /\ new \in RequestType /\ new.at = "fetching" /\ new.org = o
      /\ \A s \in Services : new.got[s] \in {"none", "done"}
  BY DEF RequestType, Stages, Gots, Results, Values
<1>2. /\ request' = [request EXCEPT ![r] = new]
      /\ overlapped' = IF Running(o) # {} THEN overlapped \union {o} ELSE overlapped
      /\ UNCHANGED <<now, holding, stored, loaded, status, circuit, streak>>
  BY DEF Begin, world
<1> HIDE DEF new
<1>3. /\ request' \in [Refreshes -> RequestType] /\ request'[r] = new
      /\ \A p \in Refreshes \ {r} : request'[p] = request[p]
  BY <1>1, <1>2 DEF Inv, Shapes
<1>4. /\ overlapped \subseteq overlapped' /\ overlapped' \in SUBSET Organizations
      /\ \A p \in Refreshes : request[p].org = o => o \in overlapped'
  BY <1>2 DEF Running, Inv, Shapes
<1>5. Shapes'
  BY <1>2, <1>3, <1>4 DEF stored, Inv, Shapes, StoredShapes
<1>6. HasOrg' /\ Alone'
  BY <1>1, <1>3, <1>4 DEF Inv, Requesting, HasOrg, Alone
<1>7. ASSUME NEW p \in Refreshes PROVE AtOne(p)' /\ InOrder(p)'
  <2>1. AtOne(p) /\ InOrder(p)
    BY DEF Inv, Requesting, Storing
  <2>2. CASE p # r
    <3>1. AtOne(p)' /\ HasFetched(p)'
      BY <1>3, <2>1, <2>2 DEF AtOne, InOrder, HasFetched, At
    <3>2. HasStored(p)' /\ HasReported(p)'
      BY <1>2, <1>3, <1>4, <2>1, <2>2 DEF stored, InOrder, HasStored, HasReported, At, Stored
    <3>3. HasLoaded(p)'
      BY <1>2, <1>3, <1>4, <2>1, <2>2
         DEF stored, InOrder, HasLoaded, LoadedIsStored, Exists, At, Stored
    <3> QED
      BY <3>1, <3>2, <3>3 DEF InOrder
  <2>3. CASE p = r
    BY <1>1, <1>3, <2>3 DEF AtOne, InOrder, HasFetched, HasStored, HasReported, HasLoaded, At
  <2> QED
    BY <2>2, <2>3
<1>8. RowsKept' /\ HealthyIsActual' /\ HistoryIsCurrent'
  BY <1>2, <1>4
     DEF stored, Inv, Storing, RowsKept, Exists, HealthyIsActual, HistoryIsCurrent, Stored
<1>9. Counted'
  BY <1>2 DEF Inv, Counted
<1> QED
  BY <1>5, <1>6, <1>7, <1>8, <1>9 DEF Inv, Requesting, Storing

\* A request ends, wherever it is: what it has loaded is gone with it.
LEMMA EndStep == ASSUME Inv, NEW r \in Refreshes, End(r) PROVE Inv'
<1>1. /\ request' = [request EXCEPT ![r] = Idle] /\ loaded' = [loaded EXCEPT ![r] = NotLoaded]
      /\ UNCHANGED <<now, holding, stored, status, circuit, streak, overlapped>>
  BY DEF End, world, begins
<1>2. /\ Idle \in RequestType /\ Idle.at = "idle" /\ \A s \in Services : Idle.got[s] = "none"
  BY DEF Idle, RequestType, Stages, Gots, Results, Values
<1>3. NotLoaded \in LoadedType
  BY DEF NotLoaded, LoadedType
<1>4. /\ request' \in [Refreshes -> RequestType] /\ request'[r] = Idle
      /\ loaded' \in [Refreshes -> LoadedType]
      /\ \A p \in Refreshes \ {r} : request'[p] = request[p] /\ loaded'[p] = loaded[p]
  BY <1>1, <1>2, <1>3 DEF Inv, Shapes
<1>5. Shapes' /\ Counted'
  BY <1>1, <1>4 DEF stored, Inv, Shapes, StoredShapes, Counted
<1>6. HasOrg' /\ Alone'
  BY <1>1, <1>2, <1>4 DEF Inv, Requesting, HasOrg, Alone
<1>7. ASSUME NEW p \in Refreshes PROVE AtOne(p)' /\ InOrder(p)'
  <2>1. AtOne(p) /\ InOrder(p)
    BY DEF Inv, Requesting, Storing
  <2>2. CASE p # r
    <3>1. request'[p] = request[p] /\ loaded'[p] = loaded[p]
      BY <1>4, <2>2
    <3>2. AtOne(p)' /\ HasFetched(p)' /\ HasStored(p)' /\ HasReported(p)'
      BY <1>1, <2>1, <3>1
         DEF stored, AtOne, InOrder, HasFetched, HasStored, HasReported, At, Stored
    <3>3. HasLoaded(p)'
      BY <1>1, <2>1, <3>1 DEF stored, InOrder, HasLoaded, LoadedIsStored, Exists, At, Stored
    <3> QED
      BY <3>2, <3>3 DEF InOrder
  <2>3. CASE p = r
    BY <1>2, <1>4, <2>3 DEF AtOne, InOrder, HasFetched, HasStored, HasReported, HasLoaded, At
  <2> QED
    BY <2>2, <2>3
<1>8. RowsKept' /\ HealthyIsActual' /\ HistoryIsCurrent'
  BY <1>1 DEF stored, Inv, Storing, RowsKept, Exists, HealthyIsActual, HistoryIsCurrent, Stored
<1> QED
  BY <1>5, <1>6, <1>7, <1>8 DEF Inv, Requesting, Storing

\* The clock and the providers go on: what was open longer ago is open no more.
LEMMA WorldStep == ASSUME Inv, Tick \/ Change \/ UNCHANGED refreshVars PROVE Inv'
<1>1. UNCHANGED <<stored, loaded, status, circuit, request, overlapped, streak>>
  BY DEF Tick, Change, refreshVars, begins
<1>2. now' \in Nat /\ now <= now' /\ holding' \in [Targets -> Sizes]
  BY DEF Tick, Change, refreshVars, world, Inv, Shapes
<1>3. Shapes'
  BY <1>1, <1>2 DEF stored, Inv, Shapes, StoredShapes
<1>4. Counted'
  <2>1. \A s \in Services : circuit[s].until \in Nat /\ now \in Nat
    BY DEF Inv, Shapes
  <2> QED
    BY <1>1, <1>2, <2>1 DEF Inv, Counted
<1>5. Requesting'
  BY <1>1 DEF Inv, Requesting, HasOrg, Alone, AtOne
<1>6. RowsKept' /\ HealthyIsActual' /\ HistoryIsCurrent'
  BY <1>1 DEF stored, Inv, Storing, RowsKept, Exists, HealthyIsActual, HistoryIsCurrent, Stored
<1>7. ASSUME NEW p \in Refreshes PROVE InOrder(p)'
  <2>1. InOrder(p)
    BY DEF Inv, Storing
  <2>2. HasFetched(p)' /\ HasStored(p)' /\ HasReported(p)'
    BY <1>1, <2>1 DEF stored, InOrder, HasFetched, HasStored, HasReported, At, Stored
  <2>3. HasLoaded(p)'
    BY <1>1, <2>1 DEF stored, InOrder, HasLoaded, LoadedIsStored, Exists, At, Stored
  <2> QED
    BY <2>2, <2>3 DEF InOrder
<1> QED
  BY <1>3, <1>4, <1>5, <1>6, <1>7 DEF Inv, Storing

-----------------------------------------------------------------------------
(* All steps together.                                                       *)

\* Every step keeps the invariant.
LEMMA InvStep == ASSUME Inv, [RefreshNext]_refreshVars PROVE Inv'
<1>1. CASE Tick \/ Change \/ UNCHANGED refreshVars
  BY <1>1, WorldStep
<1>2. ASSUME NEW r \in Refreshes, End(r) PROVE Inv'
  BY <1>2, EndStep
<1>3. ASSUME NEW r \in Refreshes, NEW o \in Organizations, Refresh(r, o) PROVE Inv'
  <2>1. [s \in Services |-> "none"] \in [Services -> {"none", "done"}]
    OBVIOUS
  <2> QED
    BY <1>3, <2>1, BeginStep DEF Refresh
<1>4. ASSUME NEW r \in Refreshes, NEW o \in Organizations, GetAll(r, o) PROVE Inv'
  <2>1. PICK force \in BOOLEAN :
          Begin(r, o, FALSE,
                [s \in Services |-> IF ~force /\ IsFresh(<<o, s>>) THEN "done" ELSE "none"])
    BY <1>4 DEF GetAll
  <2>2. [s \in Services |-> IF ~force /\ IsFresh(<<o, s>>) THEN "done" ELSE "none"]
          \in [Services -> {"none", "done"}]
    OBVIOUS
  <2> QED
    BY <2>1, <2>2, BeginStep
<1>5. ASSUME NEW r \in Refreshes, NEW s \in Services, Fetch(r, s) PROVE Inv'
  <2>1. UNCHANGED <<now, holding, stored, loaded, status, overlapped>>
    BY <1>5 DEF Fetch, Skip, Ask, ProviderAnswers, Fail, world, begins
  <2>2. Shapes'
    BY <1>5, <2>1, FetchStep, CircuitStep DEF stored, Inv, Shapes, StoredShapes
  <2> QED
    BY <1>5, <2>2, FetchStep, CircuitStep DEF Inv
<1>6. ASSUME NEW r \in Refreshes, NEW s \in Services, Store(r, s) PROVE Inv'
  <2>1. Requesting' /\ Shapes' /\ Storing'
    BY <1>6, StoreStep
  <2>2. UNCHANGED <<now, circuit, streak>>
    BY <1>6 DEF Store, Guard, LoadToSave, Save, ReportHealthy, ReportUnhealthy, LoadToMark,
                MarkStale, world
  <2>3. Counted'
    BY <2>2 DEF Inv, Counted
  <2> QED
    BY <2>1, <2>3 DEF Inv
<1> QED
  BY <1>1, <1>2, <1>3, <1>4, <1>5, <1>6 DEF RefreshNext, Step, Fetch, Store

\* Nothing is stored at first.
LEMMA InvInit == ASSUME RefreshInit PROVE Inv
<1>1. /\ Idle \in RequestType /\ Idle.at = "idle" /\ \A s \in Services : Idle.got[s] = "none"
  BY DEF Idle, RequestType, Stages, Gots, Results, Values
<1>2. \A r \in Refreshes : request[r] = Idle
  BY DEF RefreshInit
<1>3. /\ circuit \in [Services -> [failures : Nat, until : Nat]]
      /\ \A s \in Services : circuit[s].failures = 0 /\ circuit[s].until = 0 /\ streak[s] = 0
      /\ streak \in [Services -> 0 .. OpenAfter]
  BY RefreshAssumption DEF RefreshInit, Closed
<1>4. NoBalance \in Row /\ -1 \in Values /\ NotLoaded \in LoadedType
  BY DEF NoBalance, Row, Values, NotLoaded, LoadedType
<1>5. StoredShapes
  BY <1>4 DEF RefreshInit, StoredShapes
<1>6. Shapes
  BY <1>1, <1>3, <1>4, <1>5 DEF RefreshInit, Shapes
<1>7. Requesting
  BY <1>1, <1>2 DEF Requesting, HasOrg, Alone, AtOne
<1>8. Storing
  <2>1. \A r \in Refreshes : InOrder(r)
    BY <1>1, <1>2 DEF InOrder, HasFetched, HasStored, HasReported, HasLoaded, At
  <2>2. \A t \in Targets : Stored(t) = NoBalance
    BY DEF RefreshInit, Stored
  <2>3. RowsKept /\ HealthyIsActual /\ HistoryIsCurrent
    BY <2>2 DEF RefreshInit, RowsKept, HealthyIsActual, HistoryIsCurrent, NoBalance
  <2> QED
    BY <2>1, <2>3 DEF Storing
<1>9. Counted
  BY <1>3 DEF RefreshInit, Counted
<1> QED
  BY <1>6, <1>7, <1>8, <1>9 DEF Inv

\* The invariant holds throughout.
LEMMA InvHolds == RefreshSpec => []Inv
<1>1. RefreshInit => Inv
  BY InvInit
<1>2. Inv /\ [RefreshNext]_refreshVars => Inv'
  BY InvStep
<1> QED
  BY <1>1, <1>2, PTL DEF RefreshSpec

\* A service is shown as healthy only over a balance that is up to date, wherever the
\* one request that works for the organization has stopped.
THEOREM HealthyBalances == RefreshSpec => []HealthyIsActual
<1>1. Inv => HealthyIsActual
  BY DEF Inv, Storing
<1> QED
  BY <1>1, InvHolds, PTL

\* What is stored is in the history for any interleaving of requests; and the history
\* ends with it unless two of them have written the target at one time and no change
\* was saved alone since.
THEOREM HistoryFollows == RefreshSpec => []HistoryIsCurrent
<1>1. Inv => HistoryIsCurrent
  BY DEF Inv, Storing
<1> QED
  BY <1>1, InvHolds, PTL

\* An open circuit has a whole series of failures behind it, of any length.
THEOREM CircuitsOpenForAReason == RefreshSpec => []OpenForAReason
<1>1. Inv => OpenForAReason
  <2> SUFFICES ASSUME Inv, NEW s \in Services, circuit[s].until > now
               PROVE  streak[s] = OpenAfter
    BY DEF OpenForAReason, CircuitIsOpen
  <2>1. /\ circuit[s].failures <= streak[s] /\ circuit[s].failures = OpenAfter
        /\ streak[s] \in 0 .. OpenAfter /\ OpenAfter \in Nat
    BY RefreshAssumption DEF Inv, Counted, Shapes
  <2> QED
    BY <2>1
<1> QED
  BY <1>1, InvHolds, PTL

-----------------------------------------------------------------------------
(* The bounds of what does not decide.                                       *)

\* A circuit is open for OpenFor at most, and what is cached was cached by now.
RefreshBounds ==
  /\ now \in 0 .. MaxNow /\ changes \in 0 .. MaxChanges /\ begun \in 0 .. MaxRequests
  /\ cached \in [Targets -> [value : Values, at : 0 .. MaxNow]]
  /\ lock \in [Organizations -> Refreshes \union {None}]
  /\ \A s \in Services : circuit[s].until <= MaxNow + OpenFor

\* A failure opens the circuit for OpenFor from now, and a success closes it.
LEMMA CircuitBounds ==
  ASSUME MaxNow \in Nat, Inv, RefreshBounds, NEW r \in Refreshes, NEW s \in Services, Fetch(r, s)
  PROVE  RefreshBounds'
<1>1. UNCHANGED <<now, changes, cached, lock, begun>>
  BY DEF Fetch, Skip, Ask, ProviderAnswers, Fail, world, begins
<1>2. now \in Nat /\ now <= MaxNow /\ OpenFor \in Nat
  BY RefreshAssumption DEF RefreshBounds, Inv, Shapes
<1>3. circuit \in [Services -> [failures : Nat, until : Nat]]
  BY DEF Inv, Shapes
<1>4. ASSUME NEW q \in Services
      PROVE  circuit'[q].until = circuit[q].until \/ circuit'[q].until = 0
             \/ circuit'[q].until = now + OpenFor
  BY <1>3 DEF Fetch, Skip, Ask, ProviderAnswers, Fail, AfterSuccess, AfterFailure, Closed
<1>5. \A q \in Services : circuit'[q].until <= MaxNow + OpenFor
  BY <1>2, <1>4 DEF RefreshBounds
<1> QED
  BY <1>1, <1>5 DEF RefreshBounds

\* The lock is taken by its request, and given back by it alone.
LEMMA LockBounds ==
  ASSUME MaxRequests \in Nat, Inv, RefreshBounds, NEW r \in Refreshes,
         End(r) \/ \E o \in Organizations : Refresh(r, o) \/ GetAll(r, o)
  PROVE  RefreshBounds'
<1>1. UNCHANGED <<now, changes, cached, circuit>>
  BY DEF End, Refresh, GetAll, Begin, world
<1>2. lock' \in [Organizations -> Refreshes \union {None}]
  BY DEF End, Refresh, GetAll, Unlocked, RefreshBounds
<1>3. begun' \in 0 .. MaxRequests
  BY DEF End, Refresh, GetAll, Begin, begins, RefreshBounds
<1> QED
  BY <1>1, <1>2, <1>3 DEF RefreshBounds

\* A balance is cached as it was saved, now.
LEMMA CommitBounds ==
  ASSUME Inv, RefreshBounds, NEW r \in Refreshes, NEW s \in Services, Store(r, s)
  PROVE  RefreshBounds'
<1>1. UNCHANGED <<now, changes, circuit, lock, begun>>
  BY DEF Store, Guard, LoadToSave, Save, ReportUnhealthy, ReportHealthy, LoadToMark, MarkStale,
         world, begins
<1>2. request[r].value[s] \in Values
  <2>1. request[r] \in RequestType
    BY DEF Inv, Shapes
  <2> QED
    BY <2>1 DEF RequestType
<1>3. cached' \in [Targets -> [value : Values, at : 0 .. MaxNow]]
  <2>1. CASE UNCHANGED cached
    BY <2>1 DEF RefreshBounds
  <2>2. CASE ReportHealthy(r, s)
    BY <1>2, <2>2 DEF ReportHealthy, RefreshBounds
  <2> QED
    BY <2>1, <2>2 DEF Store, Guard, LoadToSave, Save, ReportUnhealthy, LoadToMark, MarkStale
<1> QED
  BY <1>1, <1>3 DEF RefreshBounds

\* The clock and the changes stop at their bounds.
LEMMA WorldBounds ==
  ASSUME MaxNow \in Nat, MaxChanges \in Nat, RefreshBounds, Tick \/ Change \/ UNCHANGED refreshVars
  PROVE  RefreshBounds'
<1>1. UNCHANGED <<cached, circuit, lock, begun>>
  BY DEF Tick, Change, refreshVars, begins
<1>2. now' \in 0 .. MaxNow /\ changes' \in 0 .. MaxChanges
  BY DEF Tick, Change, refreshVars, world, RefreshBounds
<1> QED
  BY <1>1, <1>2 DEF RefreshBounds

\* Every variable of BalanceRefresh has its type, within the bounds of an instance.
THEOREM RefreshTypes ==
  ASSUME MaxNow \in Nat, MaxChanges \in Nat, MaxRequests \in Nat
  PROVE  RefreshSpec => []RefreshTypeOK
<1>1. RefreshInit => RefreshBounds
  <2> SUFFICES ASSUME RefreshInit PROVE RefreshBounds
    OBVIOUS
  <2>1. cached \in [Targets -> [value : Values, at : 0 .. MaxNow]]
    BY DEF RefreshInit, NotCached, Values
  <2>2. \A s \in Services : circuit[s].until <= MaxNow + OpenFor
    BY RefreshAssumption DEF RefreshInit, Closed
  <2> QED
    BY <2>1, <2>2 DEF RefreshInit, RefreshBounds
<1>2. Inv /\ RefreshBounds /\ [RefreshNext]_refreshVars => RefreshBounds'
  BY CircuitBounds, LockBounds, CommitBounds, WorldBounds DEF RefreshNext, Step, Fetch, Store
<1>3. Inv /\ RefreshBounds => RefreshTypeOK
  <2> SUFFICES ASSUME Inv, RefreshBounds PROVE RefreshTypeOK
    OBVIOUS
  <2>1. circuit \in [Services -> [failures : 0 .. OpenAfter, until : 0 .. MaxNow + OpenFor]]
    <3>1. \A s \in Services : /\ circuit[s].failures \in Nat /\ circuit[s].until \in Nat
                              /\ circuit[s].failures <= streak[s] /\ streak[s] \in 0 .. OpenAfter
                              /\ circuit[s].until <= MaxNow + OpenFor
      BY DEF Inv, Shapes, Counted, RefreshBounds
    <3>2. \A s \in Services : circuit[s].failures \in 0 .. OpenAfter
                              /\ circuit[s].until \in 0 .. MaxNow + OpenFor
      BY <3>1, RefreshAssumption
    <3> QED
      BY <3>2 DEF Inv, Shapes
  <2> QED
    BY <2>1 DEF Inv, Shapes, StoredShapes, RefreshBounds, RefreshTypeOK, RequestType, LoadedType,
                Row, Gots
<1> QED
  BY <1>1, <1>2, <1>3, InvHolds, PTL DEF RefreshSpec
==============================================================================
