------------------------------ MODULE JobQueue ------------------------------
(***************************************************************************)
(* What a job queue promises to those who use it: an identifier is given   *)
(* out once, a job is started once and ends once, what has ended stays as  *)
(* it ended, and, where keys are unique, no two unfinished jobs share one. *)
(* SyncJobs implements this as long as no live run outlasts the timeout    *)
(* after which it is taken for dead.                                       *)
(***************************************************************************)
EXTENDS Naturals

CONSTANTS MaxJobs, Keys, NoKey, Unique

VARIABLES state, key, last

jobVars == <<state, key, last>>

Ids == 1 .. MaxJobs
Outcomes == {"completed", "failed"}
Unfinished == {"queued", "running"}

Init ==
  /\ state = [j \in Ids |-> "none"]
  /\ key = [j \in Ids |-> NoKey]
  /\ last = 0

\* The next identifier goes to a job of key k.
Add(k) ==
  /\ last < MaxJobs
  /\ Unique => \A j \in Ids : state[j] \in Unfinished => key[j] # k
  /\ last' = last + 1
  /\ state' = [state EXCEPT ![last + 1] = "queued"]
  /\ key' = [key EXCEPT ![last + 1] = k]

Start(j) ==
  /\ state[j] = "queued"
  /\ state' = [state EXCEPT ![j] = "running"]
  /\ UNCHANGED <<key, last>>

\* Several running jobs may end at once, all alike.
End(S, outcome) ==
  /\ \A j \in S : state[j] = "running"
  /\ state' = [j \in Ids |-> IF j \in S THEN outcome ELSE state[j]]
  /\ UNCHANGED <<key, last>>

Next ==
  \/ \E k \in Keys : Add(k)
  \/ \E j \in Ids : Start(j)
  \/ \E S \in SUBSET Ids, outcome \in Outcomes : End(S, outcome)

Spec == Init /\ [][Next]_jobVars
=============================================================================
