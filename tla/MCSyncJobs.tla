----------------------------- MODULE MCSyncJobs -----------------------------
(***************************************************************************)
(* Small instances of SyncJobs for TLC.                                    *)
(***************************************************************************)
EXTENDS SyncJobs, TLC

CONSTANTS i1, i2, w1, w2, c1, c2

\* Two integrations on one service key, or each on its own.
SharedService == [i \in Integrations |-> "service"]
OwnService == [i \in Integrations |-> i]

\* Workers are interchangeable.
WorkerSymmetry == Permutations(Workers)

\* So are clients.
WorkerClientSymmetry == Permutations(Workers) \union Permutations(Clients)
=============================================================================
