-------------------------- MODULE ContainerResizer --------------------------
(***************************************************************************)
(* The container strategy: a job is one recommendation, a row of the file, *)
(* sent in file order to the channel of the worker its WorkloadID hashes   *)
(* to; every channel has a place for all rows.                             *)
(***************************************************************************)
EXTENDS WorkerPool, Recommendation

CONSTANT Shard \* sharding.GetShardIndex, from WorkloadID to a worker's channel

Rows == 1 .. Len(Read)

ASSUME ContainerResizerAssumption ==
    /\ Job = Rows
    /\ Recs = [r \in Rows |-> 1]
    /\ Orders = {[r \in Rows |-> r]}
    /\ Channel = Worker /\ Inbox = [w \in Worker |-> w]
    /\ Capacity = Len(Read)
    /\ \A r \in Rows : Route[r] = Shard[WorkloadID(Read[r])]

-----------------------------------------------------------------------------
(* Properties.                                                             *)

SameObject(q, r) == ObjectOf(Read[q]) = ObjectOf(Read[r])

\* Two goroutines never work on rows of the same object: what the shards
\* are for.
OneAtATime ==
    \A v, w \in Worker :
        v # w /\ held[v] # NoJob /\ held[w] # NoJob => ~ SameObject(held[v], held[w])

\* The rows of an object are processed in file order: a row is received
\* only when the earlier ones have their outcome.
FileOrder ==
    [][\A w \in Worker :
          held'[w] \notin {held[w], NoJob} =>
              \A r \in 1 .. held'[w] - 1 :
                  SameObject(r, held'[w]) => r \in Reported]_vars
=============================================================================
