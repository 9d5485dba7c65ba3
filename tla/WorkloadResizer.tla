--------------------------- MODULE WorkloadResizer ---------------------------
(***************************************************************************)
(* The workload strategy: a job is the group of recommendations of one     *)
(* WorkloadID, in the order a Go map is ranged over, which is any, and all *)
(* workers share one channel with a place for each of them.                *)
(***************************************************************************)
EXTENDS WorkerPool, Recommendation

AnyOrder ==
    {s \in [1 .. Cardinality(WorkloadIDs) -> WorkloadIDs] : Range(s) = WorkloadIDs}

ASSUME WorkloadResizerAssumption ==
    /\ Job = WorkloadIDs
    /\ Recs = [id \in WorkloadIDs |-> Len(arrangeRecsByWorkload[id])]
    /\ Orders = AnyOrder
    /\ Channel = {"resizeJobs"}
    /\ Capacity = Cardinality(Worker)

-----------------------------------------------------------------------------
(* Properties.                                                             *)

RowsOf(id) == Range(arrangeRecsByWorkload[id])

\* FindWorkload is given the first row of a group and all of them are
\* applied to what it returns: they are the rows of that object, and all of
\* its rows, so no other worker has to do with it.
GroupIsObject ==
    \A w \in Worker :
        held[w] # NoJob =>
            LET first == Head(arrangeRecsByWorkload[held[w]])
            IN RowsOf(held[w]) =
                   {rec \in Range(Read) : ObjectOf(rec) = ObjectOf(first)}
=============================================================================
