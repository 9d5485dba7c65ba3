------------------------- MODULE MCContainerResizer -------------------------
(***************************************************************************)
(* A sheet with a header, a short row, and four rows of three workloads of *)
(* one environment.  Two of the workloads share a shard, and their names   *)
(* have the same words in the same order: a worker has rows of one before  *)
(* and after a row of the other.                                           *)
(***************************************************************************)
EXTENDS ContainerResizer

CONSTANTS w1, w2

Row(namespace, kind, name, container) ==
    [cells |-> 14, environment |-> <<"prod">>, namespace |-> namespace,
     kind |-> kind, workloadName |-> name, container |-> container]

Header == Row(<<"Namespace">>, "Kind", <<"Workload", "Name">>, <<"Container">>)

Api      == Row(<<"shop">>, "Deployment", <<"eu", "api">>, <<"api">>)
Sidecar  == Row(<<"shop">>, "Deployment", <<"eu", "api">>, <<"proxy">>)
OtherApi == Row(<<"shop", "eu">>, "Deployment", <<"api">>, <<"api">>)
Database == Row(<<"shop">>, "StatefulSet", <<"db">>, <<"db">>)
Short    == [Database EXCEPT !.cells = 13]

FourRows == <<Header, Api, OtherApi, Short, Sidecar, Database>>

TwoWorkers == {w1, w2}
OneEach    == [r \in Rows |-> 1]
TwoEach    == [r \in Rows |-> 2]
OwnInbox   == [w \in TwoWorkers |-> w]

\* A hash that goes by the last word.
ShardOf(id) == IF id[Len(id)] = "api" THEN w1 ELSE w2
AllShards   == [id \in WorkloadIDs |-> ShardOf(id)]
ByShard     == [r \in Rows |-> ShardOf(WorkloadID(Read[r]))]
FileOnly    == {[r \in Rows |-> r]}
=============================================================================
