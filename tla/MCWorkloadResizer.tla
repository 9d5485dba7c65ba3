-------------------------- MODULE MCWorkloadResizer --------------------------
(***************************************************************************)
(* Two workers, hence a channel for two jobs, and three groups, one of two *)
(* rows: the caller blocks on the full channel, and workers wait on the    *)
(* empty one.                                                              *)
(***************************************************************************)
EXTENDS WorkloadResizer

CONSTANTS w1, w2

Row(namespace, kind, name, container) ==
    [cells |-> 14, environment |-> <<"prod">>, namespace |-> namespace,
     kind |-> kind, workloadName |-> name, container |-> container]

Header == Row(<<"Namespace">>, "Kind", <<"Workload", "Name">>, <<"Container">>)

FourRows ==
    <<Header,
      Row(<<"shop">>, "Deployment", <<"eu", "api">>, <<"api">>),
      Row(<<"shop", "eu">>, "Deployment", <<"api">>, <<"api">>),
      Row(<<"shop">>, "Deployment", <<"eu", "api">>, <<"proxy">>),
      Row(<<"shop">>, "StatefulSet", <<"db">>, <<"db">>)>>

TwoWorkers  == {w1, w2}
OneChannel  == {"resizeJobs"}
RowsPer     == [id \in WorkloadIDs |-> Len(arrangeRecsByWorkload[id])]
TwoEach     == [id \in WorkloadIDs |-> 2]
SharedInbox == [w \in Worker |-> "resizeJobs"]
SharedRoute == [id \in WorkloadIDs |-> "resizeJobs"]
=============================================================================
