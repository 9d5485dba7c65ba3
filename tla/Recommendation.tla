--------------------------- MODULE Recommendation ---------------------------
(***************************************************************************)
(* What becomes of the rows of the Excel sheet before any of them is       *)
(* applied: which are read, by which key they are grouped and sent to      *)
(* workers, and which object each is applied to.                           *)
(*                                                                         *)
(* A name is the sequence of its words, which hyphens separate, so joining *)
(* names with hyphens is concatenation.  The quantities in the other       *)
(* columns are module Workload's.                                          *)
(***************************************************************************)
EXTENDS Naturals, SequencesExt

CONSTANT Sheet \* its rows, the header among them

SheetRows ==
    [cells : Nat, environment : Seq(STRING), namespace : Seq(STRING), kind : STRING,
     workloadName : Seq(STRING), container : Seq(STRING)]

ASSUME SheetAssumption == Sheet \in Seq(SheetRows)

\* Rows with fewer cells are dropped.
Columns == 14

\* What a loop leaves that appends the wanted rows of a list to another.
AppendWanted(list, wanted) ==
    FoldLeft(LAMBDA kept, row : IF row \in wanted THEN Append(kept, row) ELSE kept,
             <<>>, list)

\* ExcelReader.Read
Read == AppendWanted(SubSeq(Sheet, 2, Len(Sheet)),
                     {row \in Range(Sheet) : row.cells >= Columns})

\* Mutant: rows are told apart by their container as well.
ContainerID(rec) ==
    rec.environment \o rec.namespace \o <<rec.kind>> \o rec.workloadName
        \o rec.container

WorkloadID(rec) ==
    rec.environment \o rec.namespace \o <<rec.kind>> \o rec.workloadName

\* The kind of object that rows of a kind are about; rows of other kinds
\* are skipped.
lookupWorkloadOps(kind) ==
    CASE kind \in {"Deployment", "ReplicaSet"} -> "Deployment"
      [] kind = "StatefulSet"                  -> "StatefulSet"
      [] OTHER                                 -> "unsupported"

\* The object FindWorkload gets for a row.
ObjectOf(rec) ==
    <<lookupWorkloadOps(rec.kind), rec.namespace, rec.workloadName>>

WorkloadIDs == {WorkloadID(Read[r]) : r \in DOMAIN Read}

\* A map from each WorkloadID to its rows, in file order.
arrangeRecsByWorkload ==
    [id \in WorkloadIDs |->
        AppendWanted(Read, {rec \in Range(Read) : WorkloadID(rec) = id})]
=============================================================================
