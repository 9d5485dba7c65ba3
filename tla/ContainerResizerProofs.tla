----------------------- MODULE ContainerResizerProofs -----------------------
(***************************************************************************)
(* What the shards of the container strategy are for, for any sheet of one *)
(* environment, any hash, and any number of workers: the rows of an object *)
(* are processed one at a time and in file order.                          *)
(***************************************************************************)
EXTENDS ContainerResizer, WorkerPoolProofs

\* Rows of one environment, each of the kind its object has.
OneEnvironment ==
    /\ \A q, r \in Rows : Read[q].environment = Read[r].environment
    /\ \A r \in Rows : Read[r].kind \in {"Deployment", "StatefulSet"}

\* Rows of an object are sent to one channel.
LEMMA SameChannel ==
    ASSUME OneEnvironment, NEW q \in Rows, NEW r \in Rows, SameObject(q, r)
    PROVE  Route[q] = Route[r]
<1>1. /\ lookupWorkloadOps(Read[q].kind) = lookupWorkloadOps(Read[r].kind)
      /\ Read[q].namespace = Read[r].namespace
      /\ Read[q].workloadName = Read[r].workloadName
  BY DEF SameObject, ObjectOf
<1>2. Read[q].kind = Read[r].kind
  BY <1>1 DEF OneEnvironment, lookupWorkloadOps
<1>3. WorkloadID(Read[q]) = WorkloadID(Read[r])
  BY <1>1, <1>2 DEF OneEnvironment, WorkloadID
<1> QED BY <1>3, ContainerResizerAssumption

\* For any sheet of one environment, no two workers have rows of an object
\* at the same time.
THEOREM OneWorker ==
    ASSUME OneEnvironment
    PROVE  Spec => []OneAtATime
<1>1. ASSUME Inv, NEW v \in Worker, NEW w \in Worker, v # w,
             held[v] # NoJob, held[w] # NoJob
      PROVE  ~ SameObject(held[v], held[w])
  <2>1. held[v] \in Rows /\ held[w] \in Rows
    BY <1>1, ContainerResizerAssumption DEF Inv, TypeOK
  <2>2. Route[held[v]] = v /\ Route[held[w]] = w
    BY <1>1, ContainerResizerAssumption DEF Inv, Own
  <2> QED BY <1>1, <2>1, <2>2, SameChannel
<1>2. Inv => OneAtATime
  BY <1>1 DEF OneAtATime
<1> QED BY Invariance, <1>2, PTL

-----------------------------------------------------------------------------
(* The order of the file.                                                  *)

Ascending(q) == \A i, k \in DOMAIN q : i < k => q[i] < q[k]

\* Every queue is in file order, and what is sent precedes what is not.
InOrder ==
    /\ Ascending(unsent)
    /\ \A c \in Channel : Ascending(chan[c])
    /\ \A c \in Channel : \A q \in Queued(c), r \in Range(unsent) : q < r

LEMMA RowsAreNumbers == Rows \subseteq Nat /\ Job = Rows
  BY ContainerResizerAssumption DEF Rows

LEMMA AppendAscends ==
    ASSUME NEW q \in Seq(Rows), NEW r \in Rows, Ascending(q),
           \A p \in Range(q) : p < r
    PROVE  Ascending(Append(q, r))
<1>1. /\ DOMAIN Append(q, r) = 1 .. Len(q) + 1 /\ DOMAIN q = 1 .. Len(q)
      /\ \A i \in 1 .. Len(q) : Append(q, r)[i] = q[i]
      /\ Append(q, r)[Len(q) + 1] = r /\ Len(q) \in Nat
  OBVIOUS
<1>2. \A i \in 1 .. Len(q) : q[i] < r
  BY <1>1 DEF Range
<1> QED BY <1>1, <1>2 DEF Ascending

LEMMA TailAscends ==
    ASSUME NEW q \in Seq(Rows), q # <<>>, Ascending(q)
    PROVE  Ascending(Tail(q)) /\ \A r \in Range(Tail(q)) : Head(q) < r
<1>1. /\ DOMAIN Tail(q) = 1 .. Len(q) - 1 /\ DOMAIN q = 1 .. Len(q)
      /\ \A i \in 1 .. Len(q) - 1 : Tail(q)[i] = q[i + 1]
      /\ Head(q) = q[1] /\ Len(q) \in Nat \ {0}
  OBVIOUS
<1>2. \A i \in 1 .. Len(q) - 1 : i + 1 \in 1 .. Len(q) /\ 1 < i + 1 /\ 1 \in 1 .. Len(q)
  BY <1>1
<1>3. \A i \in 1 .. Len(q) - 1 : Head(q) < Tail(q)[i]
  BY <1>1, <1>2 DEF Ascending
<1>4. Ascending(Tail(q))
  BY <1>1, <1>2 DEF Ascending
<1> QED BY <1>1, <1>3, <1>4 DEF Range

LEMMA InitInOrder == Init => InOrder
<1> SUFFICES ASSUME Init PROVE InOrder
  OBVIOUS
<1>1. unsent = [r \in Rows |-> r]
  BY ContainerResizerAssumption DEF Init
<1>2. Ascending(unsent)
  BY <1>1 DEF Ascending
<1>3. \A c \in Channel : Ascending(chan[c]) /\ Queued(c) = {}
  BY EmptyQueue DEF Init, Ascending, Queued
<1> QED BY <1>2, <1>3 DEF InOrder

LEMMA SendInOrder ==
    ASSUME TypeOK, InOrder, SendJob
    PROVE  InOrder'
<1> PICK r \in Rows, c \in Channel : r = Head(unsent) /\ c = Route[r]
  BY HeadOf, PoolAssumption, RowsAreNumbers DEF SendJob, TypeOK
<1>1. unsent' = Tail(unsent) /\ unsent \in Seq(Rows) /\ unsent # <<>>
      /\ chan' = [chan EXCEPT ![c] = Append(chan[c], r)]
      /\ chan \in [Channel -> Seq(Rows)]
  BY RowsAreNumbers DEF SendJob, TypeOK
<1>2. /\ Ascending(unsent') /\ \A q \in Range(unsent') : r < q
      /\ Range(unsent) = Range(unsent') \cup {r}
  BY <1>1, TailAscends, HeadOf DEF InOrder
<1>3. \A q \in Queued(c) : q < r
  BY <1>2 DEF InOrder
<1>4. Ascending(chan'[c]) /\ Queued(c)' = Queued(c) \cup {r}
  BY <1>1, <1>3, AppendAscends, AppendTo DEF InOrder, Queued
<1>5. \A d \in Channel \ {c} : chan'[d] = chan[d] /\ Queued(d)' = Queued(d)
  BY <1>1 DEF Queued
<1> QED BY <1>2, <1>4, <1>5 DEF InOrder

LEMMA NextInOrder ==
    ASSUME TypeOK, InOrder, [Next]_vars
    PROVE  InOrder'
<1>1. CASE UNCHANGED <<unsent, chan>>
  BY <1>1 DEF InOrder, Queued
<1>2. CASE SendJob
  BY <1>2, SendInOrder
<1>3. ASSUME NEW w \in Worker, ResizeJob(w) PROVE InOrder'
  <2>1. CASE Receive(w)
    <3>1. CASE chan[Inbox[w]] = <<>>
      BY <2>1, <3>1, <1>1, Received
    <3>2. CASE chan[Inbox[w]] # <<>>
      <4> PICK c \in Channel : c = Inbox[w]
        BY PoolAssumption
      <4>1. /\ unsent' = unsent /\ chan' = [chan EXCEPT ![c] = Tail(chan[c])]
            /\ chan \in [Channel -> Seq(Rows)] /\ chan[c] # <<>>
        BY <2>1, <3>2, Received, RowsAreNumbers DEF TypeOK
      <4>2. Ascending(chan'[c]) /\ Queued(c)' \subseteq Queued(c)
        BY <4>1, TailAscends, HeadOf DEF InOrder, Queued
      <4>3. \A d \in Channel \ {c} : chan'[d] = chan[d] /\ Queued(d)' = Queued(d)
        BY <4>1 DEF Queued
      <4> QED BY <4>1, <4>2, <4>3 DEF InOrder
    <3> QED BY <3>1, <3>2
  <2>2. CASE ~ Receive(w)
    BY <1>1, <1>3, <2>2 DEF ResizeJob, StartJob, NotifyRollback, NotifyFailed,
       NotifySkipped, NotifySucceeded, Outcome, SendResult, Delay, callerVars
  <2> QED BY <2>1, <2>2
<1>4. CASE AllSent \/ CloseJobs \/ CloseResults \/ Join \/ PrintResult \/ Cancel
           \/ UNCHANGED vars
  BY <1>1, <1>4 DEF AllSent, CloseJobs, CloseResults, Join, PrintResult, Cancel, vars,
     poolVars, callerVars
<1> QED BY <1>2, <1>3, <1>4 DEF Next, Caller

\* The first row of a queue is received when all earlier rows of its object
\* have been reported.
LEMMA ReceiveInOrder ==
    ASSUME OneEnvironment, Inv, InOrder, NEW w \in Worker, Receive(w),
           chan[Inbox[w]] # <<>>,
           NEW r \in Rows, r < Head(chan[Inbox[w]]),
           SameObject(r, Head(chan[Inbox[w]]))
    PROVE  r \in Reported
<1> PICK c \in Channel, q \in Rows : c = Inbox[w] /\ q = Head(chan[c])
  <2>1. Inbox[w] \in Channel
    BY PoolAssumption
  <2>2. chan[Inbox[w]] \in Seq(Rows)
    BY <2>1, RowsAreNumbers DEF Inv, TypeOK
  <2>3. Head(chan[Inbox[w]]) \in Rows
    BY <2>2, HeadOf
  <2> QED BY <2>1, <2>3
<1>1. chan[c] \in Seq(Rows) /\ q \in Queued(c) /\ Ascending(chan[c])
  BY HeadOf, RowsAreNumbers DEF Inv, TypeOK, InOrder, Queued
<1>2. Route[q] = c /\ Route[r] = c
  BY <1>1, SameChannel DEF Inv, Apart
<1>3. r \in Nat /\ q \in Nat /\ r # NoJob
  BY RowsAreNumbers, PoolAssumption
<1>4. r \notin Range(unsent)
  BY <1>1, <1>3, RowsAreNumbers DEF InOrder
<1>5. \A d \in Channel : r \notin Queued(d)
  <2>1. ASSUME r \in Queued(c) PROVE FALSE
    <3>1. Range(chan[c]) = Range(Tail(chan[c])) \cup {q}
          /\ \A p \in Range(Tail(chan[c])) : q < p
      BY <1>1, HeadOf, TailAscends
    <3> QED BY <1>3, <2>1, <3>1 DEF Queued
  <2> QED BY <1>2, <2>1 DEF Inv, Apart
<1>6. \A v \in Worker : held[v] # r
  <2>1. \A v \in Worker : held[v] = r => v = w
    BY <1>2, <1>3, ContainerResizerAssumption DEF Inv, Own
  <2>2. held[w] = NoJob
    BY Received DEF Inv, Holding
  <2> QED BY <1>3, <2>1, <2>2
<1> QED BY <1>4, <1>5, <1>6, RowsAreNumbers DEF Inv, Somewhere, Reported

\* For any sheet of one environment, a worker gets a row only when the
\* earlier rows of its object have their outcome, so a later row is never
\* undone or overtaken by an earlier one.
THEOREM InFileOrder ==
    ASSUME OneEnvironment
    PROVE  Spec => FileOrder
<1>1. ASSUME Inv, InOrder, [Next]_vars, NEW w \in Worker,
             held'[w] \notin {held[w], NoJob}, NEW r \in 1 .. held'[w] - 1,
             SameObject(r, held'[w])
      PROVE  r \in Reported
  <2>1. PICK v \in Worker : ResizeJob(v)
    BY <1>1 DEF Next, Caller, SendJob, AllSent, CloseJobs, CloseResults, Join,
       PrintResult, Cancel, vars, poolVars, workerVars
  <2>2. Receive(v)
    BY <1>1, <2>1 DEF ResizeJob, StartJob, NotifyRollback, NotifyFailed,
       NotifySkipped, NotifySucceeded, Outcome, SendResult, Delay, Inv, TypeOK
  <2>3. v = w /\ chan[Inbox[w]] # <<>> /\ held'[w] = Head(chan[Inbox[w]])
    BY <1>1, <2>2, Received DEF Inv, TypeOK
  <2>4. held'[w] \in Rows /\ Inbox[w] \in Channel
    <3>1. Inbox[w] \in Channel
      BY PoolAssumption
    <3>2. chan[Inbox[w]] \in Seq(Rows)
      BY <1>1, <3>1, RowsAreNumbers DEF Inv, TypeOK
    <3> QED BY <2>3, <3>1, <3>2, HeadOf
  <2>5. r \in Rows /\ r < held'[w]
    <3>1. PICK n \in Nat : Rows = 1 .. n
      BY PoolAssumption DEF Rows
    <3> QED BY <1>1, <2>4, <3>1
  <2> QED BY <1>1, <2>2, <2>3, <2>4, <2>5, ReceiveInOrder
<1>2. Inv /\ InOrder /\ [Next]_vars =>
          [\A w \in Worker :
              held'[w] \notin {held[w], NoJob} =>
                  \A r \in 1 .. held'[w] - 1 :
                      SameObject(r, held'[w]) => r \in Reported]_vars
  BY <1>1
<1>3. Inv /\ InOrder /\ [Next]_vars => InOrder'
  BY NextInOrder DEF Inv
<1> QED BY Invariance, InitInOrder, <1>2, <1>3, PTL DEF Spec, FileOrder
=============================================================================
