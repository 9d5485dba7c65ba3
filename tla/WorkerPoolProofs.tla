-------------------------- MODULE WorkerPoolProofs --------------------------
(***************************************************************************)
(* For any workers, jobs, channels and capacities, and however the run is  *)
(* canceled: no job is lost or done twice, no send of a result panics or   *)
(* blocks, and a Resize that returns has done what it was given.           *)
(***************************************************************************)
EXTENDS WorkerPool, SequenceTheorems, FiniteSetTheorems, TLAPS

Queued(c) == Range(chan[c])

\* The goroutines' places fit each other.
Control ==
    /\ main # "send" => unsent = <<>>
    /\ main = "send" => closed = {}
    /\ main \in {"wait", "join", "returned"} => closed = Channel
    /\ resultsClosed <=> main \in {"join", "returned"}
    /\ resultsClosed => \A w \in Worker : wpc[w] = "done"
    /\ printer # "range" => resultsClosed /\ results = <<>>
    /\ printer = "ended" <=> main = "returned"

\* A worker holds a job while it works on it.
Holding ==
    \A w \in Worker :
        /\ wpc[w] \in {"got", "working", "failing"} \cup Sending => held[w] # NoJob
        /\ wpc[w] \in {"recv", "delay"} => held[w] = NoJob
        /\ wpc[w] = "done" /\ ~ canceled =>
              held[w] = NoJob /\ Inbox[w] \in closed /\ chan[Inbox[w]] = <<>>

\* No job is at two places.
Apart ==
    /\ IsInjective(unsent) /\ IsInjective(results)
    /\ \A c \in Channel : IsInjective(chan[c])
    /\ \A c \in Channel : \A j \in Queued(c) :
          Route[j] = c /\ j \notin Range(unsent) \cup Range(results) \cup printed
    /\ \A w \in Worker :
          /\ held[w] \notin Range(unsent) \cup Range(results) \cup printed
          /\ \A c \in Channel : held[w] \notin Queued(c)
          /\ \A v \in Worker : held[v] = held[w] /\ held[w] # NoJob => v = w
    /\ Range(unsent) \cap (Range(results) \cup printed) = {}
    /\ Range(results) \cap printed = {}

\* Every job is at some place.
Somewhere ==
    \A j \in Job :
        \/ j \in Range(unsent) \cup Range(results) \cup printed
        \/ \E c \in Channel : j \in Queued(c)
        \/ \E w \in Worker : held[w] = j

\* Workers hold jobs of their channels.
Own == \A w \in Worker : held[w] # NoJob => Route[held[w]] = Inbox[w]

Inv == TypeOK /\ Control /\ Holding /\ Apart /\ Somewhere /\ Own

-----------------------------------------------------------------------------
(* Queues.                                                                 *)

\* Appending a job.
LEMMA AppendTo ==
    ASSUME NEW S, NEW q \in Seq(S), NEW x \in S
    PROVE  /\ Append(q, x) \in Seq(S)
           /\ Range(Append(q, x)) = Range(q) \cup {x}
           /\ IsInjective(q) /\ x \notin Range(q) => IsInjective(Append(q, x))
<1>1. /\ Append(q, x) \in Seq(S) /\ Len(Append(q, x)) = Len(q) + 1
      /\ \A i \in 1 .. Len(q) : Append(q, x)[i] = q[i]
      /\ Append(q, x)[Len(q) + 1] = x
  OBVIOUS
<1>2. DOMAIN Append(q, x) = 1 .. Len(q) + 1 /\ DOMAIN q = 1 .. Len(q)
  BY <1>1
<1>3. Range(Append(q, x)) = Range(q) \cup {x}
  BY <1>1, <1>2 DEF Range
<1>4. ASSUME IsInjective(q), x \notin Range(q)
      PROVE  IsInjective(Append(q, x))
  <2>1. \A i \in 1 .. Len(q) : q[i] # x
    BY <1>2, <1>4 DEF Range
  <2>2. \A i, k \in 1 .. Len(q) : q[i] = q[k] => i = k
    BY <1>2, <1>4 DEF IsInjective
  <2>3. ASSUME NEW i \in 1 .. Len(q) + 1, NEW k \in 1 .. Len(q) + 1,
               Append(q, x)[i] = Append(q, x)[k]
        PROVE  i = k
    BY <1>1, <2>1, <2>2, <2>3
  <2> QED BY <2>3, <1>2 DEF IsInjective
<1> QED BY <1>1, <1>3, <1>4

\* Receiving the first one.
LEMMA HeadOf ==
    ASSUME NEW S, NEW q \in Seq(S), q # <<>>
    PROVE  /\ Head(q) \in S /\ Tail(q) \in Seq(S)
           /\ Range(q) = Range(Tail(q)) \cup {Head(q)}
           /\ IsInjective(q) => IsInjective(Tail(q)) /\ Head(q) \notin Range(Tail(q))
<1>1. /\ Head(q) \in S /\ Tail(q) \in Seq(S) /\ Head(q) = q[1]
      /\ Len(q) \in Nat \ {0} /\ Len(Tail(q)) = Len(q) - 1
      /\ \A i \in 1 .. Len(q) - 1 : Tail(q)[i] = q[i + 1]
  OBVIOUS
<1>2. DOMAIN Tail(q) = 1 .. Len(q) - 1 /\ DOMAIN q = 1 .. Len(q)
  BY <1>1
<1>3. Range(q) = Range(Tail(q)) \cup {Head(q)}
  <2>1. ASSUME NEW i \in 1 .. Len(q) PROVE q[i] \in Range(Tail(q)) \cup {Head(q)}
    <3>1. CASE i = 1  BY <3>1, <1>1
    <3>2. CASE i # 1
      <4>1. i - 1 \in 1 .. Len(q) - 1 /\ Tail(q)[i - 1] = q[i]
        BY <3>2, <1>1
      <4> QED BY <4>1, <1>2 DEF Range
    <3> QED BY <3>1, <3>2
  <2>2. ASSUME NEW i \in 1 .. Len(q) - 1 PROVE Tail(q)[i] \in Range(q)
    BY <1>1, <1>2 DEF Range
  <2>3. Head(q) \in Range(q)
    BY <1>1, <1>2 DEF Range
  <2>4. Range(q) \subseteq Range(Tail(q)) \cup {Head(q)}
    BY <2>1, <1>2 DEF Range
  <2>5. Range(Tail(q)) \subseteq Range(q)
    BY <2>2, <1>2 DEF Range
  <2> QED BY <2>3, <2>4, <2>5
<1>4. ASSUME IsInjective(q)
      PROVE  IsInjective(Tail(q)) /\ Head(q) \notin Range(Tail(q))
  <2>1. \A i, k \in 1 .. Len(q) : q[i] = q[k] => i = k
    BY <1>2, <1>4 DEF IsInjective
  <2>2. ASSUME NEW i \in 1 .. Len(q) - 1, NEW k \in 1 .. Len(q) - 1,
               Tail(q)[i] = Tail(q)[k]
        PROVE  i = k
    <3>1. q[i + 1] = q[k + 1] /\ i + 1 \in 1 .. Len(q) /\ k + 1 \in 1 .. Len(q)
      BY <1>1, <2>2
    <3>2. i + 1 = k + 1
      BY <3>1, <2>1
    <3> QED BY <3>2
  <2>3. ASSUME NEW i \in 1 .. Len(q) - 1 PROVE Tail(q)[i] # Head(q)
    <3>1. i + 1 \in 1 .. Len(q) /\ i + 1 # 1 /\ 1 \in 1 .. Len(q)
      BY <1>1
    <3> QED BY <3>1, <1>1, <2>1
  <2> QED BY <2>2, <2>3, <1>2 DEF IsInjective, Range
<1> QED BY <1>1, <1>3, <1>4

LEMMA EmptyQueue == Range(<<>>) = {} /\ IsInjective(<<>>)
  BY DEF Range, IsInjective

-----------------------------------------------------------------------------
(* The initial states.                                                     *)

LEMMA InitInv == Init => Inv
<1> SUFFICES ASSUME Init PROVE Inv
  OBVIOUS
<1>1. /\ unsent \in Seq(Job) /\ IsInjective(unsent) /\ Range(unsent) = Job
      /\ NoJob \notin Job
  BY PoolAssumption DEF Init
<1>2. TypeOK
  <2>1. IndicatorTypeOK
    BY DEF Init, IndicatorInit, IndicatorTypeOK
  <2>2. chan \in [Channel -> Seq(Job)]
    BY DEF Init
  <2>3. wpc \in [Worker -> WorkerSteps] /\ held \in [Worker -> Job \cup {NoJob}]
    BY DEF Init, WorkerSteps
  <2>4. results \in Seq(Job) /\ closed \subseteq Channel /\ printed \subseteq Job
    BY DEF Init
  <2>5. /\ canceled \in BOOLEAN /\ resultsClosed \in BOOLEAN
        /\ main \in {"send", "close", "wait", "join", "returned"}
        /\ printer \in {"range", "done", "ended"}
    BY DEF Init
  <2> QED BY <1>1, <2>1, <2>2, <2>3, <2>4, <2>5 DEF TypeOK
<1>3. Control
  BY DEF Init, Control
<1>4. Holding
  BY DEF Init, Holding, Sending
<1>5. Apart
  BY <1>1, EmptyQueue DEF Init, Apart, Queued
<1>6. Somewhere
  BY <1>1 DEF Init, Somewhere
<1>7. Own
  BY DEF Init, Own
<1> QED BY <1>2, <1>3, <1>4, <1>5, <1>6, <1>7 DEF Inv

-----------------------------------------------------------------------------
(* Types.                                                                  *)

LEMMA EventTypes ==
    ASSUME IndicatorTypeOK, NEW status \in ResizeStatus, NEW n \in Nat,
           HandleResizeEvent(status, n)
    PROVE  IndicatorTypeOK'
  BY DEF IndicatorTypeOK, HandleResizeEvent

LEMMA CallerTypes ==
    ASSUME TypeOK, Caller \/ PrintResult \/ Cancel
    PROVE  TypeOK'
<1> USE DEF TypeOK, IndicatorTypeOK, workerVars, printerVars, indicatorVars, callerVars
<1>1. CASE SendJob
  <2>1. Head(unsent) \in Job /\ Tail(unsent) \in Seq(Job)
    BY <1>1, HeadOf DEF SendJob
  <2>2. Route[Head(unsent)] \in Channel
    BY <2>1, PoolAssumption
  <2>3. Append(chan[Route[Head(unsent)]], Head(unsent)) \in Seq(Job)
    BY <2>1, <2>2, AppendTo
  <2> QED BY <1>1, <2>1, <2>2, <2>3 DEF SendJob
<1>2. CASE AllSent      BY <1>2 DEF AllSent
<1>3. CASE CloseJobs    BY <1>3 DEF CloseJobs
<1>4. CASE CloseResults BY <1>4 DEF CloseResults
<1>5. CASE Join         BY <1>5 DEF Join
<1>6. CASE PrintResult
  <2>1. results # <<>> => Head(results) \in Job /\ Tail(results) \in Seq(Job)
    BY HeadOf
  <2> QED BY <1>6, <2>1 DEF PrintResult
<1>7. CASE Cancel       BY <1>7 DEF Cancel
<1> QED BY <1>1, <1>2, <1>3, <1>4, <1>5, <1>6, <1>7 DEF Caller

\* What a worker does with its channel.
LEMMA Received ==
    ASSUME NEW w \in Worker, Receive(w)
    PROVE  /\ UNCHANGED <<canceled, main, unsent, closed, results, resultsClosed,
                          printer, printed, processed, statusMap>>
           /\ wpc[w] = "recv"
           /\ \/ /\ chan[Inbox[w]] # <<>>
                 /\ held' = [held EXCEPT ![w] = Head(chan[Inbox[w]])]
                 /\ chan' = [chan EXCEPT ![Inbox[w]] = Tail(chan[Inbox[w]])]
                 /\ wpc' = [wpc EXCEPT ![w] = "got"]
              \/ /\ chan[Inbox[w]] = <<>> /\ Inbox[w] \in closed
                 /\ UNCHANGED <<held, chan>>
                 /\ wpc' = [wpc EXCEPT ![w] = "done"]
  BY DEF Receive, Source, Move, EndRange, callerVars, printerVars, indicatorVars

LEMMA WorkerTypes ==
    ASSUME TypeOK, Holding, NEW w \in Worker, ResizeJob(w)
    PROVE  TypeOK'
<1> USE DEF TypeOK, callerVars, printerVars, indicatorVars, Move, Outcome, WorkerSteps,
            Sending
<1>1. CASE Receive(w)
  <2>1. Inbox[w] \in Channel
    BY PoolAssumption
  <2>2. chan[Inbox[w]] # <<>> =>
            Head(chan[Inbox[w]]) \in Job /\ Tail(chan[Inbox[w]]) \in Seq(Job)
    BY <2>1, HeadOf
  <2>3. chan' \in [Channel -> Seq(Job)]
    <3>1. CASE chan[Inbox[w]] # <<>>
      <4>1. chan' = [chan EXCEPT ![Inbox[w]] = Tail(chan[Inbox[w]])]
        BY <1>1, <3>1, Received
      <4> QED BY <4>1, <3>1, <2>2
    <3>2. CASE chan[Inbox[w]] = <<>>
      BY <1>1, <3>2, Received
    <3> QED BY <3>1, <3>2
  <2>5. held' \in [Worker -> Job \cup {NoJob}]
    BY <1>1, <2>2, Received
  <2>4. wpc' \in [Worker -> WorkerSteps]
    BY <1>1, Received
  <2> QED BY <1>1, <2>3, <2>4, <2>5, Received DEF IndicatorTypeOK
<1>2. CASE StartJob(w)  BY <1>2 DEF StartJob, IndicatorTypeOK
<1>3. wpc[w] \in {"working", "failing"} => Recs[held[w]] \in Nat /\ Containers[held[w]] \in Nat
  BY PoolAssumption DEF Holding
<1>4. CASE NotifyRollback(w)
  <2>1. IndicatorTypeOK'
    BY <1>3, <1>4, EventTypes DEF NotifyRollback, ResizeStatus
  <2> QED BY <1>4, <2>1 DEF NotifyRollback
<1>5. CASE NotifyFailed(w)
  <2>1. IndicatorTypeOK'
    BY <1>3, <1>5, EventTypes DEF NotifyFailed, ResizeStatus
  <2> QED BY <1>5, <2>1 DEF NotifyFailed
<1>6. CASE NotifySkipped(w)
  <2>1. IndicatorTypeOK'
    BY <1>3, <1>6, EventTypes DEF NotifySkipped, ResizeStatus
  <2> QED BY <1>6, <2>1 DEF NotifySkipped
<1>7. CASE NotifySucceeded(w)
  <2>1. IndicatorTypeOK'
    BY <1>3, <1>7, EventTypes DEF NotifySucceeded, ResizeStatus
  <2> QED BY <1>7, <2>1 DEF NotifySucceeded
<1>8. CASE SendResult(w)
  <2>1. held[w] \in Job
    BY <1>8 DEF SendResult, Holding
  <2>2. Append(results, held[w]) \in Seq(Job)
    BY <2>1, AppendTo
  <2> QED BY <1>8, <2>2 DEF SendResult, IndicatorTypeOK
<1>9. CASE Delay(w)  BY <1>9 DEF Delay, IndicatorTypeOK
<1> QED BY <1>1, <1>2, <1>4, <1>5, <1>6, <1>7, <1>8, <1>9 DEF ResizeJob

-----------------------------------------------------------------------------
(* Control.                                                                *)

LEMMA NextTypes ==
    ASSUME TypeOK, Holding, [Next]_vars
    PROVE  TypeOK'
<1>1. CASE \E w \in Worker : ResizeJob(w)
  BY <1>1, WorkerTypes
<1>2. CASE Caller \/ PrintResult \/ Cancel
  BY <1>2, CallerTypes
<1>3. CASE UNCHANGED vars
  BY <1>3 DEF vars, poolVars, indicatorVars, TypeOK, IndicatorTypeOK
<1> QED BY <1>1, <1>2, <1>3 DEF Next

LEMMA NextControl ==
    ASSUME TypeOK, Control, [Next]_vars
    PROVE  Control'
<1> USE DEF TypeOK, Control
<1>1. CASE SendJob      BY <1>1 DEF SendJob, workerVars, printerVars
<1>2. CASE AllSent      BY <1>2 DEF AllSent, workerVars, printerVars
<1>3. CASE CloseJobs    BY <1>3 DEF CloseJobs, workerVars, printerVars
<1>4. CASE CloseResults BY <1>4 DEF CloseResults, workerVars, printerVars
<1>5. CASE Join         BY <1>5 DEF Join, workerVars
<1>6. CASE PrintResult  BY <1>6 DEF PrintResult, workerVars
<1>7. CASE Cancel       BY <1>7 DEF Cancel, workerVars, printerVars, callerVars
<1>8. ASSUME NEW w \in Worker, ResizeJob(w) PROVE Control'
  <2> USE DEF callerVars, printerVars, Outcome, Move
  <2>1. UNCHANGED <<main, unsent, closed, resultsClosed, printer>> /\ wpc[w] # "done"
    <3>1. CASE Receive(w)  BY <3>1, Received
    <3> QED
      BY <1>8, <3>1 DEF ResizeJob, StartJob, NotifyRollback, NotifyFailed,
         NotifySkipped, NotifySucceeded, SendResult, Delay
  <2>2. ~ resultsClosed
    BY <2>1
  <2> QED BY <2>1, <2>2
<1>9. CASE UNCHANGED vars  BY <1>9 DEF vars, poolVars
<1> QED BY <1>1, <1>2, <1>3, <1>4, <1>5, <1>6, <1>7, <1>8, <1>9 DEF Next, Caller

-----------------------------------------------------------------------------
(* What the workers hold.                                                  *)

LEMMA NextHolding ==
    ASSUME TypeOK, Control, Holding, [Next]_vars
    PROVE  Holding'
<1> USE DEF Holding
<1>1. CASE SendJob
  <2>1. closed = {}
    BY <1>1 DEF SendJob, Control
  <2> QED BY <1>1, <2>1 DEF SendJob, workerVars
<1>2. CASE AllSent \/ CloseJobs \/ CloseResults \/ Join \/ PrintResult \/ Cancel
  BY <1>2 DEF AllSent, CloseJobs, CloseResults, Join, PrintResult, Cancel, workerVars,
     callerVars
<1>3. ASSUME NEW w \in Worker, ResizeJob(w) PROVE Holding'
  <2>1. CASE Receive(w)
    <3>1. CASE chan[Inbox[w]] # <<>>
      <4>1. /\ held' = [held EXCEPT ![w] = Head(chan[Inbox[w]])]
            /\ chan' = [chan EXCEPT ![Inbox[w]] = Tail(chan[Inbox[w]])]
            /\ wpc' = [wpc EXCEPT ![w] = "got"]
            /\ UNCHANGED <<canceled, closed>>
        BY <2>1, <3>1, Received
      <4>2. Head(chan[Inbox[w]]) # NoJob
        BY <3>1, HeadOf, PoolAssumption DEF TypeOK
      <4> QED BY <4>1, <4>2, <3>1 DEF TypeOK, Sending
    <3>2. CASE chan[Inbox[w]] = <<>>
      <4>1. /\ UNCHANGED <<held, chan, canceled, closed>>
            /\ wpc[w] = "recv" /\ Inbox[w] \in closed
            /\ wpc' = [wpc EXCEPT ![w] = "done"]
        BY <2>1, <3>2, Received
      <4> QED BY <4>1, <3>2 DEF TypeOK, Sending
    <3> QED BY <3>1, <3>2
  <2>2. CASE SendResult(w)
    BY <2>2 DEF SendResult, Move, TypeOK, Sending, callerVars
  <2>3. CASE StartJob(w) \/ Delay(w)
    BY <2>3 DEF StartJob, Delay, Move, TypeOK, Sending, callerVars
  <2>4. CASE \/ NotifyRollback(w) \/ NotifyFailed(w)
             \/ NotifySkipped(w) \/ NotifySucceeded(w)
    BY <2>4 DEF NotifyRollback, NotifyFailed, NotifySkipped, NotifySucceeded, Outcome,
       Move, TypeOK, Sending, callerVars
  <2> QED BY <1>3, <2>1, <2>2, <2>3, <2>4 DEF ResizeJob
<1>4. CASE UNCHANGED vars
  BY <1>4 DEF vars, poolVars
<1> QED BY <1>1, <1>2, <1>3, <1>4 DEF Next, Caller

-----------------------------------------------------------------------------
(* Where the jobs are.                                                     *)

places == <<unsent, chan, held, results, printed>>

LEMMA NobodyMoves ==
    ASSUME Apart, Somewhere, UNCHANGED places
    PROVE  Apart' /\ Somewhere'
  BY DEF Apart, Somewhere, Queued, places

LEMMA SendMoves ==
    ASSUME TypeOK, Apart, Somewhere, SendJob
    PROVE  Apart' /\ Somewhere'
<1> PICK j \in Job, c \in Channel : j = Head(unsent) /\ c = Route[j]
  BY HeadOf, PoolAssumption DEF SendJob, TypeOK
<1>1. /\ Range(unsent) = Range(unsent') \cup {j}
      /\ IsInjective(unsent') /\ j \notin Range(unsent')
  BY HeadOf DEF SendJob, TypeOK, Apart
<1>2. chan' = [chan EXCEPT ![c] = Append(chan[c], j)]
  BY DEF SendJob
<1>3. j \notin Queued(c)
  BY <1>1, <1>2 DEF Apart
<1>4. Queued(c)' = Queued(c) \cup {j} /\ IsInjective(chan'[c])
  BY <1>1, <1>2, <1>3, AppendTo DEF TypeOK, Queued, Apart
<1>5. \A d \in Channel \ {c} : chan'[d] = chan[d] /\ Queued(d)' = Queued(d)
  BY <1>2 DEF TypeOK, Queued
<1>6. UNCHANGED <<held, results, printed>>
  BY DEF SendJob, workerVars, printerVars
<1>7. Apart'
  <2>1. \A d \in Channel : IsInjective(chan'[d])
    BY <1>4, <1>5 DEF Apart
  <2>2. \A d \in Channel : \A k \in Queued(d)' :
            Route[k] = d /\ k \notin Range(unsent') \cup Range(results) \cup printed
    BY <1>1, <1>4, <1>5 DEF Apart
  <2>3. \A w \in Worker :
            /\ held[w] \notin Range(unsent') \cup Range(results) \cup printed
            /\ \A d \in Channel : held[w] \notin Queued(d)'
    BY <1>1, <1>4, <1>5 DEF Apart
  <2> QED BY <1>1, <1>6, <2>1, <2>2, <2>3 DEF Apart
<1>8. Somewhere'
  BY <1>1, <1>4, <1>5, <1>6 DEF Somewhere
<1> QED BY <1>7, <1>8

LEMMA ReceiveMoves ==
    ASSUME TypeOK, Holding, Apart, Somewhere, NEW w \in Worker, Receive(w)
    PROVE  Apart' /\ Somewhere'
<1> DEFINE c == Inbox[w]
           j == Head(chan[c])
<1>1. CASE chan[c] = <<>>
  BY <1>1, Received, NobodyMoves DEF places
<1>2. CASE chan[c] # <<>>
  <2>1. /\ held' = [held EXCEPT ![w] = j]
        /\ chan' = [chan EXCEPT ![c] = Tail(chan[c])]
        /\ UNCHANGED <<unsent, results, printed>>
        /\ wpc[w] = "recv"
    BY <1>2, Received
  <2>2. c \in Channel
    BY PoolAssumption
  <2>3. /\ j \in Job /\ Queued(c) = Queued(c)' \cup {j}
        /\ IsInjective(chan'[c]) /\ j \notin Queued(c)'
    BY <1>2, <2>1, <2>2, HeadOf DEF TypeOK, Apart, Queued
  <2>4. \A d \in Channel \ {c} : chan'[d] = chan[d] /\ Queued(d)' = Queued(d)
    BY <2>1, <2>2 DEF TypeOK, Queued
  <2>5. held'[w] = j /\ \A v \in Worker \ {w} : held'[v] = held[v]
    BY <2>1 DEF TypeOK
  <2>6. held[w] = NoJob /\ NoJob \notin Job
    BY <2>1, PoolAssumption DEF Holding
  <2> HIDE DEF j, c
  <2>7. Apart'
    <3>1. \A d \in Channel : IsInjective(chan'[d])
      BY <2>3, <2>4 DEF Apart
    <3>2. \A d \in Channel : \A k \in Queued(d)' :
              Route[k] = d /\ k \notin Range(unsent) \cup Range(results) \cup printed
      BY <2>3, <2>4 DEF Apart
    <3>3. \A v \in Worker :
              held'[v] \notin Range(unsent) \cup Range(results) \cup printed
      BY <2>2, <2>3, <2>5 DEF Apart
    <3>4. \A v \in Worker, d \in Channel : held'[v] \notin Queued(d)'
      <4>1. \A d \in Channel \ {c} : j \notin Queued(d)
        BY <2>2, <2>3 DEF Apart
      <4> QED BY <4>1, <2>3, <2>4, <2>5 DEF Apart
    <3>5. \A v, u \in Worker : held'[v] = held'[u] /\ held'[v] # NoJob => v = u
      BY <2>2, <2>3, <2>5 DEF Apart
    <3> QED BY <2>1, <3>1, <3>2, <3>3, <3>4, <3>5 DEF Apart
  <2>8. Somewhere'
    BY <2>1, <2>2, <2>3, <2>4, <2>5, <2>6 DEF Somewhere
  <2> QED BY <2>7, <2>8
<1> QED BY <1>1, <1>2

LEMMA ResultMoves ==
    ASSUME TypeOK, Holding, Apart, Somewhere, NEW w \in Worker, SendResult(w)
    PROVE  Apart' /\ Somewhere'
<1> DEFINE j == held[w]
<1>1. j \in Job /\ NoJob \notin Job
  BY PoolAssumption DEF TypeOK, Holding, SendResult, Move, Sending
<1>2. /\ results' = Append(results, j)
      /\ UNCHANGED <<unsent, chan, printed>>
      /\ held'[w] = NoJob /\ \A v \in Worker \ {w} : held'[v] = held[v]
  BY DEF SendResult, callerVars, printerVars, TypeOK
<1>3. j \notin Range(unsent) \cup Range(results) \cup printed
  BY DEF Apart
<1>4. Range(results') = Range(results) \cup {j} /\ IsInjective(results')
  BY <1>1, <1>2, <1>3, AppendTo DEF TypeOK, Apart
<1>5. NoJob \notin Range(unsent) \cup Range(results') \cup printed
      /\ \A c \in Channel : NoJob \notin Queued(c)
  <2>1. \A q \in Seq(Job) : NoJob \notin Range(q)
    BY <1>1 DEF Range
  <2> QED BY <1>1, <1>4, <2>1 DEF TypeOK, Queued
<1> HIDE DEF j
<1>6. Apart'
  <2>1. \A c \in Channel : Queued(c)' = Queued(c)
    BY <1>2 DEF Queued
  <2>2. \A c \in Channel : j \notin Queued(c)
    BY DEF Apart, j
  <2>3. \A v \in Worker \ {w} : held[v] # j
    BY <1>1 DEF Apart, j
  <2> QED BY <1>1, <1>2, <1>3, <1>4, <1>5, <2>1, <2>2, <2>3 DEF Apart
<1>7. Somewhere'
  BY <1>2, <1>4 DEF Somewhere, Queued, j
<1> QED BY <1>6, <1>7

LEMMA PrintMoves ==
    ASSUME TypeOK, Apart, Somewhere, PrintResult
    PROVE  Apart' /\ Somewhere'
<1>1. CASE results = <<>>
  BY <1>1, NobodyMoves DEF PrintResult, workerVars, places
<1>2. CASE results # <<>>
  <2>1. /\ UNCHANGED <<unsent, chan, held>>
        /\ printed' = printed \cup {Head(results)}
        /\ results' = Tail(results)
    BY <1>2 DEF PrintResult, workerVars
  <2>2. /\ Range(results) = Range(results') \cup {Head(results)}
        /\ IsInjective(results') /\ Head(results) \notin Range(results')
    BY <1>2, <2>1, HeadOf DEF TypeOK, Apart
  <2> QED BY <2>1, <2>2 DEF Apart, Somewhere, Queued
<1> QED BY <1>1, <1>2

LEMMA NextMoves ==
    ASSUME TypeOK, Holding, Apart, Somewhere, [Next]_vars
    PROVE  Apart' /\ Somewhere'
<1>1. CASE AllSent \/ CloseJobs \/ CloseResults \/ Join \/ Cancel \/ UNCHANGED vars
  BY <1>1, NobodyMoves DEF AllSent, CloseJobs, CloseResults, Join, Cancel, vars,
     poolVars, workerVars, printerVars, callerVars, places
<1>2. ASSUME NEW w \in Worker, ResizeJob(w) PROVE Apart' /\ Somewhere'
  <2>1. CASE Receive(w)     BY <2>1, ReceiveMoves
  <2>2. CASE SendResult(w)  BY <2>2, ResultMoves
  <2>3. CASE ~ Receive(w) /\ ~ SendResult(w)
    BY <1>2, <2>3, NobodyMoves DEF ResizeJob, StartJob, NotifyRollback, NotifyFailed,
       NotifySkipped, NotifySucceeded, Outcome, Delay, callerVars, printerVars, places
  <2> QED BY <2>1, <2>2, <2>3
<1> QED BY <1>1, <1>2, SendMoves, PrintMoves DEF Next, Caller

LEMMA NextOwn ==
    ASSUME TypeOK, Apart, Own, [Next]_vars
    PROVE  Own'
<1>1. CASE UNCHANGED held
  BY <1>1 DEF Own
<1>2. ASSUME NEW w \in Worker, ResizeJob(w) PROVE Own'
  <2>1. CASE Receive(w)
    <3>1. CASE chan[Inbox[w]] = <<>>
      BY <2>1, <3>1, <1>1, Received
    <3>2. CASE chan[Inbox[w]] # <<>>
      <4>1. held' = [held EXCEPT ![w] = Head(chan[Inbox[w]])] /\ Inbox[w] \in Channel
        BY <2>1, <3>2, Received, PoolAssumption
      <4>2. Head(chan[Inbox[w]]) \in Queued(Inbox[w])
        BY <3>2, <4>1, HeadOf DEF TypeOK, Queued
      <4> QED BY <4>1, <4>2 DEF Own, Apart, TypeOK
    <3> QED BY <3>1, <3>2
  <2>2. CASE SendResult(w)
    BY <2>2 DEF SendResult, Own, TypeOK
  <2>3. CASE ~ Receive(w) /\ ~ SendResult(w)
    BY <1>1, <1>2, <2>3 DEF ResizeJob, StartJob, NotifyRollback, NotifyFailed,
       NotifySkipped, NotifySucceeded, Outcome, Delay
  <2> QED BY <2>1, <2>2, <2>3
<1>3. CASE Caller \/ PrintResult \/ Cancel \/ UNCHANGED vars
  BY <1>1, <1>3 DEF Caller, SendJob, AllSent, CloseJobs, CloseResults, Join, PrintResult,
     Cancel, vars, poolVars, workerVars
<1> QED BY <1>2, <1>3 DEF Next

-----------------------------------------------------------------------------
(* Theorems.                                                               *)

LEMMA Invariance == Spec => []Inv
<1>1. Inv /\ [Next]_vars => Inv'
  BY NextTypes, NextControl, NextHolding, NextMoves, NextOwn DEF Inv
<1> QED BY InitInv, <1>1, PTL DEF Spec

\* Every variable keeps its type.
THEOREM TypeCorrect == Spec => []TypeOK
<1>1. Inv => TypeOK  BY DEF Inv
<1> QED BY Invariance, <1>1, PTL

LEMMA OnePlace ==
    ASSUME Inv, NEW j \in Job
    PROVE  \E place : Places(j) = {place}
<1> DEFINE InUnsent  == {<<"unsent", i>> : i \in {n \in DOMAIN unsent : unsent[n] = j}}
           InChan(c) == {<<c, i>> : i \in {n \in DOMAIN chan[c] : chan[c][n] = j}}
           InChans   == UNION {InChan(c) : c \in Channel}
           Held      == {<<"held", w>> : w \in {v \in Worker : held[v] = j}}
           InResults == {<<"results", i>> : i \in {n \in DOMAIN results : results[n] = j}}
           Printed   == {j} \cap printed
<1>1. Places(j) = InChans \cup InUnsent \cup Held \cup InResults \cup Printed
  BY DEF Places
<1>2. /\ j \notin Range(unsent) => InUnsent = {}
      /\ j \in Range(unsent) => \E i : InUnsent = {<<"unsent", i>>}
  BY DEF Inv, Apart, Range, IsInjective
<1>3. \A c \in Channel :
          /\ j \notin Queued(c) => InChan(c) = {}
          /\ j \in Queued(c) => \E i : InChan(c) = {<<c, i>>}
  <2> TAKE c \in Channel
  <2>1. IsInjective(chan[c])
    BY DEF Inv, Apart
  <2> QED BY <2>1 DEF Range, IsInjective, Queued
<1>4. /\ j \notin Range(results) => InResults = {}
      /\ j \in Range(results) => \E i : InResults = {<<"results", i>>}
  BY DEF Inv, Apart, Range, IsInjective
<1>5. j # NoJob
  BY PoolAssumption
<1>6. /\ (\A w \in Worker : held[w] # j) => Held = {}
      /\ \A w \in Worker : held[w] = j => Held = {<<"held", w>>}
  BY <1>5 DEF Inv, Apart
<1>7. /\ j \notin printed => Printed = {}
      /\ j \in printed => Printed = {j}
  OBVIOUS
<1>8. \A c, d \in Channel : j \in Queued(c) /\ j \in Queued(d) => c = d
  BY DEF Inv, Apart
<1>9. (\A c \in Channel : j \notin Queued(c)) => InChans = {}
  BY <1>3
<1> HIDE DEF InUnsent, InChan, InChans, Held, InResults, Printed
<1>10. CASE j \in Range(unsent)
  <2>1. /\ j \notin Range(results) \cup printed
        /\ \A c \in Channel : j \notin Queued(c)
        /\ \A w \in Worker : held[w] # j
    BY <1>10 DEF Inv, Apart
  <2> QED BY <1>1, <1>2, <1>9, <1>4, <1>6, <1>7, <1>10, <2>1
<1>11. CASE \E c \in Channel : j \in Queued(c)
  <2> PICK c \in Channel : j \in Queued(c)
    BY <1>11
  <2>1. /\ j \notin Range(unsent) \cup Range(results) \cup printed
        /\ \A w \in Worker : held[w] # j
    BY DEF Inv, Apart
  <2>2. InChans = InChan(c)
    BY <1>3, <1>8 DEF InChans
  <2>3. Places(j) = InChan(c)
    BY <1>1, <1>2, <1>4, <1>6, <1>7, <2>1, <2>2
  <2> QED BY <1>3, <2>3
<1>12. CASE \E w \in Worker : held[w] = j
  <2> PICK w \in Worker : held[w] = j
    BY <1>12
  <2>1. /\ j \notin Range(unsent) \cup Range(results) \cup printed
        /\ \A c \in Channel : j \notin Queued(c)
    BY DEF Inv, Apart
  <2>2. /\ InUnsent = {} /\ InResults = {} /\ Printed = {}
        /\ InChans = {}
    BY <1>2, <1>9, <1>4, <1>7, <2>1
  <2>3. Places(j) = Held
    BY <1>1, <2>2
  <2> QED BY <1>6, <2>3
<1>13. CASE j \in Range(results)
  <2>1. /\ j \notin Range(unsent) \cup printed
        /\ \A c \in Channel : j \notin Queued(c)
        /\ \A w \in Worker : held[w] # j
    BY <1>13 DEF Inv, Apart
  <2>2. /\ InUnsent = {} /\ Held = {} /\ Printed = {}
        /\ InChans = {}
    BY <1>2, <1>9, <1>6, <1>7, <2>1
  <2>3. Places(j) = InResults
    BY <1>1, <2>2
  <2> QED BY <1>4, <1>13, <2>3
<1>14. CASE j \in printed
  <2>1. /\ j \notin Range(unsent) \cup Range(results)
        /\ \A c \in Channel : j \notin Queued(c)
        /\ \A w \in Worker : held[w] # j
    BY <1>14 DEF Inv, Apart
  <2>2. /\ InUnsent = {} /\ Held = {} /\ InResults = {}
        /\ InChans = {}
    BY <1>2, <1>9, <1>4, <1>6, <2>1
  <2>3. Places(j) = Printed
    BY <1>1, <2>2
  <2> QED BY <1>7, <1>14, <2>3
<1> QED BY <1>10, <1>11, <1>12, <1>13, <1>14 DEF Inv, Somewhere

\* For any pool, no job is lost or received by two workers, whatever is
\* canceled when.
THEOREM Conserved == Spec => []JobsConserved
<1>1. Inv => JobsConserved
  BY OnePlace, FS_Singleton DEF JobsConserved
<1> QED BY Invariance, <1>1, PTL

LEMMA RoomForResult ==
    ASSUME Inv, NEW w \in Worker, wpc[w] \in Sending
    PROVE  Len(results) < ResultCapacity
<1>1. held[w] \in Job /\ held[w] \notin Range(results)
  BY DEF Inv, TypeOK, Holding, Apart
<1>2. IsFiniteSet(Job) /\ IsFiniteSet(Job \ {held[w]})
      /\ Cardinality(Job) \in Nat
      /\ Cardinality(Job \ {held[w]}) = Cardinality(Job) - 1
  BY <1>1, PoolAssumption, FS_CardinalityType, FS_RemoveElement
<1>3. /\ Len(results) \in Nat /\ DOMAIN results = 1 .. Len(results)
      /\ results \in [1 .. Len(results) -> Job \ {held[w]}]
  BY <1>1 DEF Inv, TypeOK, Range
<1>4. IsFiniteSet(1 .. Len(results)) /\ Cardinality(1 .. Len(results)) = Len(results)
  BY <1>3, FS_Interval
<1>5. results \in Injection(1 .. Len(results), Job \ {held[w]})
  BY <1>3 DEF Inv, Apart, IsInjective, Injection
<1>6. Cardinality(1 .. Len(results)) <= Cardinality(Job \ {held[w]})
  BY <1>2, <1>5, FS_Injection
<1> QED BY <1>2, <1>3, <1>4, <1>6 DEF ResultCapacity

\* For any pool, a worker never sends on the closed results channel and
\* never waits for a place in it.
THEOREM SafeSend == Spec => []SendIsSafe
<1>1. ASSUME Inv PROVE SendIsSafe
  <2>1. ASSUME NEW w \in Worker, wpc[w] \in Sending PROVE ~ resultsClosed
    BY <1>1, <2>1 DEF Inv, Control, Sending
  <2> QED BY <1>1, <2>1, RoomForResult DEF SendIsSafe
<1> QED BY Invariance, <1>1, PTL

\* For any pool, a Resize that returns leaves no goroutine and no result
\* behind and, unless it was canceled, has processed every job.
THEOREM ReturnComplete == Spec => []ReturnMeansAll
<1>1. ASSUME Inv, main = "returned"
      PROVE  /\ printer = "ended" /\ results = <<>>
             /\ \A w \in Worker : wpc[w] = "done"
             /\ ~ canceled => printed = Job
  <2>1. /\ printer = "ended" /\ results = <<>> /\ unsent = <<>>
        /\ \A w \in Worker : wpc[w] = "done"
    BY <1>1 DEF Inv, Control
  <2>2. ASSUME ~ canceled, NEW j \in Job PROVE j \in printed
    <3>1. \A w \in Worker : held[w] = NoJob /\ chan[Inbox[w]] = <<>>
      BY <1>1, <2>1, <2>2 DEF Inv, Holding
    <3>2. \A c \in Channel : j \notin Queued(c)
      <4>1. ASSUME NEW c \in Channel, j \in Queued(c) PROVE FALSE
        <5>1. Route[j] = c
          BY <1>1, <4>1 DEF Inv, Apart
        <5>2. PICK w \in Worker : Inbox[w] = c
          BY <5>1, PoolAssumption
        <5> QED BY <3>1, <4>1, <5>2, EmptyQueue DEF Queued
      <4> QED BY <4>1
    <3>3. j # NoJob
      BY PoolAssumption
    <3> QED BY <1>1, <2>1, <3>1, <3>2, <3>3, EmptyQueue DEF Inv, Somewhere
  <2> QED BY <1>1, <2>1, <2>2 DEF Inv, TypeOK
<1>2. Inv => ReturnMeansAll
  BY <1>1 DEF ReturnMeansAll
<1> QED BY Invariance, <1>2, PTL

-----------------------------------------------------------------------------
(* The progress shown.                                                     *)

AddRecs(recs, j, total) == recs[j] + total
AnyOf(jobs) == CHOOSE j \in jobs : TRUE

Totals == INSTANCE FoldTheorems WITH Op <- AddRecs, Pick <- AnyOf

LEMMA SameFinite == \A S : IsFiniteSet(S) => Totals!IsFiniteSet(S)
  BY DEF IsFiniteSet, Totals!IsFiniteSet

\* The total of a set of jobs is that of the others and any one of them.
LEMMA TotalStep ==
    ASSUME NEW jobs \in SUBSET Job
    PROVE  /\ TotalOf(jobs) \in Nat
           /\ \A j \in jobs : TotalOf(jobs) = Recs[j] + TotalOf(jobs \ {j})
<1> DEFINE U == {S \in SUBSET Job :
                    /\ TotalOf(S) \in Nat
                    /\ \A j \in S : TotalOf(S) = Recs[j] + TotalOf(S \ {j})}
<1>1. ASSUME NEW S \in SUBSET Job, \A T \in SUBSET S : T # S => T \in U
      PROVE  S \in U
  <2>1. Totals!IsFiniteSet(S) /\ Totals!Picks(S)
    BY PoolAssumption, FS_Subset, SameFinite DEF Totals!Picks, AnyOf
  <2>2. \A T : TotalOf(T) = Totals!Fold(Recs, 0, T)
    BY DEF TotalOf, MapThenSumSet, MapThenFoldSet, Totals!Fold, Totals!IsFold,
       AddRecs, AnyOf
  <2>3. CASE S = {}
    <3>1. Totals!Fold(Recs, 0, {}) = 0
      BY <2>1, Totals!FoldStep
    <3> QED BY <2>2, <2>3, <3>1
  <2>4. CASE S # {}
    <3> DEFINE p == AnyOf(S)
    <3>1. p \in S /\ S \ {p} \in U
      BY <1>1, <2>1, <2>4 DEF Totals!Picks
    <3>2. TotalOf(S) = Recs[p] + TotalOf(S \ {p})
      <4>1. Totals!Fold(Recs, 0, S) = AddRecs(Recs, p, Totals!Fold(Recs, 0, S \ {p}))
        BY <2>1, <2>4, Totals!FoldStep
      <4> QED BY <2>2, <4>1 DEF AddRecs
    <3> HIDE DEF p
    <3>3. Recs[p] \in Nat /\ TotalOf(S) \in Nat
      BY <3>1, <3>2, PoolAssumption
    <3>4. ASSUME NEW j \in S, j # p
          PROVE  TotalOf(S) = Recs[j] + TotalOf(S \ {j})
      <4>1. S \ {j} \in U /\ p \in S \ {j} /\ j \in S \ {p}
        BY <1>1, <3>1, <3>4
      <4>2. (S \ {p}) \ {j} = (S \ {j}) \ {p} /\ (S \ {p}) \ {j} \in U
        BY <1>1, <3>1
      <4>3. TotalOf(S \ {p}) = Recs[j] + TotalOf((S \ {p}) \ {j})
        BY <3>1, <4>1
      <4>4. TotalOf(S \ {j}) = Recs[p] + TotalOf((S \ {p}) \ {j})
        BY <4>1, <4>2
      <4>5. Recs[j] \in Nat /\ TotalOf((S \ {p}) \ {j}) \in Nat
        BY <4>2, PoolAssumption
      <4> QED BY <3>2, <3>3, <4>3, <4>4, <4>5
    <3> QED BY <3>2, <3>3, <3>4
  <2> QED BY <2>3, <2>4
<1>2. SUBSET Job \subseteq U
  <2>1. Totals!IsFiniteSet(Job)
    BY PoolAssumption, SameFinite
  <2> HIDE DEF U
  <2> QED BY <1>1, <2>1, Totals!SubsetInduction
<1> QED BY <1>2

LEMMA NoneReported == TotalOf({}) = 0
<1>1. Totals!Picks({}) /\ Totals!IsFiniteSet({})
  BY FS_EmptySet, SameFinite DEF Totals!Picks
<1>2. TotalOf({}) = Totals!Fold(Recs, 0, {})
  BY DEF TotalOf, MapThenSumSet, MapThenFoldSet, Totals!Fold, Totals!IsFold,
     AddRecs, AnyOf
<1>3. Totals!Fold(Recs, 0, {}) = 0
  BY <1>1, Totals!FoldStep
<1> QED BY <1>2, <1>3

\* A job's outcome is told to the indicator in the step that reports it.
LEMMA OutcomeReported ==
    ASSUME Inv, NEW w \in Worker, NEW step \in {"working", "failing"},
           NEW next \in Sending, Outcome(w, step, next),
           processed' = processed + Recs[held[w]], ProgressIsExact
    PROVE  ProgressIsExact'
<1> DEFINE j == held[w]
<1>1. wpc[w] = step /\ wpc' = [wpc EXCEPT ![w] = next]
      /\ UNCHANGED <<held, results, printed>>
  BY DEF Outcome, Move, printerVars
<1>2. j \in Job /\ j # NoJob
  BY <1>1 DEF Inv, TypeOK, Holding
<1>3. wpc \in [Worker -> WorkerSteps] /\ step \notin Sending
  BY DEF Inv, TypeOK, Sending
<1>4. j \notin Reported
  <2>1. ASSUME NEW v \in Worker, wpc[v] \in Sending PROVE held[v] # j
    BY <1>1, <1>2, <1>3, <2>1 DEF Inv, Apart
  <2>2. j \notin printed \cup Range(results)
    BY DEF Inv, Apart
  <2> QED BY <2>1, <2>2 DEF Reported
<1>5. Reported' = Reported \cup {j}
  BY <1>1, <1>3 DEF Reported
<1>6. Reported \subseteq Job
  BY DEF Inv, TypeOK, Reported, Holding, Range
<1> HIDE DEF j
<1>7. Reported \cup {j} \in SUBSET Job /\ (Reported \cup {j}) \ {j} = Reported
  BY <1>2, <1>4, <1>6
<1>8. TotalOf(Reported \cup {j}) = Recs[j] + TotalOf(Reported)
  BY <1>7, TotalStep
<1>9. TotalOf(Reported) \in Nat /\ Recs[j] \in Nat
  BY <1>2, <1>6, TotalStep, PoolAssumption
<1>10. processed' = TotalOf(Reported \cup {j})
  BY <1>8, <1>9 DEF ProgressIsExact, j
<1> QED BY <1>5, <1>10 DEF ProgressIsExact

\* No other step of a worker changes what has been reported.
LEMMA WorkerProgress ==
    ASSUME Inv, ProgressIsExact, NEW w \in Worker, ResizeJob(w)
    PROVE  ProgressIsExact'
<1>1. /\ wpc \in [Worker -> WorkerSteps] /\ held \in [Worker -> Job \cup {NoJob}]
      /\ results \in Seq(Job)
  BY DEF Inv, TypeOK
<1>2. CASE Receive(w) \/ StartJob(w) \/ NotifyRollback(w) \/ Delay(w)
  <2>1. /\ UNCHANGED <<processed, results, printed>>
        /\ \A v \in Worker \ {w} : wpc'[v] = wpc[v] /\ held'[v] = held[v]
        /\ wpc[w] \notin Sending /\ wpc'[w] \notin Sending
    <3> USE DEF Move, Outcome, Sending, printerVars, indicatorVars
    <3>1. CASE Receive(w)
      <4>1. /\ UNCHANGED <<processed, results, printed>> /\ wpc[w] = "recv"
            /\ \E step \in {"got", "done"} : wpc' = [wpc EXCEPT ![w] = step]
            /\ \/ held' = [held EXCEPT ![w] = Head(chan[Inbox[w]])]
               \/ held' = held
        BY <3>1, Received
      <4> QED BY <1>1, <4>1
    <3>2. CASE StartJob(w)
      BY <1>1, <3>2 DEF StartJob
    <3>3. CASE NotifyRollback(w)
      BY <1>1, <3>3 DEF NotifyRollback, HandleResizeEvent
    <3>4. CASE Delay(w)
      BY <1>1, <3>4 DEF Delay
    <3> QED BY <1>2, <3>1, <3>2, <3>3, <3>4
  <2>2. Reported' = Reported
    BY <2>1 DEF Reported
  <2> QED BY <2>1, <2>2 DEF ProgressIsExact
<1>3. CASE NotifyFailed(w)
  <2>1. processed' = processed + Recs[held[w]]
    BY <1>3 DEF NotifyFailed, HandleResizeEvent, RollbackStatus
  <2> QED BY <1>3, <2>1, OutcomeReported DEF NotifyFailed, Sending
<1>4. CASE NotifySkipped(w)
  <2>1. processed' = processed + Recs[held[w]]
    BY <1>4 DEF NotifySkipped, HandleResizeEvent, RollbackStatus
  <2> QED BY <1>4, <2>1, OutcomeReported DEF NotifySkipped, Sending
<1>5. CASE NotifySucceeded(w)
  <2>1. processed' = processed + Recs[held[w]]
    BY <1>5 DEF NotifySucceeded, HandleResizeEvent, RollbackStatus
  <2> QED BY <1>5, <2>1, OutcomeReported DEF NotifySucceeded, Sending
<1>6. CASE SendResult(w)
  <2>1. /\ UNCHANGED <<processed, printed>> /\ results' = Append(results, held[w])
        /\ \A v \in Worker \ {w} : wpc'[v] = wpc[v] /\ held'[v] = held[v]
        /\ wpc[w] \in Sending /\ wpc'[w] \notin Sending
    BY <1>1, <1>6 DEF SendResult, Move, Sending, printerVars, indicatorVars
  <2>2. held[w] \in Job
    BY <2>1 DEF Inv, TypeOK, Holding
  <2>3. Range(results') = Range(results) \cup {held[w]}
    BY <1>1, <2>1, <2>2, AppendTo
  <2>4. Reported' = Reported
    BY <2>1, <2>3 DEF Reported
  <2> QED BY <2>1, <2>4 DEF ProgressIsExact
<1> QED BY <1>2, <1>3, <1>4, <1>5, <1>6 DEF ResizeJob

\* For any pool, the progress is at every moment the number of the
\* recommendations of the jobs that have ended.
THEOREM ExactProgress == Spec => []ProgressIsExact
<1>1. Init => ProgressIsExact
  <2>1. ASSUME Init PROVE Reported = {} /\ processed = 0
    <3>1. \A w \in Worker : wpc[w] \notin Sending
      BY <2>1 DEF Init, Sending
    <3> QED BY <2>1, <3>1, EmptyQueue DEF Init, IndicatorInit, Reported
  <2> QED BY <2>1, NoneReported DEF ProgressIsExact
<1>2. ASSUME Inv, ProgressIsExact, [Next]_vars PROVE ProgressIsExact'
  <2>1. ASSUME UNCHANGED <<processed, wpc, held, results, printed>>
        PROVE  ProgressIsExact'
    <3>1. Reported' = Reported
      BY <2>1 DEF Reported
    <3> QED BY <1>2, <2>1, <3>1 DEF ProgressIsExact
  <2>2. CASE Caller \/ Cancel \/ UNCHANGED vars
    BY <2>1, <2>2 DEF Caller, SendJob, AllSent, CloseJobs, CloseResults, Join, Cancel,
       vars, poolVars, workerVars, printerVars, indicatorVars
  <2>3. CASE PrintResult
    <3>1. CASE results = <<>>
      BY <2>1, <2>3, <3>1 DEF PrintResult, workerVars, indicatorVars
    <3>2. CASE results # <<>>
      <4>1. /\ printed' = printed \cup {Head(results)} /\ results' = Tail(results)
            /\ UNCHANGED <<processed, wpc, held>>
        BY <2>3, <3>2 DEF PrintResult, workerVars, indicatorVars
      <4>2. Range(results) = Range(Tail(results)) \cup {Head(results)}
        BY <1>2, <3>2, HeadOf DEF Inv, TypeOK
      <4>3. Reported' = Reported
        BY <4>1, <4>2 DEF Reported
      <4> QED BY <1>2, <4>1, <4>3 DEF ProgressIsExact
    <3> QED BY <3>1, <3>2
  <2> QED BY <1>2, <2>2, <2>3, WorkerProgress DEF Next
<1> QED BY Invariance, <1>1, <1>2, PTL DEF Spec
=============================================================================
