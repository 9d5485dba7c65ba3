----------------------------- MODULE WorkerPool -----------------------------
(***************************************************************************)
(* Resize of both strategies: the calling goroutine feeds jobs to worker   *)
(* goroutines over buffered channels, they report over a results channel   *)
(* to a printing goroutine, and Resize returns when all of it has ended.   *)
(* WorkloadResizer and ContainerResizer fix the channels.                  *)
(*                                                                         *)
(* What a job does to its workload is ResizeJob's; here it only ends, with *)
(* some status.                                                            *)
(***************************************************************************)
EXTENDS ResizeIndicator, Sequences, FiniteSets, Functions, FiniteSetsExt

CONSTANTS
    Worker,      \* worker goroutines
    Job,         \* what is sent over a job channel
    NoJob,
    Recs,        \* Recs[j]: recommendations in j
    Containers,  \* Containers[j]: containers in the template of j's workload
    Channel,     \* job channels
    Capacity,    \* the size of each channel's buffer
    Inbox,       \* Inbox[w]: the channel worker w ranges over
    Route,       \* Route[j]: the channel j is sent to
    Orders,      \* orders in which the jobs may be sent
    Cancelable   \* is the context ever canceled?

ASSUME PoolAssumption ==
    /\ IsFiniteSet(Worker) /\ Worker # {}
    /\ IsFiniteSet(Job) /\ NoJob \notin Job
    /\ Recs \in [Job -> Nat \ {0}] /\ Containers \in [Job -> Nat]
    /\ Capacity \in Nat \ {0}
    /\ Inbox \in [Worker -> Channel] /\ Route \in [Job -> Channel]
    /\ \A j \in Job : \E w \in Worker : Inbox[w] = Route[j]
    /\ \A order \in Orders :
          order \in Seq(Job) /\ IsInjective(order) /\ Range(order) = Job
    /\ Cancelable \in BOOLEAN

VARIABLES
    canceled,       \* ctx.Done() is closed
    main,           \* the caller's next step
    unsent,         \* jobs it has yet to send, in order
    chan, closed,   \* buffers of the job channels, and those closed
    wpc, held,      \* each worker's next step and the job it received
    results,        \* buffer of the results channel
    resultsClosed,
    printer,        \* the printing goroutine
    printed         \* the jobs whose results it has printed

poolVars == <<canceled, main, unsent, chan, closed, wpc, held, results,
              resultsClosed, printer, printed>>
vars == <<poolVars, indicatorVars>>

ResultCapacity == Cardinality(Job)

Sending     == {"send", "sendOK"}
WorkerSteps == {"recv", "got", "working", "failing", "delay", "done"} \cup Sending

TypeOK ==
    /\ IndicatorTypeOK
    /\ canceled \in BOOLEAN
    /\ main \in {"send", "close", "wait", "join", "returned"}
    /\ unsent \in Seq(Job)
    /\ chan \in [Channel -> Seq(Job)]
    /\ closed \subseteq Channel
    /\ wpc \in [Worker -> WorkerSteps]
    /\ held \in [Worker -> Job \cup {NoJob}]
    /\ results \in Seq(Job)
    /\ resultsClosed \in BOOLEAN
    /\ printer \in {"range", "done", "ended"}
    /\ printed \subseteq Job

Init ==
    /\ IndicatorInit
    /\ canceled = FALSE
    /\ main = "send"
    /\ unsent \in Orders
    /\ chan = [c \in Channel |-> <<>>]
    /\ closed = {}
    /\ wpc = [w \in Worker |-> "recv"]
    /\ held = [w \in Worker |-> NoJob]
    /\ results = <<>>
    /\ resultsClosed = FALSE
    /\ printer = "range"
    /\ printed = {}

-----------------------------------------------------------------------------
(* The caller.                                                             *)

workerVars  == <<wpc, held, indicatorVars>>
printerVars == <<printer, printed>>

\* It blocks while the channel's buffer is full.
SendJob ==
    /\ main = "send"
    /\ unsent # <<>>
    /\ LET c == Route[Head(unsent)] IN
          /\ Len(chan[c]) < Capacity
          /\ chan' = [chan EXCEPT ![c] = Append(@, Head(unsent))]
    /\ unsent' = Tail(unsent)
    /\ UNCHANGED <<canceled, main, closed, results, resultsClosed, workerVars,
                   printerVars>>

AllSent ==
    /\ main = "send"
    /\ unsent = <<>>
    /\ main' = "close"
    /\ UNCHANGED <<canceled, unsent, chan, closed, results, resultsClosed,
                   workerVars, printerVars>>

CloseJobs ==
    /\ main = "close"
    /\ \/ \E c \in Channel \ closed : closed' = closed \cup {c} /\ UNCHANGED main
       \/ closed = Channel /\ main' = "wait" /\ UNCHANGED closed
    /\ UNCHANGED <<canceled, unsent, chan, results, resultsClosed, workerVars,
                   printerVars>>

\* Mutant: the workers are not waited for.
CloseResultsEarly ==
    /\ main = "wait"
    /\ resultsClosed' = TRUE
    /\ main' = "join"
    /\ UNCHANGED <<canceled, unsent, chan, closed, results, workerVars, printerVars>>

\* wg.Wait(), then close(results).
CloseResults ==
    /\ main = "wait"
    /\ \A w \in Worker : wpc[w] = "done"
    /\ resultsClosed' = TRUE
    /\ main' = "join"
    /\ UNCHANGED <<canceled, unsent, chan, closed, results, workerVars, printerVars>>

\* Mutant: the last results may still be printed when Resize returns.
JoinEarly ==
    /\ main = "join"
    /\ main' = "returned"
    /\ UNCHANGED <<canceled, unsent, chan, closed, results, resultsClosed,
                   workerVars, printerVars>>

\* donePrinting has no buffer: sender and receiver meet.
Join ==
    /\ main = "join" /\ printer = "done"
    /\ main' = "returned" /\ printer' = "ended"
    /\ UNCHANGED <<canceled, unsent, chan, closed, results, resultsClosed,
                   workerVars, printed>>

Caller == SendJob \/ AllSent \/ CloseJobs \/ CloseResults \/ Join

-----------------------------------------------------------------------------
(* The printing goroutine.                                                 *)

PrintResult ==
    /\ printer = "range"
    /\ \/ /\ results # <<>>
          /\ printed' = printed \cup {Head(results)}
          /\ results' = Tail(results)
          /\ UNCHANGED printer
       \/ /\ results = <<>> /\ resultsClosed
          /\ printer' = "done"
          /\ UNCHANGED <<printed, results>>
    /\ UNCHANGED <<canceled, main, unsent, chan, closed, resultsClosed, workerVars>>

-----------------------------------------------------------------------------
(* The worker goroutines.                                                  *)

Move(w, from, to) == wpc[w] = from /\ wpc' = [wpc EXCEPT ![w] = to]

callerVars == <<main, unsent, closed>>

\* The channels w receives from.
Source(w) == {Inbox[w]}

\* Mutant: the end of the range is not noticed.
Spin(w) == wpc[w] = "recv" /\ UNCHANGED wpc

\* The range over the jobs ends when the channel is closed and empty.
EndRange(w) == Move(w, "recv", "done")

Receive(w) ==
    /\ \E c \in Source(w) :
          \/ /\ chan[c] # <<>>
             /\ held' = [held EXCEPT ![w] = Head(chan[c])]
             /\ chan' = [chan EXCEPT ![c] = Tail(@)]
             /\ Move(w, "recv", "got")
          \/ /\ chan[c] = <<>> /\ c \in closed
             /\ EndRange(w)
             /\ UNCHANGED <<held, chan>>
    /\ UNCHANGED <<canceled, callerVars, results, resultsClosed, printerVars,
                   indicatorVars>>

\* Mutant: a canceled job is skipped, and the next one received.
DropAndGoOn(w) ==
    /\ IF canceled THEN Move(w, "got", "recv") ELSE Move(w, "got", "working")
    /\ UNCHANGED <<canceled, callerVars, chan, held, results, resultsClosed,
                   printerVars, indicatorVars>>

\* The select before a job: once the context is canceled the job just
\* received is dropped.
StartJob(w) ==
    /\ IF canceled THEN Move(w, "got", "done") ELSE Move(w, "got", "working")
    /\ UNCHANGED <<canceled, callerVars, chan, held, results, resultsClosed,
                   printerVars, indicatorVars>>

\* The job ends; what it reports is given to the indicator first.
Outcome(w, from, to) ==
    /\ Move(w, from, to)
    /\ UNCHANGED <<canceled, callerVars, chan, held, results, resultsClosed,
                   printerVars>>

\* The rollback's event is about every container of the template.
NotifyRollback(w) ==
    /\ Outcome(w, "working", "failing")
    /\ \E status \in RollbackStatus :
          HandleResizeEvent(status, Containers[held[w]])

NotifyFailed(w) ==
    /\ \E step \in {"working", "failing"} : Outcome(w, step, "send")
    /\ HandleResizeEvent("Failed", Recs[held[w]])

NotifySkipped(w) ==
    /\ Outcome(w, "working", "send")
    /\ HandleResizeEvent("Skipped", Recs[held[w]])

\* The event is about all recommendations of the job, also those that were
\* not valid and not applied.
NotifySucceeded(w) ==
    /\ Outcome(w, "working", "sendOK")
    /\ HandleResizeEvent("Succeeded", Recs[held[w]])

\* Only a success is followed by InterRecommendationDelay.
SendResult(w) ==
    /\ ~ resultsClosed \* sending on a closed channel panics
    /\ Len(results) < ResultCapacity
    /\ results' = Append(results, held[w])
    /\ held' = [held EXCEPT ![w] = NoJob]
    /\ Move(w, "send", "recv") \/ Move(w, "sendOK", "delay")
    /\ UNCHANGED <<canceled, callerVars, chan, resultsClosed, printerVars,
                   indicatorVars>>

Delay(w) ==
    /\ Move(w, "delay", "recv") \/ (canceled /\ Move(w, "delay", "done"))
    /\ UNCHANGED <<canceled, callerVars, chan, held, results, resultsClosed,
                   printerVars, indicatorVars>>

ResizeJob(w) ==
    \/ Receive(w)
    \/ StartJob(w)
    \/ NotifyRollback(w) \/ NotifyFailed(w)
    \/ NotifySkipped(w) \/ NotifySucceeded(w)
    \/ SendResult(w)
    \/ Delay(w)

Cancel ==
    /\ Cancelable /\ ~ canceled
    /\ canceled' = TRUE
    /\ UNCHANGED <<callerVars, chan, results, resultsClosed, workerVars, printerVars>>

-----------------------------------------------------------------------------

Next ==
    \/ Caller
    \/ PrintResult
    \/ \E w \in Worker : ResizeJob(w)
    \/ Cancel
    \/ main = "returned" /\ UNCHANGED vars

Spec == Init /\ [][Next]_vars

\* Goroutines are scheduled, and every job ends (ResizeJob!JobsEnd).
FairSpec ==
    /\ Spec
    /\ WF_vars(Caller) /\ WF_vars(PrintResult)
    /\ \A w \in Worker : WF_vars(ResizeJob(w))

-----------------------------------------------------------------------------
(* Properties.                                                             *)

\* Every place job j is at: not sent, in a channel, with a worker (one that
\* stopped keeps it), in the results, or printed.
Places(j) ==
    (UNION {{<<c, i>> : i \in {n \in DOMAIN chan[c] : chan[c][n] = j}} : c \in Channel})
    \cup {<<"unsent", i>> : i \in {n \in DOMAIN unsent : unsent[n] = j}}
    \cup {<<"held", w>> : w \in {v \in Worker : held[v] = j}}
    \cup {<<"results", i>> : i \in {n \in DOMAIN results : results[n] = j}}
    \cup ({j} \cap printed)

\* No job is lost or processed twice, by whatever worker and however the
\* run is canceled.
JobsConserved == \A j \in Job : Cardinality(Places(j)) = 1

\* A worker that has a result to send can: the channel is neither closed
\* (which would panic) nor full.
SendIsSafe ==
    \A w \in Worker :
        wpc[w] \in Sending => ~ resultsClosed /\ Len(results) < ResultCapacity

Reported ==
    printed \cup Range(results) \cup {held[w] : w \in {v \in Worker : wpc[v] \in Sending}}

TotalOf(jobs) == MapThenSumSet(LAMBDA j : Recs[j], jobs)

\* The progress shown is exactly the recommendations of the jobs that have
\* ended, never more than there are.
ProgressIsExact == processed = TotalOf(Reported)

\* When Resize returns nothing is left in a channel that a result was sent
\* to, no goroutine runs, and, unless it was canceled, every job was
\* processed.
ReturnMeansAll ==
    main = "returned" =>
        /\ printer = "ended" /\ results = <<>>
        /\ \A w \in Worker : wpc[w] = "done"
        /\ ~ canceled => printed = Job

\* Resize returns: however full the channels get, nobody waits for somebody
\* who waits for him.
Returns == <>(main = "returned")

\* With a shared channel that has fewer places than there are jobs this
\* takes workers that keep receiving, which canceled ones do not.
ReturnsUncanceled == <>(canceled \/ main = "returned")
=============================================================================
