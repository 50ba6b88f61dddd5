------------------------------ MODULE Pipeline ------------------------------
(***************************************************************************)
(* The ordered crypto pipeline of src/pipeline.rs: the I/O thread, the     *)
(* worker threads, the two bounded channels between them, and the eventfd  *)
(* that wakes the I/O thread.  Jobs are numbered by their submission; what *)
(* a worker computes from a job is left out, its place in the order is not.*)
(***************************************************************************)
EXTENDS Naturals, Sequences, Functions

CONSTANTS
  MaxThreads,   \* the worker count is any of 0 .. MaxThreads
  BATCH_JOBS,   \* jobs per batch handed to a worker
  QUEUE_DEPTH,  \* batches a channel holds
  MaxJobs       \* bound: jobs submitted in a behaviour

ASSUME PipelineAssumption ==
  /\ MaxThreads \in Nat
  /\ BATCH_JOBS \in Nat \ {0}
  /\ QUEUE_DEPTH \in Nat \ {0}
  /\ MaxJobs \in Nat

VARIABLES
  threads,        \* number of workers, fixed when the pipeline is built
  io,             \* where the I/O thread is in its event loop
  submitted,      \* jobs submitted so far; the next one is submitted + 1
  batch,          \* jobs not yet handed to a worker
  next_dispatch,
  next_collect,
  in_flight,      \* in_flight_batches
  dropped,        \* jobs given up under overload (the code counts them)
  inline_done,    \* results of the workerless pipeline
  jobq,           \* [worker -> batches in its job channel]
  doneq,          \* [worker -> batches in its result channel]
  wpc,            \* [worker -> where its loop is]
  hold,           \* [worker -> the batch it works on]
  wake,           \* the eventfd counter is not zero
  delivered       \* history: jobs whose results reached the I/O thread

ioVars     == <<next_dispatch, in_flight, dropped, batch>>
workerVars == <<doneq, wpc, hold>>
vars == <<threads, io, submitted, batch, next_dispatch, next_collect, in_flight,
          dropped, inline_done, jobq, doneq, wpc, hold, wake, delivered>>

Workers == 0 .. threads - 1

Init ==
  /\ threads \in 0 .. MaxThreads
  /\ io = "poll"
  /\ submitted = 0
  /\ batch = <<>>
  /\ next_dispatch = 0
  /\ next_collect = 0
  /\ in_flight = 0
  /\ dropped = {}
  /\ inline_done = <<>>
  /\ jobq  = [w \in Workers |-> <<>>]
  /\ doneq = [w \in Workers |-> <<>>]
  /\ wpc   = [w \in Workers |-> "recv"]
  /\ hold  = [w \in Workers |-> <<>>]
  /\ wake = FALSE
  /\ delivered = <<>>

-----------------------------------------------------------------------------
(* The I/O thread.                                                         *)

\* Hand the batch b to the next worker; a full channel costs the batch, and
\* the worker whose turn it was keeps its turn.
Flush(b) ==
  /\ batch' = <<>>
  /\ IF b # <<>> /\ Len(jobq[next_dispatch]) < QUEUE_DEPTH
     THEN /\ jobq' = [jobq EXCEPT ![next_dispatch] = Append(@, b)]
          /\ next_dispatch' = (next_dispatch + 1) % threads
          /\ in_flight' = in_flight + 1
          /\ UNCHANGED dropped
     ELSE /\ dropped' = dropped \cup Range(b)
          /\ UNCHANGED <<jobq, next_dispatch, in_flight>>

\* Mutant: the batch is flushed one job late.
SubmitLateFlush ==
  /\ io \in {"round", "handle"}
  /\ submitted < MaxJobs
  /\ submitted' = submitted + 1
  /\ LET job == submitted + 1 IN
     IF threads = 0
     THEN /\ inline_done' = Append(inline_done, job)
          /\ UNCHANGED <<jobq, ioVars>>
     ELSE /\ UNCHANGED inline_done
          /\ LET b == Append(batch, job) IN
             IF Len(b) > BATCH_JOBS
             THEN Flush(b)
             ELSE /\ batch' = b
                  /\ UNCHANGED <<jobq, next_dispatch, in_flight, dropped>>
  /\ UNCHANGED <<threads, io, next_collect, workerVars, wake, delivered>>

\* Packets are submitted while sockets are drained and by completion handlers.
Submit ==
  /\ io \in {"round", "handle"}
  /\ submitted < MaxJobs
  /\ submitted' = submitted + 1
  /\ LET job == submitted + 1 IN
     IF threads = 0
     THEN /\ inline_done' = Append(inline_done, job)
          /\ UNCHANGED <<jobq, ioVars>>
     ELSE /\ UNCHANGED inline_done
          /\ LET b == Append(batch, job) IN
             IF Len(b) >= BATCH_JOBS
             THEN Flush(b)
             ELSE /\ batch' = b
                  /\ UNCHANGED <<jobq, next_dispatch, in_flight, dropped>>
  /\ UNCHANGED <<threads, io, next_collect, workerVars, wake, delivered>>

\* poll returns because the eventfd is readable ...
PollWake ==
  /\ io = "poll"
  /\ wake
  /\ io' = "round"
  /\ UNCHANGED <<threads, submitted, next_collect, inline_done, jobq, ioVars,
                 workerVars, wake, delivered>>

\* ... or because a socket is, or after TIMER_INTERVAL_MS at the latest.
PollTimeout ==
  /\ io = "poll"
  /\ io' = "round"
  /\ UNCHANGED <<threads, submitted, next_collect, inline_done, jobq, ioVars,
                 workerVars, wake, delivered>>

\* collect without workers: hand back everything computed inline.
CollectInline ==
  /\ io \in {"round", "handle"}
  /\ threads = 0
  /\ delivered' = delivered \o inline_done
  /\ inline_done' = <<>>
  /\ io' = "handle"
  /\ UNCHANGED <<threads, submitted, next_collect, jobq, ioVars, workerVars, wake>>

\* collect with workers: flush, ...
CollectFlush ==
  /\ io \in {"round", "handle"}
  /\ threads > 0
  /\ Flush(batch)
  /\ io' = "drain"
  /\ UNCHANGED <<threads, submitted, next_collect, inline_done, workerVars, wake,
                 delivered>>

\* ... read the eventfd, ...
CollectDrain ==
  /\ io = "drain"
  /\ wake' = FALSE
  /\ io' = "recv"
  /\ UNCHANGED <<threads, submitted, next_collect, inline_done, jobq, ioVars,
                 workerVars, delivered>>

HeadReady == in_flight > 0 /\ doneq[next_collect] # <<>>

\* Mutant: takes any worker's finished batch.
CollectRecvAny ==
  /\ io = "recv"
  /\ \/ \E w \in Workers :
          /\ in_flight > 0 /\ doneq[w] # <<>>
          /\ delivered' = delivered \o Head(doneq[w])
          /\ doneq' = [doneq EXCEPT ![w] = Tail(@)]
          /\ next_collect' = (next_collect + 1) % threads
          /\ in_flight' = in_flight - 1
          /\ UNCHANGED io
     \/ /\ ~HeadReady
        /\ io' = "handle"
        /\ UNCHANGED <<delivered, doneq, next_collect, in_flight>>
  /\ UNCHANGED <<threads, submitted, inline_done, jobq, next_dispatch, dropped,
                 batch, wpc, hold, wake>>

\* ... then receive from the workers in turn until the next one has nothing.
CollectRecv ==
  /\ io = "recv"
  /\ IF HeadReady
     THEN /\ delivered' = delivered \o Head(doneq[next_collect])
          /\ doneq' = [doneq EXCEPT ![next_collect] = Tail(@)]
          /\ next_collect' = (next_collect + 1) % threads
          /\ in_flight' = in_flight - 1
          /\ UNCHANGED io
     ELSE /\ io' = "handle"
          /\ UNCHANGED <<delivered, doneq, next_collect, in_flight>>
  /\ UNCHANGED <<threads, submitted, inline_done, jobq, next_dispatch, dropped,
                 batch, wpc, hold, wake>>

\* Mutant: the eventfd is read at the end of the round.
EndRoundDrains ==
  /\ io = "handle"
  /\ io' = "poll"
  /\ wake' = FALSE
  /\ UNCHANGED <<threads, submitted, next_collect, inline_done, jobq, ioVars,
                 workerVars, delivered>>

\* The round ends; the timer may have asked for a second collect before.
EndRound ==
  /\ io = "handle"
  /\ io' = "poll"
  /\ UNCHANGED <<threads, submitted, next_collect, inline_done, jobq, ioVars,
                 workerVars, wake, delivered>>

\* The exit flag is seen at the top of the loop: the pipeline is dropped.  The
\* job senders are dropped at once, the result receivers only after the joins.
DropSenders ==
  /\ io = "poll"
  /\ io' = "join"
  /\ UNCHANGED <<threads, submitted, next_collect, inline_done, jobq, ioVars,
                 workerVars, wake, delivered>>

JoinAll ==
  /\ io = "join"
  /\ \A w \in Workers : wpc[w] = "exited"
  /\ io' = "gone"
  /\ UNCHANGED <<threads, submitted, next_collect, inline_done, jobq, ioVars,
                 workerVars, wake, delivered>>

-----------------------------------------------------------------------------
(* A worker.                                                               *)

WorkerRecv(w) ==
  /\ wpc[w] = "recv"
  /\ jobq[w] # <<>>
  /\ hold' = [hold EXCEPT ![w] = Head(jobq[w])]
  /\ jobq' = [jobq EXCEPT ![w] = Tail(@)]
  /\ wpc' = [wpc EXCEPT ![w] = "send"]
  /\ UNCHANGED <<threads, io, submitted, next_collect, inline_done, ioVars, doneq,
                 wake, delivered>>

\* Mutant: a full result channel costs the result.
WorkerSendOrLose(w) ==
  /\ wpc[w] = "send"
  /\ doneq' = [doneq EXCEPT ![w] = IF Len(@) < QUEUE_DEPTH THEN Append(@, hold[w]) ELSE @]
  /\ hold' = [hold EXCEPT ![w] = <<>>]
  /\ wpc' = [wpc EXCEPT ![w] = "wake"]
  /\ UNCHANGED <<threads, io, submitted, next_collect, inline_done, jobq, ioVars,
                 wake, delivered>>

\* done_tx.send blocks while the result channel is full.
WorkerSend(w) ==
  /\ wpc[w] = "send"
  /\ Len(doneq[w]) < QUEUE_DEPTH
  /\ doneq' = [doneq EXCEPT ![w] = Append(@, hold[w])]
  /\ hold' = [hold EXCEPT ![w] = <<>>]
  /\ wpc' = [wpc EXCEPT ![w] = "wake"]
  /\ UNCHANGED <<threads, io, submitted, next_collect, inline_done, jobq, ioVars,
                 wake, delivered>>

WorkerWake(w) ==
  /\ wpc[w] = "wake"
  /\ wake' = TRUE
  /\ wpc' = [wpc EXCEPT ![w] = "recv"]
  /\ UNCHANGED <<threads, io, submitted, next_collect, inline_done, jobq, ioVars,
                 doneq, hold, delivered>>

\* Mutant: the senders live as long as the pipeline.
WorkerExitLate(w) ==
  /\ wpc[w] = "recv"
  /\ jobq[w] = <<>>
  /\ io = "gone"
  /\ wpc' = [wpc EXCEPT ![w] = "exited"]
  /\ UNCHANGED <<threads, io, submitted, next_collect, inline_done, jobq, ioVars,
                 doneq, hold, wake, delivered>>

\* recv fails once the channel is empty and its sender is gone.
WorkerExit(w) ==
  /\ wpc[w] = "recv"
  /\ jobq[w] = <<>>
  /\ io = "join"
  /\ wpc' = [wpc EXCEPT ![w] = "exited"]
  /\ UNCHANGED <<threads, io, submitted, next_collect, inline_done, jobq, ioVars,
                 doneq, hold, wake, delivered>>

Worker(w) == WorkerRecv(w) \/ WorkerSend(w) \/ WorkerWake(w) \/ WorkerExit(w)

Collect == CollectInline \/ CollectFlush \/ CollectDrain \/ CollectRecv

Next ==
  \/ Submit \/ PollWake \/ PollTimeout \/ Collect \/ EndRound
  \/ DropSenders \/ JoinAll
  \/ \E w \in Workers : Worker(w)

\* Threads are scheduled, and poll has a timeout.  Packets need not arrive and
\* nobody need ask the program to exit.
Fairness ==
  /\ WF_vars(PollTimeout) /\ WF_vars(Collect) /\ WF_vars(EndRound)
  /\ WF_vars(JoinAll)
  /\ \A w \in 0 .. MaxThreads - 1 : WF_vars(w \in Workers /\ Worker(w))

Spec == Init /\ [][Next]_vars /\ Fairness

-----------------------------------------------------------------------------
(* Properties.                                                             *)

Job == 1 .. MaxJobs
Batches == Seq(Seq(Job))

TypeOK ==
  /\ threads \in 0 .. MaxThreads
  /\ io \in {"poll", "round", "drain", "recv", "handle", "join", "gone"}
  /\ submitted \in 0 .. MaxJobs
  /\ batch \in Seq(Job) /\ Len(batch) < BATCH_JOBS
  /\ next_dispatch \in Nat /\ next_collect \in Nat
  /\ in_flight \in Nat /\ dropped \subseteq Job
  /\ inline_done \in Seq(Job)
  /\ jobq \in [Workers -> Batches] /\ doneq \in [Workers -> Batches]
  /\ \A w \in Workers : Len(jobq[w]) <= QUEUE_DEPTH /\ Len(doneq[w]) <= QUEUE_DEPTH
  /\ wpc \in [Workers -> {"recv", "send", "wake", "exited"}]
  /\ hold \in [Workers -> Seq(Job)]
  /\ wake \in BOOLEAN
  /\ delivered \in Seq(Job)

\* A worker's batches that have not been collected, oldest first.
Outstanding(w) ==
  doneq[w] \o (IF wpc[w] = "send" THEN <<hold[w]>> ELSE <<>>) \o jobq[w]

\* The same for the whole pipeline: the k-th oldest batch is the one of the
\* worker k - 1 places after next_collect.
InFlight ==
  [k \in 1 .. in_flight |->
     LET bs == Outstanding((next_collect + k - 1) % threads)
         i == (k - 1) \div threads + 1
     IN IF i <= Len(bs) THEN bs[i] ELSE <<>>]

\* The jobs of some batches, oldest first.
Joined(bs) ==
  IF Len(bs) = 0 THEN <<>>
  ELSE LET upto[k \in 1 .. Len(bs)] == IF k = 1 THEN bs[k] ELSE upto[k - 1] \o bs[k]
       IN upto[Len(bs)]

OQ == INSTANCE OrderedQueue WITH
        queue <- IF threads = 0 THEN inline_done ELSE Joined(InFlight) \o batch

\* The pipeline behaves as one FIFO queue of jobs: results are handed back in
\* submission order, once each, and only the youngest batch is ever given up,
\* whatever the workers' relative speed (the module comment of pipeline.rs).
ImplementsOrderedQueue == OQ!Spec

\* When the I/O thread sits in poll while the batch it must collect next is
\* finished, the eventfd is readable or a worker is about to make it so: the
\* drain of the eventfd in collect cannot swallow the wake-up of a batch that
\* the receive loop after it does not take.
NoLostWakeup ==
  io = "poll" /\ threads > 0 /\ HeadReady
    => wake \/ \E w \in Workers : wpc[w] = "wake"

\* A job accepted by the pipeline is handed back to the I/O thread (or given up
\* under overload) unless the program exits first: no arrangement of full job
\* and result channels leaves the I/O thread and the workers waiting for each
\* other.
EventuallyDelivered ==
  \A j \in Job :
    submitted >= j
      ~> j \in Range(delivered) \cup dropped \/ io \in {"join", "gone"}

\* Dropping the pipeline joins its workers if none of them has more than
\* QUEUE_DEPTH batches outstanding.
DropTerminatesWhenResultsFit ==
  (io = "join" /\ \A w \in Workers : Len(Outstanding(w)) <= QUEUE_DEPTH)
    ~> io = "gone"

\* Dropping the pipeline ends the worker loops and joins them, whatever is
\* outstanding (comment in Drop: "dropping the sender ends the worker loop").
DropTerminates == io = "join" ~> io = "gone"

=============================================================================
