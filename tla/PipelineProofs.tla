--------------------------- MODULE PipelineProofs ---------------------------
(***************************************************************************)
(* Module Pipeline for any number of workers, any batch size and any queue *)
(* depth: its state is well typed, no wake-up is lost, and it implements   *)
(* OrderedQueue, the one queue its caller sees.                            *)
(*                                                                         *)
(* Whether the I/O thread may miss a finished batch depends on the count   *)
(* in_flight_batches: a batch handed out while it is 0 must not find an    *)
(* uncollected one.  So the argument is about the turns: with n whole      *)
(* rounds and m batches in flight, the m workers from next_collect on have *)
(* n + 1 batches each, the others n, and next_dispatch is the one after.   *)
(* That the results come back in order rests on the same turns: the batch  *)
(* handed out goes to the end of InFlight, the one collected is its first, *)
(* and a worker that takes or finishes one does not change it.             *)
(***************************************************************************)
EXTENDS Pipeline, SequenceTheorems, WellFoundedInduction, TLAPS

USE SMTT(30)

\* Batches of w that are not collected (the length of Outstanding).
Held(w) == IF wpc[w] = "send" THEN 1 ELSE 0
Owed(w) == Len(doneq[w]) + Held(w) + Len(jobq[w])

\* How far w is from its turn to be collected, and the worker m places on.
Ahead(w) == IF w >= next_collect THEN w - next_collect ELSE w + threads - next_collect
Place(m) == IF next_collect + m < threads THEN next_collect + m
            ELSE next_collect + m - threads

\* n rounds and m batches are in flight.
Turns(n, m) ==
  /\ in_flight = n * threads + m
  /\ next_dispatch = Place(m)
  /\ \A w \in Workers : Owed(w) = n + (IF Ahead(w) < m THEN 1 ELSE 0)

InTurn ==
  threads > 0 =>
    /\ next_collect \in Workers /\ next_dispatch \in Workers
    /\ \E n \in Nat, m \in Workers : Turns(n, m)

\* NoLostWakeup wherever the I/O thread is before it reads the eventfd again.
Awake ==
  io \in {"poll", "round", "handle"} /\ threads > 0 /\ HeadReady
    => wake \/ \E w \in Workers : wpc[w] = "wake"

\* Only a pipeline with workers is drained.
Working == io \in {"drain", "recv"} => threads > 0

PInv == TypeOK /\ InTurn /\ Awake /\ Working

-----------------------------------------------------------------------------

\* The next worker (the % of flush and collect).
LEMMA NextWorker ==
  ASSUME NEW n \in Nat, n > 0, NEW x \in 0 .. n - 1
  PROVE  /\ (x + 1) % n = IF x + 1 = n THEN 0 ELSE x + 1
         /\ (x + 1) % n \in 0 .. n - 1
  OBVIOUS

\* The sequences of a typed state.
LEMMA Queues ==
  ASSUME TypeOK, NEW w \in Workers
  PROVE  /\ jobq[w] \in Batches /\ doneq[w] \in Batches /\ hold[w] \in Seq(Job)
         /\ Len(jobq[w]) \in Nat /\ Len(doneq[w]) \in Nat
         /\ Len(jobq[w]) <= QUEUE_DEPTH /\ Len(doneq[w]) <= QUEUE_DEPTH
  BY DEF TypeOK, Batches

\* With nothing in flight no worker owes a batch.
LEMMA NothingOwed ==
  ASSUME TypeOK, InTurn, threads > 0, in_flight = 0, NEW w \in Workers
  PROVE  doneq[w] = <<>>
<1>1. PICK n \in Nat, m \in Workers : Turns(n, m)
  BY Zenon DEF InTurn
<1>2. threads \in Nat
  BY DEF TypeOK
<1>3. m \in Nat /\ n * threads \in Nat
  BY <1>2 DEF Workers
<1>4. n = 0 /\ m = 0
  BY <1>1, <1>2, <1>3 DEF Turns
<1>5. next_collect \in 0 .. threads - 1 /\ w \in 0 .. threads - 1
  BY Zenon DEF InTurn, Workers
<1>6. ~(Ahead(w) < 0)
  BY <1>2, <1>5 DEF Ahead
<1>7. Owed(w) = 0 + (IF Ahead(w) < 0 THEN 1 ELSE 0)
  BY Zenon, <1>1, <1>4 DEF Turns
<1>8. Owed(w) = 0
  BY <1>6, <1>7
<1>9. Len(doneq[w]) = 0
  <2>1. Len(jobq[w]) \in Nat /\ Len(doneq[w]) \in Nat
    BY Zenon, Queues
  <2>2. Held(w) \in Nat
    BY Zenon DEF Held
  <2> QED BY <1>8, <2>1, <2>2 DEF Owed
<1>10. doneq[w] \in Seq(Seq(Job))
  BY Zenon, Queues DEF Batches
<1> QED BY <1>9, <1>10

\* The pipeline as it is built.
LEMMA InitPInv == Init => PInv
<1> SUFFICES ASSUME Init PROVE PInv
  BY Zenon
<1>1. threads \in Nat /\ Workers = 0 .. threads - 1
  BY PipelineAssumption DEF Init, Workers
<1>2. TypeOK
  <2>1. /\ <<>> \in Seq(Job) /\ <<>> \in Batches /\ Len(<<>>) = 0
    BY DEF Batches
  <2>2. /\ jobq \in [Workers -> Batches] /\ doneq \in [Workers -> Batches]
        /\ wpc \in [Workers -> {"recv", "send", "wake", "exited"}]
        /\ hold \in [Workers -> Seq(Job)]
    BY Zenon, <2>1 DEF Init
  <2>3. \A w \in Workers : Len(jobq[w]) <= QUEUE_DEPTH /\ Len(doneq[w]) <= QUEUE_DEPTH
    BY <2>1, PipelineAssumption DEF Init
  <2>4. /\ batch \in Seq(Job) /\ Len(batch) < BATCH_JOBS
        /\ inline_done \in Seq(Job) /\ delivered \in Seq(Job) /\ dropped \subseteq Job
    BY <2>1, PipelineAssumption DEF Init
  <2>5. /\ threads \in 0 .. MaxThreads /\ io = "poll" /\ submitted \in 0 .. MaxJobs
        /\ next_dispatch \in Nat /\ next_collect \in Nat /\ in_flight \in Nat
    BY PipelineAssumption DEF Init
  <2>6. wake \in BOOLEAN
    BY Zenon DEF Init
  <2> QED BY Zenon, <2>2, <2>3, <2>4, <2>5, <2>6 DEF TypeOK
<1>3. InTurn
  <2> SUFFICES ASSUME threads > 0
               PROVE  /\ next_collect \in Workers /\ next_dispatch \in Workers
                      /\ Turns(0, 0)
    BY <1>1 DEF InTurn
  <2> QED BY <1>1 DEF Init, Turns, Place, Owed, Held, Ahead
<1>4. Awake /\ Working
  BY DEF Init, Awake, HeadReady, Working
<1> QED BY Zenon, <1>2, <1>3, <1>4 DEF PInv

-----------------------------------------------------------------------------
(* Turns.                                                                  *)

\* A batch goes to the worker whose turn it is (flush).
LEMMA Handed ==
  ASSUME TypeOK, InTurn, threads > 0, threads' = threads, next_collect' = next_collect,
         next_dispatch' = (next_dispatch + 1) % threads, in_flight' = in_flight + 1,
         \A w \in Workers : Owed(w)' = Owed(w) + (IF w = next_dispatch THEN 1 ELSE 0)
  PROVE  InTurn'
<1>1. /\ threads \in Nat /\ Workers = 0 .. threads - 1 /\ Workers' = Workers
      /\ next_collect \in Workers /\ next_dispatch \in Workers
  BY DEF TypeOK, InTurn, Workers
<1>2. PICK n \in Nat, m \in Workers : Turns(n, m)
  BY Zenon DEF InTurn
<1>3. /\ next_dispatch' = IF next_dispatch + 1 = threads THEN 0 ELSE next_dispatch + 1
      /\ next_dispatch' \in Workers
  BY Zenon, <1>1, NextWorker
<1>4. \A w \in Workers : Ahead(w)' = Ahead(w)
  BY Zenon, <1>1 DEF Ahead
<1>5. \A w \in Workers : Ahead(w) \in Workers /\ (Ahead(w) = m <=> w = next_dispatch)
  BY <1>1, <1>2 DEF Ahead, Turns, Place
<1>6. \A w \in Workers : Owed(w) = n + (IF Ahead(w) < m THEN 1 ELSE 0)
  BY Zenon, <1>2 DEF Turns
<1>7. in_flight = n * threads + m /\ next_dispatch = Place(m)
  BY Zenon, <1>2 DEF Turns
<1>8. CASE m + 1 < threads
  <2>1. ASSUME NEW w \in Workers
        PROVE  Owed(w)' = n + (IF Ahead(w) < m + 1 THEN 1 ELSE 0)
    <3>1. Owed(w)' = Owed(w) + (IF Ahead(w) = m THEN 1 ELSE 0)
      BY Zenon, <1>5
    <3>2. Ahead(w) \in Nat /\ m \in Nat
      BY <1>1, <1>5
    <3> QED BY <1>6, <3>1, <3>2
  <2>2. next_dispatch' = Place(m + 1)'
    BY <1>1, <1>3, <1>7, <1>8 DEF Place
  <2>3. in_flight' = n * threads + (m + 1)
    BY <1>1, <1>7
  <2>4. Turns(n, m + 1)'
    BY Zenon, <1>1, <1>4, <2>1, <2>2, <2>3 DEF Turns
  <2> QED BY <1>1, <1>3, <1>8, <2>4 DEF InTurn
<1>9. CASE m + 1 = threads
  <2>1. ASSUME NEW w \in Workers
        PROVE  Owed(w)' = n + 1 + (IF Ahead(w) < 0 THEN 1 ELSE 0)
    <3>1. Owed(w)' = Owed(w) + (IF Ahead(w) = m THEN 1 ELSE 0)
      BY Zenon, <1>5
    <3>2. Ahead(w) \in Nat /\ m \in Nat /\ Ahead(w) < m + 1
      BY <1>1, <1>5, <1>9
    <3> QED BY <1>6, <3>1, <3>2
  <2>2. next_dispatch' = Place(0)'
    BY <1>1, <1>3, <1>7, <1>9 DEF Place
  <2>3. in_flight' = (n + 1) * threads + 0
    <3>1. (n + 1) * threads = n * threads + threads
      BY <1>1
    <3>2. n * threads \in Nat /\ m \in Nat
      BY <1>1
    <3>3. in_flight' = n * threads + (m + 1)
      BY <1>7, <3>2
    <3> QED BY <1>1, <1>9, <3>1, <3>2, <3>3
  <2>4. Turns(n + 1, 0)'
    BY Zenon, <1>1, <1>4, <2>1, <2>2, <2>3 DEF Turns
  <2> QED BY <1>1, <1>3, <2>4 DEF InTurn
<1> QED BY <1>1, <1>8, <1>9

\* The batch whose turn it is comes back (collect).
LEMMA Taken ==
  ASSUME TypeOK, InTurn, threads > 0, threads' = threads,
         next_collect' = (next_collect + 1) % threads, next_dispatch' = next_dispatch,
         in_flight > 0, in_flight' = in_flight - 1,
         \A w \in Workers : Owed(w)' = Owed(w) - (IF w = next_collect THEN 1 ELSE 0)
  PROVE  InTurn'
<1>1. /\ threads \in Nat /\ Workers = 0 .. threads - 1 /\ Workers' = Workers
      /\ next_collect \in Workers /\ next_dispatch \in Workers
  BY DEF TypeOK, InTurn, Workers
<1>2. PICK n \in Nat, m \in Workers : Turns(n, m)
  BY Zenon DEF InTurn
<1>3. /\ next_collect' = IF next_collect + 1 = threads THEN 0 ELSE next_collect + 1
      /\ next_collect' \in Workers
  BY Zenon, <1>1, NextWorker
<1>4. \A w \in Workers :
        /\ Ahead(w)' = IF w = next_collect THEN threads - 1 ELSE Ahead(w) - 1
        /\ Ahead(w) \in Workers /\ (Ahead(w) = 0 <=> w = next_collect)
  BY <1>1, <1>3 DEF Ahead
<1>5. \A w \in Workers : Owed(w) = n + (IF Ahead(w) < m THEN 1 ELSE 0)
  BY Zenon, <1>2 DEF Turns
<1>6. in_flight = n * threads + m /\ next_dispatch = Place(m)
  BY Zenon, <1>2 DEF Turns
<1>7. CASE m > 0
  <2>1. ASSUME NEW w \in Workers
        PROVE  Owed(w)' = n + (IF Ahead(w)' < m - 1 THEN 1 ELSE 0)
    <3>1. CASE w = next_collect
      BY <1>1, <1>4, <1>5, <1>7, <3>1
    <3>2. CASE w # next_collect
      <4>1. Owed(w)' = Owed(w) - 0 /\ Ahead(w)' = Ahead(w) - 1
        BY Zenon, <1>4, <3>2
      <4>2. Ahead(w) \in Nat /\ m \in Nat
        BY <1>1, <1>4
      <4> QED BY <1>5, <4>1, <4>2
    <3> QED BY Zenon, <3>1, <3>2
  <2>2. next_dispatch' = Place(m - 1)'
    BY <1>1, <1>3, <1>6, <1>7 DEF Place
  <2>3. in_flight' = n * threads + (m - 1)
    BY <1>1, <1>6
  <2>4. Turns(n, m - 1)'
    BY Zenon, <1>1, <2>1, <2>2, <2>3 DEF Turns
  <2>5. m - 1 \in Workers
    BY <1>1, <1>7
  <2> QED BY Zenon, <1>1, <1>3, <2>4, <2>5 DEF InTurn
<1>8. CASE m = 0
  <2>1. n > 0
    BY <1>1, <1>6, <1>8
  <2>2. ASSUME NEW w \in Workers
        PROVE  Owed(w)' = n - 1 + (IF Ahead(w)' < threads - 1 THEN 1 ELSE 0)
    <3>1. CASE w = next_collect
      BY <1>1, <1>4, <1>5, <1>8, <3>1
    <3>2. CASE w # next_collect
      BY <1>1, <1>4, <1>5, <1>8, <3>2
    <3> QED BY Zenon, <3>1, <3>2
  <2>3. next_dispatch' = Place(threads - 1)'
    BY <1>1, <1>3, <1>6, <1>8 DEF Place
  <2>4. in_flight' = (n - 1) * threads + (threads - 1)
    BY <1>1, <1>6, <1>8, <2>1
  <2>5. Turns(n - 1, threads - 1)'
    BY Zenon, <1>1, <2>2, <2>3, <2>4 DEF Turns
  <2>6. n - 1 \in Nat /\ threads - 1 \in Workers
    BY <1>1, <2>1
  <2> QED BY Zenon, <1>1, <1>3, <2>5, <2>6 DEF InTurn
<1> QED BY <1>1, <1>7, <1>8

\* Nothing is handed out or taken.
LEMMA TurnsStay ==
  ASSUME InTurn, threads' = threads, next_collect' = next_collect,
         next_dispatch' = next_dispatch, in_flight' = in_flight,
         \A w \in Workers : Owed(w)' = Owed(w)
  PROVE  InTurn'
<1>1. Workers' = Workers
  BY Zenon DEF Workers
<1>2. ASSUME threads > 0 PROVE InTurn'
  <2>1. PICK n \in Nat, m \in Workers : Turns(n, m)
    BY Zenon, <1>2 DEF InTurn
  <2>2. Turns(n, m)'
    BY Zenon, <1>1, <2>1 DEF Turns, Place, Ahead
  <2> QED BY Zenon, <1>1, <1>2, <2>2 DEF InTurn
<1> QED BY Zenon, <1>2 DEF InTurn

-----------------------------------------------------------------------------
(* Flush, and the steps of the I/O thread.                                 *)

\* flush hands the batch to the worker whose turn it is, or gives it up.
LEMMA FlushKeeps ==
  ASSUME TypeOK, InTurn, threads > 0, NEW b \in Seq(Job), Flush(b),
         threads' = threads, next_collect' = next_collect, doneq' = doneq, wpc' = wpc
  PROVE  /\ InTurn' /\ batch' = <<>>
         /\ jobq' \in [Workers -> Batches]
         /\ \A w \in Workers : Len(jobq'[w]) <= QUEUE_DEPTH
         /\ next_dispatch' \in Nat /\ in_flight' \in Nat /\ dropped' \subseteq Job
         /\ HeadReady' => HeadReady
<1>1. /\ threads \in Nat /\ Workers = 0 .. threads - 1
      /\ next_collect \in Workers /\ next_dispatch \in Workers
      /\ jobq \in [Workers -> Batches] /\ in_flight \in Nat
      /\ next_dispatch \in Nat /\ dropped \subseteq Job
      /\ \A w \in Workers : Len(jobq[w]) <= QUEUE_DEPTH
  BY DEF TypeOK, InTurn, Workers
<1>2. HeadReady' => HeadReady
  <2>1. in_flight = 0 => doneq[next_collect] = <<>>
    BY Zenon, <1>1, NothingOwed
  <2>2. HeadReady' => doneq[next_collect] # <<>>
    BY Zenon DEF HeadReady
  <2> QED BY <1>1, <2>1, <2>2 DEF HeadReady
<1>3. CASE b # <<>> /\ Len(jobq[next_dispatch]) < QUEUE_DEPTH
  <2> DEFINE d == next_dispatch
  <2>1. /\ jobq' = [jobq EXCEPT ![d] = Append(jobq[d], b)]
        /\ next_dispatch' = (next_dispatch + 1) % threads
        /\ in_flight' = in_flight + 1 /\ dropped' = dropped /\ batch' = <<>>
    BY Zenon, <1>3 DEF Flush
  <2>2. /\ Append(jobq[d], b) \in Batches /\ Len(Append(jobq[d], b)) = Len(jobq[d]) + 1
        /\ Len(jobq[d]) \in Nat
    BY <1>1 DEF Batches
  <2>3. jobq' \in [Workers -> Batches]
    BY Zenon, <1>1, <2>1, <2>2
  <2>4. \A w \in Workers : Len(jobq'[w]) <= QUEUE_DEPTH
    BY <1>1, <1>3, <2>1, <2>2, PipelineAssumption
  <2>5. ASSUME NEW w \in Workers
        PROVE  Owed(w)' = Owed(w) + (IF w = next_dispatch THEN 1 ELSE 0)
    <3>1. Len(jobq'[w]) = Len(jobq[w]) + (IF w = d THEN 1 ELSE 0)
      <4>1. Len(jobq[w]) \in Nat
        BY <1>1 DEF Batches
      <4> QED BY <1>1, <2>1, <2>2, <4>1
    <3>2. Held(w)' = Held(w) /\ Held(w) \in Nat
      BY Zenon DEF Held
    <3>3. Len(doneq[w]) \in Nat /\ Len(jobq[w]) \in Nat /\ doneq'[w] = doneq[w]
      BY Zenon, Queues
    <3>4. Owed(w)' = Len(doneq[w]) + Held(w) + Len(jobq'[w])
      BY Zenon, <3>2, <3>3 DEF Owed
    <3>5. CASE w = d
      <4>1. Len(jobq'[w]) = Len(jobq[w]) + 1 /\ w = next_dispatch
        BY <3>1, <3>5, Zenon
      <4>2. Owed(w) = Len(doneq[w]) + Held(w) + Len(jobq[w])
        BY Zenon DEF Owed
      <4> QED BY <3>2, <3>3, <3>4, <4>1, <4>2
    <3>6. CASE w # d
      BY <3>1, <3>2, <3>3, <3>4, <3>6 DEF Owed
    <3> QED BY Zenon, <3>5, <3>6
  <2>6. InTurn'
    BY Zenon, <2>1, <2>5, Handed
  <2>7. next_dispatch' \in Nat /\ in_flight' \in Nat
    BY <1>1, <2>1, NextWorker
  <2> QED BY Zenon, <1>1, <1>2, <2>1, <2>3, <2>4, <2>6, <2>7
<1>4. CASE ~(b # <<>> /\ Len(jobq[next_dispatch]) < QUEUE_DEPTH)
  <2>1. /\ jobq' = jobq /\ next_dispatch' = next_dispatch
        /\ in_flight' = in_flight /\ dropped' = dropped \cup Range(b) /\ batch' = <<>>
    BY Zenon, <1>4 DEF Flush
  <2>2. Range(b) \subseteq Job
    BY DEF Range
  <2>3. \A w \in Workers : Owed(w)' = Owed(w)
    BY Zenon, <2>1 DEF Owed, Held
  <2>4. InTurn'
    BY Zenon, <2>1, <2>3, TurnsStay
  <2> QED BY Zenon, <1>1, <1>2, <2>1, <2>2, <2>4
<1> QED BY Zenon, <1>3, <1>4

\* A step that leaves the workers and the turns alone.
LEMMA NoTurn ==
  ASSUME InTurn, threads' = threads, next_collect' = next_collect,
         next_dispatch' = next_dispatch, in_flight' = in_flight, doneq' = doneq,
         wpc' = wpc, jobq' = jobq
  PROVE  InTurn' /\ (HeadReady' <=> HeadReady)
<1>1. \A w \in Workers : Owed(w)' = Owed(w)
  BY Zenon DEF Owed, Held
<1> QED BY Zenon, <1>1, TurnsStay DEF HeadReady

\* What the I/O thread does in its loop, submit and collect apart.
LEMMA LoopStep ==
  ASSUME PInv, PollWake \/ PollTimeout \/ EndRound \/ DropSenders \/ JoinAll
  PROVE  PInv'
<1>1. /\ threads' = threads /\ submitted' = submitted /\ batch' = batch
      /\ next_dispatch' = next_dispatch /\ next_collect' = next_collect
      /\ in_flight' = in_flight /\ dropped' = dropped /\ inline_done' = inline_done
      /\ jobq' = jobq /\ doneq' = doneq /\ wpc' = wpc /\ hold' = hold /\ wake' = wake
      /\ delivered' = delivered
  BY Zenon DEF PollWake, PollTimeout, EndRound, DropSenders, JoinAll, ioVars, workerVars
<1>2. /\ io \in {"poll", "handle", "join"}
      /\ io' \in {"round", "poll", "join", "gone"}
      /\ io' \in {"round", "poll"} => io \in {"poll", "handle"}
  BY Zenon DEF PollWake, PollTimeout, EndRound, DropSenders, JoinAll
<1>3. TypeOK /\ InTurn /\ Awake
  BY Zenon DEF PInv
<1>4. Workers' = Workers
  BY Zenon, <1>1 DEF Workers
<1>5. TypeOK'
  BY Zenon, <1>1, <1>2, <1>3, <1>4 DEF TypeOK
<1>6. InTurn' /\ (HeadReady' <=> HeadReady)
  BY <1>1, <1>3, NoTurn, Zenon
<1>7. Awake' /\ Working'
  BY Zenon, <1>1, <1>2, <1>3, <1>4, <1>6 DEF Awake, Working
<1> QED BY Zenon, <1>5, <1>6, <1>7 DEF PInv

\* submit: the job is computed at once, or joins the batch, which is handed out when full.
LEMMA SubmitStep == ASSUME PInv, Submit PROVE PInv'
<1>1. TypeOK /\ InTurn /\ Awake /\ Working
  BY Zenon DEF PInv
<1>2. /\ threads' = threads /\ io' = io /\ submitted' = submitted + 1
      /\ next_collect' = next_collect /\ doneq' = doneq /\ wpc' = wpc /\ hold' = hold
      /\ wake' = wake /\ delivered' = delivered /\ submitted < MaxJobs
      /\ io \in {"round", "handle"}
  BY Zenon DEF Submit, workerVars
<1>3. /\ submitted + 1 \in Job /\ submitted' \in 0 .. MaxJobs /\ Workers' = Workers
  BY <1>1, <1>2, PipelineAssumption DEF TypeOK, Job, Workers
<1> DEFINE job == submitted + 1
           b == Append(batch, job)
<1>4. /\ b \in Seq(Job) /\ Len(b) = Len(batch) + 1 /\ Append(inline_done, job) \in Seq(Job)
      /\ Len(b) \in Nat
  BY <1>1, <1>3 DEF TypeOK
<1> HIDE DEF job, b
<1>5. CASE threads = 0
  <2>1. /\ inline_done' = Append(inline_done, job) /\ jobq' = jobq
        /\ next_dispatch' = next_dispatch
        /\ in_flight' = in_flight /\ dropped' = dropped /\ batch' = batch
    BY <1>5, Zenon DEF Submit, ioVars, job
  <2>2. TypeOK'
    BY Zenon, <1>1, <1>2, <1>3, <1>4, <2>1 DEF TypeOK
  <2>3. InTurn' /\ (HeadReady' <=> HeadReady)
    BY <1>1, <1>2, <2>1, NoTurn, Zenon
  <2>4. Awake' /\ Working'
    BY Zenon, <1>1, <1>2, <1>3, <2>3 DEF Awake, Working
  <2> QED BY Zenon, <2>2, <2>3, <2>4 DEF PInv
<1>6. CASE threads # 0
  <2>0. threads > 0 /\ inline_done' = inline_done
    BY <1>1, <1>6 DEF Submit, TypeOK
  <2>1. CASE Len(b) >= BATCH_JOBS
    <3>1. Flush(b)
      BY <1>6, <2>1, Zenon DEF Submit, b, job
    <3>2. /\ InTurn' /\ batch' = <<>>
          /\ jobq' \in [Workers -> Batches]
          /\ \A w \in Workers : Len(jobq'[w]) <= QUEUE_DEPTH
          /\ next_dispatch' \in Nat /\ in_flight' \in Nat /\ dropped' \subseteq Job
          /\ HeadReady' => HeadReady
      BY Zenon, <1>1, <1>2, <1>4, <2>0, <3>1, FlushKeeps
    <3>3. batch' \in Seq(Job) /\ Len(batch') < BATCH_JOBS
      BY <3>2, PipelineAssumption
    <3>4. TypeOK'
      BY Zenon, <1>1, <1>2, <1>3, <2>0, <3>2, <3>3 DEF TypeOK
    <3>5. Awake' /\ Working'
      BY Zenon, <1>1, <1>2, <1>3, <3>2 DEF Awake, Working
    <3> QED BY Zenon, <3>2, <3>4, <3>5 DEF PInv
  <2>2. CASE ~(Len(b) >= BATCH_JOBS)
    <3>1. /\ batch' = b /\ jobq' = jobq /\ next_dispatch' = next_dispatch
          /\ in_flight' = in_flight /\ dropped' = dropped
      BY <1>6, <2>2, Zenon DEF Submit, b, job
    <3>2. Len(b) < BATCH_JOBS
      BY <1>4, <2>2, PipelineAssumption
    <3>3. TypeOK'
      BY Zenon, <1>1, <1>2, <1>3, <1>4, <2>0, <3>1, <3>2 DEF TypeOK
    <3>4. InTurn' /\ (HeadReady' <=> HeadReady)
      BY <1>1, <1>2, <3>1, NoTurn, Zenon
    <3>5. Awake' /\ Working'
      BY Zenon, <1>1, <1>2, <1>3, <3>4 DEF Awake, Working
    <3> QED BY Zenon, <3>3, <3>4, <3>5 DEF PInv
  <2> QED BY Zenon, <2>1, <2>2
<1> QED BY Zenon, <1>5, <1>6

\* collect, step by step: only a receive loop that ends finds nothing to take.
LEMMA CollectStep == ASSUME PInv, Collect PROVE PInv'
<1>1. TypeOK /\ InTurn /\ Awake /\ Working
  BY Zenon DEF PInv
<1>2. threads' = threads /\ submitted' = submitted /\ wpc' = wpc /\ hold' = hold
  BY Zenon DEF Collect, CollectInline, CollectFlush, CollectDrain, CollectRecv, workerVars
<1>3. Workers' = Workers
  BY Zenon, <1>2 DEF Workers
<1>4. CASE CollectInline
  <2>1. /\ delivered' = delivered \o inline_done /\ inline_done' = <<>> /\ io' = "handle"
        /\ next_collect' = next_collect /\ jobq' = jobq /\ doneq' = doneq /\ wake' = wake
        /\ next_dispatch' = next_dispatch /\ in_flight' = in_flight
        /\ dropped' = dropped /\ batch' = batch /\ threads = 0
    BY <1>4, Zenon DEF CollectInline, ioVars, workerVars
  <2>2. delivered' \in Seq(Job) /\ inline_done' \in Seq(Job)
    BY <1>1, <2>1 DEF TypeOK
  <2>3. TypeOK'
    BY Zenon, <1>1, <1>2, <1>3, <2>1, <2>2 DEF TypeOK
  <2>4. InTurn'
    BY <1>1, <1>2, <2>1, NoTurn, Zenon
  <2>5. Awake' /\ Working'
    BY <1>2, <2>1 DEF Awake, Working
  <2> QED BY Zenon, <2>3, <2>4, <2>5 DEF PInv
<1>5. CASE CollectFlush
  <2>1. /\ threads > 0 /\ Flush(batch) /\ io' = "drain" /\ next_collect' = next_collect
        /\ inline_done' = inline_done /\ doneq' = doneq /\ wake' = wake
        /\ delivered' = delivered
    BY <1>5, Zenon DEF CollectFlush, workerVars
  <2>2. batch \in Seq(Job)
    BY Zenon, <1>1 DEF TypeOK
  <2>3. /\ InTurn' /\ batch' = <<>>
        /\ jobq' \in [Workers -> Batches]
        /\ \A w \in Workers : Len(jobq'[w]) <= QUEUE_DEPTH
        /\ next_dispatch' \in Nat /\ in_flight' \in Nat /\ dropped' \subseteq Job
    BY Zenon, <1>1, <1>2, <2>1, <2>2, FlushKeeps
  <2>4. batch' \in Seq(Job) /\ Len(batch') < BATCH_JOBS
    BY <2>3, PipelineAssumption
  <2>5. TypeOK'
    BY Zenon, <1>1, <1>2, <1>3, <2>1, <2>3, <2>4 DEF TypeOK
  <2>6. Awake' /\ Working'
    BY Zenon, <1>2, <2>1 DEF Awake, Working
  <2> QED BY Zenon, <2>3, <2>5, <2>6 DEF PInv
<1>6. CASE CollectDrain
  <2>1. /\ wake' = FALSE /\ io' = "recv" /\ delivered' = delivered
        /\ inline_done' = inline_done
        /\ next_collect' = next_collect /\ jobq' = jobq /\ doneq' = doneq
        /\ next_dispatch' = next_dispatch /\ in_flight' = in_flight
        /\ dropped' = dropped /\ batch' = batch
    BY <1>6, Zenon DEF CollectDrain, ioVars, workerVars
  <2>2. wake' \in BOOLEAN
    BY <2>1, Zenon
  <2>3. TypeOK'
    BY Zenon, <1>1, <1>2, <1>3, <2>1, <2>2 DEF TypeOK
  <2>4. InTurn'
    BY <1>1, <1>2, <2>1, NoTurn, Zenon
  <2>5. Awake' /\ Working'
    <3>1. io = "drain"
      BY Zenon, <1>6 DEF CollectDrain
    <3> QED BY Zenon, <1>1, <1>2, <2>1, <3>1 DEF Awake, Working
  <2> QED BY Zenon, <2>3, <2>4, <2>5 DEF PInv
<1>7. CASE CollectRecv
  <2>1. /\ io = "recv" /\ inline_done' = inline_done /\ jobq' = jobq /\ wake' = wake
        /\ next_dispatch' = next_dispatch /\ dropped' = dropped /\ batch' = batch
    BY <1>7, Zenon DEF CollectRecv
  <2>0. threads > 0
    BY Zenon, <1>1, <2>1 DEF Working
  <2>2. CASE HeadReady
    <3> DEFINE c == next_collect
    <3>1. /\ delivered' = delivered \o Head(doneq[c])
          /\ doneq' = [doneq EXCEPT ![c] = Tail(doneq[c])]
          /\ next_collect' = (next_collect + 1) % threads
          /\ in_flight' = in_flight - 1 /\ io' = io
      BY <1>7, <2>2, Zenon DEF CollectRecv
    <3>2. /\ c \in Workers /\ threads \in Nat /\ in_flight \in Nat /\ in_flight > 0
          /\ doneq[c] # <<>> /\ delivered \in Seq(Job) /\ doneq \in [Workers -> Batches]
      BY <1>1, <2>0, <2>2 DEF InTurn, TypeOK, HeadReady
    <3>3. /\ Head(doneq[c]) \in Seq(Job) /\ Tail(doneq[c]) \in Batches
          /\ Len(Tail(doneq[c])) = Len(doneq[c]) - 1
      BY <3>2 DEF Batches
    <3>4. delivered' \in Seq(Job) /\ in_flight' \in Nat
      BY <3>1, <3>2, <3>3
    <3>5. next_collect' \in Nat
      BY <3>1, <3>2, NextWorker DEF Workers
    <3>6. doneq' \in [Workers -> Batches]
      BY Zenon, <3>1, <3>2, <3>3
    <3>7. /\ Len(doneq'[c]) = Len(doneq[c]) - 1
          /\ \A w \in Workers : w # c => doneq'[w] = doneq[w]
      BY Zenon, <3>1, <3>2, <3>3
    <3> HIDE DEF c
    <3>8. \A w \in Workers : Len(doneq'[w]) <= QUEUE_DEPTH
      <4>1. ASSUME NEW w \in Workers PROVE Len(doneq'[w]) <= QUEUE_DEPTH
        <5>1. Len(doneq[w]) \in Nat /\ Len(doneq[w]) <= QUEUE_DEPTH
          BY Zenon, <1>1, Queues
        <5>2. CASE w = c
          BY <3>7, <5>1, <5>2, PipelineAssumption
        <5>3. CASE w # c
          BY Zenon, <3>7, <5>1, <5>3
        <5> QED BY Zenon, <5>2, <5>3
      <4> QED BY Zenon, <4>1
    <3>9. TypeOK'
      BY Zenon, <1>1, <1>2, <1>3, <2>1, <3>1, <3>4, <3>5, <3>6, <3>8 DEF TypeOK
    <3>10. ASSUME NEW w \in Workers
           PROVE  Owed(w)' = Owed(w) - (IF w = next_collect THEN 1 ELSE 0)
      <4>1. Len(doneq[w]) \in Nat /\ Len(jobq[w]) \in Nat
        BY Zenon, <1>1, Queues
      <4>2. Held(w)' = Held(w) /\ Held(w) \in Nat
        BY Zenon, <1>2 DEF Held
      <4>3. Owed(w)' = Len(doneq'[w]) + Held(w) + Len(jobq[w])
        BY Zenon, <2>1, <4>2 DEF Owed
      <4>4. CASE w = c
        <5>1. Len(doneq'[w]) = Len(doneq[w]) - 1
          BY Zenon, <3>7, <4>4
        <5>2. Owed(w)' = Owed(w) - 1
          BY <4>1, <4>2, <4>3, <5>1 DEF Owed
        <5> QED BY Zenon, <4>4, <5>2 DEF c
      <4>5. CASE w # c
        <5>1. Owed(w)' = Owed(w)
          BY Zenon, <3>7, <4>3, <4>5 DEF Owed
        <5>2. Owed(w) \in Nat
          BY <4>1, <4>2 DEF Owed
        <5> QED BY <4>5, <5>1, <5>2 DEF c
      <4> QED BY Zenon, <4>4, <4>5
    <3>11. InTurn'
      BY Zenon, <1>1, <1>2, <2>0, <2>1, <3>1, <3>2, <3>10, Taken DEF c
    <3>12. Awake' /\ Working'
      BY Zenon, <1>2, <2>0, <2>1, <3>1 DEF Awake, Working
    <3> QED BY Zenon, <3>9, <3>11, <3>12 DEF PInv
  <2>3. CASE ~HeadReady
    <3>1. /\ io' = "handle" /\ delivered' = delivered /\ doneq' = doneq
          /\ next_collect' = next_collect /\ in_flight' = in_flight
      BY <1>7, <2>3, Zenon DEF CollectRecv
    <3>2. TypeOK'
      BY Zenon, <1>1, <1>2, <1>3, <2>1, <3>1 DEF TypeOK
    <3>3. InTurn' /\ (HeadReady' <=> HeadReady)
      BY <1>1, <1>2, <2>1, <3>1, NoTurn, Zenon
    <3>4. Awake' /\ Working'
      BY Zenon, <2>3, <3>1, <3>3 DEF Awake, Working
    <3> QED BY Zenon, <3>2, <3>3, <3>4 DEF PInv
  <2> QED BY Zenon, <2>2, <2>3
<1> QED BY Zenon, <1>4, <1>5, <1>6, <1>7 DEF Collect

-----------------------------------------------------------------------------
(* The steps of a worker.                                                  *)

\* What a worker's step leaves alone.
LEMMA WorkerFrame ==
  ASSUME NEW w \in Workers, Worker(w)
  PROVE  /\ threads' = threads /\ io' = io /\ submitted' = submitted
         /\ batch' = batch /\ next_dispatch' = next_dispatch
         /\ next_collect' = next_collect /\ in_flight' = in_flight
         /\ dropped' = dropped /\ inline_done' = inline_done
         /\ delivered' = delivered /\ Workers' = Workers
<1>1. /\ threads' = threads /\ io' = io /\ submitted' = submitted
      /\ batch' = batch /\ next_dispatch' = next_dispatch
      /\ next_collect' = next_collect /\ in_flight' = in_flight
      /\ dropped' = dropped /\ inline_done' = inline_done
      /\ delivered' = delivered
  BY Zenon DEF Worker, WorkerRecv, WorkerSend, WorkerWake, WorkerExit, ioVars
<1> QED BY Zenon, <1>1 DEF Workers

\* A worker takes a batch from its channel: it still owes it.
LEMMA WorkerRecvStep == ASSUME PInv, NEW w \in Workers, WorkerRecv(w) PROVE PInv'
<1>1. TypeOK /\ InTurn /\ Awake /\ Working
  BY Zenon DEF PInv
<1>2. /\ threads' = threads /\ io' = io /\ submitted' = submitted
      /\ batch' = batch /\ next_dispatch' = next_dispatch
      /\ next_collect' = next_collect /\ in_flight' = in_flight
      /\ dropped' = dropped /\ inline_done' = inline_done
      /\ delivered' = delivered /\ Workers' = Workers
  BY WorkerFrame, Zenon DEF Worker
<1>3. /\ wpc[w] = "recv" /\ jobq[w] # <<>> /\ doneq' = doneq /\ wake' = wake
      /\ hold' = [hold EXCEPT ![w] = Head(jobq[w])]
      /\ jobq' = [jobq EXCEPT ![w] = Tail(jobq[w])]
      /\ wpc' = [wpc EXCEPT ![w] = "send"]
  BY Zenon DEF WorkerRecv
<1>4. /\ jobq \in [Workers -> Batches] /\ hold \in [Workers -> Seq(Job)]
      /\ wpc \in [Workers -> {"recv", "send", "wake", "exited"}]
  BY Zenon, <1>1 DEF TypeOK
<1>5. /\ Head(jobq[w]) \in Seq(Job) /\ Tail(jobq[w]) \in Batches
      /\ Len(Tail(jobq[w])) = Len(jobq[w]) - 1
  BY <1>3, <1>4 DEF Batches
<1>6. /\ jobq' \in [Workers -> Batches] /\ hold' \in [Workers -> Seq(Job)]
      /\ wpc' \in [Workers -> {"recv", "send", "wake", "exited"}]
  BY Zenon, <1>3, <1>4, <1>5
<1>7. /\ Len(jobq'[w]) = Len(jobq[w]) - 1 /\ wpc'[w] = "send"
      /\ \A v \in Workers : v # w => jobq'[v] = jobq[v] /\ wpc'[v] = wpc[v]
  BY Zenon, <1>3, <1>4, <1>5
<1>8. ASSUME NEW v \in Workers
      PROVE  Owed(v)' = Owed(v) /\ Len(jobq'[v]) <= QUEUE_DEPTH
  <2>1. /\ Len(jobq[v]) \in Nat /\ Len(doneq[v]) \in Nat
        /\ Len(jobq[v]) <= QUEUE_DEPTH
    BY Zenon, <1>1, Queues
  <2>2. CASE v = w
    <3>1. Held(v) = 0 /\ Held(v)' = 1
      BY Zenon, <1>3, <1>7, <2>2 DEF Held
    <3>2. Len(jobq'[v]) = Len(jobq[v]) - 1
      BY Zenon, <1>7, <2>2
    <3>3. Owed(v)' = Len(doneq[v]) + 1 + Len(jobq'[v])
      BY Zenon, <1>3, <3>1 DEF Owed
    <3>4. Owed(v) = Len(doneq[v]) + 0 + Len(jobq[v])
      BY Zenon, <3>1 DEF Owed
    <3>5. Len(jobq'[v]) <= QUEUE_DEPTH
      BY <2>1, <3>2, PipelineAssumption
    <3> DEFINE d == Len(doneq[v])  j == Len(jobq[v])  j2 == Len(jobq'[v])
    <3>6. d \in Nat /\ j \in Nat /\ j2 = j - 1
      BY Zenon, <2>1, <3>2
    <3>7. Owed(v)' = d + 1 + j2 /\ Owed(v) = d + 0 + j
      BY Zenon, <3>3, <3>4
    <3> HIDE DEF d, j, j2
    <3>8. Owed(v)' = Owed(v)
      BY <3>6, <3>7
    <3> QED BY Zenon, <3>5, <3>8
  <2>3. CASE v # w
    BY Zenon, <1>3, <1>7, <2>1, <2>3 DEF Owed, Held
  <2> QED BY Zenon, <2>2, <2>3
<1>9. TypeOK'
  BY Zenon, <1>1, <1>2, <1>3, <1>6, <1>8 DEF TypeOK
<1>10. InTurn'
  BY Zenon, <1>1, <1>2, <1>8, TurnsStay
<1>11. Awake' /\ Working'
  <2>1. HeadReady' <=> HeadReady
    BY Zenon, <1>2, <1>3 DEF HeadReady
  <2>2. ASSUME NEW v \in Workers, wpc[v] = "wake" PROVE wpc'[v] = "wake"
    BY Zenon, <1>3, <1>7, <2>2
  <2> QED BY Zenon, <1>1, <1>2, <1>3, <2>1, <2>2 DEF Awake, Working
<1> QED BY Zenon, <1>9, <1>10, <1>11 DEF PInv

\* A worker hands back a batch: it has yet to write to the eventfd.
LEMMA WorkerSendStep == ASSUME PInv, NEW w \in Workers, WorkerSend(w) PROVE PInv'
<1>1. TypeOK /\ InTurn /\ Awake /\ Working
  BY Zenon DEF PInv
<1>2. /\ threads' = threads /\ io' = io /\ submitted' = submitted
      /\ batch' = batch /\ next_dispatch' = next_dispatch
      /\ next_collect' = next_collect /\ in_flight' = in_flight
      /\ dropped' = dropped /\ inline_done' = inline_done
      /\ delivered' = delivered /\ Workers' = Workers
  BY WorkerFrame, Zenon DEF Worker
<1>3. /\ wpc[w] = "send" /\ Len(doneq[w]) < QUEUE_DEPTH /\ jobq' = jobq /\ wake' = wake
      /\ doneq' = [doneq EXCEPT ![w] = Append(doneq[w], hold[w])]
      /\ hold' = [hold EXCEPT ![w] = <<>>]
      /\ wpc' = [wpc EXCEPT ![w] = "wake"]
  BY Zenon DEF WorkerSend
<1>4. /\ doneq \in [Workers -> Batches] /\ hold \in [Workers -> Seq(Job)]
      /\ wpc \in [Workers -> {"recv", "send", "wake", "exited"}]
  BY Zenon, <1>1 DEF TypeOK
<1>5. /\ Append(doneq[w], hold[w]) \in Batches
      /\ Len(Append(doneq[w], hold[w])) = Len(doneq[w]) + 1
  BY <1>4 DEF Batches
<1>6. /\ doneq' \in [Workers -> Batches] /\ hold' \in [Workers -> Seq(Job)]
      /\ wpc' \in [Workers -> {"recv", "send", "wake", "exited"}]
  BY <1>3, <1>4, <1>5
<1>7. /\ Len(doneq'[w]) = Len(doneq[w]) + 1 /\ wpc'[w] = "wake"
      /\ \A v \in Workers : v # w => doneq'[v] = doneq[v] /\ wpc'[v] = wpc[v]
  BY Zenon, <1>3, <1>4, <1>5
<1>8. ASSUME NEW v \in Workers
      PROVE  Owed(v)' = Owed(v) /\ Len(doneq'[v]) <= QUEUE_DEPTH
  <2>1. /\ Len(jobq[v]) \in Nat /\ Len(doneq[v]) \in Nat
        /\ Len(doneq[v]) <= QUEUE_DEPTH
    BY Zenon, <1>1, Queues
  <2>2. CASE v = w
    <3>1. Held(v) = 1 /\ Held(v)' = 0
      BY Zenon, <1>3, <1>7, <2>2 DEF Held
    <3>2. Len(doneq'[v]) = Len(doneq[v]) + 1
      BY Zenon, <1>7, <2>2
    <3>3. Len(doneq'[v]) <= QUEUE_DEPTH
      BY <1>3, <2>1, <2>2, <3>2, PipelineAssumption
    <3>4. Owed(v)' = Len(doneq'[v]) + 0 + Len(jobq[v])
      BY Zenon, <1>3, <3>1 DEF Owed
    <3>5. Owed(v) = Len(doneq[v]) + 1 + Len(jobq[v])
      BY Zenon, <3>1 DEF Owed
    <3> QED BY <2>1, <3>2, <3>3, <3>4, <3>5
  <2>3. CASE v # w
    BY Zenon, <1>3, <1>7, <2>1, <2>3 DEF Owed, Held
  <2> QED BY Zenon, <2>2, <2>3
<1>9. TypeOK'
  BY Zenon, <1>1, <1>2, <1>3, <1>6, <1>8 DEF TypeOK
<1>10. InTurn'
  BY Zenon, <1>1, <1>2, <1>8, TurnsStay
<1>11. Awake' /\ Working'
  BY Zenon, <1>1, <1>2, <1>7 DEF Awake, Working
<1> QED BY Zenon, <1>9, <1>10, <1>11 DEF PInv

\* A worker that writes to the eventfd or ends owes what it owed.
LEMMA WorkerOtherStep ==
  ASSUME PInv, NEW w \in Workers, WorkerWake(w) \/ WorkerExit(w)
  PROVE  PInv'
<1>1. TypeOK /\ InTurn /\ Awake /\ Working
  BY Zenon DEF PInv
<1>2. /\ threads' = threads /\ io' = io /\ submitted' = submitted
      /\ batch' = batch /\ next_dispatch' = next_dispatch
      /\ next_collect' = next_collect /\ in_flight' = in_flight
      /\ dropped' = dropped /\ inline_done' = inline_done
      /\ delivered' = delivered /\ Workers' = Workers
  BY WorkerFrame, Zenon DEF Worker
<1>3. jobq' = jobq /\ doneq' = doneq /\ hold' = hold
  BY Zenon DEF WorkerWake, WorkerExit
<1>4. wpc \in [Workers -> {"recv", "send", "wake", "exited"}]
  BY Zenon, <1>1 DEF TypeOK
<1>5. /\ wpc[w] # "send" /\ wpc'[w] # "send"
      /\ \A v \in Workers : v # w => wpc'[v] = wpc[v]
      /\ wpc' \in [Workers -> {"recv", "send", "wake", "exited"}]
  BY Zenon, <1>4 DEF WorkerWake, WorkerExit
<1>6. ASSUME NEW v \in Workers PROVE Owed(v)' = Owed(v)
  <2>1. Held(v)' = Held(v)
    BY Zenon, <1>5 DEF Held
  <2> QED BY Zenon, <1>3, <2>1 DEF Owed
<1>7. (wake' = TRUE) \/ (wake' = wake /\ io = "join")
  BY Zenon DEF WorkerWake, WorkerExit
<1>8. wake' \in BOOLEAN
  BY <1>1, <1>7, Zenon DEF TypeOK
<1>9. TypeOK'
  BY Zenon, <1>1, <1>2, <1>3, <1>5, <1>8 DEF TypeOK
<1>10. InTurn'
  BY Zenon, <1>1, <1>2, <1>6, TurnsStay
<1>11. Awake' /\ Working'
  BY Zenon, <1>1, <1>2, <1>7 DEF Awake, Working
<1> QED BY Zenon, <1>9, <1>10, <1>11 DEF PInv

-----------------------------------------------------------------------------
(* No wake-up is lost.                                                     *)

\* Every step of the I/O thread and of the workers keeps PInv.
LEMMA NextPInv == PInv /\ [Next]_vars => PInv'
<1> SUFFICES ASSUME PInv, [Next]_vars PROVE PInv'
  BY Zenon
<1>1. CASE Submit
  BY <1>1, SubmitStep, Zenon
<1>2. CASE Collect
  BY <1>2, CollectStep, Zenon
<1>3. CASE PollWake \/ PollTimeout \/ EndRound \/ DropSenders \/ JoinAll
  BY <1>3, LoopStep, Zenon
<1>4. ASSUME NEW w \in Workers, Worker(w) PROVE PInv'
  BY <1>4, WorkerRecvStep, WorkerSendStep, WorkerOtherStep, Zenon DEF Worker
<1>5. CASE UNCHANGED vars
  <2>1. /\ threads' = threads /\ io' = io /\ submitted' = submitted /\ batch' = batch
        /\ next_dispatch' = next_dispatch /\ next_collect' = next_collect
        /\ in_flight' = in_flight /\ dropped' = dropped /\ inline_done' = inline_done
        /\ jobq' = jobq /\ doneq' = doneq /\ wpc' = wpc /\ hold' = hold /\ wake' = wake
        /\ delivered' = delivered
    BY <1>5, Zenon DEF vars, ioVars, workerVars
  <2>2. TypeOK /\ InTurn /\ Awake /\ Working /\ Workers' = Workers
    BY Zenon, <2>1 DEF PInv, Workers
  <2>3. TypeOK'
    BY Zenon, <2>1, <2>2 DEF TypeOK
  <2>4. InTurn' /\ (HeadReady' <=> HeadReady)
    BY <2>1, <2>2, NoTurn, Zenon
  <2>5. Awake' /\ Working'
    BY Zenon, <2>1, <2>2, <2>4 DEF Awake, Working
  <2> QED BY Zenon, <2>3, <2>4, <2>5 DEF PInv
<1> QED BY <1>1, <1>2, <1>3, <1>4, <1>5, Zenon DEF Next

\* The turns of Pipeline::flush and Pipeline::collect stay in step.
THEOREM PipelineInvariant == Spec => []PInv
  BY InitPInv, NextPInv, PTL DEF Spec

\* The pipeline's state is well typed, its channels within their depth and
\* its batch short of full, whatever the threads do.
THEOREM PipelineTyped == Spec => []TypeOK
<1>1. PInv => TypeOK
  BY Zenon DEF PInv
<1> QED BY <1>1, PipelineInvariant, PTL

\* With any number of workers, the I/O thread never sits in poll on a finished
\* batch whose wake-up it has already read from the eventfd.
THEOREM WakeupNeverLost == Spec => []NoLostWakeup
<1>1. PInv => NoLostWakeup
  BY Zenon DEF PInv, Awake, NoLostWakeup, HeadReady
<1> QED BY <1>1, PipelineInvariant, PTL

-----------------------------------------------------------------------------
(* The jobs of a sequence of batches, in order (Joined).                  *)

\* The partial concatenations of s, as Joined computes them.
Joins(f, s) ==
  f = [i \in 1 .. Len(s) |-> IF i = 1 THEN s[i] ELSE f[i - 1] \o s[i]]

\* A set of numbers that is not empty has a least one.
LEMMA Least ==
  ASSUME NEW T \in SUBSET Nat, T # {}
  PROVE  \E n \in T : \A k \in T : n <= k
<1> DEFINE R == OpToRel(<, Nat)
<1>1. IsWellFoundedOn(R, Nat)
  BY NatLessThanWellFounded, Zenon
<1>2. \A x, y \in Nat : y < x => <<y, x>> \in R
  BY DEF OpToRel
<1> HIDE DEF R
<1>3. PICK x \in T : \A y \in T : ~(<<y, x>> \in R)
  BY <1>1, WFMin, Zenon
<1>4. ASSUME NEW y \in T PROVE x <= y
  <2>1. x \in Nat /\ y \in Nat
    OBVIOUS
  <2>2. ~(y < x)
    BY <2>1, <1>2, <1>3, Zenon
  <2> QED BY <2>1, <2>2
<1> QED BY <1>4

\* There are such partial concatenations, ...
LEMMA JoinedExists ==
  ASSUME NEW S, NEW s \in Seq(Seq(S))
  PROVE  \E f : Joins(f, s) /\ f \in [1 .. Len(s) -> Seq(S)]
<1> DEFINE Upto(n, f) ==
             /\ f \in [1 .. n -> Seq(S)]
             /\ \A i \in 1 .. n : f[i] = IF i = 1 THEN s[i] ELSE f[i - 1] \o s[i]
           T == {n \in 0 .. Len(s) : ~\E f : Upto(n, f)}
<1>1. Len(s) \in Nat /\ \A i \in 1 .. Len(s) : s[i] \in Seq(S)
  OBVIOUS
<1>2. T = {}
  <2> SUFFICES ASSUME T # {} PROVE FALSE
    OBVIOUS
  <2>1. PICK n \in T : \A k \in T : n <= k
    <3>1. T \in SUBSET Nat
      BY <1>1
    <3> HIDE DEF T
    <3> QED BY <3>1, Least, Zenon
  <2>2. n # 0
    <3>1. Upto(0, [i \in 1 .. 0 |-> <<>>])
      OBVIOUS
    <3> QED BY <3>1, Zenon DEF T
  <2>3. n \in Nat /\ n - 1 \in 0 .. Len(s) /\ n \in 1 .. Len(s) /\ ~(n <= n - 1)
    BY <1>1, <2>2
  <2>4. n - 1 \notin T
    BY <2>1, <2>3, Zenon
  <2>5. PICK f : Upto(n - 1, f)
    BY <2>3, <2>4, Zenon
  <2>10. /\ f \in [1 .. n - 1 -> Seq(S)]
         /\ \A i \in 1 .. n - 1 : f[i] = IF i = 1 THEN s[i] ELSE f[i - 1] \o s[i]
    BY <2>5, Zenon
  <2> HIDE DEF T, Upto
  <2> DEFINE e == IF n = 1 THEN s[n] ELSE f[n - 1] \o s[n]
             g == [i \in 1 .. n |-> IF i = n THEN e ELSE f[i]]
  <2>6. e \in Seq(S)
    <3>1. CASE n = 1
      BY <1>1, <2>3, <3>1
    <3>2. CASE n # 1
      <4>1. f[n - 1] \in Seq(S) /\ s[n] \in Seq(S)
        BY <1>1, <2>3, <2>10, <3>2
      <4>2. f[n - 1] \o s[n] \in Seq(S)
        BY <4>1, ConcatProperties
      <4> QED BY <3>2, <4>2
    <3> QED BY <3>1, <3>2
  <2>7. g \in [1 .. n -> Seq(S)]
    <3> HIDE DEF e
    <3> QED BY <2>3, <2>6, <2>10
  <2>8. ASSUME NEW i \in 1 .. n
        PROVE  g[i] = IF i = 1 THEN s[i] ELSE g[i - 1] \o s[i]
    <3>1. CASE i = n
      BY <2>3, <3>1
    <3>2. CASE i # n
      <4>1. /\ i \in 1 .. n - 1 /\ g[i] = f[i]
            /\ f[i] = IF i = 1 THEN s[i] ELSE f[i - 1] \o s[i]
        <5>1. i \in 1 .. n - 1
          BY <2>3, <3>2
        <5>2. g[i] = f[i]
          BY <3>2
        <5> HIDE DEF g
        <5> QED BY <5>1, <5>2, <2>10, Zenon
      <4>2. CASE i = 1
        BY <4>1, <4>2
      <4>3. CASE i # 1
        <5>1. i - 1 \in 1 .. n /\ i - 1 # n
          BY <2>3, <4>1, <4>3
        <5>2. g[i - 1] = f[i - 1]
          BY <5>1
        <5> HIDE DEF g
        <5> QED BY <4>1, <4>3, <5>2
      <4> QED BY <4>2, <4>3
    <3> QED BY <3>1, <3>2
  <2>9. Upto(n, g)
    <3> HIDE DEF g
    <3> QED BY <2>7, <2>8, Zenon DEF Upto
  <2> QED BY <2>9, Zenon DEF T
<1>3. Len(s) \in 0 .. Len(s)
  BY <1>1
<1>4. PICK f : Upto(Len(s), f)
  <2> HIDE DEF Upto
  <2> QED BY <1>2, <1>3, Zenon
<1>5. /\ f \in [1 .. Len(s) -> Seq(S)]
      /\ \A i \in 1 .. Len(s) : f[i] = IF i = 1 THEN s[i] ELSE f[i - 1] \o s[i]
  BY <1>4, Zenon
<1> HIDE DEF T, Upto
<1>6. f = [i \in 1 .. Len(s) |-> IF i = 1 THEN s[i] ELSE f[i - 1] \o s[i]]
  <2> DEFINE e(i) == IF i = 1 THEN s[i] ELSE f[i - 1] \o s[i]
  <2>1. \A i \in 1 .. Len(s) : f[i] = e(i)
    BY <1>5, Zenon
  <2> HIDE DEF e
  <2>2. f = [i \in 1 .. Len(s) |-> e(i)]
    BY <1>5, <2>1
  <2> QED BY <2>2, Zenon DEF e
<1> QED BY <1>5, <1>6, Zenon DEF Joins

\* ... only one sequence of them, ...
LEMMA JoinedUnique ==
  ASSUME NEW S, NEW s \in Seq(Seq(S)), NEW f, NEW g, Joins(f, s), Joins(g, s)
  PROVE  f = g
<1> DEFINE T == {n \in 1 .. Len(s) : f[n] # g[n]}
<1>1. Len(s) \in Nat
  OBVIOUS
<1>2. ASSUME NEW i \in 1 .. Len(s)
      PROVE  /\ f[i] = IF i = 1 THEN s[i] ELSE f[i - 1] \o s[i]
             /\ g[i] = IF i = 1 THEN s[i] ELSE g[i - 1] \o s[i]
  BY Zenon DEF Joins
<1>3. T = {}
  <2> SUFFICES ASSUME T # {} PROVE FALSE
    OBVIOUS
  <2>1. PICK n \in T : \A k \in T : n <= k
    <3>1. T \in SUBSET Nat
      BY <1>1
    <3> HIDE DEF T
    <3> QED BY <3>1, Least, Zenon
  <2>2. n \in 1 .. Len(s) /\ n \in Nat /\ f[n] # g[n]
    BY <1>1, <2>1
  <2>3. n # 1
    BY <1>2, <2>2
  <2>4. n - 1 \in 1 .. Len(s) /\ ~(n <= n - 1)
    BY <1>1, <2>2, <2>3
  <2>5. f[n - 1] = g[n - 1]
    BY <2>1, <2>4
  <2> QED BY <1>2, <2>2, <2>3, <2>5
<1>4. \A n \in 1 .. Len(s) : f[n] = g[n]
  BY <1>3
<1>5. /\ f = [i \in 1 .. Len(s) |-> f[i]]
      /\ g = [i \in 1 .. Len(s) |-> g[i]]
  BY DEF Joins
<1> QED BY <1>4, <1>5

\* ... and the last of them is the concatenation.
LEMMA JoinedIs ==
  ASSUME NEW S, NEW s \in Seq(Seq(S)), s # <<>>, NEW f, Joins(f, s)
  PROVE  Joined(s) = f[Len(s)]
<1> DEFINE c == CHOOSE g : g = [i \in 1 .. Len(s) |-> IF i = 1 THEN s[i] ELSE g[i - 1] \o s[i]]
<1>1. Joins(c, s)
  BY Zenon DEF Joins
<1>3. Len(s) # 0
  OBVIOUS
<1>4. Joined(s) = c[Len(s)]
  BY <1>3 DEF Joined
<1> HIDE DEF c
<1>2. c = f
  BY <1>1, JoinedUnique, Zenon
<1> QED BY <1>2, <1>4

\* Nothing in flight, nothing to concatenate.
LEMMA JoinedEmpty == Joined(<<>>) = <<>>
  BY DEF Joined

\* Jobs in batches are jobs.
LEMMA JoinedTyped ==
  ASSUME NEW S, NEW s \in Seq(Seq(S))
  PROVE  Joined(s) \in Seq(S)
<1>1. CASE s = <<>>
  <2>1. <<>> \in Seq(S)
    OBVIOUS
  <2> QED BY <1>1, <2>1, JoinedEmpty, Zenon
<1>2. CASE s # <<>>
  <2>1. PICK f : Joins(f, s) /\ f \in [1 .. Len(s) -> Seq(S)]
    BY JoinedExists, Zenon
  <2>2. Joined(s) = f[Len(s)]
    BY <1>2, <2>1, JoinedIs, Zenon
  <2>3. Len(s) \in 1 .. Len(s)
    BY <1>2
  <2> QED BY Zenon, <2>1, <2>2, <2>3
<1> QED BY <1>1, <1>2

\* One more sequence at the end.
LEMMA JoinedAppend ==
  ASSUME NEW S, NEW s \in Seq(Seq(S)), NEW b \in Seq(S)
  PROVE  Joined(Append(s, b)) = Joined(s) \o b
<1> DEFINE t == Append(s, b)
<1>1. /\ t \in Seq(Seq(S)) /\ t # <<>> /\ Len(t) = Len(s) + 1 /\ Len(s) \in Nat
      /\ \A i \in 1 .. Len(s) : t[i] = s[i]
      /\ t[Len(s) + 1] = b
  BY AppendProperties
<1> HIDE DEF t
<1>2. PICK g : Joins(g, t)
  BY <1>1, JoinedExists, Zenon
<1>3. Joined(t) = g[Len(t)]
  BY <1>1, <1>2, JoinedIs, Zenon
<1>4. ASSUME NEW i \in 1 .. Len(t)
      PROVE  g[i] = IF i = 1 THEN t[i] ELSE g[i - 1] \o t[i]
  BY <1>2, Zenon DEF Joins
<1>5. CASE s = <<>>
  <2>1. Len(t) = 1 /\ t[1] = b
    BY <1>1, <1>5
  <2>2. 1 \in 1 .. Len(t)
    BY <2>1
  <2>3. g[1] = b
    BY <1>4, <2>1, <2>2
  <2>4. <<>> \o b = b
    BY ConcatEmptySeq
  <2> QED BY Zenon, <1>3, <1>5, <2>1, <2>3, <2>4, JoinedEmpty DEF t
<1>6. CASE s # <<>>
  <2> DEFINE f == [i \in 1 .. Len(s) |-> g[i]]
  <2>1. Len(s) > 0
    BY <1>6, <1>1
  <2>2. ASSUME NEW i \in 1 .. Len(s)
        PROVE  f[i] = IF i = 1 THEN s[i] ELSE f[i - 1] \o s[i]
    <3>1. /\ i \in 1 .. Len(t) /\ t[i] = s[i] /\ f[i] = g[i]
          /\ i # 1 => i - 1 \in 1 .. Len(s)
      BY <1>1
    <3>2. i # 1 => f[i - 1] = g[i - 1]
      BY <3>1
    <3> HIDE DEF f
    <3>3. g[i] = IF i = 1 THEN t[i] ELSE g[i - 1] \o t[i]
      BY <1>4, <3>1, Zenon
    <3> QED BY <3>1, <3>2, <3>3, Zenon
  <2>3. Joins(f, s)
    <3> DEFINE e(i) == IF i = 1 THEN s[i] ELSE f[i - 1] \o s[i]
    <3>1. f = [i \in 1 .. Len(s) |-> f[i]]
      OBVIOUS
    <3> HIDE DEF f
    <3>2. \A i \in 1 .. Len(s) : f[i] = e(i)
      BY <2>2, Zenon
    <3> HIDE DEF e
    <3>3. f = [i \in 1 .. Len(s) |-> e(i)]
      BY <3>1, <3>2
    <3> QED BY <3>3, Zenon DEF e, Joins
  <2>4. f[Len(s)] = g[Len(s)]
    BY <1>1, <2>1
  <2> HIDE DEF f
  <2>5. Joined(s) = g[Len(s)]
    BY <1>6, <2>3, <2>4, JoinedIs, Zenon
  <2>6. Len(t) \in 1 .. Len(t) /\ Len(t) # 1 /\ Len(t) - 1 = Len(s) /\ t[Len(t)] = b
    BY <1>1, <2>1
  <2>7. g[Len(t)] = g[Len(s)] \o b
    BY <1>4, <2>6, Zenon
  <2> QED BY <1>3, <2>5, <2>7 DEF t
<1> QED BY <1>5, <1>6

\* The first sequence comes first.
LEMMA JoinedHead ==
  ASSUME NEW S, NEW s \in Seq(Seq(S)), s # <<>>
  PROVE  Joined(s) = Head(s) \o Joined(Tail(s))
<1>0. \A x, y, z \in Seq(S) : (x \o y) \o z = x \o (y \o z)
  BY ConcatAssociative
<1> DEFINE t == Tail(s)  h == Head(s)
<1>1. /\ t \in Seq(Seq(S)) /\ Len(t) = Len(s) - 1 /\ Len(s) \in Nat /\ Len(s) > 0
      /\ \A i \in 1 .. Len(t) : t[i] = s[i + 1]
      /\ h \in Seq(S) /\ h = s[1] /\ Len(t) \in Nat
  BY HeadTailProperties
<1> HIDE DEF t, h
<1>2. PICK f : Joins(f, s) /\ f \in [1 .. Len(s) -> Seq(S)]
  BY JoinedExists, Zenon
<1>3. Joined(s) = f[Len(s)]
  BY <1>2, JoinedIs, Zenon
<1>4. ASSUME NEW i \in 1 .. Len(s)
      PROVE  f[i] = IF i = 1 THEN s[i] ELSE f[i - 1] \o s[i]
  BY <1>2, Zenon DEF Joins
<1>5. f[1] = h
  BY <1>1, <1>4
<1>6. CASE t = <<>>
  <2>1. Len(s) = 1
    BY <1>1, <1>6
  <2>2. h \o <<>> = h
    BY <1>1, ConcatEmptySeq
  <2> QED BY <1>3, <1>5, <1>6, <2>1, <2>2, JoinedEmpty, Zenon DEF t, h
<1>7. CASE t # <<>>
  <2>1. PICK g : Joins(g, t) /\ g \in [1 .. Len(t) -> Seq(S)]
    BY <1>1, JoinedExists, Zenon
  <2>2. Joined(t) = g[Len(t)]
    BY <1>1, <1>7, <2>1, JoinedIs, Zenon
  <2>3. ASSUME NEW i \in 1 .. Len(t)
        PROVE  g[i] = IF i = 1 THEN t[i] ELSE g[i - 1] \o t[i]
    BY <2>1, Zenon DEF Joins
  <2> DEFINE T == {n \in 1 .. Len(t) : f[n + 1] # h \o g[n]}
  <2>4. T = {}
    <3> SUFFICES ASSUME T # {} PROVE FALSE
      BY Zenon
    <3>1. PICK n \in T : \A k \in T : n <= k
      <4>1. T \in SUBSET Nat
        <5>1. 1 .. Len(t) \subseteq Nat
          BY <1>1
        <5> QED BY <5>1, Zenon
      <4> HIDE DEF T
      <4> QED BY <4>1, Least, Zenon
    <3>2. n \in 1 .. Len(t) /\ f[n + 1] # h \o g[n]
      BY <3>1, Zenon
    <3>11. n \in Nat
      BY <1>1, <3>2
    <3>3. n + 1 \in 1 .. Len(s) /\ n + 1 # 1 /\ n + 1 - 1 = n /\ t[n] = s[n + 1]
      BY <1>1, <3>2
    <3>4. f[n + 1] = f[n] \o t[n]
      <4> DEFINE k == n + 1
      <4>0. k \in 1 .. Len(s) /\ k # 1 /\ k - 1 = n /\ t[n] = s[k]
        BY <3>3
      <4> HIDE DEF k
      <4>1. \A i \in 1 .. Len(s) : i # 1 => f[i] = f[i - 1] \o s[i]
        BY <1>4, Zenon
      <4>2. f[k] = f[k - 1] \o s[k]
        BY <4>0, <4>1, Zenon
      <4> QED BY <4>0, <4>2, Zenon DEF k
    <3>5. n # 1
      <4>1. ASSUME n = 1 PROVE FALSE
        <5>1. g[1] = t[1]
          BY <2>3, <3>2, <4>1
        <5>2. f[2] = f[1] \o t[1] /\ f[2] # h \o g[1]
          BY <3>2, <3>4, <4>1, 1 + 1 = 2, Zenon
        <5> QED BY <1>5, <5>1, <5>2
      <4> QED BY <4>1
    <3>6. n - 1 \in 1 .. Len(t) /\ ~(n <= n - 1) /\ n - 1 + 1 = n
      BY <1>1, <3>2, <3>5, <3>11
    <3>7. f[n] = h \o g[n - 1]
      BY <3>1, <3>6, Zenon
    <3> HIDE DEF T
    <3>8. g[n] = g[n - 1] \o t[n]
      BY <2>3, <3>2, <3>5, Zenon
    <3>9. g[n - 1] \in Seq(S) /\ t[n] \in Seq(S)
      <4>1. g[n - 1] \in Seq(S)
        BY <2>1, <3>6, Zenon
      <4>2. t[n] \in Seq(S)
        BY <1>1, <3>2, ElementOfSeq, Zenon
      <4> QED BY <4>1, <4>2
    <3>10. (h \o g[n - 1]) \o t[n] = h \o (g[n - 1] \o t[n])
      BY <1>0, <1>1, <3>9, ZenonT(60)
    <3> QED BY <3>2, <3>4, <3>7, <3>8, <3>10, Zenon
  <2>5. Len(t) \in 1 .. Len(t) /\ Len(t) + 1 = Len(s)
    BY <1>1, <1>7
  <2>6. f[Len(s)] = h \o g[Len(t)]
    BY <2>4, <2>5, Zenon
  <2> QED BY <1>3, <2>2, <2>6, Zenon DEF t, h
<1> QED BY <1>6, <1>7

-----------------------------------------------------------------------------
(* Whose turn it is.                                                       *)

\* The worker r places after c, of t workers.
After(c, r, t) == IF c + r < t THEN c + r ELSE c + r - t

\* Rounds and rest of a number of turns.
LEMMA Quotient ==
  ASSUME NEW t \in Nat, t > 0, NEW q \in Nat, NEW r \in 0 .. t - 1
  PROVE  (q * t + r) \div t = q /\ (q * t + r) % t = r
  OBVIOUS

\* Every number of turns is some rounds and a rest.
LEMMA Rounds ==
  ASSUME NEW t \in Nat, t > 0, NEW x \in Nat
  PROVE  \E q \in Nat, r \in 0 .. t - 1 : x = q * t + r
<1> DEFINE q == x \div t  r == x % t
<1>1. q \in Nat /\ r \in 0 .. t - 1 /\ x = t * q + r
  OBVIOUS
<1>2. t * q = q * t
  BY <1>1
<1> HIDE DEF q, r
<1> QED BY <1>1, <1>2

\* An earlier turn is one of an earlier round, or earlier in the round.
LEMMA Earlier ==
  ASSUME NEW t \in Nat, t > 0, NEW p \in Nat, NEW q \in Nat,
         NEW r \in 0 .. t - 1, NEW s \in 0 .. t - 1, p * t + s < q * t + r
  PROVE  p < q \/ (p = q /\ s < r)
<1>1. CASE p > q
  <2>1. p * t >= (q + 1) * t
    BY <1>1
  <2>2. (q + 1) * t = q * t + t
    OBVIOUS
  <2> DEFINE x == p * t  y == q * t
  <2>3. x \in Nat /\ y \in Nat /\ x >= y + t /\ x + s < y + r
    BY <2>1, <2>2
  <2> HIDE DEF x, y
  <2> QED BY <2>3
<1>2. CASE p = q
  BY <1>2
<1> QED BY <1>1, <1>2

\* Whose turn it is after q rounds and r turns.
LEMMA TurnOf ==
  ASSUME NEW t \in Nat, t > 0, NEW c \in 0 .. t - 1, NEW q \in Nat, NEW r \in 0 .. t - 1
  PROVE  /\ (c + (q * t + r)) % t = After(c, r, t)
         /\ After(c, r, t) \in 0 .. t - 1
<1>1. After(c, r, t) \in 0 .. t - 1
  BY DEF After
<1>2. CASE c + r < t
  <2>1. c + (q * t + r) = q * t + (c + r) /\ c + r \in 0 .. t - 1
    BY <1>2
  <2> QED BY <1>1, <1>2, <2>1, Quotient DEF After
<1>3. CASE ~(c + r < t)
  <2>1. c + r - t \in 0 .. t - 1 /\ q + 1 \in Nat
    BY <1>3
  <2>2. c + (q * t + r) = (q + 1) * t + (c + r - t)
    <3>1. (q + 1) * t = q * t + t
      OBVIOUS
    <3> DEFINE y == q * t
    <3>2. y \in Nat /\ (q + 1) * t = y + t
      BY <3>1
    <3> HIDE DEF y
    <3>3. c + (y + r) = (y + t) + (c + r - t)
      BY <3>2
    <3> QED BY <3>2, <3>3 DEF y
  <2>3. ((q + 1) * t + (c + r - t)) % t = c + r - t
    BY <2>1, Quotient, Zenon
  <2>4. After(c, r, t) = c + r - t
    BY <1>3, Zenon DEF After
  <2> QED BY <1>1, <2>2, <2>3, <2>4, Zenon
<1> QED BY <1>2, <1>3, Zenon

\* Turns of the same worker are a whole number of rounds apart.
LEMMA SameTurn ==
  ASSUME NEW t \in Nat, t > 0, NEW c \in 0 .. t - 1, NEW j \in Nat, NEW n \in Nat,
         j < n, (c + j) % t = (c + n) % t
  PROVE  j \div t \in Nat /\ n \div t \in Nat /\ j \div t + 1 <= n \div t
<1>1. PICK p \in Nat, s \in 0 .. t - 1 : j = p * t + s
  BY Rounds, Zenon
<1>2. PICK q \in Nat, r \in 0 .. t - 1 : n = q * t + r
  BY Rounds, Zenon
<1>3. j \div t = p
  BY <1>1, Quotient, Zenon
<1>4. n \div t = q
  BY <1>2, Quotient, Zenon
<1>5. After(c, s, t) = After(c, r, t)
  <2>1. (c + j) % t = After(c, s, t)
    BY <1>1, TurnOf, ZenonT(60)
  <2>2. (c + n) % t = After(c, r, t)
    BY <1>2, TurnOf, ZenonT(60)
  <2> QED BY <2>1, <2>2
<1>6. s = r
  BY <1>5 DEF After
<1>7. p < q \/ (p = q /\ s < r)
  <2>1. p * t + s < q * t + r
    BY <1>1, <1>2, Zenon
  <2> QED BY <2>1, Earlier, Zenon
<1>8. p < q
  BY <1>6, <1>7
<1> QED BY <1>3, <1>4, <1>8

\* The next turn but one of c is the next turn of the worker after c.
LEMMA NextTurn ==
  ASSUME NEW t \in Nat, t > 0, NEW c \in 0 .. t - 1, NEW j \in Nat
  PROVE  /\ (((c + 1) % t) + j) % t = (c + (j + 1)) % t
         /\ (c + (j + 1)) % t = c => (j + 1) \div t = j \div t + 1
         /\ (c + (j + 1)) % t # c => (j + 1) \div t = j \div t
<1>1. PICK q \in Nat, r \in 0 .. t - 1 : j = q * t + r
  BY Rounds, Zenon
<1> DEFINE c2 == (c + 1) % t
<1>2. c2 = (IF c + 1 = t THEN 0 ELSE c + 1) /\ c2 \in 0 .. t - 1
  OBVIOUS
<1> HIDE DEF c2
<1>3. (c2 + j) % t = After(c2, r, t)
  BY <1>1, <1>2, TurnOf, ZenonT(60)
<1>4. j \div t = q
  BY <1>1, Quotient, Zenon
<1>5. CASE r + 1 < t
  <2> DEFINE x == r + 1
  <2>1. x \in 0 .. t - 1
    BY <1>5
  <2>2. j + 1 = q * t + x
    BY <1>1
  <2>3. After(c, x, t) = After(c2, r, t) /\ After(c, x, t) # c
    <3>1. CASE c + 1 = t
      BY <1>2, <1>5, <3>1 DEF After
    <3>2. CASE c + 1 # t
      BY <1>2, <1>5, <3>2 DEF After
    <3> QED BY <3>1, <3>2
  <2> HIDE DEF x
  <2>4. (c + (j + 1)) % t = After(c, x, t)
    <3>1. (c + (q * t + x)) % t = After(c, x, t)
      BY <2>1, TurnOf, Zenon
    <3> QED BY <2>2, <3>1, Zenon
  <2>5. (j + 1) \div t = q
    BY <2>1, <2>2, Quotient, Zenon
  <2> QED BY <1>3, <1>4, <2>3, <2>4, <2>5, Zenon DEF c2
<1>6. CASE r + 1 = t
  <2> DEFINE y == q + 1
  <2>1. y \in Nat /\ 0 \in 0 .. t - 1
    OBVIOUS
  <2>2. j + 1 = y * t + 0
    <3>1. y * t = q * t + t
      OBVIOUS
    <3>2. q * t \in Nat /\ y * t \in Nat
      OBVIOUS
    <3> QED BY <1>1, <1>6, <3>1, <3>2
  <2>3. After(c, 0, t) = After(c2, r, t) /\ After(c, 0, t) = c
    <3>1. CASE c + 1 = t
      BY <1>2, <1>6, <3>1 DEF After
    <3>2. CASE c + 1 # t
      BY <1>2, <1>6, <3>2 DEF After
    <3> QED BY <3>1, <3>2
  <2> HIDE DEF y
  <2>4. (c + (j + 1)) % t = After(c, 0, t)
    <3>1. (c + (y * t + 0)) % t = After(c, 0, t)
      BY <2>1, TurnOf, Zenon
    <3> QED BY <2>2, <3>1, Zenon
  <2>5. (j + 1) \div t = y
    BY <2>1, <2>2, Quotient, Zenon
  <2> QED BY <1>3, <1>4, <2>3, <2>4, <2>5, Zenon DEF c2, y
<1> QED BY <1>5, <1>6

\* A turn is one of a worker, in a round.
LEMMA TurnTyped ==
  ASSUME NEW t \in Nat, t > 0, NEW c \in 0 .. t - 1, NEW j \in Nat
  PROVE  (c + j) % t \in 0 .. t - 1 /\ j \div t + 1 \in Nat \ {0}
  OBVIOUS

\* The first turn is that of c.
LEMMA FirstTurn ==
  ASSUME NEW t \in Nat, t > 0, NEW c \in 0 .. t - 1
  PROVE  (c + 0) % t = c /\ 0 \div t + 1 = 1
  OBVIOUS

\* The batches of each of t workers, in some order.
Table(t) == [0 .. t - 1 -> Seq(Seq(Job))]

\* The batch of turn j, of t workers that take turns beginning with c, where O gives
\* each worker's batches; the turns of n batches.
At(t, c, O, j) ==
  LET bs == O[(c + j) % t]
      i == j \div t + 1
  IN IF i <= Len(bs) THEN bs[i] ELSE <<>>

Arranged(t, c, n, O) == [k \in 1 .. n |-> At(t, c, O, k - 1)]

\* Batches in turn are batches.
LEMMA AtTyped ==
  ASSUME NEW t \in Nat, t > 0, NEW c \in 0 .. t - 1,
         NEW O \in Table(t), NEW j \in Nat
  PROVE  At(t, c, O, j) \in Seq(Job)
<1> DEFINE bs == O[(c + j) % t]
           i == j \div t + 1
<1>3. bs \in Seq(Seq(Job)) /\ i \in Nat \ {0}
  BY TurnTyped, Zenon DEF Table
<1>4. At(t, c, O, j) = IF i <= Len(bs) THEN bs[i] ELSE <<>>
  BY Zenon DEF At
<1> HIDE DEF bs, i
<1> QED BY <1>3, <1>4

\* So are they all, and there are n of them.
LEMMA ArrangedTyped ==
  ASSUME NEW t \in Nat, t > 0
  PROVE  \A c \in 0 .. t - 1, n \in Nat, O \in Table(t) :
           /\ Arranged(t, c, n, O) \in Seq(Seq(Job))
           /\ Len(Arranged(t, c, n, O)) = n
<1> SUFFICES ASSUME NEW c \in 0 .. t - 1, NEW n \in Nat, NEW O \in Table(t)
             PROVE  /\ Arranged(t, c, n, O) \in Seq(Seq(Job))
                    /\ Len(Arranged(t, c, n, O)) = n
  BY Zenon
<1>1. ASSUME NEW k \in 1 .. n PROVE At(t, c, O, k - 1) \in Seq(Job)
  <2>1. k - 1 \in Nat
    OBVIOUS
  <2> QED BY <2>1, AtTyped, Zenon
<1>2. Arranged(t, c, n, O) \in [1 .. n -> Seq(Job)]
  BY <1>1, Zenon DEF Arranged
<1> QED BY <1>2

\* Once the oldest batch of the worker c is taken, the worker after c has its turn.
LEMMA AtTaken ==
  ASSUME NEW t \in Nat, t > 0, NEW c \in 0 .. t - 1,
         NEW O \in Table(t), O[c] # <<>>
  PROVE  /\ At(t, c, O, 0) = Head(O[c])
         /\ \A j \in Nat : At(t, (c + 1) % t, [O EXCEPT ![c] = Tail(O[c])], j)
                             = At(t, c, O, j + 1)
<1> DEFINE P == [O EXCEPT ![c] = Tail(O[c])]
           e == (c + 1) % t
<1>1. O[c] \in Seq(Seq(Job)) /\ O[c] # <<>>
  BY Zenon DEF Table
<1>2. P[c] = Tail(O[c]) /\ \A w \in 0 .. t - 1 : w # c => P[w] = O[w]
  BY Zenon DEF Table
<1>3. At(t, c, O, 0) = Head(O[c])
  <2>1. (c + 0) % t = c /\ 0 \div t + 1 = 1
    BY FirstTurn, Zenon
  <2>2. At(t, c, O, 0) = IF 1 <= Len(O[c]) THEN O[c][1] ELSE <<>>
    BY <2>1, Zenon DEF At
  <2> QED BY <1>1, <2>2
<1>4. ASSUME NEW j \in Nat PROVE At(t, e, P, j) = At(t, c, O, j + 1)
  <2> DEFINE w == (c + (j + 1)) % t
             i == j \div t + 1
             k == (j + 1) \div t + 1
  <2>1. w \in 0 .. t - 1 /\ i \in Nat \ {0}
    <3>1. j + 1 \in Nat
      OBVIOUS
    <3> QED BY <3>1, TurnTyped, Zenon
  <2>2. /\ (e + j) % t = w
        /\ w = c => (j + 1) \div t = i
        /\ w # c => (j + 1) \div t = j \div t
    BY NextTurn, Zenon
  <2>3. /\ w = c => k = i + 1
        /\ w # c => k = i
    BY <2>2, Zenon
  <2>4. /\ At(t, e, P, j) = IF i <= Len(P[(e + j) % t]) THEN P[(e + j) % t][i] ELSE <<>>
        /\ At(t, c, O, j + 1) = IF k <= Len(O[w]) THEN O[w][k] ELSE <<>>
    BY Zenon DEF At
  <2> HIDE DEF P, e, w, i, k
  <2>5. CASE w = c
    <3>1. /\ Len(Tail(O[c])) = Len(O[c]) - 1 /\ Len(O[c]) \in Nat
          /\ \A x \in 1 .. Len(O[c]) - 1 : Tail(O[c])[x] = O[c][x + 1]
      BY <1>1
    <3>2. k = i + 1 /\ P[w] = Tail(O[c]) /\ O[w] = O[c]
      BY <1>2, <2>3, <2>5, Zenon
    <3>3. /\ At(t, e, P, j) = IF i <= Len(Tail(O[c])) THEN Tail(O[c])[i] ELSE <<>>
          /\ At(t, c, O, j + 1) = IF i + 1 <= Len(O[c]) THEN O[c][i + 1] ELSE <<>>
      BY <2>2, <2>4, <3>2, Zenon
    <3> QED BY <2>1, <3>1, <3>3
  <2>6. CASE w # c
    <3>1. P[w] = O[w] /\ k = i
      BY <1>2, <2>1, <2>3, <2>6, Zenon
    <3> QED BY <2>2, <2>4, <3>1
  <2> QED BY <2>5, <2>6, Zenon
<1> QED BY <1>3, <1>4, Zenon

\* O once d has been handed b.
Given(O, d, b) == [O EXCEPT ![d] = Append(O[d], b)]

\* The worker d is the next to be handed a batch.
Due(t, c, n, O, d) == d = (c + n) % t /\ Len(O[d]) = n \div t

\* A batch handed to the worker whose turn it is comes last.
LEMMA ArrangedHanded ==
  ASSUME NEW t \in Nat, t > 0, NEW c \in 0 .. t - 1, NEW O \in Table(t),
         NEW n \in Nat, NEW b \in Seq(Job), NEW d \in 0 .. t - 1, Due(t, c, n, O, d)
  PROVE  Arranged(t, c, n + 1, Given(O, d, b)) = Append(Arranged(t, c, n, O), b)
<1> DEFINE A == Arranged(t, c, n, O)
<1>2. A \in Seq(Seq(Job)) /\ Len(A) = n
  BY ArrangedTyped
<1> DEFINE P == Given(O, d, b)
           B == Arranged(t, c, n + 1, P)
<1>1. P \in Table(t)
  <2>1. O[d] \in Seq(Seq(Job))
    BY Zenon DEF Table
  <2>2. Append(O[d], b) \in Seq(Seq(Job))
    BY <2>1
  <2> QED BY <2>2, Zenon DEF Table, Given
<1>3. n + 1 \in Nat
  OBVIOUS
<1>4. B \in Seq(Seq(Job)) /\ Len(B) = n + 1
  <2> HIDE DEF P
  <2> QED BY <1>1, <1>3, ArrangedTyped
<1>11. O[d] \in Seq(Seq(Job)) /\ Len(O[d]) = n \div t /\ d = (c + n) % t
  BY ZenonT(60) DEF Table, Due
<1>12. P[d] = Append(O[d], b) /\ \A w \in 0 .. t - 1 : w # d => P[w] = O[w]
  BY Zenon DEF Table, Given
<1>13. At(t, c, P, n) = b
  <2> DEFINE i == n \div t + 1
  <2>1. At(t, c, P, n) = IF i <= Len(P[d]) THEN P[d][i] ELSE <<>>
    BY <1>11 DEF At
  <2>2. i = Len(O[d]) + 1
    BY <1>11, Zenon
  <2> HIDE DEF P, i
  <2> QED BY <1>11, <1>12, <2>1, <2>2
<1>14. ASSUME NEW j \in Nat, j < n PROVE At(t, c, P, j) = At(t, c, O, j)
  <2> DEFINE w == (c + j) % t
             i == j \div t + 1
  <2>1. w \in 0 .. t - 1 /\ i \in Nat \ {0}
    BY TurnTyped, Zenon
  <2>2. /\ At(t, c, P, j) = IF i <= Len(P[w]) THEN P[w][i] ELSE <<>>
        /\ At(t, c, O, j) = IF i <= Len(O[w]) THEN O[w][i] ELSE <<>>
    BY Zenon DEF At
  <2>3. CASE w # d
    <3> HIDE DEF P, i, w
    <3>1. P[w] = O[w]
      BY <1>12, <2>1, <2>3, Zenon
    <3> QED BY <2>2, <3>1
  <2>4. CASE w = d
    <3>1. i <= Len(O[d])
      <4>1. j \div t + 1 <= n \div t
        BY <1>11, <1>14, <2>4, SameTurn, Zenon
      <4> QED BY <1>11, <4>1, Zenon
    <3> HIDE DEF P, i, w
    <3>2. i <= Len(P[d]) /\ P[d][i] = O[d][i]
      BY <1>11, <1>12, <2>1, <3>1
    <3> QED BY <2>2, <2>4, <3>1, <3>2, Zenon
  <2> QED BY <2>3, <2>4, Zenon
<1>5. /\ At(t, c, P, n) = b
      /\ \A j \in Nat : j < n => At(t, c, P, j) = At(t, c, O, j)
  BY <1>13, <1>14, Zenon
<1>6. \A k \in 1 .. n + 1 : B[k] = At(t, c, P, k - 1)
  BY Zenon DEF Arranged
<1>7. \A k \in 1 .. n : A[k] = At(t, c, O, k - 1)
  BY Zenon DEF Arranged
<1> HIDE DEF P, A, B
<1>8. B[n + 1] = b
  <2>1. n + 1 \in 1 .. n + 1 /\ (n + 1) - 1 = n
    OBVIOUS
  <2>2. B[n + 1] = At(t, c, P, (n + 1) - 1)
    BY <1>6, <2>1, Zenon
  <2> QED BY <1>5, <2>1, <2>2, Zenon
<1>9. ASSUME NEW k \in 1 .. n PROVE B[k] = A[k]
  <2>1. k \in 1 .. n + 1 /\ k - 1 \in Nat /\ k - 1 < n
    OBVIOUS
  <2>2. At(t, c, P, k - 1) = At(t, c, O, k - 1)
    BY <1>5, <2>1, Zenon
  <2> QED BY <1>6, <1>7, <2>1, <2>2, Zenon
<1>10. B = Append(A, b)
  BY <1>2, <1>4, <1>8, <1>9
<1> QED BY <1>10, Zenon DEF P, A, B

\* The batch of the worker whose turn it is to be collected comes first.
LEMMA ArrangedTaken ==
  ASSUME NEW t \in Nat, t > 0, NEW c \in 0 .. t - 1,
         NEW O \in Table(t), NEW n \in Nat, n > 0, O[c] # <<>>
  PROVE  /\ Arranged(t, c, n, O) # <<>>
         /\ Head(Arranged(t, c, n, O)) = Head(O[c])
         /\ Arranged(t, (c + 1) % t, n - 1, [O EXCEPT ![c] = Tail(O[c])])
              = Tail(Arranged(t, c, n, O))
<1> DEFINE P == [O EXCEPT ![c] = Tail(O[c])]
           e == (c + 1) % t
           A == Arranged(t, c, n, O)
           B == Arranged(t, e, n - 1, P)
<1>1. P \in Table(t)
  <2>1. O[c] \in Seq(Seq(Job))
    BY Zenon DEF Table
  <2>2. Tail(O[c]) \in Seq(Seq(Job))
    BY <2>1
  <2> QED BY <2>2, Zenon DEF Table
<1>2. A \in Seq(Seq(Job)) /\ Len(A) = n
  BY ZenonT(60), ArrangedTyped
<1>3. n - 1 \in Nat
  OBVIOUS
<1>4. e \in 0 .. t - 1
  <2>1. 1 \in Nat
    OBVIOUS
  <2> QED BY <2>1, TurnTyped, Zenon
<1>5. B \in Seq(Seq(Job)) /\ Len(B) = n - 1
  <2> HIDE DEF P, e
  <2> QED BY <1>1, <1>3, <1>4, ArrangedTyped, ZenonT(60)
<1>6. /\ At(t, c, O, 0) = Head(O[c])
      /\ \A j \in Nat : At(t, e, P, j) = At(t, c, O, j + 1)
  BY AtTaken, Zenon
<1>7. \A k \in 1 .. n - 1 : B[k] = At(t, e, P, k - 1)
  BY Zenon DEF Arranged
<1>8. \A k \in 1 .. n : A[k] = At(t, c, O, k - 1)
  BY Zenon DEF Arranged
<1> HIDE DEF P, A, B, e
<1>9. A[1] = Head(O[c])
  <2>1. 1 \in 1 .. n /\ 1 - 1 = 0
    OBVIOUS
  <2>2. A[1] = At(t, c, O, 1 - 1)
    BY <1>8, <2>1, Zenon
  <2> QED BY <1>6, <2>1, <2>2, Zenon
<1>10. ASSUME NEW k \in 1 .. n - 1 PROVE B[k] = A[k + 1]
  <2>1. k + 1 \in 1 .. n /\ k - 1 \in Nat /\ (k - 1) + 1 = k /\ (k + 1) - 1 = k
    OBVIOUS
  <2>2. At(t, e, P, k - 1) = At(t, c, O, (k - 1) + 1)
    BY <1>6, <2>1, Zenon
  <2>3. A[k + 1] = At(t, c, O, (k + 1) - 1)
    BY <1>8, <2>1, Zenon
  <2>4. B[k] = At(t, e, P, k - 1)
    BY <1>7, Zenon
  <2> QED BY <2>1, <2>2, <2>3, <2>4, Zenon
<1>11. A # <<>> /\ Head(A) = A[1]
  BY <1>2
<1>12. B = Tail(A)
  BY <1>2, <1>5, <1>10
<1> QED BY <1>9, <1>11, <1>12, Zenon DEF P, A, B, e

-----------------------------------------------------------------------------
(* The order of the batches in flight.                                     *)

\* What each worker owes.
Backlog == [w \in Workers |-> Outstanding(w)]

\* A worker's batches when it is handed one, ...
LEMMA PartsHanded ==
  ASSUME NEW x \in Seq(Seq(Job)), NEW h \in Seq(Seq(Job)), NEW j \in Seq(Seq(Job)),
         NEW b \in Seq(Job)
  PROVE  x \o h \o Append(j, b) = Append(x \o h \o j, b)
  OBVIOUS

\* ... when its oldest is taken, ...
LEMMA PartsTaken ==
  ASSUME NEW x \in Seq(Seq(Job)), NEW h \in Seq(Seq(Job)), NEW j \in Seq(Seq(Job)), x # <<>>
  PROVE  /\ x \o h \o j # <<>>
         /\ Head(x \o h \o j) = Head(x)
         /\ Tail(x \o h \o j) = Tail(x) \o h \o j
<1>1. x \o h \in Seq(Seq(Job)) /\ x \o h # <<>>
  OBVIOUS
<1>2. Head(x \o h) = Head(x) /\ Tail(x \o h) = Tail(x) \o h
  OBVIOUS
<1> DEFINE y == x \o h
<1> HIDE DEF y
<1>3. y \in Seq(Seq(Job)) /\ y # <<>>
  BY <1>1, Zenon DEF y
<1>4. y \o j # <<>> /\ Head(y \o j) = Head(y) /\ Tail(y \o j) = Tail(y) \o j
  BY <1>3
<1> QED BY <1>2, <1>4, Zenon DEF y

\* ... when it receives its next one, ...
LEMMA PartsReceived ==
  ASSUME NEW x \in Seq(Seq(Job)), NEW j \in Seq(Seq(Job)), j # <<>>
  PROVE  x \o <<Head(j)>> \o Tail(j) = x \o <<>> \o j
  OBVIOUS

\* ... and when it sends one back.
LEMMA PartsSent ==
  ASSUME NEW x \in Seq(Seq(Job)), NEW j \in Seq(Seq(Job)), NEW b \in Seq(Job)
  PROVE  Append(x, b) \o <<>> \o j = x \o <<b>> \o j
<1>1. Append(x, b) \o <<>> = Append(x, b) /\ x \o <<b>> = Append(x, b)
  OBVIOUS
<1> QED BY <1>1, Zenon

\* What the I/O thread will get from w.
LEMMA OutstandingTyped ==
  ASSUME TypeOK, NEW w \in Workers
  PROVE  Outstanding(w) \in Seq(Seq(Job)) /\ Len(Outstanding(w)) = Owed(w)
<1> DEFINE h == IF wpc[w] = "send" THEN <<hold[w]>> ELSE <<>>
<1>1. /\ doneq[w] \in Seq(Seq(Job)) /\ jobq[w] \in Seq(Seq(Job)) /\ hold[w] \in Seq(Job)
      /\ Len(doneq[w]) \in Nat /\ Len(jobq[w]) \in Nat
  BY Queues, Zenon DEF Batches
<1>2. h \in Seq(Seq(Job)) /\ Len(h) = Held(w) /\ Held(w) \in Nat
  <2>1. <<hold[w]>> \in Seq(Seq(Job)) /\ Len(<<hold[w]>>) = 1
    BY <1>1
  <2>2. <<>> \in Seq(Seq(Job)) /\ Len(<<>>) = 0
    OBVIOUS
  <2>3. CASE wpc[w] = "send"
    BY <2>1, <2>3 DEF Held
  <2>4. CASE wpc[w] # "send"
    BY <2>2, <2>4 DEF Held
  <2> QED BY <2>3, <2>4
<1>3. Outstanding(w) = doneq[w] \o h \o jobq[w]
  BY Zenon DEF Outstanding
<1> HIDE DEF h
<1>4. doneq[w] \o h \in Seq(Seq(Job)) /\ Len(doneq[w] \o h) = Len(doneq[w]) + Len(h)
  <2>1. \A x, y \in Seq(Seq(Job)) : x \o y \in Seq(Seq(Job)) /\ Len(x \o y) = Len(x) + Len(y)
    OBVIOUS
  <2> QED BY <1>1, <1>2, <2>1, Zenon
<1>5. /\ Outstanding(w) \in Seq(Seq(Job))
      /\ Len(Outstanding(w)) = Len(doneq[w] \o h) + Len(jobq[w])
  BY <1>1, <1>3, <1>4
<1> QED BY <1>1, <1>2, <1>4, <1>5 DEF Owed

\* What the workers owe are batches.
LEMMA BacklogTyped ==
  ASSUME TypeOK
  PROVE  Backlog \in Table(threads)
<1>1. \A w \in Workers : Outstanding(w) \in Seq(Seq(Job))
  BY OutstandingTyped, Zenon
<1> QED BY <1>1, Zenon DEF Backlog, Table, Workers

\* InFlight lists the backlog in turn.
LEMMA InFlightIs ==
  ASSUME TypeOK, InTurn, threads > 0
  PROVE  /\ InFlight = Arranged(threads, next_collect, in_flight, Backlog)
         /\ InFlight \in Seq(Seq(Job)) /\ Len(InFlight) = in_flight
<1>1. /\ threads \in Nat /\ in_flight \in Nat /\ next_collect \in 0 .. threads - 1
      /\ next_collect \in Nat
  BY DEF TypeOK, InTurn, Workers
<1>2. ASSUME NEW k \in 1 .. in_flight
      PROVE  (LET bs == Outstanding((next_collect + k - 1) % threads)
                  i == (k - 1) \div threads + 1
              IN IF i <= Len(bs) THEN bs[i] ELSE <<>>)
               = At(threads, next_collect, Backlog, k - 1)
  <2> DEFINE j == k - 1
             w == (next_collect + j) % threads
  <2>1. j \in Nat /\ next_collect + k - 1 = next_collect + j
    BY <1>1
  <2> HIDE DEF j
  <2>2. w \in Workers
    BY <1>1, <2>1, TurnTyped, Zenon DEF Workers
  <2>3. Backlog[w] = Outstanding(w)
    BY <2>2, Zenon DEF Backlog
  <2>4. (next_collect + k - 1) % threads = w
    BY <2>1, Zenon
  <2> QED BY <2>3, <2>4, Zenon DEF At, j
<1>3. InFlight = Arranged(threads, next_collect, in_flight, Backlog)
  BY <1>2, Zenon DEF InFlight, Arranged
<1>4. Backlog \in Table(threads)
  BY BacklogTyped, Zenon
<1>5. \A c \in 0 .. threads - 1, n \in Nat, O \in Table(threads) :
           /\ Arranged(threads, c, n, O) \in Seq(Seq(Job))
           /\ Len(Arranged(threads, c, n, O)) = n
  BY <1>1, ArrangedTyped
<1> QED BY <1>1, <1>3, <1>4, <1>5, Zenon

\* The worker flush hands its batch to owes a batch for each whole round in flight.
LEMMA DispatchIs ==
  ASSUME TypeOK, InTurn, threads > 0
  PROVE  /\ next_dispatch = (next_collect + in_flight) % threads
         /\ Owed(next_dispatch) = in_flight \div threads
<1>1. /\ threads \in Nat /\ Workers = 0 .. threads - 1
      /\ next_collect \in 0 .. threads - 1 /\ next_dispatch \in Workers
  BY DEF TypeOK, InTurn, Workers
<1>2. PICK n \in Nat, m \in Workers : Turns(n, m)
  BY Zenon DEF InTurn
<1>3. /\ in_flight = n * threads + m /\ next_dispatch = Place(m)
      /\ Owed(next_dispatch) = n + (IF Ahead(next_dispatch) < m THEN 1 ELSE 0)
  BY <1>1, <1>2, Zenon DEF Turns
<1>4. ~(Ahead(next_dispatch) < m)
  BY <1>1, <1>3 DEF Place, Ahead
<1>5. Place(m) = After(next_collect, m, threads)
  BY Zenon DEF Place, After
<1>6. m \in 0 .. threads - 1
  BY <1>1, Zenon
<1>7. (next_collect + (n * threads + m)) % threads = After(next_collect, m, threads)
  BY <1>1, <1>6, TurnOf, Zenon
<1>8. (n * threads + m) \div threads = n
  BY <1>1, <1>6, Quotient, Zenon
<1>9. Owed(next_dispatch) = n
  BY <1>3, <1>4
<1> QED BY <1>3, <1>5, <1>7, <1>8, <1>9, Zenon

\* InFlightIs as a fact of every state.
LEMMA InFlightIsNow ==
  TypeOK /\ InTurn /\ threads > 0
    => InFlight = Arranged(threads, next_collect, in_flight, Backlog)
  BY InFlightIs, Zenon

\* InFlightIs after a step.
LEMMA InFlightIsNext ==
  ASSUME TypeOK', InTurn', threads > 0, threads' = threads
  PROVE  InFlight' = Arranged(threads', next_collect', in_flight', Backlog')
<1>1. (threads > 0)'
  OBVIOUS
<1>2. (TypeOK /\ InTurn /\ threads > 0)'
        => (InFlight = Arranged(threads, next_collect, in_flight, Backlog))'
  BY InFlightIsNow, PTL
<1> QED BY <1>1, <1>2, Zenon

\* Nothing is handed out or taken, and every worker owes what it owed.
LEMMA InFlightStays ==
  ASSUME TypeOK, InTurn, threads > 0, TypeOK', InTurn', threads' = threads,
         next_collect' = next_collect, in_flight' = in_flight,
         \A w \in Workers : Outstanding(w)' = Outstanding(w)
  PROVE  InFlight' = InFlight
<1>1. Workers' = Workers
  BY Zenon DEF Workers
<1>2. Backlog' = Backlog
  BY <1>1, Zenon DEF Backlog
<1>3. InFlight = Arranged(threads, next_collect, in_flight, Backlog)
  BY InFlightIs, Zenon
<1>4. InFlight' = Arranged(threads', next_collect', in_flight', Backlog')
  BY InFlightIsNext, Zenon
<1> QED BY <1>2, <1>3, <1>4, Zenon

\* The batch handed to the next worker is the last in flight (flush).
LEMMA InFlightHanded ==
  ASSUME TypeOK, InTurn, threads > 0, TypeOK', InTurn', threads' = threads,
         next_collect' = next_collect, in_flight' = in_flight + 1, doneq' = doneq,
         wpc' = wpc, hold' = hold, NEW b \in Seq(Job),
         jobq' = [jobq EXCEPT ![next_dispatch] = Append(jobq[next_dispatch], b)]
  PROVE  InFlight' = Append(InFlight, b)
<1> DEFINE d == next_dispatch
<1>1. /\ threads \in Nat /\ Workers = 0 .. threads - 1 /\ Workers' = Workers
      /\ next_collect \in 0 .. threads - 1 /\ d \in 0 .. threads - 1 /\ in_flight \in Nat
  BY DEF TypeOK, InTurn, Workers
<1>2. ASSUME NEW w \in Workers
      PROVE  Outstanding(w)' = IF w = d THEN Append(Outstanding(d), b) ELSE Outstanding(w)
  <2> DEFINE h == IF wpc[w] = "send" THEN <<hold[w]>> ELSE <<>>
  <2>1. Outstanding(w) = doneq[w] \o h \o jobq[w] /\ Outstanding(w)' = doneq[w] \o h \o jobq'[w]
    BY Zenon DEF Outstanding
  <2>2. doneq[w] \in Seq(Seq(Job)) /\ h \in Seq(Seq(Job)) /\ jobq[w] \in Seq(Seq(Job))
    <3>1. doneq[w] \in Seq(Seq(Job)) /\ jobq[w] \in Seq(Seq(Job)) /\ hold[w] \in Seq(Job)
      BY Queues, Zenon DEF Batches
    <3>2. <<hold[w]>> \in Seq(Seq(Job)) /\ <<>> \in Seq(Seq(Job))
      BY <3>1
    <3> QED BY <3>1, <3>2, Zenon
  <2> HIDE DEF h
  <2>3. CASE w # d
    <3>1. jobq'[w] = jobq[w]
      BY <1>1, <2>3, Zenon DEF TypeOK
    <3> QED BY <2>1, <2>3, <3>1, Zenon
  <2>4. CASE w = d
    <3>1. jobq'[w] = Append(jobq[w], b)
      BY <1>1, <2>4, Zenon DEF TypeOK
    <3>2. doneq[w] \o h \o Append(jobq[w], b) = Append(doneq[w] \o h \o jobq[w], b)
      BY <2>2, PartsHanded, ZenonT(60)
    <3>3. Outstanding(w)' = Append(Outstanding(w), b)
      BY <2>1, <3>1, <3>2, Zenon
    <3> QED BY <2>4, <3>3, Zenon
  <2> QED BY <2>3, <2>4, Zenon
<1>3. Backlog \in Table(threads) /\ Backlog[d] = Outstanding(d)
  BY <1>1, BacklogTyped, Zenon DEF Backlog
<1>4. Backlog' = [Backlog EXCEPT ![d] = Append(Backlog[d], b)]
  <2>1. Backlog' = [w \in Workers |-> Outstanding(w)']
    BY <1>1, Zenon DEF Backlog
  <2>2. [Backlog EXCEPT ![d] = Append(Backlog[d], b)]
          = [w \in Workers |-> IF w = d THEN Append(Outstanding(d), b) ELSE Outstanding(w)]
    BY <1>1, <1>3, Zenon DEF Backlog
  <2> QED BY <1>2, <2>1, <2>2, Zenon
<1>5. /\ InFlight = Arranged(threads, next_collect, in_flight, Backlog)
      /\ InFlight' = Arranged(threads, next_collect, in_flight + 1, Backlog')
  BY InFlightIs, InFlightIsNext, Zenon
<1>6. Due(threads, next_collect, in_flight, Backlog, d)
  BY <1>1, <1>3, DispatchIs, OutstandingTyped, Zenon DEF Due
<1> HIDE DEF d
<1>7. Arranged(threads, next_collect, in_flight + 1, Given(Backlog, d, b))
        = Append(Arranged(threads, next_collect, in_flight, Backlog), b)
  BY <1>1, <1>3, <1>6, ArrangedHanded, ZenonT(60)
<1> QED BY <1>4, <1>5, <1>7, Zenon DEF Given

\* The oldest batch of the worker whose turn it is is the first in flight (collect).
LEMMA InFlightTaken ==
  ASSUME TypeOK, InTurn, threads > 0, TypeOK', InTurn', threads' = threads, HeadReady,
         next_collect' = (next_collect + 1) % threads, in_flight' = in_flight - 1,
         doneq' = [doneq EXCEPT ![next_collect] = Tail(doneq[next_collect])],
         wpc' = wpc, hold' = hold, jobq' = jobq
  PROVE  /\ InFlight # <<>> /\ Head(InFlight) = Head(doneq[next_collect])
         /\ InFlight' = Tail(InFlight)
<1> DEFINE c == next_collect
<1>1. /\ threads \in Nat /\ Workers = 0 .. threads - 1 /\ Workers' = Workers
      /\ c \in 0 .. threads - 1 /\ in_flight \in Nat /\ in_flight > 0
  BY DEF TypeOK, InTurn, Workers, HeadReady
<1>2. doneq[c] # <<>>
  BY Zenon DEF HeadReady
<1>3. ASSUME NEW w \in Workers
      PROVE  /\ Outstanding(w)' = IF w = c THEN Tail(Outstanding(c)) ELSE Outstanding(w)
             /\ w = c => Outstanding(c) # <<>> /\ Head(Outstanding(c)) = Head(doneq[c])
  <2> DEFINE h == IF wpc[w] = "send" THEN <<hold[w]>> ELSE <<>>
  <2>1. Outstanding(w) = doneq[w] \o h \o jobq[w] /\ Outstanding(w)' = doneq'[w] \o h \o jobq[w]
    BY Zenon DEF Outstanding
  <2>2. doneq[w] \in Seq(Seq(Job)) /\ h \in Seq(Seq(Job)) /\ jobq[w] \in Seq(Seq(Job))
    <3>1. doneq[w] \in Seq(Seq(Job)) /\ jobq[w] \in Seq(Seq(Job)) /\ hold[w] \in Seq(Job)
      BY Queues, Zenon DEF Batches
    <3>2. <<hold[w]>> \in Seq(Seq(Job)) /\ <<>> \in Seq(Seq(Job))
      BY <3>1
    <3> QED BY <3>1, <3>2, Zenon
  <2> HIDE DEF h
  <2>4. CASE w # c
    <3>1. doneq'[w] = doneq[w]
      BY <1>1, <2>4, Zenon DEF TypeOK
    <3> QED BY <2>1, <2>4, <3>1, Zenon
  <2>5. CASE w = c
    <3>1. doneq'[w] = Tail(doneq[w])
      BY <1>1, <2>5, Zenon DEF TypeOK
    <3>3. doneq[w] # <<>>
      BY <1>2, <2>5, Zenon
    <3>4. /\ doneq[w] \o h \o jobq[w] # <<>>
          /\ Head(doneq[w] \o h \o jobq[w]) = Head(doneq[w])
          /\ Tail(doneq[w] \o h \o jobq[w]) = Tail(doneq[w]) \o h \o jobq[w]
      BY <2>2, <3>3, PartsTaken, ZenonT(60)
    <3>5. Outstanding(w)' = Tail(Outstanding(w))
      BY <2>1, <3>1, <3>4, Zenon
    <3>6. Outstanding(w) # <<>> /\ Head(Outstanding(w)) = Head(doneq[w])
      BY <2>1, <3>4, Zenon
    <3> QED BY <2>5, <3>5, <3>6, Zenon
  <2> QED BY <2>4, <2>5, Zenon
<1>4. /\ Backlog \in Table(threads) /\ Backlog[c] = Outstanding(c)
      /\ Backlog[c] # <<>> /\ Head(Backlog[c]) = Head(doneq[c])
  BY <1>1, <1>3, BacklogTyped, Zenon DEF Backlog
<1>5. Backlog' = [Backlog EXCEPT ![c] = Tail(Backlog[c])]
  <2>1. Backlog' = [w \in Workers |-> Outstanding(w)']
    BY <1>1, Zenon DEF Backlog
  <2>2. [Backlog EXCEPT ![c] = Tail(Backlog[c])]
          = [w \in Workers |-> IF w = c THEN Tail(Outstanding(c)) ELSE Outstanding(w)]
    BY <1>1, <1>4, Zenon DEF Backlog
  <2> QED BY <1>3, <2>1, <2>2, Zenon
<1>6. /\ InFlight = Arranged(threads, c, in_flight, Backlog)
      /\ InFlight' = Arranged(threads, (c + 1) % threads, in_flight - 1, Backlog')
  BY InFlightIs, InFlightIsNext, Zenon
<1> HIDE DEF c
<1>7. /\ Arranged(threads, c, in_flight, Backlog) # <<>>
      /\ Head(Arranged(threads, c, in_flight, Backlog)) = Head(Backlog[c])
      /\ Arranged(threads, (c + 1) % threads, in_flight - 1,
                  [Backlog EXCEPT ![c] = Tail(Backlog[c])])
           = Tail(Arranged(threads, c, in_flight, Backlog))
  BY <1>1, <1>4, ArrangedTaken, Zenon
<1> QED BY <1>4, <1>5, <1>6, <1>7, Zenon DEF c

\* A worker that takes, finishes or reports a batch still owes the same ones in the same
\* order (worker_loop).
LEMMA WorkerKeepsOrder ==
  ASSUME TypeOK, NEW v \in Workers, Worker(v), NEW w \in Workers
  PROVE  Outstanding(w)' = Outstanding(w)
<1>1. /\ doneq \in [Workers -> Batches] /\ jobq \in [Workers -> Batches]
      /\ wpc \in [Workers -> {"recv", "send", "wake", "exited"}]
      /\ hold \in [Workers -> Seq(Job)]
  BY Zenon DEF TypeOK
<1>2. doneq[w] \in Seq(Seq(Job)) /\ jobq[w] \in Seq(Seq(Job)) /\ hold[w] \in Seq(Job)
  BY Queues, Zenon DEF Batches
<1>3. CASE w # v
  <2>1. doneq'[w] = doneq[w] /\ jobq'[w] = jobq[w] /\ wpc'[w] = wpc[w] /\ hold'[w] = hold[w]
    BY <1>1, <1>3, Zenon DEF Worker, WorkerRecv, WorkerSend, WorkerWake, WorkerExit
  <2> QED BY <2>1, Zenon DEF Outstanding
<1>4. CASE w = v /\ WorkerRecv(v)
  <2>1. /\ wpc[w] = "recv" /\ jobq[w] # <<>> /\ wpc'[w] = "send" /\ doneq'[w] = doneq[w]
        /\ hold'[w] = Head(jobq[w]) /\ jobq'[w] = Tail(jobq[w])
    BY <1>1, <1>4, Zenon DEF WorkerRecv
  <2>2. Outstanding(w) = doneq[w] \o <<>> \o jobq[w]
    BY <2>1, Zenon DEF Outstanding
  <2>3. Outstanding(w)' = doneq[w] \o <<Head(jobq[w])>> \o Tail(jobq[w])
    BY <2>1, Zenon DEF Outstanding
  <2> QED BY <1>2, <2>1, <2>2, <2>3, PartsReceived, Zenon
<1>5. CASE w = v /\ WorkerSend(v)
  <2>1. /\ wpc[w] = "send" /\ wpc'[w] = "wake" /\ jobq'[w] = jobq[w]
        /\ doneq'[w] = Append(doneq[w], hold[w])
    BY <1>1, <1>5, Zenon DEF WorkerSend
  <2>2. Outstanding(w) = doneq[w] \o <<hold[w]>> \o jobq[w]
    BY <2>1, Zenon DEF Outstanding
  <2>3. Outstanding(w)' = Append(doneq[w], hold[w]) \o <<>> \o jobq[w]
    BY <2>1, Zenon DEF Outstanding
  <2> QED BY <1>2, <2>2, <2>3, PartsSent, Zenon
<1>6. CASE w = v /\ (WorkerWake(v) \/ WorkerExit(v))
  <2>1. /\ wpc[w] # "send" /\ wpc'[w] # "send" /\ jobq'[w] = jobq[w] /\ doneq'[w] = doneq[w]
    BY <1>1, <1>6, Zenon DEF WorkerWake, WorkerExit
  <2> QED BY <2>1, Zenon DEF Outstanding
<1> QED BY <1>3, <1>4, <1>5, <1>6, Zenon DEF Worker

-----------------------------------------------------------------------------
(* The queue of jobs that the pipeline implements.                         *)

\* The queue of OrderedQueue, as ImplementsOrderedQueue maps it.
Queue == IF threads = 0 THEN inline_done ELSE Joined(InFlight) \o batch

\* A job comes last, ...
LEMMA PutLast ==
  ASSUME Queue \in Seq(Job), submitted' = submitted + 1, submitted + 1 \in Job,
         Queue' = Append(Queue, submitted + 1), delivered' = delivered
  PROVE  OQ!Put
<1> DEFINE q == Queue
           e == submitted + 1
<1>1. BATCH_JOBS \in Nat /\ 0 \in 0 .. BATCH_JOBS /\ q \in Seq(Job) /\ e \in Job
  BY PipelineAssumption
<1>2. Queue' = Append(q, e) /\ submitted' = e
  OBVIOUS
<1> HIDE DEF q, e
<1>3. 0 <= Len(q) + 1 /\ Append(q, e) = SubSeq(Append(q, e), 1, Len(q) + 1 - 0)
  BY <1>1
<1>4. \E lost \in 0 .. BATCH_JOBS :
        /\ lost <= Len(Queue) + 1
        /\ Queue' = SubSeq(Append(Queue, submitted'), 1, Len(Queue) + 1 - lost)
  BY <1>1, <1>2, <1>3, Zenon DEF q
<1> QED BY <1>4, Zenon DEF OQ!Put, Queue

\* ... or is given up with its batch, ...
LEMMA PutAndLose ==
  ASSUME NEW f \in Seq(Job), NEW b \in Seq(Job), Queue = f \o b, Len(b) + 1 <= BATCH_JOBS,
         submitted' = submitted + 1, submitted + 1 \in Job, Queue' = f, delivered' = delivered
  PROVE  OQ!Put
<1> DEFINE e == submitted + 1
           n == Len(b) + 1
<1>1. BATCH_JOBS \in Nat /\ n \in 0 .. BATCH_JOBS /\ e \in Job
  BY PipelineAssumption
<1>2. n <= Len(f \o b) + 1 /\ Len(f \o b) + 1 - n = Len(f)
  OBVIOUS
<1> HIDE DEF e
<1>3. f = SubSeq(Append(f \o b, e), 1, Len(f))
  <2>1. Append(f \o b, e) \in Seq(Job) /\ Len(Append(f \o b, e)) = Len(f) + Len(b) + 1
    BY <1>1
  <2>2. \A i \in 1 .. Len(f) : Append(f \o b, e)[i] = f[i]
    BY <1>1
  <2> DEFINE g == Append(f \o b, e)
  <2> HIDE DEF g
  <2>3. /\ g \in Seq(Job) /\ Len(g) = Len(f) + Len(b) + 1
        /\ \A i \in 1 .. Len(f) : g[i] = f[i]
    BY <2>1, <2>2, Zenon DEF g
  <2>4. f = SubSeq(g, 1, Len(f))
    BY <2>3
  <2> QED BY <2>4, Zenon DEF g
<1> HIDE DEF n
<1>4. \E lost \in 0 .. BATCH_JOBS :
        /\ lost <= Len(Queue) + 1
        /\ Queue' = SubSeq(Append(Queue, submitted'), 1, Len(Queue) + 1 - lost)
  <2>1. submitted' = e
    BY Zenon DEF e
  <2>2. n <= Len(Queue) + 1 /\ Len(Queue) + 1 - n = Len(f)
    BY <1>2, Zenon
  <2>3. Queue' = SubSeq(Append(Queue, submitted'), 1, Len(Queue) + 1 - n)
    BY <1>3, <2>1, <2>2, Zenon
  <2> QED BY <1>1, <2>2, <2>3, Zenon
<1> QED BY <1>4, Zenon DEF OQ!Put, Queue

\* ... or its batch is given up later, ...
LEMMA LoseLast ==
  ASSUME NEW f \in Seq(Job), NEW b \in Seq(Job), b # <<>>, Len(b) <= BATCH_JOBS,
         Queue = f \o b, Queue' = f, submitted' = submitted, delivered' = delivered
  PROVE  OQ!Lose
<1> DEFINE n == Len(b)
<1>1. n \in 1 .. BATCH_JOBS
  BY PipelineAssumption
<1>2. n <= Len(f \o b) /\ Len(f \o b) - n = Len(f)
  OBVIOUS
<1>3. f = SubSeq(f \o b, 1, Len(f))
  OBVIOUS
<1> HIDE DEF n
<1>4. \E lost \in 1 .. BATCH_JOBS :
        lost <= Len(Queue) /\ Queue' = SubSeq(Queue, 1, Len(Queue) - lost)
  <2>1. n <= Len(Queue) /\ Len(Queue) - n = Len(f)
    BY <1>2, Zenon
  <2>2. Queue' = SubSeq(Queue, 1, Len(Queue) - n)
    BY <1>3, <2>1, Zenon
  <2> QED BY <1>1, <2>1, <2>2, Zenon
<1> QED BY <1>4, Zenon DEF OQ!Lose, Queue

\* ... or it is handed back when those before it have been.
LEMMA TakeFirst ==
  ASSUME NEW f \in Seq(Job), NEW h \in Seq(Job), h # <<>>, Queue = h \o f, Queue' = f,
         submitted' = submitted, delivered' = delivered \o h
  PROVE  OQ!Take
<1> DEFINE n == Len(h)
<1>1. n \in 1 .. Len(h \o f) /\ h = SubSeq(h \o f, 1, n) /\ Len(h \o f) = Len(h) + Len(f)
  OBVIOUS
<1>2. f = SubSeq(h \o f, n + 1, Len(h \o f))
  <2> DEFINE g == h \o f
  <2>1. g \in Seq(Job) /\ Len(g) = n + Len(f) /\ \A i \in 1 .. Len(f) : g[n + i] = f[i]
    OBVIOUS
  <2>2. n \in Nat /\ n > 0 /\ Len(f) \in Nat
    OBVIOUS
  <2> HIDE DEF g, n
  <2>3. f = SubSeq(g, n + 1, Len(g))
    BY <2>1, <2>2
  <2> QED BY <2>3, Zenon DEF g
<1> HIDE DEF n
<1>3. \E k \in 1 .. Len(Queue) :
        /\ delivered' = delivered \o SubSeq(Queue, 1, k)
        /\ Queue' = SubSeq(Queue, k + 1, Len(Queue))
  <2>1. n \in 1 .. Len(Queue) /\ delivered' = delivered \o SubSeq(Queue, 1, n)
    BY <1>1, Zenon
  <2>2. Queue' = SubSeq(Queue, n + 1, Len(Queue))
    BY <1>2, Zenon
  <2> QED BY <2>1, <2>2, Zenon
<1> QED BY <1>3, Zenon DEF OQ!Take, Queue

-----------------------------------------------------------------------------
(* Every step is one of the queue, or none.                                *)

\* Nothing the I/O thread sees happens.
Stutter == submitted' = submitted /\ Queue' = Queue /\ delivered' = delivered

\* It is no step of the queue.
LEMMA Stutters == ASSUME Stutter PROVE UNCHANGED OQ!vars
  BY Zenon DEF Stutter, OQ!vars, Queue

\* The jobs in flight.
LEMMA InFlightJobs ==
  ASSUME TypeOK, InTurn, threads > 0
  PROVE  Joined(InFlight) \in Seq(Job) /\ batch \in Seq(Job)
<1>1. InFlight \in Seq(Seq(Job)) /\ batch \in Seq(Job)
  BY InFlightIs, Zenon DEF TypeOK
<1> QED BY <1>1, JoinedTyped, Zenon

\* Sequences of jobs, joined.
LEMMA JobConcats ==
  /\ \A x \in Seq(Job) : x \o <<>> = x /\ <<>> \o x = x
  /\ \A x, y \in Seq(Job), e \in Job : x \o Append(y, e) = Append(x \o y, e)
  /\ \A x, y, z \in Seq(Job) : (x \o y) \o z = x \o (y \o z)
  /\ \A x, y \in Seq(Job) : x \o y \in Seq(Job)
<1>1. \A x, y, z \in Seq(Job) : (x \o y) \o z = x \o (y \o z)
  BY ConcatAssociative
<1>2. \A x \in Seq(Job) : x \o <<>> = x /\ <<>> \o x = x
  OBVIOUS
<1>3. \A x, y \in Seq(Job), e \in Job : x \o Append(y, e) = Append(x \o y, e)
  OBVIOUS
<1>4. \A x, y \in Seq(Job) : x \o y \in Seq(Job)
  OBVIOUS
<1> QED BY <1>1, <1>2, <1>3, <1>4, Zenon

\* Every worker owes what it owed: the queue is what it was, ...
LEMMA OrderKept ==
  ASSUME TypeOK, InTurn, TypeOK', InTurn', threads' = threads, submitted' = submitted,
         inline_done' = inline_done, batch' = batch, next_collect' = next_collect,
         in_flight' = in_flight, delivered' = delivered,
         \A w \in Workers : Outstanding(w)' = Outstanding(w)
  PROVE  Stutter
<1>1. CASE threads = 0
  BY <1>1, Zenon DEF Stutter, Queue
<1>2. CASE threads # 0
  <2>1. threads > 0
    BY <1>2 DEF TypeOK
  <2>2. InFlight' = InFlight
    BY <2>1, InFlightStays, Zenon
  <2>3. Queue = Joined(InFlight) \o batch /\ Queue' = Joined(InFlight') \o batch'
    BY <1>2, Zenon DEF Queue
  <2> QED BY <2>2, <2>3, Zenon DEF Stutter
<1> QED BY <1>1, <1>2, Zenon

\* ... as it is when the channels are left alone.
LEMMA SameQueue ==
  ASSUME TypeOK, InTurn, TypeOK', InTurn', threads' = threads, submitted' = submitted,
         inline_done' = inline_done, batch' = batch, next_collect' = next_collect,
         in_flight' = in_flight, delivered' = delivered, doneq' = doneq, jobq' = jobq,
         wpc' = wpc, hold' = hold
  PROVE  Stutter
<1>1. \A w \in Workers : Outstanding(w)' = Outstanding(w)
  BY Zenon DEF Outstanding
<1> QED BY <1>1, OrderKept, Zenon

\* flush keeps the jobs of its batch behind those in flight, or gives them up.
LEMMA FlushQueue ==
  ASSUME TypeOK, InTurn, TypeOK', InTurn', threads > 0, NEW b \in Seq(Job), Flush(b),
         threads' = threads, next_collect' = next_collect, doneq' = doneq, wpc' = wpc,
         hold' = hold
  PROVE  \/ Queue' = Joined(InFlight) \o b
         \/ Queue' = Joined(InFlight)
<1>1. InFlight \in Seq(Seq(Job)) /\ Joined(InFlight) \in Seq(Job)
  BY InFlightIs, InFlightJobs, Zenon
<1>2. threads' # 0
  BY DEF TypeOK
<1>3. Queue' = Joined(InFlight') \o <<>>
  BY <1>2, Zenon DEF Queue, Flush
<1>4. \A x \in Seq(Job) : x \o <<>> = x
  BY JobConcats, Zenon
<1>5. CASE b # <<>> /\ Len(jobq[next_dispatch]) < QUEUE_DEPTH
  <2>1. /\ jobq' = [jobq EXCEPT ![next_dispatch] = Append(jobq[next_dispatch], b)]
        /\ in_flight' = in_flight + 1
    BY <1>5, Zenon DEF Flush
  <2>2. InFlight' = Append(InFlight, b)
    BY <2>1, InFlightHanded, Zenon
  <2>3. Joined(Append(InFlight, b)) = Joined(InFlight) \o b
    BY <1>1, JoinedAppend, Zenon
  <2>4. Joined(InFlight) \o b \in Seq(Job)
    BY <1>1, JobConcats, Zenon
  <2> QED BY <1>3, <1>4, <2>2, <2>3, <2>4, Zenon
<1>6. CASE ~(b # <<>> /\ Len(jobq[next_dispatch]) < QUEUE_DEPTH)
  <2>1. jobq' = jobq /\ in_flight' = in_flight
    BY <1>6, Zenon DEF Flush
  <2>2. \A w \in Workers : Outstanding(w)' = Outstanding(w)
    BY <2>1, Zenon DEF Outstanding
  <2>3. InFlight' = InFlight
    BY <2>1, <2>2, InFlightStays, Zenon
  <2> QED BY <1>1, <1>3, <1>4, <2>3, Zenon
<1> QED BY <1>5, <1>6, Zenon

\* Pipeline::submit puts a job in the queue.
LEMMA SubmitPuts == ASSUME PInv, PInv', Submit PROVE OQ!Put
<1> DEFINE e == submitted + 1
           F == Joined(InFlight)
<1>1. /\ TypeOK /\ InTurn /\ TypeOK' /\ InTurn'
  BY Zenon DEF PInv
<1>2. /\ submitted' = e /\ delivered' = delivered /\ threads' = threads
      /\ next_collect' = next_collect /\ doneq' = doneq /\ wpc' = wpc /\ hold' = hold
  BY Zenon DEF Submit, workerVars
<1>3. e \in Job /\ threads \in Nat
  BY <1>1, PipelineAssumption DEF Submit, TypeOK, Job
<1>4. CASE threads = 0
  <2>1. Queue = inline_done /\ Queue' = Append(inline_done, e) /\ inline_done \in Seq(Job)
    BY <1>1, <1>2, <1>4, Zenon DEF Queue, Submit, TypeOK
  <2> QED BY <1>2, <1>3, <2>1, PutLast, Zenon
<1>5. CASE threads # 0
  <2>1. threads > 0
    BY <1>3, <1>5
  <2>2. F \in Seq(Job) /\ batch \in Seq(Job) /\ Queue = F \o batch
    <3>1. Queue = F \o batch
      BY <1>5, Zenon DEF Queue
    <3> QED BY <1>1, <2>1, <3>1, InFlightJobs, Zenon
  <2>3. F \o batch \in Seq(Job) /\ F \o Append(batch, e) = Append(F \o batch, e)
    <3> HIDE DEF e, F
    <3>1. F \o batch \in Seq(Job)
      BY <2>2, JobConcats, Zenon
    <3>2. F \o Append(batch, e) = Append(F \o batch, e)
      BY <1>3, <2>2
    <3> QED BY <3>1, <3>2, Zenon
  <2>4. Append(batch, e) \in Seq(Job)
    BY <1>3, <2>2
  <2>5. CASE Queue' = F \o Append(batch, e)
    BY <1>2, <1>3, <2>2, <2>3, <2>5, PutLast, Zenon
  <2>6. CASE Queue' = F
    <3>1. Len(batch) + 1 <= BATCH_JOBS
      BY <1>1, <2>2, PipelineAssumption DEF TypeOK
    <3> QED BY <1>2, <1>3, <2>2, <2>6, <3>1, PutAndLose, Zenon
  <2>7. CASE Len(Append(batch, e)) >= BATCH_JOBS
    <3>1. Flush(Append(batch, e))
      BY <1>5, <2>7, Zenon DEF Submit
    <3>2. Queue' = F \o Append(batch, e) \/ Queue' = F
      BY <1>1, <1>2, <2>1, <2>4, <3>1, FlushQueue, Zenon
    <3> QED BY <2>5, <2>6, <3>2, Zenon
  <2>8. CASE ~(Len(Append(batch, e)) >= BATCH_JOBS)
    <3>1. batch' = Append(batch, e) /\ jobq' = jobq /\ in_flight' = in_flight
      BY <1>5, <2>8, Zenon DEF Submit
    <3>2. \A w \in Workers : Outstanding(w)' = Outstanding(w)
      BY <1>2, <3>1, Zenon DEF Outstanding
    <3>3. InFlight' = InFlight
      BY <1>1, <1>2, <2>1, <3>1, <3>2, InFlightStays, Zenon
    <3>4. Queue' = F \o Append(batch, e)
      BY <1>2, <1>5, <3>1, <3>3, Zenon DEF Queue
    <3> QED BY <2>5, <3>4, Zenon
  <2> QED BY <2>7, <2>8, Zenon
<1> QED BY <1>4, <1>5, Zenon

\* Pipeline::collect hands the oldest jobs back, loses the batch it flushes, or does
\* nothing that the I/O thread sees.
LEMMA CollectTakes ==
  ASSUME PInv, PInv', Collect
  PROVE  OQ!Take \/ OQ!Lose \/ Stutter
<1> DEFINE F == Joined(InFlight)
<1>1. TypeOK /\ InTurn /\ Working /\ TypeOK' /\ InTurn'
  BY Zenon DEF PInv
<1>2. CASE CollectInline
  <2>1. /\ threads = 0 /\ threads' = 0 /\ submitted' = submitted
        /\ delivered' = delivered \o inline_done /\ inline_done' = <<>>
    BY <1>2, Zenon DEF CollectInline
  <2>2. Queue = inline_done /\ Queue' = <<>> /\ inline_done \in Seq(Job)
    BY <1>1, <2>1, Zenon DEF Queue, TypeOK
  <2>3. inline_done \o <<>> = inline_done /\ <<>> \in Seq(Job)
    BY <2>2
  <2>4. CASE inline_done # <<>>
    BY <2>1, <2>2, <2>3, <2>4, TakeFirst, Zenon
  <2>5. CASE inline_done = <<>>
    <3>1. delivered \o <<>> = delivered
      BY <1>1 DEF TypeOK
    <3> QED BY <2>1, <2>2, <2>5, <3>1, Zenon DEF Stutter
  <2> QED BY <2>4, <2>5, Zenon
<1>3. CASE CollectFlush
  <2>1. /\ threads > 0 /\ Flush(batch) /\ threads' = threads /\ submitted' = submitted
        /\ delivered' = delivered /\ next_collect' = next_collect /\ doneq' = doneq
        /\ wpc' = wpc /\ hold' = hold
    BY <1>3, Zenon DEF CollectFlush, workerVars
  <2>2. F \in Seq(Job) /\ batch \in Seq(Job)
    BY <1>1, <2>1, InFlightJobs, Zenon
  <2>3. threads # 0
    BY <1>1, <2>1 DEF TypeOK
  <2>4. Queue = F \o batch
    BY <2>3, Zenon DEF Queue
  <2>5. Queue' = F \o batch \/ Queue' = F
    BY <1>1, <2>1, <2>2, FlushQueue, Zenon
  <2>6. CASE Queue' = F \o batch
    BY <2>1, <2>4, <2>6, Zenon DEF Stutter
  <2>7. CASE Queue' = F /\ batch = <<>>
    <3>1. F \o <<>> = F
      BY <2>2, JobConcats, Zenon
    <3> QED BY <2>1, <2>4, <2>7, <3>1, Zenon DEF Stutter
  <2>8. CASE Queue' = F /\ batch # <<>>
    <3>1. Len(batch) <= BATCH_JOBS
      BY <1>1, <2>2, PipelineAssumption DEF TypeOK
    <3> HIDE DEF F
    <3> QED BY <2>1, <2>2, <2>4, <2>8, <3>1, LoseLast, Zenon
  <2> QED BY <2>5, <2>6, <2>7, <2>8, Zenon
<1>4. CASE CollectDrain \/ (CollectRecv /\ ~HeadReady)
  <2>1. /\ threads' = threads /\ submitted' = submitted /\ inline_done' = inline_done
        /\ batch' = batch /\ next_collect' = next_collect /\ in_flight' = in_flight
        /\ doneq' = doneq /\ jobq' = jobq /\ wpc' = wpc /\ hold' = hold
        /\ delivered' = delivered
    BY <1>4, Zenon DEF CollectDrain, CollectRecv, ioVars, workerVars
  <2> QED BY <1>1, <2>1, SameQueue, Zenon
<1>5. CASE CollectRecv /\ HeadReady
  <2> DEFINE h == Head(doneq[next_collect])
             T == Joined(Tail(InFlight))
  <2>1. /\ delivered' = delivered \o h /\ threads' = threads /\ submitted' = submitted
        /\ next_collect' = (next_collect + 1) % threads /\ in_flight' = in_flight - 1
        /\ doneq' = [doneq EXCEPT ![next_collect] = Tail(doneq[next_collect])]
        /\ wpc' = wpc /\ hold' = hold /\ jobq' = jobq /\ batch' = batch /\ io = "recv"
    BY <1>5, Zenon DEF CollectRecv
  <2>2. threads > 0
    BY <1>1, <2>1, Zenon DEF Working
  <2>3. InFlight # <<>> /\ Head(InFlight) = h /\ InFlight' = Tail(InFlight)
    BY <1>1, <1>5, <2>1, <2>2, InFlightTaken, Zenon
  <2>4. InFlight \in Seq(Seq(Job)) /\ batch \in Seq(Job) /\ delivered \in Seq(Job)
    BY <1>1, <2>2, InFlightIs, Zenon DEF TypeOK
  <2>5. Tail(InFlight) \in Seq(Seq(Job)) /\ Head(InFlight) \in Seq(Job)
    BY <2>3, <2>4
  <2>6. T \in Seq(Job) /\ h \in Seq(Job)
    BY <2>3, <2>5, JoinedTyped, Zenon
  <2>7. F = h \o T
    BY <2>3, <2>4, JoinedHead, Zenon
  <2>8. threads # 0 /\ threads' # 0
    BY <1>1, <2>1, <2>2 DEF TypeOK
  <2>9. Queue = F \o batch /\ Queue' = T \o batch
    BY <2>1, <2>3, <2>8, Zenon DEF Queue
  <2> HIDE DEF h, T, F
  <2>10. T \o batch \in Seq(Job) /\ (h \o T) \o batch = h \o (T \o batch)
    <3>1. T \o batch \in Seq(Job)
      BY <2>4, <2>6, JobConcats, Zenon
    <3>2. (h \o T) \o batch = h \o (T \o batch)
      BY <2>4, <2>6, JobConcats
    <3> QED BY <3>1, <3>2, Zenon
  <2>11. Queue = h \o (T \o batch)
    BY <2>7, <2>9, <2>10, Zenon
  <2>12. CASE h # <<>>
    <3> DEFINE g == T \o batch
    <3>1. g \in Seq(Job) /\ Queue = h \o g /\ Queue' = g
      BY <2>9, <2>10, <2>11, Zenon
    <3> HIDE DEF g
    <3> QED BY <2>1, <2>6, <2>12, <3>1, TakeFirst, Zenon
  <2>13. CASE h = <<>>
    <3>1. <<>> \o (T \o batch) = T \o batch
      BY <2>10, JobConcats, Zenon
    <3>2. delivered \o <<>> = delivered
      BY <2>4, JobConcats, Zenon
    <3> QED BY <2>1, <2>9, <2>11, <2>13, <3>1, <3>2, Zenon DEF Stutter
  <2> QED BY <2>12, <2>13, Zenon
<1> QED BY <1>2, <1>3, <1>4, <1>5, Zenon DEF Collect

\* The pipeline is built empty.
LEMMA QueueInit == Init => OQ!Init
<1> SUFFICES ASSUME Init PROVE OQ!Init
  BY Zenon
<1>1. in_flight = 0 /\ batch = <<>> /\ inline_done = <<>> /\ submitted = 0 /\ delivered = <<>>
  BY Zenon DEF Init
<1>2. InFlight = <<>>
  BY <1>1 DEF InFlight
<1>3. Joined(InFlight) \o batch = <<>>
  <2>1. <<>> \o <<>> = <<>>
    OBVIOUS
  <2> QED BY <1>1, <1>2, <2>1, JoinedEmpty, Zenon
<1> QED BY <1>1, <1>3, Zenon DEF OQ!Init

\* Every step of the I/O thread and of the workers is one of the queue, or none.
LEMMA QueueNext == PInv /\ PInv' /\ [Next]_vars => [OQ!Next]_(OQ!vars)
<1> SUFFICES ASSUME PInv, PInv', [Next]_vars PROVE OQ!Next \/ UNCHANGED OQ!vars
  BY Zenon
<1>1. TypeOK /\ InTurn /\ TypeOK' /\ InTurn'
  BY Zenon DEF PInv
<1>2. CASE Submit
  BY <1>2, SubmitPuts, Zenon DEF OQ!Next
<1>3. CASE Collect
  BY <1>3, CollectTakes, Stutters, Zenon DEF OQ!Next
<1>4. CASE PollWake \/ PollTimeout \/ EndRound \/ DropSenders \/ JoinAll \/ UNCHANGED vars
  <2>1. /\ threads' = threads /\ submitted' = submitted /\ inline_done' = inline_done
        /\ batch' = batch /\ next_collect' = next_collect /\ in_flight' = in_flight
        /\ doneq' = doneq /\ jobq' = jobq /\ wpc' = wpc /\ hold' = hold
        /\ delivered' = delivered
    BY <1>4, Zenon DEF PollWake, PollTimeout, EndRound, DropSenders, JoinAll, vars, ioVars,
                       workerVars
  <2> QED BY <1>1, <2>1, SameQueue, Stutters, Zenon
<1>5. ASSUME NEW v \in Workers, Worker(v) PROVE UNCHANGED OQ!vars
  <2>1. /\ threads' = threads /\ submitted' = submitted /\ inline_done' = inline_done
        /\ batch' = batch /\ next_collect' = next_collect /\ in_flight' = in_flight
        /\ delivered' = delivered
    BY <1>5, Zenon DEF Worker, WorkerRecv, WorkerSend, WorkerWake, WorkerExit, ioVars
  <2>2. \A w \in Workers : Outstanding(w)' = Outstanding(w)
    BY <1>1, <1>5, WorkerKeepsOrder, Zenon
  <2> QED BY <1>1, <2>1, <2>2, OrderKept, Stutters, Zenon
<1> QED BY <1>2, <1>3, <1>4, <1>5, Zenon DEF Next

\* Whatever the number of workers, the batch size and the queue depth, and whatever the
\* relative speed of the workers, the pipeline is a queue of jobs: results come back in the
\* order of submission, once each, and a full channel costs the youngest jobs only.
THEOREM PipelineIsAQueue == Spec => ImplementsOrderedQueue
<1> QED BY PipelineInvariant, QueueInit, QueueNext, PTL
       DEF Spec, ImplementsOrderedQueue, OQ!Spec
=============================================================================
