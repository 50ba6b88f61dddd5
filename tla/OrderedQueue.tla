---------------------------- MODULE OrderedQueue ----------------------------
(***************************************************************************)
(* What src/pipeline.rs promises its caller, the I/O thread: a queue of    *)
(* jobs.  Jobs enter in submission order, results leave in that same order *)
(* and once each; under overload the youngest jobs (one batch at most) are *)
(* given up, never a job that an accepted younger job has overtaken.       *)
(***************************************************************************)
EXTENDS Naturals, Sequences

CONSTANT BATCH_JOBS

VARIABLES
  submitted,  \* number of jobs submitted; jobs are numbered from 1
  queue,      \* accepted jobs whose results have not been handed back
  delivered   \* jobs whose results were handed back, oldest first

vars == <<submitted, queue, delivered>>

Init ==
  /\ submitted = 0
  /\ queue = <<>>
  /\ delivered = <<>>

\* A job enters; the batch it completes may have to be given up.
Put ==
  /\ submitted' = submitted + 1
  /\ \E lost \in 0 .. BATCH_JOBS :
       /\ lost <= Len(queue) + 1
       /\ queue' = SubSeq(Append(queue, submitted'), 1, Len(queue) + 1 - lost)
  /\ UNCHANGED delivered

\* Flushing a partial batch into a full worker queue gives that batch up.
Lose ==
  /\ \E lost \in 1 .. BATCH_JOBS :
       /\ lost <= Len(queue)
       /\ queue' = SubSeq(queue, 1, Len(queue) - lost)
  /\ UNCHANGED <<submitted, delivered>>

\* The results of the oldest jobs are handed back.
Take ==
  /\ \E n \in 1 .. Len(queue) :
       /\ delivered' = delivered \o SubSeq(queue, 1, n)
       /\ queue' = SubSeq(queue, n + 1, Len(queue))
  /\ UNCHANGED submitted

Next == Put \/ Lose \/ Take

Spec == Init /\ [][Next]_vars

=============================================================================
