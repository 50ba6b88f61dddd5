---------------------------- MODULE ReplayFilter ----------------------------
(***************************************************************************)
(* What the anti-replay window promises: it behaves as if it remembered    *)
(* every sequence number accepted since the session began.  A number is    *)
(* accepted exactly when it was not accepted before and is less than one   *)
(* window older than the newest.  Number 0 is the exception: it may also   *)
(* be refused when it is new.                                              *)
(***************************************************************************)
EXTENDS Naturals

CONSTANTS W,   \* the size of the window
          Seq  \* the sequence numbers

VARIABLES newest,   \* the greatest number accepted, 0 before the first
          accepted, \* every number accepted in this session
          verdict   \* the number checked last and whether it was accepted

vars == <<newest, accepted, verdict>>

Init == newest = 0 /\ accepted = {} /\ verdict = [seq |-> 0, ok |-> FALSE]

Fresh(seq) == seq \notin accepted /\ newest < seq + W

Accept(seq) ==
  /\ Fresh(seq)
  /\ accepted' = accepted \cup {seq}
  /\ newest' = IF seq > newest THEN seq ELSE newest
  /\ verdict' = [seq |-> seq, ok |-> TRUE]

Reject(seq) ==
  /\ ~Fresh(seq) \/ seq = 0
  /\ verdict' = [seq |-> seq, ok |-> FALSE]
  /\ UNCHANGED <<newest, accepted>>

NewSession ==
  /\ newest' = 0
  /\ accepted' = {}
  /\ UNCHANGED verdict

Next == NewSession \/ \E seq \in Seq : Accept(seq) \/ Reject(seq)

Spec == Init /\ [][Next]_vars

=============================================================================
