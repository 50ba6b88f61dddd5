----------------------------- MODULE AntiReplay -----------------------------
(***************************************************************************)
(* The anti-replay window of src/anti_replay.rs, receive side, when it is  *)
(* not disabled (then is_valid answers true and touches nothing).          *)
(*                                                                         *)
(* The window is a ring of ANTI_REPLAY_WINDOW_SIZE flags indexed by        *)
(* seq % size.  re_init, called for every new session, resets the newest   *)
(* number but not the flags, so a session starts on the stale flags of the *)
(* one before.  Sequence numbers are u64; no operation on them leaves that *)
(* range (differences are taken the right way round and max + 1 <= seq),   *)
(* so they are naturals here.                                              *)
(***************************************************************************)
EXTENDS Naturals

CONSTANTS ANTI_REPLAY_WINDOW_SIZE,
          MaxSeq        \* bound on the sequence numbers

ASSUME WindowAssumption ==
  ANTI_REPLAY_WINDOW_SIZE \in Nat \ {0} /\ MaxSeq \in Nat

W == ANTI_REPLAY_WINDOW_SIZE
SeqNo == 0 .. MaxSeq

VARIABLES max_packet_received, window,
          accepted,  \* history: the numbers accepted since re_init
          verdict    \* the argument and the result of the last is_valid

WindowVars == <<max_packet_received, window, accepted, verdict>>

WindowInit ==
  /\ max_packet_received = 0
  /\ window = [k \in 0 .. W - 1 |-> 0]
  /\ accepted = {}
  /\ verdict = [seq |-> 0, ok |-> FALSE]

re_init ==
  /\ max_packet_received' = 0
  /\ accepted' = {}
  /\ UNCHANGED <<window, verdict>>

Verdict(seq, ok) ==
  /\ verdict' = [seq |-> seq, ok |-> ok]
  /\ accepted' = IF ok THEN accepted \cup {seq} ELSE accepted

\* Mutant: the flags between the old and the new maximum stay.
AdvanceMarksOnly(seq) == [window EXCEPT ![seq % W] = 1]

\* The ring after the window has moved up to seq: the flags of the numbers
\* passed over are cleared, all of them after a jump of a window or more.
Advance(seq) ==
  LET passed == max_packet_received + 1 .. seq - 1 IN
  [k \in 0 .. W - 1 |->
     IF k = seq % W THEN 1
     ELSE IF seq - max_packet_received >= W \/ \E i \in passed : i % W = k THEN 0
     ELSE window[k]]

\* Mutant: the maximum is one ahead.
NewerOffByOne(seq) ==
  /\ seq > max_packet_received
  /\ window' = Advance(seq)
  /\ max_packet_received' = seq + 1
  /\ Verdict(seq, TRUE)

Newer(seq) ==
  /\ seq > max_packet_received
  /\ window' = Advance(seq)
  /\ max_packet_received' = seq
  /\ Verdict(seq, TRUE)

\* Mutant: a late packet leaves no mark.
LateNoMark(seq) ==
  /\ seq < max_packet_received
  /\ max_packet_received - seq < W
  /\ window[seq % W] # 1
  /\ Verdict(seq, TRUE)
  /\ UNCHANGED <<max_packet_received, window>>

\* A number inside the window whose flag is not set.
Late(seq) ==
  /\ seq < max_packet_received
  /\ max_packet_received - seq < W
  /\ window[seq % W] # 1
  /\ window' = [window EXCEPT ![seq % W] = 1]
  /\ Verdict(seq, TRUE)
  /\ UNCHANGED max_packet_received

\* The newest number again, one too old, or one whose flag is set.
Refused(seq) ==
  /\ \/ seq = max_packet_received
     \/ seq < max_packet_received /\ max_packet_received - seq >= W
     \/ seq < max_packet_received /\ window[seq % W] = 1
  /\ Verdict(seq, FALSE)
  /\ UNCHANGED <<max_packet_received, window>>

is_valid(seq) == Newer(seq) \/ Late(seq) \/ Refused(seq)

WindowNext == re_init \/ \E seq \in SeqNo : is_valid(seq)

WindowSpec == WindowInit /\ [][WindowNext]_WindowVars

-----------------------------------------------------------------------------
(* Properties.                                                             *)

TypeOK ==
  /\ max_packet_received \in SeqNo
  /\ window \in [0 .. W - 1 -> {0, 1}]
  /\ accepted \subseteq SeqNo
  /\ verdict \in [seq : SeqNo, ok : BOOLEAN]

\* The flag of every number of the current window, 0 apart, says whether that
\* number was accepted in this session: no flag of an earlier session or of an
\* earlier turn of the ring is left where is_valid looks.
WindowExact ==
  /\ \A q \in accepted : q <= max_packet_received
  /\ IF max_packet_received > 0 THEN max_packet_received \in accepted ELSE accepted = {}
  /\ \A q \in SeqNo :
       q <= max_packet_received /\ max_packet_received < q + W
         /\ max_packet_received > 0 =>
         /\ q \in accepted => window[q % W] = 1
         /\ q > 0 /\ window[q % W] = 1 => q \in accepted

RF == INSTANCE ReplayFilter WITH
        Seq <- SeqNo, newest <- max_packet_received

\* The ring of flags answers as a memory of everything accepted would: a packet
\* is accepted at most once per session, and a packet that was not accepted yet
\* and is not a window older than the newest is accepted, whatever the order,
\* duplication and loss of packets and whatever flags the previous session left.
ImplementsReplayFilter == RF!Spec

=============================================================================
