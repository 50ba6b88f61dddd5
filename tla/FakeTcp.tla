------------------------------ MODULE FakeTcp ------------------------------
(***************************************************************************)
(* The TCP that a connection pretends to be (src/faketcp.rs, src/packet/   *)
(* tcp.rs, with the handshakes of src/client.rs and src/server.rs): the    *)
(* sequence and acknowledgement numbers that a client and a server put     *)
(* into the segments they exchange, from the SYN to the data, in each      *)
(* --seq-mode.  Numbers wrap around.                                       *)
(*                                                                         *)
(* A segment that was sent may arrive any number of times, in any order.   *)
(* A payload is decrypted by the pipeline: the headers of the next segment *)
(* may be taken in before the payload of the last one is accepted.  The    *)
(* ids of the handshake are here by the phase a handshake belongs to; what *)
(* they protect is the subject of module Session.                          *)
(***************************************************************************)
EXTENDS Integers, FiniteSets, Sequences

CONSTANTS
  Space,           \* 2^32
  MAX_DATA_LEN,
  Window,          \* RECEIVE_WINDOW_LOWER_BOUND, with or without WSCALE
  HandshakeLen,    \* length of an encrypted handshake
  Lengths,         \* lengths of encrypted packets
  Starts,          \* side -> random initial numbers
  SeqModes,
  MaxData,         \* bound on the packets sent when ready
  MaxJobs          \* bound on the packets in a pipeline

Repetitions == 3   \* of an acknowledgement that make the sender go back to it

Side == {"client", "server"}
Other(x) == IF x = "client" THEN "server" ELSE "client"

ASSUME FakeTcpAssumption ==
  /\ Space \in Nat \ {0} /\ MAX_DATA_LEN \in Nat /\ Window \in Nat \ {0}
  /\ HandshakeLen \in Nat /\ Lengths \subseteq 1 .. MAX_DATA_LEN
  /\ Starts \in [Side -> SUBSET (0 .. Space - 1)] /\ SeqModes \subseteq 0 .. 4
  /\ MaxData \in Nat /\ MaxJobs \in Nat
  \* what is sent fits well into the numbers
  /\ 2 * (1 + 2 * HandshakeLen + MaxData * MAX_DATA_LEN + Window) < Space

VARIABLES
  seq_mode,
  raw,        \* side -> RawInfo: [send, recv, reserved_send_seq]
  state,      \* side -> state of the connection
  fresh,      \* last_hb_sent_time = 0 at the client
  jobs,       \* side -> RecvMeta of the packets in the pipeline
  net,        \* segments that were sent
  sent,       \* packets sent when ready
  first, top  \* history: side -> the first number of its stream, and the end of
              \* what it has sent

vars == <<seq_mode, raw, state, fresh, jobs, net, sent, first, top>>

-----------------------------------------------------------------------------
(* Numbers.                                                                *)

Plus(n, d) == (n + d) % Space

larger_than(a, b) == (a - b) % Space \in 1 .. Space \div 2 - 1

-----------------------------------------------------------------------------
(* Segments, and what is done with the numbers when one is sent or         *)
(* received.                                                               *)

\* build_tcp with the numbers of send_info: kind stands for the flags and for what the
\* payload is.
Segment(x, kind, s, len) ==
  [from |-> x, kind |-> kind, seq |-> s.seq, ack_seq |-> s.ack_seq, len |-> len]

\* parse_tcp: what the receiver reads.
parse_tcp(p) == [seq |-> p.seq, ack_seq |-> p.ack_seq, len |-> p.len]

\* RecvMeta::from_recv: what goes with the payload through the pipeline.
RecvMeta(p) == [seq |-> parse_tcp(p).seq, len |-> parse_tcp(p).len]

\* peek: the SYN flag, which the server looks at before anything else.
peek_syn(p) == p.kind \in {"syn", "syn ack"}

\* parse_recv.  The seq and the data_len it leaves in recv_info are read in the same
\* handler only, and the counter is only compared with Repetitions.
parse_recv(r, p) ==
  LET t == parse_tcp(p) IN
  [r EXCEPT !.recv = [ack_seq |-> t.ack_seq,
                      ack_seq_counter |-> IF t.ack_seq # r.recv.ack_seq THEN 0
                                          ELSE IF r.recv.ack_seq_counter < Repetitions
                                          THEN r.recv.ack_seq_counter + 1 ELSE Repetitions]]

\* after_send in modes 3 and 4: back to what is acknowledged when the window is full,
\* at the third repetition, or when the other side has more.
NextSeq(r, seq) ==
  LET acked == r.recv.ack_seq
      inWindow == IF larger_than(Plus(seq, MAX_DATA_LEN), Plus(acked, Window)) THEN acked ELSE seq
      repeated == IF r.recv.ack_seq_counter >= Repetitions THEN acked ELSE inWindow
  IN  IF larger_than(acked, repeated) THEN acked ELSE repeated

\* Mutant: the stream goes on at the end of the window.
SkipToWindow(r, len, moved) ==
  [r EXCEPT !.send.seq =
     CASE seq_mode = 0 -> @
       [] seq_mode = 1 -> Plus(@, len)
       [] seq_mode = 2 -> IF moved THEN Plus(@, len) ELSE @
       [] OTHER -> Plus(r.recv.ack_seq, Window),
   !.recv.ack_seq_counter = IF seq_mode > 2 /\ @ >= Repetitions THEN 0 ELSE @]

\* after_send; in mode 2 whether the number moves is a random choice.
after_send(r, len, moved) ==
  LET seq == r.send.seq
      counter == r.recv.ack_seq_counter
      next == CASE seq_mode = 0 -> seq
                [] seq_mode = 1 -> Plus(seq, len)
                [] seq_mode = 2 -> IF moved THEN Plus(seq, len) ELSE seq
                [] OTHER -> NextSeq(r, Plus(seq, len))
  IN  [r EXCEPT !.send = [seq |-> next, ack_seq |-> r.send.ack_seq],
                !.recv = [ack_seq |-> r.recv.ack_seq,
                          ack_seq_counter |-> IF seq_mode > 2 /\ counter >= Repetitions
                                              THEN 0 ELSE counter]]

\* after_recv: the highest end, or in modes 3 and 4 the next segment only.
after_recv(r, meta) ==
  LET end == Plus(meta.seq, meta.len)
      taken == IF seq_mode <= 2 THEN larger_than(end, r.send.ack_seq)
               ELSE meta.seq = r.send.ack_seq
  IN  [r EXCEPT !.send.ack_seq = IF taken THEN end ELSE @]

\* The segments sent in one step by x, and how far the stream of x now goes.
Transmit(x, segments) ==
  LET ends == {Plus(p.seq, IF peek_syn(p) THEN 1 ELSE p.len) : p \in segments}
      farther == {e \in ends : larger_than(e, top[x])}
  IN  /\ net' = net \cup segments
      /\ top' = [top EXCEPT ![x] = IF farther = {} THEN @
                  ELSE CHOOSE e \in farther : \A f \in farther : ~larger_than(f, e)]

-----------------------------------------------------------------------------
(* The client.                                                             *)

Unchanged(x, r) == raw' = [raw EXCEPT ![x] = r]

\* on_timer, TcpHandshake: the numbers are drawn once, the SYN is sent again.
SendSyn ==
  /\ state["client"] = "tcp_handshake"
  /\ \E n \in IF fresh THEN Starts["client"] ELSE {raw["client"].send.seq} :
       LET r == [raw["client"] EXCEPT !.send.seq = n] IN
       /\ Unchanged("client", r)
       /\ net' = net \cup {Segment("client", "syn", r.send, 0)}
       /\ first' = [first EXCEPT !["client"] = n]
       /\ top' = [top EXCEPT !["client"] = Plus(n, 1)]
  /\ fresh' = FALSE
  /\ UNCHANGED <<seq_mode, state, jobs, sent>>

\* on_timer, Handshake1 and Handshake2, before the first copy of a handshake: the
\* numbers follow those of the segment that brought the client here.
TakeUp(r, next, p) ==
  IF next = "handshake1"
  THEN [r EXCEPT !.send = [seq |-> Plus(@.seq, 1), ack_seq |-> Plus(p.seq, 1)],
                 !.reserved_send_seq = Plus(r.send.seq, 1)]
  ELSE [r EXCEPT !.send.ack_seq = Plus(p.seq, p.len), !.reserved_send_seq = r.send.seq]

\* The handshake, before the first one also an empty ACK, and the step over it.
SendHandshake(r, next) ==
  LET hs == Segment("client", IF next = "handshake1" THEN "hs1" ELSE "hs2", r.send, HandshakeLen)
      ack == Segment("client", "ack", r.send, 0)
  IN  /\ Transmit("client", IF next = "handshake1" THEN {ack, hs} ELSE {hs})
      /\ raw' = [raw EXCEPT !["client"] = [r EXCEPT !.send.seq = Plus(@, HandshakeLen)]]

\* Mutant: no step over a copy.
RetryInPlace ==
  /\ state["client"] \in {"handshake1", "handshake2"}
  /\ raw' = [raw EXCEPT !["client"].send.seq = raw["client"].reserved_send_seq]
  /\ UNCHANGED <<seq_mode, state, fresh, jobs, net, sent, first, top>>

\* on_timer, Handshake1 and Handshake2, for a copy: back to the reserved number.
RetryHandshake ==
  /\ state["client"] \in {"handshake1", "handshake2"}
  /\ SendHandshake([raw["client"] EXCEPT !.send.seq = raw["client"].reserved_send_seq], state["client"])
  /\ UNCHANGED <<seq_mode, state, fresh, jobs, sent, first>>

\* The client goes on to the next state and calls on_timer.
Advance(r, next, p) ==
  /\ state' = [state EXCEPT !["client"] = next]
  /\ SendHandshake(TakeUp(r, next, p), next)
  /\ UNCHANGED jobs

\* A segment that changes no more than recv_info, or that goes to the pipeline.
TakeIn(x, p, r) ==
  /\ Unchanged(x, r)
  /\ jobs' = [jobs EXCEPT ![x] = IF p.kind = "safer" THEN Append(@, RecvMeta(p)) ELSE @]
  /\ UNCHANGED <<state, net, top>>

\* on_raw_packet, by state: the headers are taken in whatever follows.
ClientReceive(p) ==
  LET r == parse_recv(raw["client"], p)
      s == raw["client"].send
  IN  /\ p.from = "server" /\ ~fresh
      /\ \/ /\ state["client"] = "tcp_handshake"
            /\ p.kind = "syn ack" /\ p.ack_seq = Plus(s.seq, 1)
            /\ Advance(r, "handshake1", p)
         \/ /\ state["client"] = "handshake1"
            /\ p.kind = "reply" /\ p.ack_seq = s.seq /\ p.seq = s.ack_seq
            /\ Advance(r, "handshake2", p)
         \/ /\ CASE state["client"] = "tcp_handshake" -> ~(p.kind = "syn ack" /\ p.ack_seq = Plus(s.seq, 1))
                 [] state["client"] = "handshake1" ->
                      ~(p.kind = "reply" /\ p.ack_seq = s.seq /\ p.seq = s.ack_seq)
                 [] OTHER -> Len(jobs["client"]) < MaxJobs
            /\ TakeIn("client", p, r)
      /\ UNCHANGED <<seq_mode, fresh, sent, first>>

-----------------------------------------------------------------------------
(* The server, and both when they are ready.                               *)

\* The reply to a SYN while the connection is not ready.
ServerSyn(p) ==
  /\ p.from = "client" /\ peek_syn(p) /\ state["server"] # "ready"
  /\ \E n \in Starts["server"] :
       net' = net \cup {Segment("server", "syn ack", [seq |-> n, ack_seq |-> Plus(p.seq, 1)], 0)}
  /\ UNCHANGED <<seq_mode, raw, state, fresh, jobs, sent, first, top>>

\* sync_seq
sync_seq(r, p) ==
  [r EXCEPT !.send = [seq |-> p.ack_seq, ack_seq |-> Plus(p.seq, p.len)]]

\* on_handshake1, for a new address or in handshake1.
ServerHandshake(p) ==
  LET r == sync_seq(parse_recv(raw["server"], p), p)
      begun == [first EXCEPT !["server"] = r.send.seq]
  IN  /\ state["server"] # "ready" /\ Unchanged("server", r)
      /\ \/ /\ p.kind = "hs1"
            /\ state' = [state EXCEPT !["server"] = "handshake1"]
            /\ first' = IF state["server"] = "none" THEN begun ELSE first
            /\ net' = net \cup {Segment("server", "reply", r.send, HandshakeLen)}
            /\ top' = IF state["server"] = "none" \/ larger_than(Plus(r.send.seq, HandshakeLen), top["server"])
                      THEN [top EXCEPT !["server"] = Plus(r.send.seq, HandshakeLen)] ELSE top
         \/ /\ p.kind = "hs2" /\ state["server"] = "handshake1"
            /\ state' = [state EXCEPT !["server"] = "ready"]
            /\ UNCHANGED <<first, net, top>>
      /\ UNCHANGED <<seq_mode, fresh, jobs, sent>>

\* Any other segment of the client.
ServerReceive(p) ==
  /\ p.from = "client" /\ ~peek_syn(p)
  /\ IF state["server"] = "ready" THEN Len(jobs["server"]) < MaxJobs
     ELSE state["server"] = "handshake1" /\ p.kind = "ack"
  /\ TakeIn("server", p, parse_recv(raw["server"], p))
  /\ UNCHANGED <<seq_mode, fresh, sent, first>>

\* The pipeline is done with a packet and it is accepted.
Accept(x) ==
  /\ jobs[x] # <<>>
  /\ Unchanged(x, after_recv(raw[x], Head(jobs[x])))
  /\ jobs' = [jobs EXCEPT ![x] = Tail(@)]
  /\ state' = [state EXCEPT ![x] = "ready"]
  /\ UNCHANGED <<seq_mode, fresh, net, sent, first, top>>

\* transmit_safer
Send(x) ==
  /\ state[x] = "ready" /\ sent < MaxData
  /\ \E len \in Lengths, moved \in IF seq_mode = 2 THEN BOOLEAN ELSE {TRUE} :
       /\ Transmit(x, {Segment(x, "safer", raw[x].send, len)})
       /\ Unchanged(x, after_send(raw[x], len, moved))
  /\ sent' = sent + 1
  /\ UNCHANGED <<seq_mode, state, fresh, jobs, first>>

NewRaw ==
  [send |-> [seq |-> 0, ack_seq |-> 0],
   recv |-> [ack_seq |-> 0, ack_seq_counter |-> 0],
   reserved_send_seq |-> 0]

Init ==
  /\ seq_mode \in SeqModes
  /\ raw = [x \in Side |-> NewRaw]
  /\ state = [client |-> "tcp_handshake", server |-> "none"]
  /\ fresh = TRUE /\ jobs = [x \in Side |-> <<>>] /\ net = {}
  /\ sent = 0 /\ first = [x \in Side |-> 0] /\ top = [x \in Side |-> 0]

Deliver(kind) ==
  \E p \in net : p.kind = kind /\ (ClientReceive(p) \/ ServerSyn(p) \/ ServerHandshake(p) \/ ServerReceive(p))

Next ==
  \/ SendSyn \/ RetryHandshake
  \/ \E p \in net : ClientReceive(p) \/ ServerSyn(p) \/ ServerHandshake(p) \/ ServerReceive(p)
  \/ \E x \in Side : Accept(x) \/ Send(x)

\* The timer sends, the pipeline completes, and of the copies of a segment, which the
\* timer sends until the state changes, one arrives in the end.
Fairness ==
  /\ WF_vars(SendSyn)
  /\ \A x \in Side : WF_vars(Accept(x) \/ Send(x))
  /\ \A kind \in {"syn", "syn ack", "hs1", "reply", "hs2", "safer"} : WF_vars(Deliver(kind))

Spec == Init /\ [][Next]_vars /\ Fairness

-----------------------------------------------------------------------------

\* Whether a number lies in the stream of x, its end included.
In(n, x) == (n - first[x]) % Space <= (top[x] - first[x]) % Space

\* The numbers make sense to whoever follows the connection: no side sends a segment
\* that leaves a hole behind what it has sent, and none acknowledges what the other
\* has not sent, in any mode, in spite of repeated and reordered segments.
StreamsSound ==
  /\ ~fresh => In(raw["client"].send.seq, "client")
  /\ state["client"] \in {"handshake2", "ready"} => In(raw["client"].send.ack_seq, "server")
  /\ state["server"] # "none" =>
       In(raw["server"].send.seq, "server") /\ In(raw["server"].send.ack_seq, "client")

\* The client gets through the handshakes: a reply to any copy is as good as one to the
\* last.
Established == <>(state["client"] = "ready")

=============================================================================
