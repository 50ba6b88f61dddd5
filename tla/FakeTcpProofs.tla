--------------------------- MODULE FakeTcpProofs ---------------------------
(***************************************************************************)
(* Proofs about FakeTcp, for every size of the numbers, every length and   *)
(* window, and every mode.                                                 *)
(***************************************************************************)
EXTENDS FakeTcp, TLAPS

USE SMTT(30)

-----------------------------------------------------------------------------
(* Numbers that wrap around.                                               *)

Number == 0 .. Space - 1

\* How far the number n is past f.
Past(n, f) == (n - f) % Space

\* The distance of two numbers, without the remainder.
LEMMA PastCases ==
  ASSUME NEW n \in Number, NEW f \in Number
  PROVE  /\ Past(n, f) \in Number
         /\ n >= f => Past(n, f) = n - f
         /\ n < f => Past(n, f) = n - f + Space
<1>1. Space \in Nat \ {0}
  BY Zenon, FakeTcpAssumption
<1>2. CASE n >= f
  BY <1>1, <1>2 DEF Past, Number
<1>3. CASE n < f
  BY <1>1, <1>3 DEF Past, Number
<1> QED BY <1>1, <1>2, <1>3 DEF Number

\* The sum of a number and a length.
LEMMA PlusCases ==
  ASSUME NEW n \in Number, NEW d \in Nat, d < Space
  PROVE  /\ Plus(n, d) \in Number
         /\ n + d < Space => Plus(n, d) = n + d
         /\ n + d >= Space => Plus(n, d) = n + d - Space
<1>1. Space \in Nat \ {0}
  BY Zenon, FakeTcpAssumption
<1>2. CASE n + d < Space
  BY <1>1, <1>2 DEF Plus, Number
<1>3. CASE n + d >= Space
  BY <1>1, <1>3 DEF Plus, Number
<1> QED BY <1>1, <1>2, <1>3 DEF Number

\* A step of d inside the space goes d farther.
LEMMA PastPlus ==
  ASSUME NEW n \in Number, NEW f \in Number, NEW d \in Nat, Past(n, f) + d < Space
  PROVE  Plus(n, d) \in Number /\ Past(Plus(n, d), f) = Past(n, f) + d
<1> DEFINE m == Plus(n, d)
<1>1. Space \in Nat \ {0}
  BY Zenon, FakeTcpAssumption
<1>2. Past(n, f) \in Number /\ (n >= f => Past(n, f) = n - f)
      /\ (n < f => Past(n, f) = n - f + Space)
  BY Zenon, PastCases
<1>3. d < Space
  BY <1>1, <1>2 DEF Number
<1>4. m \in Number /\ (n + d < Space => m = n + d) /\ (n + d >= Space => m = n + d - Space)
  BY Zenon, <1>3, PlusCases
<1> HIDE DEF m
<1>5. (m >= f => Past(m, f) = m - f) /\ (m < f => Past(m, f) = m - f + Space)
  BY Zenon, <1>4, PastCases
<1>6. Past(m, f) = Past(n, f) + d
  BY <1>1, <1>2, <1>4, <1>5 DEF Number
<1> QED BY Zenon, <1>4, <1>6 DEF m

\* Among numbers that are near f the comparison is the one of the distances.
LEMMA LargerPast ==
  ASSUME NEW a \in Number, NEW b \in Number, NEW f \in Number,
         2 * Past(a, f) + 2 <= Space, 2 * Past(b, f) + 2 <= Space
  PROVE  larger_than(a, b) <=> Past(a, f) > Past(b, f)
<1>1. Space \in Nat \ {0}
  BY Zenon, FakeTcpAssumption
<1>2. larger_than(a, b) <=> Past(a, b) \in 1 .. Space \div 2 - 1
  BY Zenon DEF larger_than, Past
<1>3. Past(a, f) \in Number /\ (a >= f => Past(a, f) = a - f)
      /\ (a < f => Past(a, f) = a - f + Space)
  BY Zenon, PastCases
<1>4. Past(b, f) \in Number /\ (b >= f => Past(b, f) = b - f)
      /\ (b < f => Past(b, f) = b - f + Space)
  BY Zenon, PastCases
<1>5. Past(a, b) \in Number /\ (a >= b => Past(a, b) = a - b)
      /\ (a < b => Past(a, b) = a - b + Space)
  BY Zenon, PastCases
<1>6. CASE Past(a, f) > Past(b, f)
  <2>1. Past(a, b) = Past(a, f) - Past(b, f)
    BY <1>1, <1>3, <1>4, <1>5, <1>6 DEF Number
  <2>2. Space \div 2 \in Nat /\ 2 * (Space \div 2) + 1 >= Space
    BY <1>1
  <2> QED BY <1>1, <1>2, <1>3, <1>4, <1>6, <2>1, <2>2 DEF Number
<1>7. CASE ~(Past(a, f) > Past(b, f))
  <2>1. Past(a, b) = 0 \/ Past(a, b) = Past(a, f) - Past(b, f) + Space
    BY <1>1, <1>3, <1>4, <1>5, <1>7 DEF Number
  <2>2. Space \div 2 \in Nat /\ 2 * (Space \div 2) <= Space
    BY <1>1
  <2> QED BY <1>1, <1>2, <1>3, <1>4, <1>7, <2>1, <2>2 DEF Number
<1> QED BY Zenon, <1>6, <1>7

-----------------------------------------------------------------------------
(* The invariant.                                                          *)

RawInfo ==
  [send : [seq : Number, ack_seq : Number],
   recv : [ack_seq : Number, ack_seq_counter : 0 .. Repetitions],
   reserved_send_seq : Number]

Segments ==
  [from : Side, kind : {"syn", "syn ack", "ack", "hs1", "reply", "hs2", "safer"},
   seq : Number, ack_seq : Number, len : Nat]

Metas == [seq : Number, len : Nat]

Typed ==
  /\ seq_mode \in SeqModes
  /\ raw \in [Side -> RawInfo]
  /\ state \in [Side -> {"tcp_handshake", "none", "handshake1", "handshake2", "ready"}]
  /\ fresh \in BOOLEAN
  /\ jobs \in [Side -> Seq(Metas)]
  /\ net \subseteq Segments
  /\ sent \in 0 .. MaxData
  /\ first \in [Side -> Number]
  /\ top \in [Side -> Number]

\* The number n lies in the stream of x, the end included, and the segment or payload p
\* ends in it.
Reached(n, x) == Past(n, first[x]) <= Past(top[x], first[x])
Within(p, x) == Past(p.seq, first[x]) + p.len <= Past(top[x], first[x])

\* The streams never get half around the numbers.
Short ==
  /\ ~fresh => /\ 1 <= Past(top["client"], first["client"])
               /\ Past(top["client"], first["client"])
                    <= 1 + 2 * HandshakeLen + sent * MAX_DATA_LEN
  /\ state["server"] # "none" =>
       Past(top["server"], first["server"]) <= HandshakeLen + sent * MAX_DATA_LEN

\* Who has got how far, and which segments there can be then.
Progress ==
  /\ fresh => net = {} /\ state["client"] = "tcp_handshake"
  /\ state["client"] \in {"tcp_handshake", "handshake1", "handshake2", "ready"}
  /\ state["server"] \in {"none", "handshake1", "ready"}
  /\ state["client"] = "tcp_handshake" =>
       /\ state["server"] = "none"
       /\ \A p \in net : p.kind \in {"syn", "syn ack"}
  /\ state["client"] \in {"tcp_handshake", "handshake1"} =>
       /\ state["server"] # "ready" /\ jobs["client"] = <<>>
       /\ \A p \in net : p.kind \notin {"hs2", "safer"}
  /\ state["server"] = "none" => state["client"] \in {"tcp_handshake", "handshake1"}
  /\ state["server"] # "ready" => jobs["server"] = <<>>

\* The numbers of the client's handshakes.
Handshaking ==
  /\ state["client"] = "tcp_handshake" /\ ~fresh =>
       /\ raw["client"].send.seq = first["client"]
       /\ top["client"] = Plus(first["client"], 1)
  /\ state["client"] = "handshake1" =>
       /\ Past(raw["client"].send.seq, first["client"]) <= 1 + HandshakeLen
       /\ Past(raw["client"].reserved_send_seq, first["client"]) = 1
  /\ state["client"] = "handshake2" =>
       Past(raw["client"].reserved_send_seq, first["client"]) <= 1 + HandshakeLen

\* The server takes over the numbers of the client's first handshake, which names the
\* same ones in all its copies.
Opening ==
  /\ state["server"] = "none" => \A p \in net :
       /\ p.kind # "reply"
       /\ p.kind \in {"ack", "hs1"} => p.ack_seq = raw["client"].send.ack_seq
  /\ state["server"] # "none" => \A p \in net : p.kind = "hs1" => p.ack_seq = first["server"]
  /\ state["server"] # "none" /\ state["client"] = "handshake1" =>
       raw["client"].send.ack_seq = first["server"]

\* Every segment, on its way or in a pipeline, lies in the stream of its sender and
\* acknowledges what the other side has sent.
ClientOk(p) ==
  /\ p.kind \in {"syn", "ack", "hs1", "hs2", "safer"}
  /\ p.kind = "syn" => p.seq = first["client"]
  /\ p.kind # "syn" => Within(p, "client")
  /\ p.kind # "syn" /\ state["server"] # "none" => Reached(p.ack_seq, "server")

ServerOk(p) ==
  /\ p.kind \in {"syn ack", "reply", "safer"}
  /\ Reached(p.ack_seq, "client")
  /\ p.kind # "syn ack" => Within(p, "server")

Sound ==
  /\ \A p \in net : p.from = "client" => ClientOk(p)
  /\ \A p \in net : p.from = "server" => ServerOk(p)
  /\ \A x \in Side : \A i \in 1 .. Len(jobs[x]) : Within(jobs[x][i], Other(x))

\* What was acknowledged, to which a sender may go back.
Acked ==
  /\ state["client"] # "tcp_handshake" => Reached(raw["client"].recv.ack_seq, "client")
  /\ state["server"] # "none" => Reached(raw["server"].recv.ack_seq, "server")

Streams ==
  /\ ~fresh => Reached(raw["client"].send.seq, "client")
  /\ state["client"] \in {"handshake2", "ready"} =>
       Reached(raw["client"].send.ack_seq, "server")
  /\ state["server"] # "none" =>
       /\ Reached(raw["server"].send.seq, "server")
       /\ Reached(raw["server"].send.ack_seq, "client")

FInv ==
  Typed /\ Short /\ Progress /\ Handshaking /\ Opening /\ Sound /\ Acked /\ Streams

\* The invariant says what StreamsSound says.
LEMMA StreamsFollow == Streams => StreamsSound
  BY Zenon DEF Streams, StreamsSound, Reached, In, Past

-----------------------------------------------------------------------------
(* What the operations on the numbers do.                                  *)

\* Past as a natural number.
LEMMA PastNat ==
  ASSUME NEW n \in Number, NEW f \in Number
  PROVE  Past(n, f) \in Nat /\ Past(n, f) < Space /\ Past(f, f) = 0
<1>1. Space \in Nat \ {0}
  BY Zenon, FakeTcpAssumption
<1>2. Past(n, f) \in Number
  BY Zenon, PastCases
<1>3. f >= f => Past(f, f) = f - f
  BY Zenon, PastCases
<1> HIDE DEF Past
<1> QED BY <1>1, <1>2, <1>3 DEF Number

\* All that may ever be sent is less than half the numbers.
LEMMA Room ==
  ASSUME Typed
  PROVE  LET m == 1 + 2 * HandshakeLen + sent * MAX_DATA_LEN IN
         /\ m \in Nat /\ 2 * m + 2 <= Space
         /\ sent < MaxData => 2 * (m + MAX_DATA_LEN) + 2 <= Space
<1>1. /\ Space \in Nat /\ MAX_DATA_LEN \in Nat /\ Window \in Nat \ {0} /\ HandshakeLen \in Nat
      /\ MaxData \in Nat /\ 2 * (1 + 2 * HandshakeLen + MaxData * MAX_DATA_LEN + Window) < Space
  BY Zenon, FakeTcpAssumption
<1>2. sent \in Nat /\ sent <= MaxData
  BY <1>1 DEF Typed
<1>3. ASSUME NEW i \in Nat, NEW j \in Nat, i <= j
      PROVE  i * MAX_DATA_LEN <= j * MAX_DATA_LEN /\ i * MAX_DATA_LEN \in Nat
  BY <1>1, <1>3
<1>4. sent * MAX_DATA_LEN <= MaxData * MAX_DATA_LEN /\ sent * MAX_DATA_LEN \in Nat
      /\ MaxData * MAX_DATA_LEN \in Nat
  BY <1>1, <1>2, <1>3
<1>5. sent < MaxData => sent * MAX_DATA_LEN + MAX_DATA_LEN <= MaxData * MAX_DATA_LEN
  <2>1. (sent + 1) * MAX_DATA_LEN = sent * MAX_DATA_LEN + MAX_DATA_LEN
    BY <1>1, <1>2
  <2>2. sent < MaxData => (sent + 1) * MAX_DATA_LEN <= MaxData * MAX_DATA_LEN
    BY <1>1, <1>2, <1>3
  <2> QED BY Zenon, <2>1, <2>2
<1> DEFINE k == sent * MAX_DATA_LEN  l == MaxData * MAX_DATA_LEN
<1> HIDE DEF k, l
<1>6. k \in Nat /\ l \in Nat /\ k <= l /\ (sent < MaxData => k + MAX_DATA_LEN <= l)
      /\ 2 * (1 + 2 * HandshakeLen + l + Window) < Space
  BY Zenon, <1>1, <1>4, <1>5 DEF k, l
<1> QED BY <1>1, <1>6 DEF k

\* parse_recv changes recv_info alone.
LEMMA ParseRecv ==
  ASSUME NEW r \in RawInfo, NEW p \in Segments
  PROVE  LET q == parse_recv(r, p) IN
         /\ q \in RawInfo /\ q.send = r.send /\ q.reserved_send_seq = r.reserved_send_seq
         /\ q.recv.ack_seq = p.ack_seq
<1> DEFINE n == IF p.ack_seq # r.recv.ack_seq THEN 0
                ELSE IF r.recv.ack_seq_counter < Repetitions
                     THEN r.recv.ack_seq_counter + 1 ELSE Repetitions
           v == [ack_seq |-> p.ack_seq, ack_seq_counter |-> n]
<1>1. parse_recv(r, p) = [r EXCEPT !.recv = v]
  BY Zenon DEF parse_recv, parse_tcp
<1>2. n \in 0 .. Repetitions /\ p.ack_seq \in Number
  <2>1. r.recv \in [ack_seq : Number, ack_seq_counter : 0 .. Repetitions]
        /\ p.ack_seq \in Number
    BY Zenon DEF RawInfo, Segments
  <2>2. r.recv.ack_seq_counter \in 0 .. 3
    BY Zenon, <2>1 DEF Repetitions
  <2> QED BY <2>1, <2>2 DEF Repetitions
<1> HIDE DEF n
<1>3. v \in [ack_seq : Number, ack_seq_counter : 0 .. Repetitions] /\ v.ack_seq = p.ack_seq
  BY Zenon, <1>2
<1> HIDE DEF v
<1> QED BY Zenon, <1>1, <1>3 DEF RawInfo

\* A change of the number the next segment gets.
LEMMA SetSeq ==
  ASSUME NEW r \in RawInfo, NEW n \in Number
  PROVE  LET q == [r EXCEPT !.send.seq = n] IN
         /\ q \in RawInfo /\ q.send.seq = n /\ q.send.ack_seq = r.send.ack_seq
         /\ q.recv = r.recv /\ q.reserved_send_seq = r.reserved_send_seq
<1> DEFINE v == [r.send EXCEPT !.seq = n]
<1>1. v \in [seq : Number, ack_seq : Number] /\ v.seq = n /\ v.ack_seq = r.send.ack_seq
  BY Zenon DEF RawInfo
<1>2. [r EXCEPT !.send.seq = n] = [r EXCEPT !.send = v]
  BY Zenon
<1> HIDE DEF v
<1> QED BY Zenon, <1>1, <1>2 DEF RawInfo

\* after_send: the next number is the old one, the one after the segment, or what is
\* acknowledged.
LEMMA AfterSend ==
  ASSUME NEW r \in RawInfo, NEW len \in Nat, NEW moved \in BOOLEAN, seq_mode \in SeqModes,
         Plus(r.send.seq, len) \in Number
  PROVE  LET q == after_send(r, len, moved) IN
         /\ q \in RawInfo /\ q.send.ack_seq = r.send.ack_seq
         /\ q.reserved_send_seq = r.reserved_send_seq /\ q.recv.ack_seq = r.recv.ack_seq
         /\ q.send.seq \in {r.send.seq, Plus(r.send.seq, len), r.recv.ack_seq}
<1> DEFINE n == CASE seq_mode = 0 -> r.send.seq
                  [] seq_mode = 1 -> Plus(r.send.seq, len)
                  [] seq_mode = 2 -> IF moved THEN Plus(r.send.seq, len) ELSE r.send.seq
                  [] OTHER -> NextSeq(r, Plus(r.send.seq, len))
           c == IF seq_mode > 2 /\ r.recv.ack_seq_counter >= Repetitions THEN 0
                ELSE r.recv.ack_seq_counter
           s == [seq |-> n, ack_seq |-> r.send.ack_seq]
           v == [ack_seq |-> r.recv.ack_seq, ack_seq_counter |-> c]
<1>1. /\ r.send \in [seq : Number, ack_seq : Number]
      /\ r.recv \in [ack_seq : Number, ack_seq_counter : 0 .. Repetitions]
  BY Zenon DEF RawInfo
<1>2. \A m : NextSeq(r, m) \in {m, r.recv.ack_seq}
  BY Zenon DEF NextSeq
<1>3. n \in {r.send.seq, Plus(r.send.seq, len), r.recv.ack_seq}
  BY Zenon, <1>2
<1>4. n \in Number
  BY Zenon, <1>1, <1>3
<1>5. c \in 0 .. Repetitions
  BY <1>1 DEF Repetitions
<1>6. after_send(r, len, moved) = [r EXCEPT !.send = s, !.recv = v]
  BY Zenon DEF after_send
<1> HIDE DEF n, c
<1>7. s \in [seq : Number, ack_seq : Number] /\ s.seq = n /\ s.ack_seq = r.send.ack_seq
  BY Zenon, <1>1, <1>4
<1>8. v \in [ack_seq : Number, ack_seq_counter : 0 .. Repetitions]
      /\ v.ack_seq = r.recv.ack_seq
  BY Zenon, <1>1, <1>5
<1> HIDE DEF s, v
<1> QED BY Zenon, <1>3, <1>6, <1>7, <1>8 DEF RawInfo

\* after_recv: what is acknowledged stays, or becomes the end of the packet.
LEMMA AfterRecv ==
  ASSUME NEW r \in RawInfo, NEW meta, Plus(meta.seq, meta.len) \in Number
  PROVE  LET q == after_recv(r, meta) IN
         /\ q \in RawInfo /\ q.send.seq = r.send.seq /\ q.recv = r.recv
         /\ q.reserved_send_seq = r.reserved_send_seq
         /\ q.send.ack_seq \in {r.send.ack_seq, Plus(meta.seq, meta.len)}
<1> DEFINE taken == IF seq_mode <= 2
                    THEN larger_than(Plus(meta.seq, meta.len), r.send.ack_seq)
                    ELSE meta.seq = r.send.ack_seq
           n == IF taken THEN Plus(meta.seq, meta.len) ELSE r.send.ack_seq
           s == [r.send EXCEPT !.ack_seq = n]
<1>1. r.send \in [seq : Number, ack_seq : Number]
  BY Zenon DEF RawInfo
<1>2. n \in {r.send.ack_seq, Plus(meta.seq, meta.len)}
  BY Zenon
<1>3. after_recv(r, meta) = [r EXCEPT !.send = s]
  BY Zenon DEF after_recv
<1> HIDE DEF n
<1>4. s \in [seq : Number, ack_seq : Number] /\ s.seq = r.send.seq /\ s.ack_seq = n
  BY Zenon, <1>1, <1>2
<1> HIDE DEF s
<1> QED BY Zenon, <1>2, <1>3, <1>4 DEF RawInfo

\* sync_seq: the server goes on where the client's segment says.
LEMMA SyncSeq ==
  ASSUME NEW r \in RawInfo, NEW p \in Segments, Plus(p.seq, p.len) \in Number
  PROVE  LET q == sync_seq(r, p) IN
         /\ q \in RawInfo /\ q.recv = r.recv
         /\ q.send.seq = p.ack_seq /\ q.send.ack_seq = Plus(p.seq, p.len)
<1> DEFINE s == [seq |-> p.ack_seq, ack_seq |-> Plus(p.seq, p.len)]
<1>0. p.ack_seq \in Number
  BY Zenon DEF Segments
<1>1. s \in [seq : Number, ack_seq : Number] /\ s.seq = p.ack_seq
      /\ s.ack_seq = Plus(p.seq, p.len)
  BY Zenon, <1>0
<1>2. sync_seq(r, p) = [r EXCEPT !.send = s]
  BY Zenon DEF sync_seq
<1> HIDE DEF s
<1> QED BY Zenon, <1>1, <1>2 DEF RawInfo

\* TakeUp, after the SYN-ACK and after the reply.
LEMMA TakeUpFirst ==
  ASSUME NEW r \in RawInfo, NEW p \in Segments, Plus(r.send.seq, 1) \in Number,
         Plus(p.seq, 1) \in Number
  PROVE  LET q == TakeUp(r, "handshake1", p) IN
         /\ q \in RawInfo /\ q.recv = r.recv
         /\ q.send.seq = Plus(r.send.seq, 1) /\ q.send.ack_seq = Plus(p.seq, 1)
         /\ q.reserved_send_seq = Plus(r.send.seq, 1)
<1> DEFINE s == [seq |-> Plus(r.send.seq, 1), ack_seq |-> Plus(p.seq, 1)]
<1>1. s \in [seq : Number, ack_seq : Number] /\ s.seq = Plus(r.send.seq, 1)
      /\ s.ack_seq = Plus(p.seq, 1)
  BY Zenon
<1>2. TakeUp(r, "handshake1", p)
        = [r EXCEPT !.send = s, !.reserved_send_seq = Plus(r.send.seq, 1)]
  BY Zenon DEF TakeUp
<1> HIDE DEF s
<1> QED BY Zenon, <1>1, <1>2 DEF RawInfo

\* The same after the reply.
LEMMA TakeUpSecond ==
  ASSUME NEW r \in RawInfo, NEW p \in Segments, Plus(p.seq, p.len) \in Number
  PROVE  LET q == TakeUp(r, "handshake2", p) IN
         /\ q \in RawInfo /\ q.recv = r.recv
         /\ q.send.seq = r.send.seq /\ q.send.ack_seq = Plus(p.seq, p.len)
         /\ q.reserved_send_seq = r.send.seq
<1> DEFINE s == [r.send EXCEPT !.ack_seq = Plus(p.seq, p.len)]
<1>0. r.send \in [seq : Number, ack_seq : Number]
  BY Zenon DEF RawInfo
<1>1. s \in [seq : Number, ack_seq : Number] /\ s.seq = r.send.seq
      /\ s.ack_seq = Plus(p.seq, p.len)
  BY Zenon, <1>0
<1>2. TakeUp(r, "handshake2", p)
        = [r EXCEPT !.send = s, !.reserved_send_seq = r.send.seq]
  BY Zenon DEF TakeUp
<1>3. r.send.seq \in Number
  BY Zenon, <1>0
<1> HIDE DEF s
<1> QED BY Zenon, <1>1, <1>2, <1>3 DEF RawInfo

\* What Transmit does with one or two segments that fit: the stream of x gets as long as
\* they need and no longer than m.
LEMMA Transmitted ==
  ASSUME Typed, NEW x \in Side, NEW p \in Segments, NEW q \in Segments,
         Transmit(x, {p, q}), ~peek_syn(p), ~peek_syn(q),
         NEW m \in Nat, 2 * m + 2 <= Space,
         Past(top[x], first[x]) <= m,
         Past(p.seq, first[x]) + p.len <= m, Past(q.seq, first[x]) + q.len <= m
  PROVE  /\ net' = net \cup {p, q}
         /\ top' \in [Side -> Number]
         /\ \A y \in Side \ {x} : top'[y] = top[y]
         /\ Past(top[x], first[x]) <= Past(top'[x], first[x])
         /\ Past(top'[x], first[x]) <= m
         /\ Past(p.seq, first[x]) + p.len <= Past(top'[x], first[x])
         /\ Past(q.seq, first[x]) + q.len <= Past(top'[x], first[x])
<1> DEFINE f == first[x]  t == top[x]
           d == Plus(p.seq, p.len)  e == Plus(q.seq, q.len)
           farther == {g \in {d, e} : larger_than(g, t)}
           u == IF farther = {} THEN t
                ELSE CHOOSE g \in farther : \A h \in farther : ~larger_than(h, g)
<1>1. /\ f \in Number /\ t \in Number /\ top \in [Side -> Number] /\ Space \in Nat
      /\ p.seq \in Number /\ p.len \in Nat /\ q.seq \in Number /\ q.len \in Nat
  <2>1. first \in [Side -> Number] /\ top \in [Side -> Number]
        /\ p.seq \in Number /\ p.len \in Nat /\ q.seq \in Number /\ q.len \in Nat
    BY Zenon DEF Typed, Segments
  <2> QED BY Zenon, <2>1, FakeTcpAssumption
<1>2. net' = net \cup {p, q} /\ top' = [top EXCEPT ![x] = u]
  <2> DEFINE ends == {Plus(y.seq, IF peek_syn(y) THEN 1 ELSE y.len) : y \in {p, q}}
             beyond == {g \in ends : larger_than(g, top[x])}
  <2>1. ends = {d, e}
    BY Zenon
  <2>2. beyond = farther
    BY Zenon, <2>1
  <2>3. net' = net \cup {p, q} /\ top' = [top EXCEPT ![x] = IF beyond = {} THEN top[x]
           ELSE CHOOSE g \in beyond : \A h \in beyond : ~larger_than(h, g)]
    BY Zenon DEF Transmit
  <2> HIDE DEF beyond, farther
  <2> QED BY <2>2, <2>3
<1>3. Past(p.seq, f) \in Nat /\ Past(q.seq, f) \in Nat /\ Past(t, f) \in Nat
  BY Zenon, <1>1, PastNat
<1>4. d \in Number /\ Past(d, f) = Past(p.seq, f) + p.len
  BY <1>1, <1>3, PastPlus
<1>5. e \in Number /\ Past(e, f) = Past(q.seq, f) + q.len
  BY <1>1, <1>3, PastPlus
<1> HIDE DEF d, e, f, t
<1>6. Past(d, f) \in Nat /\ Past(e, f) \in Nat /\ Past(d, f) <= m /\ Past(e, f) <= m
      /\ Past(t, f) <= m
  BY <1>1, <1>3, <1>4, <1>5 DEF f, t
<1>7. \A g, h \in {d, e, t} : larger_than(g, h) <=> Past(g, f) > Past(h, f)
  <2> SUFFICES ASSUME NEW g \in {d, e, t}, NEW h \in {d, e, t}
               PROVE  larger_than(g, h) <=> Past(g, f) > Past(h, f)
    BY Zenon
  <2>1. g \in Number /\ h \in Number /\ 2 * Past(g, f) + 2 <= Space
        /\ 2 * Past(h, f) + 2 <= Space
    BY <1>1, <1>3, <1>4, <1>5, <1>6
  <2> QED BY Zenon, <2>1, <1>1, LargerPast
<1>8. u \in {d, e, t} /\ Past(t, f) <= Past(u, f) /\ Past(d, f) <= Past(u, f)
      /\ Past(e, f) <= Past(u, f)
  <2>1. CASE farther = {}
    BY <2>1, <1>3, <1>6, <1>7
  <2>2. CASE farther # {}
    <3>1. \E g \in farther : \A h \in farther : ~larger_than(h, g)
      <4>1. CASE d \in farther /\ (e \in farther => ~larger_than(e, d))
        BY <4>1, <1>6, <1>7
      <4>2. CASE ~(d \in farther /\ (e \in farther => ~larger_than(e, d)))
        <5>1. e \in farther /\ (d \in farther => ~larger_than(d, e))
          BY <4>2, <2>2, <1>6, <1>7
        <5> QED BY <5>1, <1>6, <1>7
      <4> QED BY Zenon, <4>1, <4>2
    <3>2. u \in farther /\ \A h \in farther : ~larger_than(h, u)
      BY Zenon, <3>1, <2>2
    <3> HIDE DEF u
    <3> QED BY <3>2, <1>3, <1>6, <1>7
  <2> QED BY Zenon, <2>1, <2>2
<1> HIDE DEF u
<1>9. u \in Number /\ Past(u, f) <= m
  BY Zenon, <1>1, <1>4, <1>5, <1>6, <1>8
<1>10. top'[x] = u /\ top' \in [Side -> Number] /\ \A y \in Side \ {x} : top'[y] = top[y]
  BY Zenon, <1>1, <1>2, <1>9
<1> QED BY Zenon, <1>2, <1>4, <1>5, <1>8, <1>9, <1>10 DEF f, t

-----------------------------------------------------------------------------
(* Steps.                                                                  *)

\* Nothing has been sent at first.
LEMMA FInitInv == Init => FInv
<1> SUFFICES ASSUME Init PROVE FInv
  BY Zenon
<1>1. 0 \in Number /\ 0 \in 0 .. Repetitions /\ 0 \in 0 .. MaxData
  BY FakeTcpAssumption DEF Number, Repetitions
<1>2. NewRaw \in RawInfo
  BY Zenon, <1>1 DEF NewRaw, RawInfo
<1>3. state["client"] = "tcp_handshake" /\ state["server"] = "none" /\ fresh = TRUE
      /\ jobs["client"] = <<>> /\ jobs["server"] = <<>> /\ net = {}
  BY Zenon DEF Init, Side
<1>4. Typed
  <2>1. <<>> \in Seq(Metas)
    OBVIOUS
  <2>2. state \in [Side -> {"tcp_handshake", "none", "handshake1", "handshake2", "ready"}]
    BY DEF Init, Side
  <2> QED BY Zenon, <1>1, <1>2, <2>1, <2>2 DEF Init, Typed
<1>5. Sound
  BY <1>3 DEF Sound, Side
<1> QED BY Zenon, <1>3, <1>4, <1>5
        DEF FInv, Short, Progress, Handshaking, Opening, Acked, Streams

\* The fields that the steps use, with their types.
LEMMA Fields ==
  ASSUME Typed
  PROVE  /\ \A x \in Side : /\ raw[x] \in RawInfo
                            /\ raw[x].send.seq \in Number /\ raw[x].send.ack_seq \in Number
                            /\ raw[x].recv.ack_seq \in Number
                            /\ raw[x].reserved_send_seq \in Number
                            /\ first[x] \in Number /\ top[x] \in Number
                            /\ Past(top[x], first[x]) \in Nat
                            /\ Past(top[x], first[x]) < Space
                            /\ Past(first[x], first[x]) = 0
         /\ \A p \in net : /\ p \in Segments /\ p.from \in Side
                           /\ p.seq \in Number /\ p.ack_seq \in Number /\ p.len \in Nat
         /\ \A x \in Side : \A i \in 1 .. Len(jobs[x]) :
              jobs[x][i].seq \in Number /\ jobs[x][i].len \in Nat
<1>1. ASSUME NEW x \in Side
      PROVE  /\ raw[x] \in RawInfo
             /\ raw[x].send.seq \in Number /\ raw[x].send.ack_seq \in Number
             /\ raw[x].recv.ack_seq \in Number /\ raw[x].reserved_send_seq \in Number
             /\ first[x] \in Number /\ top[x] \in Number
  <2>1. raw[x] \in RawInfo /\ first[x] \in Number /\ top[x] \in Number
    BY Zenon DEF Typed
  <2>2. /\ raw[x].send \in [seq : Number, ack_seq : Number]
        /\ raw[x].recv \in [ack_seq : Number, ack_seq_counter : 0 .. Repetitions]
        /\ raw[x].reserved_send_seq \in Number
    BY Zenon, <2>1 DEF RawInfo
  <2> QED BY Zenon, <2>1, <2>2
<1>2. ASSUME NEW p \in net
      PROVE  /\ p \in Segments /\ p.from \in Side
             /\ p.seq \in Number /\ p.ack_seq \in Number /\ p.len \in Nat
  BY Zenon DEF Typed, Segments
<1>3. ASSUME NEW x \in Side, NEW i \in 1 .. Len(jobs[x])
      PROVE  jobs[x][i].seq \in Number /\ jobs[x][i].len \in Nat
  <2>1. jobs[x] \in Seq(Metas)
    BY Zenon DEF Typed
  <2>2. jobs[x][i] \in Metas
    BY <2>1
  <2> QED BY Zenon, <2>2 DEF Metas
<1>4. ASSUME NEW x \in Side
      PROVE  /\ Past(top[x], first[x]) \in Nat /\ Past(top[x], first[x]) < Space
             /\ Past(first[x], first[x]) = 0
  BY Zenon, <1>1, PastNat
<1> QED BY Zenon, <1>1, <1>2, <1>3, <1>4

\* Streams only get longer, so that what was in them still is.
LEMMA Grow ==
  ASSUME FInv, UNCHANGED first, top' \in [Side -> Number],
         \A x \in Side : Past(top[x], first[x]) <= Past(top'[x], first[x]),
         (state'["server"] = "none") <=> (state["server"] = "none")
  PROVE  /\ \A x \in Side : \A n \in Number : Reached(n, x) =>
              Past(n, first[x]) <= Past(top'[x], first[x])
         /\ \A p \in net : p.from = "client" => ClientOk(p)'
         /\ \A p \in net : p.from = "server" => ServerOk(p)'
         /\ \A x \in Side : \A i \in 1 .. Len(jobs[x]) :
              Past(jobs[x][i].seq, first[Other(x)]) + jobs[x][i].len
                <= Past(top'[Other(x)], first[Other(x)])
<1>1. /\ \A x \in Side : /\ first[x] \in Number /\ top'[x] \in Number
                         /\ Past(top[x], first[x]) \in Nat
      /\ \A p \in net : p.seq \in Number /\ p.ack_seq \in Number /\ p.len \in Nat
      /\ \A x \in Side : \A i \in 1 .. Len(jobs[x]) :
           jobs[x][i].seq \in Number /\ jobs[x][i].len \in Nat
  BY Zenon, Fields DEF FInv
<1>2. \A x \in Side : \A n \in Number :
        Past(n, first[x]) \in Nat /\ Past(top'[x], first[x]) \in Nat
  BY Zenon, <1>1, PastNat
<1>3. \A x \in Side : \A n \in Number : Reached(n, x) =>
        Past(n, first[x]) <= Past(top'[x], first[x])
  BY <1>1, <1>2 DEF Reached
<1>4. \A x \in Side : \A n \in Number : \A l \in Nat :
        Past(n, first[x]) + l <= Past(top[x], first[x])
        => Past(n, first[x]) + l <= Past(top'[x], first[x])
  BY <1>1, <1>2
<1>5. ASSUME NEW p \in net, p.from = "client" PROVE ClientOk(p)'
  <2>1. ClientOk(p) /\ "client" \in Side /\ "server" \in Side
    BY Zenon, <1>5 DEF FInv, Sound, Side
  <2>2. Within(p, "client") => Past(p.seq, first["client"]) + p.len
                                 <= Past(top'["client"], first["client"])
    BY Zenon, <1>1, <1>4, <2>1 DEF Within
  <2>3. Reached(p.ack_seq, "server") => Past(p.ack_seq, first["server"])
                                          <= Past(top'["server"], first["server"])
    BY Zenon, <1>1, <1>3, <2>1
  <2> QED BY Zenon, <2>1, <2>2, <2>3 DEF ClientOk, Within, Reached
<1>6. ASSUME NEW p \in net, p.from = "server" PROVE ServerOk(p)'
  <2>1. ServerOk(p) /\ "client" \in Side /\ "server" \in Side
    BY Zenon, <1>6 DEF FInv, Sound, Side
  <2>2. Within(p, "server") => Past(p.seq, first["server"]) + p.len
                                 <= Past(top'["server"], first["server"])
    BY Zenon, <1>1, <1>4, <2>1 DEF Within
  <2>3. Reached(p.ack_seq, "client") => Past(p.ack_seq, first["client"])
                                          <= Past(top'["client"], first["client"])
    BY Zenon, <1>1, <1>3, <2>1
  <2> QED BY Zenon, <2>1, <2>2, <2>3 DEF ServerOk, Within, Reached
<1>7. ASSUME NEW x \in Side, NEW i \in 1 .. Len(jobs[x])
      PROVE  Past(jobs[x][i].seq, first[Other(x)]) + jobs[x][i].len
               <= Past(top'[Other(x)], first[Other(x)])
  <2>1. Other(x) \in Side
    BY Zenon DEF Other, Side
  <2>2. Within(jobs[x][i], Other(x))
    BY Zenon DEF FInv, Sound
  <2> QED BY Zenon, <1>1, <1>4, <2>1, <2>2 DEF Within
<1> QED BY Zenon, <1>3, <1>5, <1>6, <1>7


\* The first SYN begins the client's stream, and a copy changes nothing.
LEMMA SendSynF ==
  ASSUME FInv, SendSyn
  PROVE  FInv'
<1>0. Typed /\ Short /\ Progress /\ Handshaking /\ Opening /\ Sound /\ Acked /\ Streams
  BY Zenon DEF FInv
<1>1. "client" \in Side /\ "server" \in Side /\ "client" # "server"
      /\ HandshakeLen \in Nat /\ MAX_DATA_LEN \in Nat /\ 1 \in Nat
  BY Zenon, FakeTcpAssumption DEF Side
<1>2. /\ raw["client"] \in RawInfo /\ raw["client"].send.seq \in Number
      /\ raw["client"].send.ack_seq \in Number /\ first["client"] \in Number
  BY Zenon, <1>0, <1>1, Fields
<1>3. PICK n \in IF fresh THEN Starts["client"] ELSE {raw["client"].send.seq} :
        LET r == [raw["client"] EXCEPT !.send.seq = n] IN
        /\ raw' = [raw EXCEPT !["client"] = r]
        /\ net' = net \cup {Segment("client", "syn", r.send, 0)}
        /\ first' = [first EXCEPT !["client"] = n]
        /\ top' = [top EXCEPT !["client"] = Plus(n, 1)]
  BY Zenon DEF SendSyn, Unchanged
<1>4. n \in Number /\ (~fresh => n = raw["client"].send.seq)
  <2>1. Starts["client"] \subseteq Number
    BY Zenon, <1>1, FakeTcpAssumption DEF Number
  <2> QED BY Zenon, <1>2, <1>3, <2>1
<1>5. state["client"] = "tcp_handshake" /\ state["server"] = "none"
      /\ fresh' = FALSE /\ UNCHANGED <<seq_mode, state, jobs, sent>>
  BY Zenon, <1>0 DEF SendSyn, Progress
<1> DEFINE r == [raw["client"] EXCEPT !.send.seq = n]
           p == Segment("client", "syn", r.send, 0)
<1>6. /\ r \in RawInfo /\ r.send.seq = n /\ r.send.ack_seq = raw["client"].send.ack_seq
      /\ r.recv = raw["client"].recv
  BY Zenon, <1>2, <1>4, SetSeq
<1>7. p \in Segments /\ p.from = "client" /\ p.kind = "syn" /\ p.seq = n
  <2> HIDE DEF r
  <2> QED BY Zenon, <1>1, <1>2, <1>4, <1>6 DEF Segment, Segments
<1>8. raw' = [raw EXCEPT !["client"] = r] /\ net' = net \cup {p}
  BY Zenon, <1>3
<1> HIDE DEF r, p
<1>9. Plus(n, 1) \in Number /\ Past(Plus(n, 1), n) = 1
  <2>1. Past(n, n) = 0
    BY Zenon, <1>4, PastNat
  <2>2. Past(n, n) + 1 < Space
    <3>1. 1 + 2 * HandshakeLen + sent * MAX_DATA_LEN \in Nat
          /\ 2 * (1 + 2 * HandshakeLen + sent * MAX_DATA_LEN) + 2 <= Space
      BY Zenon, <1>0, Room
    <3>2. Space \in Nat
      BY Zenon, FakeTcpAssumption
    <3> QED BY <2>1, <3>1, <3>2
  <2> QED BY <1>1, <1>4, <2>1, <2>2, PastPlus
<1>10. first' \in [Side -> Number] /\ top' \in [Side -> Number] /\ first'["client"] = n
       /\ top'["client"] = Plus(n, 1)
  BY Zenon, <1>0, <1>1, <1>3, <1>4, <1>9 DEF Typed
<1>11. raw' \in [Side -> RawInfo] /\ raw'["client"] = r
  BY Zenon, <1>0, <1>1, <1>6, <1>8 DEF Typed
<1>12. Typed'
  BY Zenon, <1>0, <1>5, <1>7, <1>8, <1>10, <1>11 DEF Typed
<1>13. \A q \in net : first' = first /\ top' = top
  <2> SUFFICES ASSUME NEW q \in net PROVE first' = first /\ top' = top
    BY Zenon
  <2>1. ~fresh
    BY Zenon, <1>0 DEF Progress
  <2>2. n = first["client"] /\ Plus(n, 1) = top["client"]
    BY Zenon, <2>1, <1>0, <1>4, <1>5 DEF Handshaking
  <2> QED BY Zenon, <1>0, <1>3, <2>2 DEF Typed
<1>14. Short'
  <2>1. sent' = sent /\ state' = state
    BY Zenon, <1>5
  <2>2. 1 + 2 * HandshakeLen + sent * MAX_DATA_LEN \in Nat
        /\ sent * MAX_DATA_LEN \in Nat
    <3>1. sent \in Nat
      BY <1>0, FakeTcpAssumption DEF Typed
    <3> QED BY <3>1, <1>1
  <2>3. 1 <= 1 + 2 * HandshakeLen + sent * MAX_DATA_LEN
    BY <1>1, <2>2
  <2> QED BY <1>5, <1>9, <1>10, <2>1, <2>3 DEF Short
<1>15. Progress'
  <2>1. \A q \in net' : q.kind \in {"syn", "syn ack"}
    BY Zenon, <1>0, <1>5, <1>7, <1>8 DEF Progress
  <2>2. \A q \in net' : q.kind \notin {"hs2", "safer"}
    BY Zenon, <2>1
  <2>3. jobs'["client"] = <<>> /\ jobs'["server"] = <<>>
    BY Zenon, <1>0, <1>5 DEF Progress
  <2> QED BY Zenon, <1>5, <2>1, <2>2, <2>3 DEF Progress
<1>16. Handshaking'
  BY Zenon, <1>5, <1>6, <1>10, <1>11 DEF Handshaking
<1>17. Opening'
  BY Zenon, <1>0, <1>5, <1>6, <1>7, <1>8, <1>11 DEF Opening
<1>18. Sound'
  <2>1. ASSUME NEW q \in net', q.from = "client" PROVE ClientOk(q)'
    <3>1. CASE q = p
      BY Zenon, <3>1, <1>7, <1>10 DEF ClientOk
    <3>2. CASE q \in net
      <4>1. ClientOk(q) /\ first' = first /\ top' = top /\ state' = state
        BY Zenon, <2>1, <3>2, <1>0, <1>5, <1>13 DEF Sound
      <4> QED BY Zenon, <4>1 DEF ClientOk, Within, Reached
    <3> QED BY Zenon, <1>8, <3>1, <3>2
  <2>2. ASSUME NEW q \in net', q.from = "server" PROVE ServerOk(q)'
    <3>1. q \in net
      BY Zenon, <2>2, <1>7, <1>8
    <3>2. ServerOk(q) /\ first' = first /\ top' = top
      BY Zenon, <2>2, <3>1, <1>0, <1>13 DEF Sound
    <3> QED BY Zenon, <3>2 DEF ServerOk, Within, Reached
  <2>3. jobs'["client"] = <<>> /\ jobs'["server"] = <<>>
    BY Zenon, <1>0, <1>5 DEF Progress
  <2> QED BY <2>1, <2>2, <2>3 DEF Sound, Side
<1>19. Acked' /\ Streams'
  <2>1. Past(n, n) = 0
    BY Zenon, <1>4, PastNat
  <2> QED BY <1>5, <1>6, <1>9, <1>10, <1>11, <2>1 DEF Acked, Streams, Reached
<1> QED BY Zenon, <1>12, <1>14, <1>15, <1>16, <1>17, <1>18, <1>19 DEF FInv


\* What SendHandshake does, with numbers that begin at most HandshakeLen after the SYN.
LEMMA HandshakeSent ==
  ASSUME FInv, ~fresh, NEW r \in RawInfo, NEW next \in {"handshake1", "handshake2"},
         SendHandshake(r, next),
         Past(r.send.seq, first["client"]) <= 1 + HandshakeLen
  PROVE  LET q == raw'["client"] IN
         /\ raw' \in [Side -> RawInfo] /\ raw'["server"] = raw["server"]
         /\ Past(q.send.seq, first["client"]) = Past(r.send.seq, first["client"]) + HandshakeLen
         /\ q.send.ack_seq = r.send.ack_seq /\ q.recv = r.recv
         /\ q.reserved_send_seq = r.reserved_send_seq
         /\ top' \in [Side -> Number] /\ top'["server"] = top["server"]
         /\ Past(top["client"], first["client"]) <= Past(top'["client"], first["client"])
         /\ Past(top'["client"], first["client"])
              <= 1 + 2 * HandshakeLen + sent * MAX_DATA_LEN
         /\ Past(r.send.seq, first["client"]) + HandshakeLen
              <= Past(top'["client"], first["client"])
         /\ net \subseteq net'
         /\ \A p \in net' \ net :
              /\ p \in Segments /\ p.from = "client" /\ p.ack_seq = r.send.ack_seq
              /\ p.kind \in (IF next = "handshake1" THEN {"ack", "hs1"} ELSE {"hs2"})
              /\ Past(p.seq, first["client"]) + p.len <= Past(top'["client"], first["client"])
<1> DEFINE f == first["client"]
           hs == Segment("client", IF next = "handshake1" THEN "hs1" ELSE "hs2", r.send,
                         HandshakeLen)
           ack == Segment("client", "ack", r.send, 0)
           a == IF next = "handshake1" THEN ack ELSE hs
           n == Plus(r.send.seq, HandshakeLen)
           m == 1 + 2 * HandshakeLen + sent * MAX_DATA_LEN
<1>0. Typed /\ Short
  BY Zenon DEF FInv
<1>1. "client" \in Side /\ "server" \in Side /\ "client" # "server"
      /\ HandshakeLen \in Nat /\ MAX_DATA_LEN \in Nat /\ Space \in Nat
  BY Zenon, FakeTcpAssumption DEF Side
<1>2. f \in Number /\ r.send.seq \in Number /\ r.send.ack_seq \in Number
  <2>1. r.send \in [seq : Number, ack_seq : Number]
    BY Zenon DEF RawInfo
  <2> QED BY Zenon, <2>1, <1>0, <1>1, Fields
<1>3. /\ hs \in Segments /\ hs.from = "client" /\ hs.seq = r.send.seq
      /\ hs.ack_seq = r.send.ack_seq /\ hs.len = HandshakeLen
      /\ hs.kind = IF next = "handshake1" THEN "hs1" ELSE "hs2"
  BY Zenon, <1>1, <1>2 DEF Segment, Segments
<1>4. /\ ack \in Segments /\ ack.from = "client" /\ ack.seq = r.send.seq
      /\ ack.ack_seq = r.send.ack_seq /\ ack.len = 0 /\ ack.kind = "ack"
  BY Zenon, <1>1, <1>2 DEF Segment, Segments
<1>5. Transmit("client", {a, hs})
  <2>1. {a, hs} = IF next = "handshake1" THEN {ack, hs} ELSE {hs}
    <3> HIDE DEF hs, ack
    <3> QED BY Zenon
  <2>2. Transmit("client", IF next = "handshake1" THEN {ack, hs} ELSE {hs})
    BY Zenon DEF SendHandshake
  <2> HIDE DEF a, hs, ack
  <2> QED BY Zenon, <2>1, <2>2
<1>6. raw' = [raw EXCEPT !["client"] = [r EXCEPT !.send.seq = n]]
  BY Zenon DEF SendHandshake
<1> HIDE DEF hs, ack
<1>7. /\ a \in Segments /\ a.from = "client" /\ a.seq = r.send.seq
      /\ a.ack_seq = r.send.ack_seq /\ a.len \in {0, HandshakeLen}
      /\ a.kind = IF next = "handshake1" THEN "ack" ELSE "hs2"
  BY Zenon, <1>3, <1>4
<1> HIDE DEF a
<1>8. ~peek_syn(a) /\ ~peek_syn(hs)
  BY Zenon, <1>3, <1>7 DEF peek_syn
<1>9. m \in Nat /\ 2 * m + 2 <= Space /\ 1 + 2 * HandshakeLen <= m
  <2>1. sent * MAX_DATA_LEN \in Nat
    <3>1. sent \in Nat
      BY <1>0, FakeTcpAssumption DEF Typed
    <3> QED BY <3>1, <1>1
  <2>2. m \in Nat /\ 2 * m + 2 <= Space
    BY Zenon, <1>0, Room
  <2> QED BY <2>1, <2>2, <1>1
<1>10. Past(top["client"], f) <= m
  BY Zenon, <1>0 DEF Short
<1>11. Past(r.send.seq, f) \in Nat
  BY Zenon, <1>2, PastNat
<1> HIDE DEF m, f
<1>12. Past(r.send.seq, f) + HandshakeLen <= m /\ Past(r.send.seq, f) + 0 <= m
       /\ Past(r.send.seq, f) + HandshakeLen < Space
  BY <1>1, <1>9, <1>11 DEF f
<1>13. /\ net' = net \cup {a, hs}
       /\ top' \in [Side -> Number]
       /\ \A y \in Side \ {"client"} : top'[y] = top[y]
       /\ Past(top["client"], f) <= Past(top'["client"], f)
       /\ Past(top'["client"], f) <= m
       /\ Past(a.seq, f) + a.len <= Past(top'["client"], f)
       /\ Past(hs.seq, f) + hs.len <= Past(top'["client"], f)
  <2>1. Past(hs.seq, f) + hs.len <= m
    BY Zenon, <1>3, <1>12
  <2>2. Past(a.seq, f) + a.len <= m
    BY Zenon, <1>7, <1>12
  <2> QED BY Zenon, <1>0, <1>1, <1>3, <1>5, <1>7, <1>8, <1>9, <1>10, <2>1, <2>2, Transmitted DEF f
<1>14. n \in Number /\ Past(n, f) = Past(r.send.seq, f) + HandshakeLen
  BY Zenon, <1>1, <1>2, <1>12, PastPlus DEF f
<1> HIDE DEF n
<1>15. LET q == [r EXCEPT !.send.seq = n] IN
       /\ q \in RawInfo /\ q.send.seq = n /\ q.send.ack_seq = r.send.ack_seq
       /\ q.recv = r.recv /\ q.reserved_send_seq = r.reserved_send_seq
  BY Zenon, <1>14, SetSeq
<1>16. raw' \in [Side -> RawInfo] /\ raw'["client"] = [r EXCEPT !.send.seq = n]
       /\ raw'["server"] = raw["server"]
  BY Zenon, <1>0, <1>1, <1>6, <1>15 DEF Typed
<1>17. \A p \in net' \ net :
              /\ p \in Segments /\ p.from = "client" /\ p.ack_seq = r.send.ack_seq
              /\ p.kind \in (IF next = "handshake1" THEN {"ack", "hs1"} ELSE {"hs2"})
              /\ Past(p.seq, f) + p.len <= Past(top'["client"], f)
  <2> SUFFICES ASSUME NEW p \in net' \ net
               PROVE  /\ p \in Segments /\ p.from = "client" /\ p.ack_seq = r.send.ack_seq
                      /\ p.kind \in (IF next = "handshake1" THEN {"ack", "hs1"} ELSE {"hs2"})
                      /\ Past(p.seq, f) + p.len <= Past(top'["client"], f)
    BY Zenon
  <2>1. p = a \/ p = hs
    BY Zenon, <1>13
  <2>2. CASE p = a
    BY Zenon, <2>2, <1>7, <1>13
  <2>3. CASE p = hs
    BY Zenon, <2>3, <1>3, <1>13
  <2> QED BY Zenon, <2>1, <2>2, <2>3
<1>18. top'["server"] = top["server"] /\ net \subseteq net'
  BY Zenon, <1>1, <1>13
<1>19. Past(r.send.seq, f) + HandshakeLen <= Past(top'["client"], f)
  BY Zenon, <1>3, <1>13
<1>20. Past(raw'["client"].send.seq, f) = Past(r.send.seq, f) + HandshakeLen
       /\ raw'["client"].send.ack_seq = r.send.ack_seq /\ raw'["client"].recv = r.recv
       /\ raw'["client"].reserved_send_seq = r.reserved_send_seq
  BY Zenon, <1>14, <1>15, <1>16
<1>21. Past(top["client"], f) <= Past(top'["client"], f)
       /\ Past(top'["client"], f) <= 1 + 2 * HandshakeLen + sent * MAX_DATA_LEN
       /\ top' \in [Side -> Number]
  BY Zenon, <1>13 DEF m
<1> QED BY Zenon, <1>16, <1>17, <1>18, <1>19, <1>20, <1>21 DEF f


\* The client sends a handshake, the first time or again.
LEMMA HandshakeF ==
  ASSUME FInv, ~fresh, NEW r \in RawInfo, NEW next \in {"handshake1", "handshake2"},
         SendHandshake(r, next), state' = [state EXCEPT !["client"] = next],
         UNCHANGED <<seq_mode, fresh, jobs, sent, first>>,
         Past(r.send.seq, first["client"]) <= 1 + HandshakeLen,
         Past(r.reserved_send_seq, first["client"]) <= 1 + HandshakeLen,
         Reached(r.recv.ack_seq, "client"),
         next = "handshake1" =>
           /\ state["client"] \in {"tcp_handshake", "handshake1"}
           /\ Past(r.send.seq, first["client"]) = 1
           /\ Past(r.reserved_send_seq, first["client"]) = 1
           /\ state["server"] # "none" => r.send.ack_seq = first["server"]
           /\ state["server"] = "none" =>
                \A p \in net : p.kind \in {"ack", "hs1"} => p.ack_seq = r.send.ack_seq,
         next = "handshake2" =>
           state["server"] # "none" /\ Reached(r.send.ack_seq, "server")
  PROVE  FInv'
<1>0. Typed /\ Short /\ Progress /\ Handshaking /\ Opening /\ Sound /\ Acked /\ Streams
  BY Zenon DEF FInv
<1>1. "client" \in Side /\ "server" \in Side /\ "client" # "server" /\ HandshakeLen \in Nat
  BY Zenon, FakeTcpAssumption DEF Side
<1>2. /\ raw' \in [Side -> RawInfo] /\ raw'["server"] = raw["server"]
      /\ Past(raw'["client"].send.seq, first["client"])
           = Past(r.send.seq, first["client"]) + HandshakeLen
      /\ raw'["client"].send.ack_seq = r.send.ack_seq /\ raw'["client"].recv = r.recv
      /\ raw'["client"].reserved_send_seq = r.reserved_send_seq
      /\ top' \in [Side -> Number] /\ top'["server"] = top["server"]
      /\ Past(top["client"], first["client"]) <= Past(top'["client"], first["client"])
      /\ Past(top'["client"], first["client"])
           <= 1 + 2 * HandshakeLen + sent * MAX_DATA_LEN
      /\ Past(r.send.seq, first["client"]) + HandshakeLen
           <= Past(top'["client"], first["client"])
      /\ net \subseteq net'
  BY Zenon, HandshakeSent
<1>3. \A p \in net' \ net :
              /\ p \in Segments /\ p.from = "client" /\ p.ack_seq = r.send.ack_seq
              /\ p.kind \in (IF next = "handshake1" THEN {"ack", "hs1"} ELSE {"hs2"})
              /\ Past(p.seq, first["client"]) + p.len <= Past(top'["client"], first["client"])
  BY Zenon, HandshakeSent
<1>4. state'["client"] = next /\ state'["server"] = state["server"]
      /\ state' \in [Side -> {"tcp_handshake", "none", "handshake1", "handshake2", "ready"}]
  BY Zenon, <1>0, <1>1 DEF Typed
<1>5. /\ raw["server"].send.seq \in Number /\ raw["server"].send.ack_seq \in Number
      /\ raw["server"].recv.ack_seq \in Number
      /\ first["client"] \in Number /\ first["server"] \in Number
      /\ Past(top["client"], first["client"]) \in Nat
      /\ Past(top["server"], first["server"]) \in Nat
      /\ Past(first["server"], first["server"]) = 0
      /\ r.recv.ack_seq \in Number /\ r.send.ack_seq \in Number
  <2>1. r.recv.ack_seq \in Number /\ r.send.ack_seq \in Number
    <3>1. r.send \in [seq : Number, ack_seq : Number]
          /\ r.recv \in [ack_seq : Number, ack_seq_counter : 0 .. Repetitions]
      BY Zenon DEF RawInfo
    <3> QED BY Zenon, <3>1
  <2> QED BY Zenon, <2>1, <1>0, <1>1, Fields
<1>6. \A x \in Side : Past(top[x], first[x]) <= Past(top'[x], first[x])
  BY <1>2, <1>5 DEF Side
<1>7. /\ \A x \in Side : \A n \in Number : Reached(n, x) =>
           Past(n, first[x]) <= Past(top'[x], first[x])
      /\ \A p \in net : p.from = "client" => ClientOk(p)'
      /\ \A p \in net : p.from = "server" => ServerOk(p)'
      /\ \A x \in Side : \A i \in 1 .. Len(jobs[x]) :
           Past(jobs[x][i].seq, first[Other(x)]) + jobs[x][i].len
             <= Past(top'[Other(x)], first[Other(x)])
  BY Zenon, <1>2, <1>4, <1>6, Grow
<1>8. Typed'
  <2>1. net' \subseteq Segments
    BY Zenon, <1>0, <1>2, <1>3 DEF Typed
  <2> QED BY Zenon, <1>0, <1>2, <1>4, <2>1 DEF Typed
<1>9. Short'
  <2>1. 1 <= Past(top'["client"], first["client"])
    <3>1. Past(top'["client"], first["client"]) \in Nat
      BY Zenon, <1>1, <1>2, <1>5, PastNat
    <3> QED BY <1>0, <1>2, <1>5, <3>1 DEF Short
  <2> QED BY Zenon, <1>0, <1>2, <1>4, <2>1 DEF Short
<1>10. Progress'
  <2>1. fresh' = FALSE /\ jobs' = jobs
    BY Zenon, <1>0 DEF Typed
  <2>2. CASE next = "handshake1"
    <3>1. /\ state["client"] \in {"tcp_handshake", "handshake1"}
          /\ state["server"] # "ready" /\ jobs["client"] = <<>>
          /\ \A p \in net : p.kind \notin {"hs2", "safer"}
      BY Zenon, <2>2, <1>0 DEF Progress
    <3>2. \A p \in net' : p.kind \notin {"hs2", "safer"}
      <4>1. \A p \in net' \ net : p.kind \in {"ack", "hs1"}
        BY Zenon, <2>2, <1>3
      <4>2. \A p \in net' \ net : p.kind \notin {"hs2", "safer"}
        BY Zenon, <4>1
      <4> QED BY Zenon, <3>1, <4>2
    <3> QED BY Zenon, <2>1, <2>2, <3>1, <3>2, <1>0, <1>4 DEF Progress
  <2>3. CASE next = "handshake2"
    <3>1. state["server"] # "none"
      BY Zenon, <2>3
    <3> QED BY Zenon, <2>1, <2>3, <3>1, <1>0, <1>4 DEF Progress
  <2> QED BY Zenon, <2>2, <2>3
<1>11. Handshaking'
  <2>1. CASE next = "handshake1"
    <3>1. Past(raw'["client"].send.seq, first["client"]) <= 1 + HandshakeLen
      BY <2>1, <1>1, <1>2
    <3> QED BY Zenon, <2>1, <3>1, <1>2, <1>4 DEF Handshaking
  <2>2. CASE next = "handshake2"
    BY Zenon, <2>2, <1>2, <1>4 DEF Handshaking
  <2> QED BY Zenon, <2>1, <2>2
<1>12. Opening'
  <2>1. CASE next = "handshake1"
    <3>1. \A p \in net' \ net : p.kind \in {"ack", "hs1"} /\ p.ack_seq = r.send.ack_seq
      BY Zenon, <2>1, <1>3
    <3>2. \A p \in net' \ net : p.kind # "reply" /\ p.ack_seq = r.send.ack_seq
      BY Zenon, <3>1
    <3> QED BY ZenonT(60), <2>1, <3>2, <1>0, <1>2, <1>4 DEF Opening
  <2>2. CASE next = "handshake2"
    <3>1. \A p \in net' \ net : p.kind \in {"hs2"}
      BY Zenon, <2>2, <1>3
    <3>2. \A p \in net' \ net : p.kind # "hs1"
      BY Zenon, <3>1
    <3> QED BY Zenon, <2>2, <3>2, <1>0, <1>2, <1>4 DEF Opening
  <2> QED BY Zenon, <2>1, <2>2
<1>13. Sound'
  <2>1. ASSUME NEW p \in net', p.from = "client" PROVE ClientOk(p)'
    <3>1. CASE p \in net
      BY Zenon, <2>1, <3>1, <1>7
    <3>2. CASE p \notin net
      <4>1. /\ p.kind \in {"ack", "hs1", "hs2"} /\ p.ack_seq = r.send.ack_seq
            /\ Past(p.seq, first["client"]) + p.len <= Past(top'["client"], first["client"])
        BY Zenon, <3>2, <1>3
      <4>2. state["server"] # "none" => Past(r.send.ack_seq, first["server"])
                                          <= Past(top'["server"], first["server"])
        BY <1>2, <1>5 DEF Reached
      <4> QED BY Zenon, <4>1, <4>2, <1>4 DEF ClientOk, Within, Reached
    <3> QED BY Zenon, <3>1, <3>2
  <2>2. ASSUME NEW p \in net', p.from = "server" PROVE ServerOk(p)'
    <3>1. p \in net
      BY Zenon, <2>2, <1>3
    <3> QED BY Zenon, <2>2, <3>1, <1>7
  <2> QED BY Zenon, <2>1, <2>2, <1>7 DEF Sound, Within
<1>14. Acked'
  <2>1. Past(r.recv.ack_seq, first["client"]) <= Past(top'["client"], first["client"])
    BY Zenon, <1>1, <1>5, <1>7
  <2> QED BY Zenon, <2>1, <1>0, <1>2, <1>4 DEF Acked, Reached
<1>15. Streams'
  <2>1. Past(raw'["client"].send.seq, first["client"])
          <= Past(top'["client"], first["client"])
    BY Zenon, <1>2
  <2>2. Reached(raw["server"].send.ack_seq, "client") =>
          Past(raw["server"].send.ack_seq, first["client"])
            <= Past(top'["client"], first["client"])
    BY Zenon, <1>1, <1>5, <1>7
  <2> QED BY Zenon, <2>1, <2>2, <1>0, <1>2, <1>4 DEF Streams, Reached
<1> QED BY Zenon, <1>8, <1>9, <1>10, <1>11, <1>12, <1>13, <1>14, <1>15 DEF FInv


\* on_timer sends a copy of the handshake from the reserved number.
LEMMA RetryF ==
  ASSUME FInv, RetryHandshake
  PROVE  FInv'
<1> DEFINE r == [raw["client"] EXCEPT !.send.seq = raw["client"].reserved_send_seq]
           next == state["client"]
<1>0. Typed /\ Short /\ Progress /\ Handshaking /\ Opening /\ Sound /\ Acked /\ Streams
  BY Zenon DEF FInv
<1>1. "client" \in Side /\ HandshakeLen \in Nat
  BY Zenon, FakeTcpAssumption DEF Side
<1>2. raw["client"] \in RawInfo /\ raw["client"].reserved_send_seq \in Number
  BY Zenon, <1>0, <1>1, Fields
<1>3. /\ r \in RawInfo /\ r.send.seq = raw["client"].reserved_send_seq
      /\ r.send.ack_seq = raw["client"].send.ack_seq /\ r.recv = raw["client"].recv
      /\ r.reserved_send_seq = raw["client"].reserved_send_seq
  BY Zenon, <1>2, SetSeq
<1>4. next \in {"handshake1", "handshake2"} /\ SendHandshake(r, next)
      /\ UNCHANGED <<seq_mode, state, fresh, jobs, sent, first>>
  BY Zenon DEF RetryHandshake
<1> HIDE DEF r
<1>5. state' = [state EXCEPT !["client"] = next]
  BY Zenon, <1>0, <1>4 DEF Typed
<1>6. ~fresh
  <2>1. fresh => next = "tcp_handshake"
    BY Zenon, <1>0 DEF Progress
  <2> QED BY Zenon, <1>4, <2>1
<1>7. Past(r.send.seq, first["client"]) <= 1 + HandshakeLen
      /\ Past(r.reserved_send_seq, first["client"]) <= 1 + HandshakeLen
  BY <1>0, <1>1, <1>3, <1>4 DEF Handshaking
<1>8. Reached(r.recv.ack_seq, "client")
  BY Zenon, <1>0, <1>3, <1>4 DEF Acked
<1>9. next = "handshake1" =>
           /\ state["client"] \in {"tcp_handshake", "handshake1"}
           /\ Past(r.send.seq, first["client"]) = 1
           /\ Past(r.reserved_send_seq, first["client"]) = 1
           /\ state["server"] # "none" => r.send.ack_seq = first["server"]
           /\ state["server"] = "none" =>
                \A p \in net : p.kind \in {"ack", "hs1"} => p.ack_seq = r.send.ack_seq
  BY Zenon, <1>0, <1>3 DEF Handshaking, Opening
<1>10. next = "handshake2" => state["server"] # "none" /\ Reached(r.send.ack_seq, "server")
  BY Zenon, <1>0, <1>3 DEF Progress, Streams
<1> HIDE DEF next
<1> QED BY Zenon, <1>3, <1>4, <1>5, <1>6, <1>7, <1>8, <1>9, <1>10, HandshakeF

\* The end of what lies in a stream.
LEMMA EndWithin ==
  ASSUME Typed, NEW x \in Side, NEW n \in Number, NEW l \in Nat,
         Past(n, first[x]) + l <= Past(top[x], first[x])
  PROVE  Plus(n, l) \in Number /\ Reached(Plus(n, l), x)
<1>1. first[x] \in Number /\ Past(top[x], first[x]) \in Nat
      /\ Past(top[x], first[x]) < Space /\ Space \in Nat
  BY Zenon, Fields, FakeTcpAssumption
<1>2. Past(n, first[x]) \in Nat
  BY Zenon, <1>1, PastNat
<1>3. Past(n, first[x]) + l < Space
  BY <1>1, <1>2
<1> QED BY Zenon, <1>1, <1>3, PastPlus DEF Reached

\* The SYN-ACK brings the client to the first handshake.
LEMMA SynAckF ==
  ASSUME FInv, ~fresh, NEW p \in net, p.from = "server", state["client"] = "tcp_handshake",
         Advance(parse_recv(raw["client"], p), "handshake1", p),
         UNCHANGED <<seq_mode, fresh, sent, first>>
  PROVE  FInv'
<1> DEFINE c == parse_recv(raw["client"], p)
           r == TakeUp(c, "handshake1", p)
<1>0. Typed /\ Short /\ Progress /\ Handshaking /\ Opening /\ Sound /\ Acked /\ Streams
  BY Zenon DEF FInv
<1>1. "client" \in Side /\ HandshakeLen \in Nat /\ 1 \in Nat /\ Space \in Nat
  BY Zenon, FakeTcpAssumption DEF Side
<1>2. /\ raw["client"] \in RawInfo /\ raw["client"].send.seq \in Number
      /\ first["client"] \in Number /\ p \in Segments /\ p.seq \in Number
      /\ Past(first["client"], first["client"]) = 0
  BY Zenon, <1>0, <1>1, Fields
<1>3. c \in RawInfo /\ c.send = raw["client"].send /\ c.recv.ack_seq = p.ack_seq
  BY Zenon, <1>2, ParseRecv
<1>4. state' = [state EXCEPT !["client"] = "handshake1"] /\ SendHandshake(r, "handshake1")
      /\ jobs' = jobs
  BY Zenon DEF Advance
<1> HIDE DEF c
<1>5. raw["client"].send.seq = first["client"] /\ c.send.seq = first["client"]
  BY Zenon, <1>0, <1>3 DEF Handshaking
<1>6. Plus(first["client"], 1) \in Number /\ Past(Plus(first["client"], 1), first["client"]) = 1
      /\ 1 < Space
  <2>1. 0 + 1 < Space
    <3>1. 1 + 2 * HandshakeLen + sent * MAX_DATA_LEN \in Nat
          /\ 2 * (1 + 2 * HandshakeLen + sent * MAX_DATA_LEN) + 2 <= Space
      BY Zenon, <1>0, Room
    <3> QED BY <1>1, <3>1
  <2> QED BY <1>1, <1>2, <2>1, PastPlus
<1>7. Plus(p.seq, 1) \in Number
  BY Zenon, <1>1, <1>2, <1>6, PlusCases
<1>8. /\ r \in RawInfo /\ r.recv = c.recv /\ r.send.seq = Plus(first["client"], 1)
      /\ r.reserved_send_seq = Plus(first["client"], 1)
  BY <1>2, <1>3, <1>5, <1>6, <1>7, TakeUpFirst
<1> HIDE DEF r
<1>9. Past(r.send.seq, first["client"]) = 1 /\ Past(r.reserved_send_seq, first["client"]) = 1
      /\ 1 <= 1 + HandshakeLen
  BY <1>1, <1>6, <1>8
<1>10. Reached(r.recv.ack_seq, "client")
  <2>1. Reached(p.ack_seq, "client")
    BY Zenon, <1>0 DEF Sound, ServerOk
  <2> QED BY Zenon, <2>1, <1>3, <1>8
<1>11. /\ state["client"] \in {"tcp_handshake", "handshake1"} /\ state["server"] = "none"
       /\ \A q \in net : q.kind \in {"ack", "hs1"} => q.ack_seq = r.send.ack_seq
  <2>1. state["server"] = "none" /\ \A q \in net : q.kind \in {"syn", "syn ack"}
    BY Zenon, <1>0 DEF Progress
  <2>2. \A q \in net : q.kind \notin {"ack", "hs1"}
    BY Zenon, <2>1
  <2> QED BY Zenon, <2>1, <2>2
<1>12. "handshake1" \in {"handshake1", "handshake2"} /\ "handshake1" # "handshake2"
  BY Zenon
<1> QED BY Zenon, <1>4, <1>8, <1>9, <1>10, <1>11, <1>12, HandshakeF

\* The reply brings it to the second one.
LEMMA ReplyF ==
  ASSUME FInv, ~fresh, NEW p \in net, p.from = "server", p.kind = "reply",
         state["client"] = "handshake1",
         Advance(parse_recv(raw["client"], p), "handshake2", p),
         UNCHANGED <<seq_mode, fresh, sent, first>>
  PROVE  FInv'
<1> DEFINE c == parse_recv(raw["client"], p)
           r == TakeUp(c, "handshake2", p)
<1>0. Typed /\ Short /\ Progress /\ Handshaking /\ Opening /\ Sound /\ Acked /\ Streams
  BY Zenon DEF FInv
<1>1. "client" \in Side /\ "server" \in Side
  BY Zenon DEF Side
<1>2. /\ raw["client"] \in RawInfo /\ p \in Segments /\ p.seq \in Number /\ p.len \in Nat
  BY Zenon, <1>0, <1>1, Fields
<1>3. c \in RawInfo /\ c.send = raw["client"].send /\ c.recv.ack_seq = p.ack_seq
  BY Zenon, <1>2, ParseRecv
<1>4. state' = [state EXCEPT !["client"] = "handshake2"] /\ SendHandshake(r, "handshake2")
      /\ jobs' = jobs
  BY Zenon DEF Advance
<1> HIDE DEF c
<1>5. Reached(p.ack_seq, "client") /\ Within(p, "server")
  <2>1. ServerOk(p) /\ p.kind # "syn ack"
    BY Zenon, <1>0 DEF Sound
  <2> QED BY Zenon, <2>1 DEF ServerOk
<1>6. Plus(p.seq, p.len) \in Number /\ Reached(Plus(p.seq, p.len), "server")
  BY Zenon, <1>0, <1>1, <1>2, <1>5, EndWithin DEF Within
<1>7. /\ r \in RawInfo /\ r.recv = c.recv /\ r.send.seq = c.send.seq
      /\ r.send.ack_seq = Plus(p.seq, p.len) /\ r.reserved_send_seq = c.send.seq
  BY Zenon, <1>2, <1>3, <1>6, TakeUpSecond
<1> HIDE DEF r
<1>8. Past(r.send.seq, first["client"]) <= 1 + HandshakeLen
      /\ Past(r.reserved_send_seq, first["client"]) <= 1 + HandshakeLen
  BY Zenon, <1>0, <1>3, <1>7 DEF Handshaking
<1>9. Reached(r.recv.ack_seq, "client") /\ Reached(r.send.ack_seq, "server")
  BY Zenon, <1>3, <1>5, <1>6, <1>7
<1>10. state["server"] # "none"
  BY Zenon, <1>0 DEF Opening
<1>11. "handshake2" \in {"handshake1", "handshake2"} /\ "handshake1" # "handshake2"
  BY Zenon
<1> QED BY Zenon, <1>4, <1>7, <1>8, <1>9, <1>10, <1>11, HandshakeF


\* A segment whose headers are taken in, and which may go to the pipeline.
LEMMA TakeInF ==
  ASSUME FInv, NEW x \in Side, NEW p \in net, p.from = Other(x),
         TakeIn(x, p, parse_recv(raw[x], p)), UNCHANGED <<seq_mode, fresh, sent, first>>,
         x = "server" => ~peek_syn(p) /\ state["server"] # "none"
                         /\ (p.kind = "safer" => state["server"] = "ready")
  PROVE  FInv'
<1> DEFINE c == parse_recv(raw[x], p)
           meta == [seq |-> p.seq, len |-> p.len]
<1>0. Typed /\ Short /\ Progress /\ Handshaking /\ Opening /\ Sound /\ Acked /\ Streams
  BY Zenon DEF FInv
<1>1. "client" \in Side /\ "server" \in Side /\ "client" # "server"
  BY Zenon DEF Side
<1>2. /\ raw[x] \in RawInfo /\ p \in Segments /\ p.seq \in Number /\ p.len \in Nat
      /\ p.from \in Side /\ jobs[x] \in Seq(Metas)
  <2>1. jobs[x] \in Seq(Metas)
    BY Zenon, <1>0 DEF Typed
  <2> QED BY Zenon, <1>0, <1>1, <2>1, Fields
<1>3. /\ c \in RawInfo /\ c.send = raw[x].send
      /\ c.reserved_send_seq = raw[x].reserved_send_seq /\ c.recv.ack_seq = p.ack_seq
  BY Zenon, <1>2, ParseRecv
<1>4. /\ raw' = [raw EXCEPT ![x] = c]
      /\ jobs' = [jobs EXCEPT ![x] = IF p.kind = "safer" THEN Append(jobs[x], meta)
                                     ELSE jobs[x]]
      /\ state' = state /\ net' = net /\ top' = top /\ first' = first
  <2>1. RecvMeta(p) = meta
    BY Zenon DEF RecvMeta, parse_tcp
  <2> HIDE DEF c, meta
  <2> QED BY Zenon, <2>1 DEF TakeIn, Unchanged, c
<1>5. meta \in Metas /\ meta.seq = p.seq /\ meta.len = p.len
  BY Zenon, <1>2 DEF Metas
<1> HIDE DEF c, meta
<1>6. /\ raw' \in [Side -> RawInfo] /\ raw'[x] = c
      /\ \A y \in Side : /\ raw'[y].send = raw[y].send
                         /\ raw'[y].reserved_send_seq = raw[y].reserved_send_seq
                         /\ y # x => raw'[y] = raw[y]
  BY Zenon, <1>0, <1>3, <1>4 DEF Typed
<1>7. Reached(p.ack_seq, x) /\ (p.kind = "safer" => Within(p, Other(x)))
  <2>1. CASE x = "client"
    <3>1. ServerOk(p) /\ Other(x) = "server"
      BY Zenon, <2>1, <1>0, <1>1 DEF Sound, Other
    <3>2. p.kind = "safer" => p.kind # "syn ack"
      BY Zenon
    <3> QED BY Zenon, <2>1, <3>1, <3>2 DEF ServerOk
  <2>2. CASE x = "server"
    <3>1. ClientOk(p) /\ Other(x) = "client"
      BY Zenon, <2>2, <1>0, <1>1 DEF Sound, Other
    <3>2. p.kind # "syn"
      BY Zenon, <2>2 DEF peek_syn
    <3> QED BY Zenon, <2>2, <3>1, <3>2 DEF ClientOk
  <2> QED BY Zenon, <2>1, <2>2 DEF Side
<1>8. jobs' \in [Side -> Seq(Metas)] /\ \A y \in Side : y # x => jobs'[y] = jobs[y]
  <2> DEFINE j == IF p.kind = "safer" THEN Append(jobs[x], meta) ELSE jobs[x]
  <2>1. j \in Seq(Metas)
    BY <1>2, <1>5
  <2>2. jobs' = [jobs EXCEPT ![x] = j]
    BY Zenon, <1>4
  <2> HIDE DEF j
  <2> QED BY Zenon, <2>1, <2>2, <1>0 DEF Typed
<1>9. p.kind # "safer" => jobs' = jobs
  BY Zenon, <1>0, <1>4 DEF Typed
<1>10. Typed'
  BY Zenon, <1>0, <1>4, <1>6, <1>8 DEF Typed
<1>11. Short'
  BY Zenon, <1>0, <1>4 DEF Short
<1>12. Progress'
  <2>1. CASE p.kind # "safer"
    BY Zenon, <2>1, <1>0, <1>4, <1>9 DEF Progress
  <2>2. CASE p.kind = "safer"
    <3>1. state["client"] \notin {"tcp_handshake", "handshake1"}
      BY Zenon, <2>2, <1>0 DEF Progress
    <3>2. state["server"] # "ready" => jobs'["server"] = jobs["server"]
      BY Zenon, <2>2, <1>1, <1>8 DEF Side
    <3> QED BY Zenon, <3>1, <3>2, <1>0, <1>4 DEF Progress
  <2> QED BY Zenon, <2>1, <2>2
<1>13. Handshaking' /\ Opening' /\ Streams'
  <2>1. "client" \in Side /\ "server" \in Side
    BY Zenon DEF Side
  <2>2. /\ raw'["client"].send = raw["client"].send
        /\ raw'["server"].send = raw["server"].send
        /\ raw'["client"].reserved_send_seq = raw["client"].reserved_send_seq
    BY Zenon, <2>1, <1>6
  <2>3. Handshaking'
    BY Zenon, <2>2, <1>0, <1>1, <1>4 DEF Handshaking
  <2>4. Opening'
    BY Zenon, <2>2, <1>0, <1>1, <1>4 DEF Opening
  <2>5. Streams'
    BY Zenon, <2>2, <1>0, <1>1, <1>4 DEF Streams, Reached
  <2> QED BY Zenon, <2>3, <2>4, <2>5
<1>14. Sound'
  <2>1. \A q \in net' : /\ q.from = "client" => ClientOk(q)'
                        /\ q.from = "server" => ServerOk(q)'
    BY Zenon, <1>0, <1>4 DEF Sound, ClientOk, ServerOk, Within, Reached
  <2>2. ASSUME NEW y \in Side, NEW i \in 1 .. Len(jobs'[y])
        PROVE  Within(jobs'[y][i], Other(y))
    <3>1. CASE jobs'[y] = jobs[y]
      BY Zenon, <3>1, <1>0 DEF Sound
    <3>2. CASE y = x /\ jobs'[x] = Append(jobs[x], meta) /\ p.kind = "safer"
      <4>1. Len(jobs'[x]) = Len(jobs[x]) + 1 /\ Len(jobs[x]) \in Nat
        BY <3>2, <1>2, <1>5
      <4>2. CASE i \in 1 .. Len(jobs[x])
        <5>1. jobs'[x][i] = jobs[x][i]
          BY <3>2, <4>1, <4>2, <1>2, <1>5
        <5> QED BY Zenon, <3>2, <4>2, <5>1, <1>0 DEF Sound
      <4>3. CASE i = Len(jobs[x]) + 1
        <5>1. jobs'[x][i] = meta
          BY <3>2, <4>1, <4>3, <1>2, <1>5
        <5> QED BY Zenon, <3>2, <5>1, <1>5, <1>7 DEF Within
      <4> QED BY <3>2, <4>1, <4>2, <4>3
    <3> QED BY Zenon, <3>1, <3>2, <1>0, <1>4 DEF Typed
  <2> QED BY Zenon, <2>1, <2>2, <1>4 DEF Sound, Within
<1>15. Acked'
  <2>1. ASSUME NEW y \in Side, Reached(raw[y].recv.ack_seq, y) \/ y = x
        PROVE  Reached(raw'[y].recv.ack_seq, y)
    BY Zenon, <2>1, <1>3, <1>6, <1>7
  <2> QED BY Zenon, <2>1, <1>0, <1>1, <1>4 DEF Acked, Reached
<1> QED BY Zenon, <1>10, <1>11, <1>12, <1>13, <1>14, <1>15 DEF FInv

\* on_raw_packet of the client.
LEMMA ClientReceiveF ==
  ASSUME FInv, NEW p \in net, ClientReceive(p)
  PROVE  FInv'
<1>1. p.from = "server" /\ ~fresh /\ UNCHANGED <<seq_mode, fresh, sent, first>>
  BY Zenon DEF ClientReceive
<1>2. "client" \in Side /\ Other("client") = "server" /\ "client" # "server"
  BY Zenon DEF Side, Other
<1>3. CASE state["client"] = "tcp_handshake"
           /\ Advance(parse_recv(raw["client"], p), "handshake1", p)
  BY Zenon, <1>1, <1>3, SynAckF
<1>4. CASE state["client"] = "handshake1" /\ p.kind = "reply"
           /\ Advance(parse_recv(raw["client"], p), "handshake2", p)
  BY Zenon, <1>1, <1>4, ReplyF
<1>5. CASE TakeIn("client", p, parse_recv(raw["client"], p))
  BY Zenon, <1>1, <1>2, <1>5, TakeInF
<1> QED BY Zenon, <1>3, <1>4, <1>5 DEF ClientReceive

\* The server's part of the same.
LEMMA ServerReceiveF ==
  ASSUME FInv, NEW p \in net, ServerReceive(p)
  PROVE  FInv'
<1>1. /\ p.from = "client" /\ ~peek_syn(p) /\ UNCHANGED <<seq_mode, fresh, sent, first>>
      /\ TakeIn("server", p, parse_recv(raw["server"], p))
      /\ (state["server"] = "ready" \/ (state["server"] = "handshake1" /\ p.kind = "ack"))
  BY Zenon DEF ServerReceive
<1>2. "server" \in Side /\ p.from = Other("server")
  BY Zenon, <1>1 DEF Side, Other
<1>3. state["server"] # "none" /\ (p.kind = "safer" => state["server"] = "ready")
  BY Zenon, <1>1
<1> QED BY Zenon, <1>1, <1>2, <1>3, TakeInF


\* The answer to a SYN acknowledges the SYN, and nothing else changes.
LEMMA ServerSynF ==
  ASSUME FInv, NEW p \in net, ServerSyn(p)
  PROVE  FInv'
<1>0. Typed /\ Short /\ Progress /\ Handshaking /\ Opening /\ Sound /\ Acked /\ Streams
  BY Zenon DEF FInv
<1>1. "client" \in Side /\ "server" \in Side /\ "client" # "server" /\ 1 \in Nat /\ 0 \in Nat
  BY Zenon DEF Side
<1>2. PICK n \in Starts["server"] : net' = net \cup
        {Segment("server", "syn ack", [seq |-> n, ack_seq |-> Plus(p.seq, 1)], 0)}
  BY Zenon DEF ServerSyn
<1> DEFINE s == Segment("server", "syn ack", [seq |-> n, ack_seq |-> Plus(p.seq, 1)], 0)
<1>3. /\ p.from = "client" /\ p.kind \in {"syn", "syn ack"} /\ state["server"] # "ready"
      /\ UNCHANGED <<seq_mode, raw, state, fresh, jobs, sent, first, top>>
  BY Zenon DEF ServerSyn, peek_syn
<1>4. p.seq = first["client"] /\ first["client"] \in Number /\ ~fresh
      /\ Past(first["client"], first["client"]) = 0
  <2>1. ClientOk(p) /\ ~fresh
    BY Zenon, <1>0, <1>3 DEF Sound, Progress
  <2>2. p.kind = "syn"
    BY Zenon, <1>3, <2>1 DEF ClientOk
  <2> QED BY Zenon, <1>0, <1>1, <2>1, <2>2, Fields DEF ClientOk
<1>5. n \in Number
  <2>1. Starts["server"] \subseteq Number
    BY Zenon, <1>1, FakeTcpAssumption DEF Number
  <2> QED BY Zenon, <2>1
<1>6. Plus(p.seq, 1) \in Number /\ Reached(Plus(p.seq, 1), "client")
  <2>1. Past(p.seq, first["client"]) + 1 <= Past(top["client"], first["client"])
    BY <1>0, <1>4 DEF Short
  <2> QED BY Zenon, <1>0, <1>1, <1>4, <2>1, EndWithin
<1>7. /\ s \in Segments /\ s.from = "server" /\ s.kind = "syn ack"
      /\ s.ack_seq = Plus(p.seq, 1)
  BY Zenon, <1>1, <1>5, <1>6 DEF Segment, Segments
<1> HIDE DEF s
<1>8. net' = net \cup {s} /\ s.kind \notin {"hs2", "safer", "reply", "ack", "hs1"}
  <2>1. net' = net \cup {s}
    BY Zenon, <1>2 DEF s
  <2> QED BY Zenon, <2>1, <1>7
<1>9. Typed'
  BY Zenon, <1>0, <1>3, <1>7, <1>8 DEF Typed
<1>10. Progress'
  BY Zenon, <1>0, <1>3, <1>4, <1>7, <1>8 DEF Progress
<1>11. Opening'
  BY Zenon, <1>0, <1>3, <1>8 DEF Opening
<1>12. Short' /\ Handshaking' /\ Acked' /\ Streams'
  BY ZenonT(60), <1>0, <1>3 DEF Short, Handshaking, Acked, Streams, Reached
<1>13. Sound'
  <2>1. s.from # "client" /\ ServerOk(s)
    BY Zenon, <1>1, <1>6, <1>7 DEF ServerOk
  <2>2. \A q \in net' : /\ q.from = "client" => ClientOk(q)
                        /\ q.from = "server" => ServerOk(q)
    BY Zenon, <1>0, <1>8, <2>1 DEF Sound
  <2>3. \A q \in net' : /\ q.from = "client" => ClientOk(q)'
                        /\ q.from = "server" => ServerOk(q)'
    BY Zenon, <1>3, <2>2 DEF ClientOk, ServerOk, Within, Reached
  <2>4. \A x \in Side : \A i \in 1 .. Len(jobs'[x]) : Within(jobs'[x][i], Other(x))
    BY Zenon, <1>0, <1>3 DEF Sound
  <2> QED BY Zenon, <1>3, <2>3, <2>4 DEF Sound, Within
<1> QED BY Zenon, <1>9, <1>10, <1>11, <1>12, <1>13 DEF FInv

\* What is accepted lies in the stream of the other side, and so does its end.
LEMMA AcceptF ==
  ASSUME FInv, NEW x \in Side, Accept(x)
  PROVE  FInv'
<1> DEFINE j == jobs[x]  meta == Head(jobs[x])  q == after_recv(raw[x], meta)
<1>0. Typed /\ Short /\ Progress /\ Handshaking /\ Opening /\ Sound /\ Acked /\ Streams
  BY Zenon DEF FInv
<1>1. "client" \in Side /\ "server" \in Side /\ "client" # "server" /\ Other(x) \in Side
  BY Zenon DEF Side, Other
<1>2. /\ j # <<>> /\ raw' = [raw EXCEPT ![x] = q] /\ jobs' = [jobs EXCEPT ![x] = Tail(j)]
      /\ state' = [state EXCEPT ![x] = "ready"]
      /\ UNCHANGED <<seq_mode, fresh, net, sent, first, top>>
  BY Zenon DEF Accept, Unchanged
<1>3. j \in Seq(Metas) /\ raw[x] \in RawInfo
  BY Zenon, <1>0 DEF Typed
<1>4. /\ Len(j) \in Nat /\ 1 \in 1 .. Len(j) /\ meta = j[1] /\ Tail(j) \in Seq(Metas)
      /\ \A i \in 1 .. Len(Tail(j)) : i + 1 \in 1 .. Len(j) /\ Tail(j)[i] = j[i + 1]
  BY <1>2, <1>3
<1>5. meta.seq \in Number /\ meta.len \in Nat /\ Within(meta, Other(x))
  BY Zenon, <1>0, <1>4, Fields DEF Sound
<1> HIDE DEF meta
<1>6. Plus(meta.seq, meta.len) \in Number /\ Reached(Plus(meta.seq, meta.len), Other(x))
  BY Zenon, <1>0, <1>1, <1>5, EndWithin DEF Within
<1>7. /\ q \in RawInfo /\ q.send.seq = raw[x].send.seq /\ q.recv = raw[x].recv
      /\ q.reserved_send_seq = raw[x].reserved_send_seq
      /\ q.send.ack_seq \in {raw[x].send.ack_seq, Plus(meta.seq, meta.len)}
  BY Zenon, <1>3, <1>6, AfterRecv
<1> HIDE DEF q
<1>8. /\ raw' \in [Side -> RawInfo] /\ raw'[x] = q
      /\ \A y \in Side : /\ raw'[y].send.seq = raw[y].send.seq /\ raw'[y].recv = raw[y].recv
                         /\ raw'[y].reserved_send_seq = raw[y].reserved_send_seq
                         /\ y # x => raw'[y] = raw[y]
  BY Zenon, <1>0, <1>2, <1>7 DEF Typed
<1>9. /\ state'[x] = "ready" /\ \A y \in Side : y # x => state'[y] = state[y]
      /\ state' \in [Side -> {"tcp_handshake", "none", "handshake1", "handshake2", "ready"}]
  BY Zenon, <1>0, <1>2 DEF Typed
<1>10. /\ jobs'[x] = Tail(j) /\ \A y \in Side : y # x => jobs'[y] = jobs[y]
       /\ jobs' \in [Side -> Seq(Metas)]
  <2> HIDE DEF j
  <2> QED BY Zenon, <1>0, <1>2, <1>4 DEF Typed
<1>11. /\ state["client"] \in {"handshake2", "ready"} /\ state["server"] # "none"
       /\ x = "server" => state["server"] = "ready"
  <2>1. x = "server" => state["server"] = "ready"
    BY Zenon, <1>0, <1>2 DEF Progress
  <2>2. state["client"] \notin {"tcp_handshake", "handshake1"}
    <3>1. CASE x = "client"
      BY Zenon, <3>1, <1>0, <1>2 DEF Progress
    <3>2. CASE x = "server"
      BY Zenon, <3>2, <2>1, <1>0 DEF Progress
    <3> QED BY Zenon, <3>1, <3>2 DEF Side
  <2>3. state["client"] \in {"handshake2", "ready"}
    BY Zenon, <2>2, <1>0 DEF Progress
  <2>4. state["server"] # "none"
    BY Zenon, <2>2, <1>0 DEF Progress
  <2> QED BY Zenon, <2>1, <2>3, <2>4
<1>12. state'["client"] \in {"handshake2", "ready"} /\ state'["server"] # "none"
       /\ (state'["server"] = state["server"])
  <2>1. CASE x = "client"
    BY Zenon, <2>1, <1>1, <1>9, <1>11
  <2>2. CASE x = "server"
    BY Zenon, <2>2, <1>1, <1>9, <1>11
  <2> QED BY Zenon, <2>1, <2>2 DEF Side
<1>13. Typed'
  BY Zenon, <1>0, <1>2, <1>8, <1>9, <1>10 DEF Typed
<1>14. Short'
  BY Zenon, <1>0, <1>2, <1>12 DEF Short
<1>15. Progress'
  <2>1. ~fresh'
    <3>1. state["client"] # "tcp_handshake"
      BY Zenon, <1>11
    <3> QED BY Zenon, <3>1, <1>0, <1>2 DEF Progress
  <2>2. state'["server"] # "ready" => jobs'["server"] = <<>>
    BY Zenon, <1>0, <1>1, <1>10, <1>11, <1>12 DEF Progress
  <2>3. state'["server"] \in {"none", "handshake1", "ready"}
    BY Zenon, <1>0, <1>12 DEF Progress
  <2>4. state'["client"] \notin {"tcp_handshake", "handshake1"}
        /\ state'["client"] \in {"tcp_handshake", "handshake1", "handshake2", "ready"}
        /\ state'["client"] # "tcp_handshake"
    BY Zenon, <1>12
  <2> QED BY Zenon, <2>1, <2>2, <2>3, <2>4, <1>12 DEF Progress
<1>16. Handshaking'
  <2>1. state'["client"] = "handshake2" => state["client"] = "handshake2"
    BY Zenon, <1>1, <1>9 DEF Side
  <2>2. state'["client"] # "tcp_handshake" /\ state'["client"] # "handshake1"
    BY Zenon, <1>12
  <2> QED BY Zenon, <2>1, <2>2, <1>0, <1>1, <1>2, <1>8 DEF Handshaking
<1>17. Opening'
  <2>1. state'["client"] # "handshake1" /\ state'["server"] # "none"
    BY Zenon, <1>12
  <2> QED BY Zenon, <2>1, <1>0, <1>2, <1>11 DEF Opening
<1>18. Sound'
  <2>1. \A p \in net' : /\ p.from = "client" => ClientOk(p)'
                        /\ p.from = "server" => ServerOk(p)'
    BY Zenon, <1>0, <1>2, <1>12 DEF Sound, ClientOk, ServerOk, Within, Reached
  <2>2. ASSUME NEW y \in Side, NEW i \in 1 .. Len(jobs'[y])
        PROVE  Within(jobs'[y][i], Other(y))
    <3>1. CASE y # x
      BY Zenon, <3>1, <1>0, <1>10 DEF Sound
    <3>2. CASE y = x
      <4>1. i + 1 \in 1 .. Len(j) /\ jobs'[y][i] = j[i + 1]
        BY Zenon, <3>2, <1>4, <1>10
      <4> QED BY Zenon, <3>2, <4>1, <1>0 DEF Sound
    <3> QED BY Zenon, <3>1, <3>2
  <2> QED BY Zenon, <2>1, <2>2, <1>2 DEF Sound, Within
<1>19. Acked'
  <2>1. state["client"] # "tcp_handshake"
    BY Zenon, <1>11
  <2> QED BY Zenon, <2>1, <1>0, <1>1, <1>2, <1>8, <1>11 DEF Acked, Reached
<1>20. Streams'
  <2>1. Reached(raw["client"].send.ack_seq, "server")
        /\ Reached(raw["server"].send.ack_seq, "client")
    BY Zenon, <1>0, <1>11 DEF Streams
  <2>2. Reached(raw[x].send.ack_seq, Other(x))
    BY Zenon, <2>1, <1>1 DEF Side, Other
  <2>3. Reached(q.send.ack_seq, Other(x))
    BY Zenon, <2>2, <1>6, <1>7
  <2>4. Reached(raw'["client"].send.ack_seq, "server")
        /\ Reached(raw'["server"].send.ack_seq, "client")
    BY Zenon, <2>1, <2>3, <1>1, <1>8 DEF Side, Other
  <2> QED BY Zenon, <2>4, <1>0, <1>1, <1>2, <1>8, <1>11 DEF Streams, Reached
<1> QED BY Zenon, <1>13, <1>14, <1>15, <1>16, <1>17, <1>18, <1>19, <1>20 DEF FInv


\* transmit_safer: the segment begins inside the sender's stream, and after_send goes on
\* inside it.
LEMMA SendF ==
  ASSUME FInv, NEW x \in Side, Send(x)
  PROVE  FInv'
<1>0. Typed /\ Short /\ Progress /\ Handshaking /\ Opening /\ Sound /\ Acked /\ Streams
  BY Zenon DEF FInv
<1>1. "client" \in Side /\ "server" \in Side /\ "client" # "server"
      /\ HandshakeLen \in Nat /\ MAX_DATA_LEN \in Nat /\ Space \in Nat
  BY Zenon, FakeTcpAssumption DEF Side
<1>2. PICK len \in Lengths, moved \in IF seq_mode = 2 THEN BOOLEAN ELSE {TRUE} :
        /\ Transmit(x, {Segment(x, "safer", raw[x].send, len)})
        /\ raw' = [raw EXCEPT ![x] = after_send(raw[x], len, moved)]
  BY Zenon DEF Send, Unchanged
<1>3. len \in Nat /\ len <= MAX_DATA_LEN
  BY <1>1, FakeTcpAssumption
<1>4. moved \in BOOLEAN
  BY Zenon
<1>5. /\ state[x] = "ready" /\ sent < MaxData /\ sent' = sent + 1
      /\ UNCHANGED <<seq_mode, state, fresh, jobs, first>>
  BY Zenon DEF Send
<1> DEFINE p == Segment(x, "safer", raw[x].send, len)
           q == after_send(raw[x], len, moved)
           f == first[x]
           k == sent * MAX_DATA_LEN
           b == IF x = "client" THEN 1 + 2 * HandshakeLen ELSE HandshakeLen
           m == b + k + MAX_DATA_LEN
<1>6. raw' = [raw EXCEPT ![x] = q] /\ Transmit(x, {p, p})
  <2>1. {p, p} = {p}
    <3> HIDE DEF p
    <3> QED BY Zenon
  <2> QED BY Zenon, <1>2, <2>1
<1>7. /\ raw[x] \in RawInfo /\ raw[x].send.seq \in Number /\ raw[x].send.ack_seq \in Number
      /\ raw[x].recv.ack_seq \in Number /\ f \in Number
      /\ Past(top[x], f) \in Nat
  BY Zenon, <1>0, Fields
<1>8. /\ p \in Segments /\ p.from = x /\ p.kind = "safer" /\ p.seq = raw[x].send.seq
      /\ p.ack_seq = raw[x].send.ack_seq /\ p.len = len
  BY Zenon, <1>3, <1>7 DEF Segment, Segments
<1> HIDE DEF p, q, f
<1>9. k \in Nat /\ sent' * MAX_DATA_LEN = k + MAX_DATA_LEN
  <2>1. sent \in Nat
    BY <1>0, FakeTcpAssumption DEF Typed
  <2> QED BY <2>1, <1>1, <1>5
<1>10. 2 * (1 + 2 * HandshakeLen + k + MAX_DATA_LEN) + 2 <= Space
  BY Zenon, <1>0, <1>5, Room
<1> HIDE DEF k
<1>11. m \in Nat /\ 2 * m + 2 <= Space
  BY <1>1, <1>9, <1>10
<1>12. /\ state["client"] \in {"handshake2", "ready"} /\ state["server"] # "none" /\ ~fresh
       /\ x = "server" => state["server"] = "ready"
  <2>1. x = "server" => state["server"] = "ready"
    BY Zenon, <1>5
  <2>2. state["client"] \notin {"tcp_handshake", "handshake1"}
    <3>1. CASE x = "client"
      BY Zenon, <3>1, <1>5
    <3>2. CASE x = "server"
      BY Zenon, <3>2, <2>1, <1>0 DEF Progress
    <3> QED BY Zenon, <3>1, <3>2 DEF Side
  <2>3. state["client"] \in {"handshake2", "ready"}
    BY Zenon, <2>2, <1>0 DEF Progress
  <2>4. state["server"] # "none" /\ ~fresh
    BY Zenon, <2>2, <1>0 DEF Progress
  <2> QED BY Zenon, <2>1, <2>3, <2>4
<1>13. Past(top[x], f) <= b + k /\ b \in Nat
  <2>1. CASE x = "client"
    BY <2>1, <1>0, <1>1, <1>12 DEF Short, f, k
  <2>2. CASE x = "server"
    BY Zenon, <2>2, <1>0, <1>1, <1>12 DEF Short, f, k
  <2> QED BY Zenon, <2>1, <2>2 DEF Side
<1>14. Past(raw[x].send.seq, f) \in Nat /\ Past(raw[x].send.seq, f) <= Past(top[x], f)
       /\ Reached(raw[x].recv.ack_seq, x)
  <2>1. Reached(raw[x].send.seq, x) /\ Reached(raw[x].recv.ack_seq, x)
    <3>1. state["client"] # "tcp_handshake"
      BY Zenon, <1>12
    <3> QED BY Zenon, <3>1, <1>0, <1>12 DEF Streams, Acked, Side
  <2> QED BY Zenon, <2>1, <1>7, PastNat DEF Reached, f
<1>15. Past(raw[x].send.seq, f) + len <= m /\ Past(top[x], f) <= m
       /\ Past(raw[x].send.seq, f) + len < Space
  <2> HIDE DEF b
  <2> QED BY <1>1, <1>3, <1>7, <1>9, <1>11, <1>13, <1>14
<1> HIDE DEF m, b
<1>16. ~peek_syn(p)
  BY Zenon, <1>8 DEF peek_syn
<1>17. Past(p.seq, f) + p.len <= m
  BY Zenon, <1>8, <1>15
<1>18. /\ net' = net \cup {p, p}
       /\ top' \in [Side -> Number]
       /\ \A y \in Side \ {x} : top'[y] = top[y]
       /\ Past(top[x], f) <= Past(top'[x], f)
       /\ Past(top'[x], f) <= m
       /\ Past(p.seq, f) + p.len <= Past(top'[x], f)
  BY Zenon, <1>0, <1>6, <1>8, <1>11, <1>15, <1>16, <1>17, Transmitted DEF f
<1>19. Plus(raw[x].send.seq, len) \in Number
       /\ Past(Plus(raw[x].send.seq, len), f) = Past(raw[x].send.seq, f) + len
  BY <1>3, <1>7, <1>15, PastPlus
<1>20. /\ q \in RawInfo /\ q.send.ack_seq = raw[x].send.ack_seq
       /\ q.reserved_send_seq = raw[x].reserved_send_seq
       /\ q.recv.ack_seq = raw[x].recv.ack_seq
       /\ q.send.seq \in {raw[x].send.seq, Plus(raw[x].send.seq, len), raw[x].recv.ack_seq}
  <2>1. seq_mode \in SeqModes
    BY Zenon, <1>0 DEF Typed
  <2> QED BY <2>1, <1>3, <1>4, <1>7, <1>19, AfterSend DEF q
<1>21. /\ raw' \in [Side -> RawInfo] /\ raw'[x] = q
       /\ \A y \in Side : /\ raw'[y].send.ack_seq = raw[y].send.ack_seq
                          /\ raw'[y].recv.ack_seq = raw[y].recv.ack_seq
                          /\ raw'[y].reserved_send_seq = raw[y].reserved_send_seq
                          /\ y # x => raw'[y] = raw[y]
  BY Zenon, <1>0, <1>6, <1>20 DEF Typed
<1>22. \A y \in Side : Past(top[y], first[y]) <= Past(top'[y], first[y])
  <2>1. \A y \in Side : Past(top[y], first[y]) \in Nat
    BY Zenon, <1>0, Fields
  <2> QED BY <1>18, <2>1 DEF f
<1>23. /\ \A y \in Side : \A n \in Number : Reached(n, y) =>
            Past(n, first[y]) <= Past(top'[y], first[y])
       /\ \A r \in net : r.from = "client" => ClientOk(r)'
       /\ \A r \in net : r.from = "server" => ServerOk(r)'
       /\ \A y \in Side : \A i \in 1 .. Len(jobs[y]) :
            Past(jobs[y][i].seq, first[Other(y)]) + jobs[y][i].len
              <= Past(top'[Other(y)], first[Other(y)])
  BY Zenon, <1>5, <1>18, <1>22, Grow
<1>24. Typed'
  <2>1. sent' \in 0 .. MaxData
    BY <1>0, <1>5, FakeTcpAssumption DEF Typed
  <2>2. net' \subseteq Segments
    BY Zenon, <1>0, <1>8, <1>18 DEF Typed
  <2> QED BY Zenon, <2>1, <2>2, <1>0, <1>5, <1>18, <1>21 DEF Typed
<1>25. Short'
  <2>1. sent' * MAX_DATA_LEN = k + MAX_DATA_LEN /\ sent * MAX_DATA_LEN = k
    BY Zenon, <1>9 DEF k
  <2>2. \A y \in Side : Past(top[y], first[y]) \in Nat /\ Past(top'[y], first[y]) \in Nat
    BY Zenon, <1>0, <1>18, Fields, PastNat
  <2>3. 1 <= Past(top'["client"], first["client"])
    BY <2>2, <1>0, <1>1, <1>12, <1>22 DEF Short
  <2>4. CASE x = "client"
    <3>1. Past(top'["client"], first["client"])
            <= 1 + 2 * HandshakeLen + (k + MAX_DATA_LEN)
      BY <2>4, <1>1, <1>9, <1>18 DEF m, b, f
    <3>2. Past(top'["server"], first["server"]) <= HandshakeLen + (k + MAX_DATA_LEN)
      BY <2>1, <2>2, <2>4, <1>0, <1>1, <1>9, <1>12, <1>18 DEF Short
    <3> QED BY Zenon, <2>1, <2>3, <3>1, <3>2, <1>5 DEF Short
  <2>5. CASE x = "server"
    <3>1. Past(top'["server"], first["server"]) <= HandshakeLen + (k + MAX_DATA_LEN)
      BY <2>5, <1>1, <1>9, <1>18 DEF m, b, f
    <3>2. Past(top'["client"], first["client"])
            <= 1 + 2 * HandshakeLen + (k + MAX_DATA_LEN)
      BY <2>1, <2>2, <2>5, <1>0, <1>1, <1>9, <1>12, <1>18 DEF Short
    <3> QED BY Zenon, <2>1, <2>3, <3>1, <3>2, <1>5 DEF Short
  <2> QED BY Zenon, <2>4, <2>5 DEF Side
<1>26. Progress'
  <2>1. state["client"] \notin {"tcp_handshake", "handshake1"}
        /\ state["client"] # "tcp_handshake"
    BY Zenon, <1>12
  <2> QED BY Zenon, <2>1, <1>0, <1>5, <1>12 DEF Progress
<1>27. Handshaking'
  <2>1. state["client"] # "tcp_handshake" /\ state["client"] # "handshake1"
    BY Zenon, <1>12
  <2> QED BY Zenon, <2>1, <1>0, <1>1, <1>5, <1>21 DEF Handshaking
<1>28. Opening'
  <2>1. state["client"] # "handshake1" /\ p.kind # "hs1"
    BY Zenon, <1>8, <1>12
  <2> QED BY Zenon, <2>1, <1>0, <1>5, <1>12, <1>18 DEF Opening
<1>29. \A r \in net' : /\ r.from = "client" => ClientOk(r)'
                       /\ r.from = "server" => ServerOk(r)'
  <2>1. Past(p.ack_seq, first[Other(x)]) <= Past(top'[Other(x)], first[Other(x)])
    <3>1. Reached(raw["client"].send.ack_seq, "server")
          /\ Reached(raw["server"].send.ack_seq, "client")
      BY Zenon, <1>0, <1>12 DEF Streams
    <3>2. Reached(raw[x].send.ack_seq, Other(x)) /\ Other(x) \in Side
      BY Zenon, <3>1, <1>1 DEF Side, Other
    <3> QED BY Zenon, <3>2, <1>7, <1>8, <1>23
  <2>2. CASE x = "client"
    <3>1. Other(x) = "server" /\ p.kind # "syn"
          /\ p.kind \in {"syn", "ack", "hs1", "hs2", "safer"}
      BY Zenon, <2>2, <1>8 DEF Other
    <3>2. ASSUME NEW r, r = p PROVE ClientOk(r)'
      BY Zenon, <2>1, <2>2, <3>1, <3>2, <1>5, <1>18 DEF ClientOk, Within, Reached, f
    <3>3. \A r \in net' : r \in net \/ r = p
      BY Zenon, <1>18
    <3>4. p.from # "server"
      BY Zenon, <2>2, <1>8
    <3> QED BY Zenon, <3>2, <3>3, <3>4, <1>23
  <2>3. CASE x = "server"
    <3>1. Other(x) = "client" /\ p.kind \in {"syn ack", "reply", "safer"}
      BY Zenon, <2>3, <1>1, <1>8 DEF Other
    <3>2. ASSUME NEW r, r = p PROVE ServerOk(r)'
      BY Zenon, <2>1, <2>3, <3>1, <3>2, <1>5, <1>18 DEF ServerOk, Within, Reached, f
    <3>3. \A r \in net' : r \in net \/ r = p
      BY Zenon, <1>18
    <3>4. p.from # "client"
      BY Zenon, <2>3, <1>8
    <3> QED BY Zenon, <3>2, <3>3, <3>4, <1>23
  <2>4. QED BY Zenon, <2>2, <2>3 DEF Side
<1>30. Sound'
  <2>1. jobs' = jobs /\ first' = first
    BY Zenon, <1>5
  <2>2. \A y \in Side : \A i \in 1 .. Len(jobs'[y]) :
          Past(jobs'[y][i].seq, first'[Other(y)]) + jobs'[y][i].len
            <= Past(top'[Other(y)], first'[Other(y)])
    BY Zenon, <2>1, <1>23
  <2> QED BY Zenon, <2>2, <1>29 DEF Sound, Within
<1>31. \A y \in Side : Past(raw'[y].recv.ack_seq, first[y]) <= Past(top'[y], first[y])
  <2>1. \A y \in Side : Reached(raw[y].recv.ack_seq, y) /\ raw[y].recv.ack_seq \in Number
    <3>1. state["client"] # "tcp_handshake"
      BY Zenon, <1>12
    <3> QED BY Zenon, <3>1, <1>0, <1>12, Fields DEF Acked, Side
  <2> QED BY Zenon, <2>1, <1>21, <1>23
<1>32. Acked'
  BY Zenon, <1>1, <1>5, <1>31 DEF Acked, Reached
<1>33. Streams'
  <2>1. Past(q.send.seq, f) <= Past(top'[x], f)
    <3>1. Past(raw[x].send.seq, f) + len <= Past(top'[x], f)
      BY Zenon, <1>8, <1>18
    <3>2. Past(raw[x].recv.ack_seq, f) <= Past(top'[x], f)
      BY Zenon, <1>7, <1>14, <1>23 DEF f
    <3>3. Past(raw[x].send.seq, f) <= Past(top'[x], f)
      <4>1. Past(top'[x], f) \in Nat
        BY Zenon, <1>7, <1>18, PastNat
      <4> QED BY <3>1, <4>1, <1>3, <1>14
    <3> QED BY Zenon, <3>1, <3>2, <3>3, <1>19, <1>20
  <2>2. \A y \in Side : /\ Reached(raw[y].send.seq, y) /\ raw[y].send.seq \in Number
                        /\ Reached(raw[y].send.ack_seq, Other(y))
                        /\ raw[y].send.ack_seq \in Number /\ Other(y) \in Side
    <3>1. \A y \in Side : raw[y].send.seq \in Number /\ raw[y].send.ack_seq \in Number
      BY Zenon, <1>0, Fields
    <3>2. Other("client") = "server" /\ Other("server") = "client"
      BY Zenon DEF Other
    <3> QED BY Zenon, <3>1, <3>2, <1>0, <1>12 DEF Streams, Side
  <2>3. \A y \in Side : /\ Past(raw'[y].send.seq, first[y]) <= Past(top'[y], first[y])
                        /\ Past(raw'[y].send.ack_seq, first[Other(y)])
                             <= Past(top'[Other(y)], first[Other(y)])
    BY Zenon, <2>1, <2>2, <1>21, <1>23 DEF f
  <2>4. Other("client") = "server" /\ Other("server") = "client"
    BY Zenon DEF Other
  <2> QED BY Zenon, <2>3, <2>4, <1>1, <1>5 DEF Streams, Reached
<1> QED BY Zenon, <1>24, <1>25, <1>26, <1>27, <1>28, <1>30, <1>32, <1>33 DEF FInv


\* sync_seq with a handshake of the client: what is acknowledged lies in its stream.
LEMMA TakenOver ==
  ASSUME FInv, NEW p \in net, p.kind \in {"hs1", "hs2"}
  PROVE  LET r == sync_seq(parse_recv(raw["server"], p), p) IN
         /\ p.from = "client" /\ p.kind # "syn" /\ ClientOk(p) /\ p.ack_seq \in Number
         /\ r \in RawInfo /\ r.recv.ack_seq = p.ack_seq /\ r.send.seq = p.ack_seq
         /\ r.send.ack_seq \in Number /\ Reached(r.send.ack_seq, "client")
<1> DEFINE c == parse_recv(raw["server"], p)
           r == sync_seq(c, p)
<1>0. Typed /\ Sound
  BY Zenon DEF FInv
<1>1. "client" \in Side /\ "server" \in Side
  BY Zenon DEF Side
<1>2. /\ p.from \in {"client", "server"} /\ p \in Segments /\ p.seq \in Number
      /\ p.len \in Nat /\ p.ack_seq \in Number /\ raw["server"] \in RawInfo
  BY Zenon, <1>0, <1>1, Fields DEF Side
<1>3. p.from = "client" /\ ClientOk(p) /\ p.kind # "syn"
  <2>1. p.from = "server" => p.kind \in {"syn ack", "reply", "safer"}
    BY Zenon, <1>0 DEF Sound, ServerOk
  <2>2. p.kind \notin {"syn ack", "reply", "safer"} /\ p.kind # "syn"
    BY Zenon
  <2>3. p.from = "client"
    BY Zenon, <1>2, <2>1, <2>2
  <2> QED BY Zenon, <1>0, <2>2, <2>3 DEF Sound
<1>4. Plus(p.seq, p.len) \in Number /\ Reached(Plus(p.seq, p.len), "client")
  <2>1. Within(p, "client")
    BY Zenon, <1>3 DEF ClientOk
  <2> QED BY Zenon, <1>0, <1>1, <1>2, <2>1, EndWithin DEF Within
<1>5. c \in RawInfo /\ c.recv.ack_seq = p.ack_seq
  BY Zenon, <1>2, ParseRecv
<1> HIDE DEF c
<1>6. /\ r \in RawInfo /\ r.recv = c.recv /\ r.send.seq = p.ack_seq
      /\ r.send.ack_seq = Plus(p.seq, p.len)
  BY Zenon, <1>2, <1>4, <1>5, SyncSeq
<1> HIDE DEF r
<1>7. r.recv.ack_seq = p.ack_seq /\ r.send.ack_seq \in Number
      /\ Reached(r.send.ack_seq, "client")
  BY Zenon, <1>4, <1>5, <1>6
<1> QED BY Zenon, <1>2, <1>3, <1>6, <1>7 DEF r, c

\* The reply to the first handshake.
LEMMA ReplySegment ==
  ASSUME NEW r \in RawInfo
  PROVE  LET s == Segment("server", "reply", r.send, HandshakeLen) IN
         /\ s \in Segments /\ s.from = "server" /\ s.kind = "reply"
         /\ s.seq = r.send.seq /\ s.ack_seq = r.send.ack_seq /\ s.len = HandshakeLen
<1>1. r.send \in [seq : Number, ack_seq : Number]
  BY Zenon DEF RawInfo
<1>2. r.send.seq \in Number /\ r.send.ack_seq \in Number /\ HandshakeLen \in Nat
      /\ "server" \in Side
  BY Zenon, <1>1, FakeTcpAssumption DEF Side
<1> QED BY Zenon, <1>2 DEF Segment, Segments

\* on_handshake1 for a new address: the stream of the server begins where the client
\* expects it.
LEMMA NewHandshakeF ==
  ASSUME FInv, NEW p \in net, ServerHandshake(p), p.kind = "hs1", state["server"] = "none"
  PROVE  FInv'
<1> DEFINE r == sync_seq(parse_recv(raw["server"], p), p)
           s == Segment("server", "reply", r.send, HandshakeLen)
           n == p.ack_seq
           e == Plus(p.ack_seq, HandshakeLen)
<1>0. Typed /\ Short /\ Progress /\ Handshaking /\ Opening /\ Sound /\ Acked /\ Streams
  BY Zenon DEF FInv
<1>1. "client" \in Side /\ "server" \in Side /\ "client" # "server"
      /\ HandshakeLen \in Nat /\ MAX_DATA_LEN \in Nat /\ Space \in Nat
  BY Zenon, FakeTcpAssumption DEF Side
<1>2. /\ p.from = "client" /\ ClientOk(p) /\ n \in Number
      /\ r \in RawInfo /\ r.recv.ack_seq = n /\ r.send.seq = n
      /\ r.send.ack_seq \in Number /\ Reached(r.send.ack_seq, "client")
  BY Zenon, TakenOver
<1>3. /\ s \in Segments /\ s.from = "server" /\ s.kind = "reply"
      /\ s.seq = r.send.seq /\ s.ack_seq = r.send.ack_seq /\ s.len = HandshakeLen
  BY Zenon, <1>2, ReplySegment
<1>4. p.kind # "hs2"
  BY Zenon
<1>5. /\ raw' = [raw EXCEPT !["server"] = r]
      /\ state' = [state EXCEPT !["server"] = "handshake1"]
      /\ first' = [first EXCEPT !["server"] = r.send.seq]
      /\ net' = net \cup {s}
      /\ top' = [top EXCEPT !["server"] = Plus(r.send.seq, HandshakeLen)]
      /\ UNCHANGED <<seq_mode, fresh, jobs, sent>>
  BY Zenon, <1>4 DEF ServerHandshake, Unchanged
<1> HIDE DEF r, s
<1>6. e \in Number /\ Past(n, n) = 0 /\ Past(e, n) = HandshakeLen
  <2>1. Past(n, n) = 0
    BY Zenon, <1>2, PastNat
  <2>2. Past(n, n) + HandshakeLen < Space
    <3> DEFINE k == sent * MAX_DATA_LEN
    <3>1. k \in Nat
      <4>1. sent \in Nat
        BY <1>0, FakeTcpAssumption DEF Typed
      <4> QED BY <4>1, <1>1
    <3>2. 2 * (1 + 2 * HandshakeLen + k) + 2 <= Space
      BY Zenon, <1>0, Room
    <3> HIDE DEF k
    <3> QED BY <1>1, <2>1, <3>1, <3>2
  <2>3. e \in Number /\ Past(e, n) = Past(n, n) + HandshakeLen
    BY Zenon, <1>1, <1>2, <2>2, PastPlus
  <2> QED BY <1>1, <2>1, <2>3
<1> HIDE DEF e
<1>7. /\ first' \in [Side -> Number] /\ first'["client"] = first["client"] /\ first'["server"] = n
      /\ top' \in [Side -> Number] /\ top'["client"] = top["client"] /\ top'["server"] = e
  BY Zenon, <1>0, <1>1, <1>2, <1>5, <1>6 DEF Typed, e
<1> HIDE DEF n
<1>8. /\ state' \in [Side -> {"tcp_handshake", "none", "handshake1", "handshake2", "ready"}]
      /\ state'["client"] = state["client"] /\ state'["server"] = "handshake1"
  BY Zenon, <1>0, <1>1, <1>5 DEF Typed
<1>9. raw' \in [Side -> RawInfo] /\ raw'["client"] = raw["client"] /\ raw'["server"] = r
  BY Zenon, <1>0, <1>1, <1>2, <1>5 DEF Typed
<1>10. /\ state["client"] = "handshake1" /\ jobs["client"] = <<>> /\ jobs["server"] = <<>>
       /\ ~fresh /\ \A q \in net : q.kind \notin {"hs2", "safer"}
  <2>1. p.kind \notin {"syn", "syn ack"} /\ state["server"] # "ready"
    BY Zenon
  <2>2. state["client"] \in {"tcp_handshake", "handshake1"}
        /\ state["client"] # "tcp_handshake" /\ ~fresh
    BY Zenon, <2>1, <1>0 DEF Progress
  <2> QED BY Zenon, <2>1, <2>2, <1>0 DEF Progress
<1>11. \A q \in net : q.kind # "reply" /\ (q.kind \in {"ack", "hs1"} => q.ack_seq = n)
       /\ raw["client"].send.ack_seq = n
  BY Zenon, <1>0 DEF Opening, n
<1>12. Typed'
  BY Zenon, <1>0, <1>3, <1>5, <1>7, <1>8, <1>9 DEF Typed
<1>13. Short'
  <2> DEFINE k == sent * MAX_DATA_LEN
  <2>1. k \in Nat /\ sent' = sent /\ fresh' = fresh
    <3>1. sent \in Nat
      BY <1>0, FakeTcpAssumption DEF Typed
    <3>2. k \in Nat
      BY <1>1, <3>1
    <3> QED BY Zenon, <1>5, <3>2
  <2> HIDE DEF k
  <2>2. HandshakeLen <= HandshakeLen + k
    BY <1>1, <2>1
  <2> QED BY Zenon, <2>1, <2>2, <1>0, <1>6, <1>7 DEF Short, k
<1>14. Progress'
  <2>1. "handshake1" # "tcp_handshake" /\ "handshake1" # "none" /\ "handshake1" # "ready"
        /\ s.kind \notin {"hs2", "safer"}
    BY Zenon, <1>3
  <2> QED BY Zenon, <2>1, <1>5, <1>8, <1>10 DEF Progress
<1>15. Handshaking'
  BY Zenon, <1>0, <1>7, <1>8, <1>9, <1>10 DEF Handshaking
<1>16. Opening'
  <2>1. s.kind # "hs1" /\ "handshake1" # "none"
    BY Zenon, <1>3
  <2> QED BY Zenon, <2>1, <1>5, <1>7, <1>8, <1>9, <1>11 DEF Opening
<1>17. \A q \in net : /\ q.from = "client" => ClientOk(q)'
                      /\ q.from = "server" => ServerOk(q)'
  <2>1. ASSUME NEW q \in net, q.from = "client" PROVE ClientOk(q)'
    <3>1. ClientOk(q) /\ q.kind \notin {"hs2", "safer"}
      BY Zenon, <2>1, <1>0, <1>10 DEF Sound
    <3>2. q.kind # "syn" => q.ack_seq = n
      <4>1. q.kind # "syn" => q.kind \in {"ack", "hs1"}
        BY Zenon, <3>1 DEF ClientOk
      <4> QED BY Zenon, <4>1, <1>11
    <3>3. q.kind # "syn" => Past(q.ack_seq, first'["server"])
                              <= Past(top'["server"], first'["server"])
      BY <3>2, <1>1, <1>6, <1>7
    <3> QED BY Zenon, <3>1, <3>3, <1>7 DEF ClientOk, Within, Reached
  <2>2. ASSUME NEW q \in net, q.from = "server" PROVE ServerOk(q)'
    <3>1. ServerOk(q) /\ q.kind \notin {"hs2", "safer"} /\ q.kind # "reply"
      BY Zenon, <2>2, <1>0, <1>10, <1>11 DEF Sound
    <3>2. q.kind = "syn ack"
      BY Zenon, <3>1 DEF ServerOk
    <3> QED BY Zenon, <3>1, <3>2, <1>7 DEF ServerOk, Within, Reached
  <2> QED BY Zenon, <2>1, <2>2
<1>18. Sound'
  <2>1. ASSUME NEW q, q = s PROVE q.from # "client" /\ ServerOk(q)'
    <3>1. /\ q.from = "server" /\ q.kind = "reply" /\ q.seq = n
          /\ q.ack_seq = r.send.ack_seq /\ q.len = HandshakeLen
      BY Zenon, <2>1, <1>2, <1>3
    <3>2. Past(q.seq, first'["server"]) + q.len <= Past(top'["server"], first'["server"])
      BY <3>1, <1>1, <1>6, <1>7
    <3>3. Past(q.ack_seq, first'["client"]) <= Past(top'["client"], first'["client"])
      BY Zenon, <3>1, <1>2, <1>7 DEF Reached
    <3>4. q.kind \in {"syn ack", "reply", "safer"} /\ q.from # "client"
      BY Zenon, <3>1, <1>1
    <3> QED BY Zenon, <3>2, <3>3, <3>4 DEF ServerOk, Within, Reached
  <2>2. \A q \in net' : q \in net \/ q = s
    BY Zenon, <1>5
  <2>3. \A q \in net' : /\ q.from = "client" => ClientOk(q)'
                        /\ q.from = "server" => ServerOk(q)'
    BY Zenon, <2>1, <2>2, <1>17
  <2>4. jobs'["client"] = <<>> /\ jobs'["server"] = <<>>
    BY Zenon, <1>5, <1>10
  <2>5. \A x \in Side : 1 .. Len(jobs'[x]) = {}
    BY <2>4 DEF Side
  <2> QED BY Zenon, <2>3, <2>5 DEF Sound
<1>19. Past(n, first'["server"]) <= Past(top'["server"], first'["server"])
  BY <1>1, <1>6, <1>7
<1>20. Acked'
  BY Zenon, <1>0, <1>2, <1>7, <1>8, <1>9, <1>19 DEF Acked, Reached
<1>21. Streams'
  <2>1. state["client"] \notin {"handshake2", "ready"}
    BY Zenon, <1>10
  <2> QED BY Zenon, <2>1, <1>0, <1>2, <1>5, <1>7, <1>8, <1>9, <1>19 DEF Streams, Reached
<1> QED BY Zenon, <1>12, <1>13, <1>14, <1>15, <1>16, <1>18, <1>20, <1>21 DEF FInv


\* on_handshake1 for a copy of the first handshake.
LEMMA AgainHandshakeF ==
  ASSUME FInv, NEW p \in net, ServerHandshake(p), p.kind = "hs1", state["server"] # "none"
  PROVE  FInv'
<1> DEFINE r == sync_seq(parse_recv(raw["server"], p), p)
           s == Segment("server", "reply", r.send, HandshakeLen)
           n == first["server"]
           e == Plus(first["server"], HandshakeLen)
<1>0. Typed /\ Short /\ Progress /\ Handshaking /\ Opening /\ Sound /\ Acked /\ Streams
  BY Zenon DEF FInv
<1>1. "client" \in Side /\ "server" \in Side /\ "client" # "server"
      /\ HandshakeLen \in Nat /\ MAX_DATA_LEN \in Nat /\ Space \in Nat
  BY Zenon, FakeTcpAssumption DEF Side
<1>2. /\ p.from = "client" /\ ClientOk(p)
      /\ r \in RawInfo /\ r.recv.ack_seq = n /\ r.send.seq = n
      /\ r.send.ack_seq \in Number /\ Reached(r.send.ack_seq, "client")
  <2>1. p.ack_seq = n
    BY Zenon, <1>0 DEF Opening
  <2> QED BY Zenon, <2>1, TakenOver
<1>3. /\ s \in Segments /\ s.from = "server" /\ s.kind = "reply"
      /\ s.seq = r.send.seq /\ s.ack_seq = r.send.ack_seq /\ s.len = HandshakeLen
  BY Zenon, <1>2, ReplySegment
<1>4. p.kind # "hs2"
  BY Zenon
<1>5. /\ raw' = [raw EXCEPT !["server"] = r]
      /\ state' = [state EXCEPT !["server"] = "handshake1"] /\ state["server"] # "ready"
      /\ net' = net \cup {s}
      /\ top' = IF larger_than(Plus(r.send.seq, HandshakeLen), top["server"])
                THEN [top EXCEPT !["server"] = Plus(r.send.seq, HandshakeLen)] ELSE top
      /\ UNCHANGED <<seq_mode, fresh, jobs, sent, first>>
  BY Zenon, <1>4 DEF ServerHandshake, Unchanged
<1> HIDE DEF r, s
<1>6. state["server"] = "handshake1" /\ state' = state
  <2>1. state["server"] \in {"none", "handshake1", "ready"}
    BY Zenon, <1>0 DEF Progress
  <2>2. state["server"] = "handshake1"
    BY Zenon, <2>1, <1>5
  <2> QED BY Zenon, <2>2, <1>0, <1>5 DEF Typed
<1> DEFINE k == sent * MAX_DATA_LEN
<1>7. k \in Nat /\ 2 * (1 + 2 * HandshakeLen + k) + 2 <= Space
  <2>1. sent \in Nat
    BY <1>0, FakeTcpAssumption DEF Typed
  <2> QED BY <2>1, <1>0, <1>1, Room
<1>8. Past(top["server"], n) <= HandshakeLen + k
  BY Zenon, <1>0 DEF Short
<1> HIDE DEF k
<1>9. n \in Number /\ top["server"] \in Number /\ Past(n, n) = 0 /\ Past(top["server"], n) \in Nat
  BY Zenon, <1>0, <1>1, Fields
<1>10. e \in Number /\ Past(e, n) = HandshakeLen
  <2>1. Past(n, n) + HandshakeLen < Space
    BY <1>1, <1>7, <1>9
  <2>2. e \in Number /\ Past(e, n) = Past(n, n) + HandshakeLen
    BY Zenon, <1>1, <1>9, <2>1, PastPlus
  <2> QED BY <1>1, <1>9, <2>2
<1>11. larger_than(e, top["server"]) <=> HandshakeLen > Past(top["server"], n)
  <2>1. 2 * Past(e, n) + 2 <= Space /\ 2 * Past(top["server"], n) + 2 <= Space
    BY <1>1, <1>7, <1>8, <1>9, <1>10
  <2> HIDE DEF e, n
  <2> QED BY Zenon, <2>1, <1>9, <1>10, LargerPast
<1>12. top' = IF larger_than(e, top["server"]) THEN [top EXCEPT !["server"] = e] ELSE top
  BY Zenon, <1>2, <1>5
<1> HIDE DEF e, n
<1>13. top' \in [Side -> Number] /\ top'["client"] = top["client"]
       /\ top'["server"] = IF larger_than(e, top["server"]) THEN e ELSE top["server"]
  BY Zenon, <1>0, <1>1, <1>10, <1>12 DEF Typed
<1>14. /\ Past(top["server"], n) <= Past(top'["server"], n)
       /\ HandshakeLen <= Past(top'["server"], n)
       /\ Past(top'["server"], n) <= HandshakeLen + k
  BY <1>1, <1>7, <1>8, <1>9, <1>10, <1>11, <1>13
<1>15. \A x \in Side : Past(top[x], first[x]) <= Past(top'[x], first[x])
  <2>1. Past(top["client"], first["client"]) \in Nat
    BY Zenon, <1>0, <1>1, Fields
  <2> QED BY <2>1, <1>13, <1>14 DEF Side, n
<1>16. /\ \A x \in Side : \A m \in Number : Reached(m, x) =>
            Past(m, first[x]) <= Past(top'[x], first[x])
       /\ \A q \in net : q.from = "client" => ClientOk(q)'
       /\ \A q \in net : q.from = "server" => ServerOk(q)'
       /\ \A x \in Side : \A i \in 1 .. Len(jobs[x]) :
            Past(jobs[x][i].seq, first[Other(x)]) + jobs[x][i].len
              <= Past(top'[Other(x)], first[Other(x)])
  <2>1. UNCHANGED first /\ state'["server"] = state["server"]
    BY Zenon, <1>5, <1>6
  <2> QED BY Zenon, <2>1, <1>13, <1>15, Grow
<1>17. raw' \in [Side -> RawInfo] /\ raw'["client"] = raw["client"] /\ raw'["server"] = r
  BY Zenon, <1>0, <1>1, <1>2, <1>5 DEF Typed
<1>18. Typed'
  BY Zenon, <1>0, <1>3, <1>5, <1>6, <1>13, <1>17 DEF Typed
<1>19. Short'
  BY Zenon, <1>0, <1>5, <1>6, <1>13, <1>14 DEF Short, k, n
<1>20. Progress'
  <2>1. s.kind \notin {"hs2", "safer"} /\ state["client"] # "tcp_handshake" /\ ~fresh
    <3>1. s.kind \notin {"hs2", "safer"}
      BY Zenon, <1>3
    <3> QED BY Zenon, <3>1, <1>0 DEF Progress
  <2> QED BY Zenon, <2>1, <1>0, <1>5, <1>6 DEF Progress
<1>21. Handshaking'
  BY Zenon, <1>0, <1>5, <1>6, <1>13, <1>17 DEF Handshaking
<1>22. Opening'
  <2>1. s.kind # "hs1"
    BY Zenon, <1>3
  <2> QED BY Zenon, <2>1, <1>0, <1>5, <1>6, <1>17 DEF Opening
<1>23. \A x \in Side : \A i \in 1 .. Len(jobs'[x]) : 
         Past(jobs'[x][i].seq, first'[Other(x)]) + jobs'[x][i].len
           <= Past(top'[Other(x)], first'[Other(x)])
  BY Zenon, <1>5, <1>16
<1>24. Sound'
  <2>1. ASSUME NEW q, q = s PROVE q.from # "client" /\ ServerOk(q)'
    <3>1. /\ q.from = "server" /\ q.kind = "reply" /\ q.seq = n
          /\ q.ack_seq = r.send.ack_seq /\ q.len = HandshakeLen
      BY Zenon, <2>1, <1>2, <1>3
    <3>2. Past(q.seq, first["server"]) + q.len <= Past(top'["server"], first["server"])
      <4>1. 0 + HandshakeLen <= Past(top'["server"], n)
        BY <1>1, <1>14
      <4> QED BY Zenon, <4>1, <3>1, <1>9 DEF n
    <3>3. Past(q.ack_seq, first["client"]) <= Past(top'["client"], first["client"])
      BY Zenon, <3>1, <1>2, <1>13 DEF Reached
    <3>4. q.kind \in {"syn ack", "reply", "safer"} /\ q.from # "client"
      BY Zenon, <3>1, <1>1
    <3> QED BY Zenon, <3>2, <3>3, <3>4, <1>5 DEF ServerOk, Within, Reached
  <2>2. \A q \in net' : q \in net \/ q = s
    BY Zenon, <1>5
  <2>3. \A q \in net' : /\ q.from = "client" => ClientOk(q)'
                        /\ q.from = "server" => ServerOk(q)'
    BY Zenon, <2>1, <2>2, <1>16
  <2> QED BY Zenon, <2>3, <1>23 DEF Sound, Within
<1>25. Past(n, n) <= Past(top'["server"], n)
  BY <1>1, <1>9, <1>14, PastNat, <1>13
<1>26. Acked'
  BY Zenon, <1>0, <1>2, <1>5, <1>6, <1>13, <1>17, <1>25 DEF Acked, Reached, n
<1>27. Streams'
  <2>1. state["client"] \in {"handshake2", "ready"} =>
          Past(raw["client"].send.ack_seq, first["server"])
            <= Past(top'["server"], first["server"])
    <3>1. raw["client"].send.ack_seq \in Number
      BY Zenon, <1>0, <1>1, Fields
    <3> QED BY Zenon, <3>1, <1>0, <1>1, <1>16 DEF Streams
  <2> QED BY Zenon, <2>1, <1>0, <1>2, <1>5, <1>6, <1>13, <1>17, <1>25
          DEF Streams, Reached, n
<1> QED BY Zenon, <1>18, <1>19, <1>20, <1>21, <1>22, <1>24, <1>26, <1>27 DEF FInv

\* The second handshake makes the server ready.
LEMMA SecondHandshakeF ==
  ASSUME FInv, NEW p \in net, ServerHandshake(p), p.kind = "hs2"
  PROVE  FInv'
<1> DEFINE r == sync_seq(parse_recv(raw["server"], p), p)
<1>0. Typed /\ Short /\ Progress /\ Handshaking /\ Opening /\ Sound /\ Acked /\ Streams
  BY Zenon DEF FInv
<1>1. "client" \in Side /\ "server" \in Side /\ "client" # "server"
  BY Zenon DEF Side
<1>2. /\ p.kind # "syn" /\ ClientOk(p) /\ r \in RawInfo
      /\ r.recv.ack_seq = p.ack_seq /\ r.send.seq = p.ack_seq
      /\ Reached(r.send.ack_seq, "client")
  BY Zenon, TakenOver
<1>3. p.kind # "hs1"
  BY Zenon
<1>4. /\ raw' = [raw EXCEPT !["server"] = r] /\ state["server"] = "handshake1"
      /\ state' = [state EXCEPT !["server"] = "ready"]
      /\ UNCHANGED <<seq_mode, fresh, jobs, sent, first, net, top>>
  BY Zenon, <1>3 DEF ServerHandshake, Unchanged
<1> HIDE DEF r
<1>5. state["server"] # "none" /\ state["server"] # "ready"
  BY Zenon, <1>4
<1>6. Reached(p.ack_seq, "server")
  BY Zenon, <1>2, <1>5 DEF ClientOk
<1>7. /\ state' \in [Side -> {"tcp_handshake", "none", "handshake1", "handshake2", "ready"}]
      /\ state'["client"] = state["client"] /\ state'["server"] = "ready"
      /\ state'["server"] # "none"
  BY Zenon, <1>0, <1>1, <1>4 DEF Typed
<1>8. raw' \in [Side -> RawInfo] /\ raw'["client"] = raw["client"] /\ raw'["server"] = r
  BY Zenon, <1>0, <1>1, <1>2, <1>4 DEF Typed
<1>9. Typed'
  BY Zenon, <1>0, <1>4, <1>7, <1>8 DEF Typed
<1>10. Short'
  BY Zenon, <1>0, <1>4, <1>5, <1>7 DEF Short
<1>11. Progress'
  <2>1. state["client"] \notin {"tcp_handshake", "handshake1"}
    BY Zenon, <1>0 DEF Progress
  <2>2. state["client"] # "tcp_handshake" /\ "ready" \in {"none", "handshake1", "ready"}
    BY Zenon, <2>1
  <2> QED BY Zenon, <2>1, <2>2, <1>0, <1>4, <1>7 DEF Progress
<1>12. Handshaking' /\ Opening'
  BY Zenon, <1>0, <1>4, <1>5, <1>7, <1>8 DEF Handshaking, Opening
<1>13. Sound'
  BY Zenon, <1>0, <1>4, <1>5, <1>7 DEF Sound, ClientOk, ServerOk, Within, Reached
<1>14. Acked' /\ Streams'
  BY Zenon, <1>0, <1>2, <1>4, <1>5, <1>6, <1>7, <1>8 DEF Acked, Streams, Reached
<1> QED BY Zenon, <1>9, <1>10, <1>11, <1>12, <1>13, <1>14 DEF FInv

\* The three cases of on_handshake1.
LEMMA ServerHandshakeF ==
  ASSUME FInv, NEW p \in net, ServerHandshake(p)
  PROVE  FInv'
<1>1. p.kind \in {"hs1", "hs2"}
  BY Zenon DEF ServerHandshake
<1> QED BY Zenon, <1>1, NewHandshakeF, AgainHandshakeF, SecondHandshakeF

\* Every step keeps the invariant.
LEMMA FNextInv == FInv /\ [Next]_vars => FInv'
<1> SUFFICES ASSUME FInv, [Next]_vars PROVE FInv'
  BY Zenon
<1>1. CASE UNCHANGED vars
  <2>1. /\ seq_mode' = seq_mode /\ raw' = raw /\ state' = state /\ fresh' = fresh
        /\ jobs' = jobs /\ net' = net /\ sent' = sent /\ first' = first /\ top' = top
    BY Zenon, <1>1 DEF vars
  <2>2. Typed' /\ Short' /\ Progress' /\ Handshaking' /\ Opening'
    BY Zenon, <2>1 DEF FInv, Typed, Short, Progress, Handshaking, Opening
  <2>3. Sound' /\ Acked' /\ Streams'
    BY Zenon, <2>1 DEF FInv, Sound, ClientOk, ServerOk, Acked, Streams, Within, Reached
  <2> QED BY Zenon, <2>2, <2>3 DEF FInv
<1>2. CASE SendSyn
  BY Zenon, <1>2, SendSynF
<1>3. CASE RetryHandshake
  BY Zenon, <1>3, RetryF
<1>4. CASE \E p \in net : ClientReceive(p) \/ ServerSyn(p) \/ ServerHandshake(p)
                          \/ ServerReceive(p)
  BY Zenon, <1>4, ClientReceiveF, ServerSynF, ServerHandshakeF, ServerReceiveF
<1>5. CASE \E x \in Side : Accept(x) \/ Send(x)
  BY Zenon, <1>5, AcceptF, SendF
<1> QED BY Zenon, <1>1, <1>2, <1>3, <1>4, <1>5 DEF Next

-----------------------------------------------------------------------------

\* For any size of the number space, any window and any number of data segments that fit
\* into half the space, in every mode and whatever is repeated, reordered or lost: the
\* streams stay shorter than half the numbers, every segment lies in the stream of its
\* sender, and every acknowledgement, on its way, recorded or about to be sent, names
\* something that was sent.
THEOREM StreamsInvariant == Spec => []FInv
<1>1. Init => FInv
  BY Zenon, FInitInv
<1>2. FInv /\ [Next]_vars => FInv'
  BY Zenon, FNextInv
<1> QED BY <1>1, <1>2, PTL DEF Spec

\* sync_seq, after_send and after_recv keep the numbers of both sides sound: no hole is
\* left in a stream and nothing is acknowledged that was not sent.
THEOREM StreamsAlwaysSound == Spec => []StreamsSound
<1>1. FInv => StreamsSound
  BY Zenon, StreamsFollow DEF FInv
<1> QED BY <1>1, StreamsInvariant, PTL

=============================================================================
