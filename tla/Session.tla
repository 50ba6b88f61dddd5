------------------------------ MODULE Session ------------------------------
(***************************************************************************)
(* A client (src/client.rs) and the server (module Server) shaking hands   *)
(* over a network that loses, duplicates, delays and reorders packets.     *)
(*                                                                         *)
(* net is every packet ever sent: one that is received again was           *)
(* duplicated, one that never is was lost, and sending one again changes   *)
(* nothing, so the client's retry timers (last_hb_sent_time) are not here, *)
(* and its time-outs are one action that may happen at any time.           *)
(* The client's own pipeline is part of the delay: a result is dropped     *)
(* unless the generation is still the one of the submission, and then the  *)
(* ids and the state admit the packet now as they did then.                *)
(*                                                                         *)
(* The host of the client has the addresses Addr.  A client process that   *)
(* dies is followed by one with another const_id.                          *)
(***************************************************************************)
EXTENDS Server

CONSTANTS
  RawModes,        \* modes to be considered ("Udp" stands for ICMP too)
  MaxId            \* bound on the client's session ids

ASSUME SessionAssumption ==
  /\ RawModes \subseteq {"FakeTcp", "EasyFakeTcp", "Udp"}
  /\ MaxId \in Nat \ {0}

VARIABLES
  oppsite_id,        \* server session id -> oppsite_id of its connection
  raw_mode,          \* the mode both sides are configured for
  client,            \* the client process
  next_id,           \* source of the random session ids of clients
  dead,              \* const_ids of processes that are gone
  net,               \* packets sent
  established        \* history: the sessions the server was Ready on

clientVars == <<raw_mode, client, next_id, dead>>
SessionVars == <<vars, clientVars, oppsite_id, net, established>>

NoId == 0

-----------------------------------------------------------------------------
(* Packets.  A client sends from its address a, and what the server sends  *)
(* to a reaches the client that has a.                                     *)

Syn(a, n) == [type |-> "syn", addr |-> a, id1 |-> n, id2 |-> NoId]
SynAck(a, n) == [type |-> "synack", addr |-> a, id1 |-> NoId, id2 |-> n]

\* send_handshake: the sender's id, the receiver's (0: not known) and const_id.
Handshake(a, id1, id2, c) ==
  [type |-> "handshake", addr |-> a, id1 |-> id1, id2 |-> id2, const_id |-> c]
Reply(a, id1, id2) == [type |-> "reply", addr |-> a, id1 |-> id1, id2 |-> id2]

\* A safer packet: sealed with the ids of a session.
Up(a, id1, id2) == [type |-> "up", addr |-> a, id1 |-> id1, id2 |-> id2]
Down(a, id1, id2) == [type |-> "down", addr |-> a, id1 |-> id1, id2 |-> id2]

-----------------------------------------------------------------------------
(* The client.                                                             *)

IdleClient(c) ==
  [state |-> "Idle", const_id |-> c, addr |-> NoId, my_id |-> NoId,
   oppsite_id |-> NoId, selected |-> FALSE]

ClientInit ==
  /\ raw_mode \in RawModes
  /\ \E c \in ConstId : client = IdleClient(c)
  /\ next_id = 1
  /\ dead = {}

\* go_idle.  The id it draws is never used: the next attempt draws another.
GoIdle ==
  client' = [client EXCEPT !.state = "Idle", !.my_id = NoId, !.selected = FALSE]

\* Mutant: an attempt draws no id of its own.
StaleId == client.my_id

\* The id of the attempt: drawn when the attempt begins.
AttemptId == IF client.selected THEN client.my_id ELSE next_id

\* on_timer in state Idle: a new id once per attempt, then the set-up, which may
\* fail and be tried again, then a source port and the first packet.
Attempt ==
  /\ client.state = "Idle"
  /\ client.selected \/ next_id < MaxId
  /\ next_id' = IF client.selected THEN next_id ELSE next_id + 1
  /\ \/ /\ client' = [client EXCEPT !.my_id = AttemptId, !.selected = TRUE]
        /\ UNCHANGED net
     \/ \E a \in Addr :
          /\ client' = [client EXCEPT
               !.state = CASE raw_mode = "FakeTcp" -> "TcpHandshake"
                           [] raw_mode = "EasyFakeTcp" -> "TcpHandshakeDummy"
                           [] raw_mode = "Udp" -> "Handshake1",
               !.addr = a, !.my_id = AttemptId, !.selected = FALSE]
          /\ net' = net \cup
               (CASE raw_mode = "FakeTcp" -> {Syn(a, AttemptId)}
                  [] raw_mode = "EasyFakeTcp" -> {}
                  [] raw_mode = "Udp" ->
                       {Handshake(a, AttemptId, NoId, client.const_id)})
  /\ UNCHANGED <<vars, raw_mode, dead, oppsite_id, established>>

\* A SYN-ACK that acknowledges the SYN of this attempt; in easy mode it comes
\* from the kernel and is taken as it is.
RecvSynAck ==
  /\ \/ /\ client.state = "TcpHandshake"
        /\ SynAck(client.addr, client.my_id) \in net
     \/ client.state = "TcpHandshakeDummy"
  /\ client' = [client EXCEPT !.state = "Handshake1"]
  /\ net' = net \cup {Handshake(client.addr, client.my_id, NoId, client.const_id)}
  /\ UNCHANGED <<vars, raw_mode, next_id, dead, oppsite_id, established>>

\* The server's handshake packet, naming this attempt's id.
RecvReply(m) ==
  /\ m.type = "reply" /\ m.addr = client.addr
  /\ client.state = "Handshake1"
  /\ m.id2 = client.my_id
  /\ client' = [client EXCEPT !.state = "Handshake2", !.oppsite_id = m.id1]
  /\ net' = net \cup {Handshake(client.addr, client.my_id, m.id1, client.const_id)}
  /\ UNCHANGED <<vars, raw_mode, next_id, dead, oppsite_id, established>>

\* Mutant: the ids of a sealed packet are not compared.
AcceptAny(m) == TRUE

\* accept_safer_offset: the packet is sealed for the client's session.
Accept(m) == m.id1 = client.oppsite_id /\ m.id2 = client.my_id

\* The first sealed packet makes the client Ready, and it sends a heartbeat.
RecvDown(m) ==
  /\ m.type = "down" /\ m.addr = client.addr
  /\ client.state \in {"Handshake2", "Ready"}
  /\ Accept(m)
  /\ client' = [client EXCEPT !.state = "Ready"]
  /\ net' = net \cup {Up(client.addr, client.my_id, client.oppsite_id)}
  /\ UNCHANGED <<vars, raw_mode, next_id, dead, oppsite_id, established>>

\* The session or the attempt ends: a time-out of the handshake, of the downlink
\* or of the uplink, too many RSTs, an endpoint that is given up, or the command
\* reconnect, which may come at any time and so subsumes the others here.
EndSession ==
  /\ client.state # "Idle" \/ client.selected
  /\ GoIdle
  /\ UNCHANGED <<vars, raw_mode, next_id, dead, oppsite_id, established, net>>

\* The process dies and is started again: another const_id.
Restart ==
  /\ \E c \in ConstId \ (dead \cup {client.const_id}) : client' = IdleClient(c)
  /\ dead' = dead \cup {client.const_id}
  /\ UNCHANGED <<vars, raw_mode, next_id, oppsite_id, established, net>>

ClientNext ==
  \/ Attempt
  \/ RecvSynAck
  \/ \E m \in net : RecvReply(m) \/ RecvDown(m)
  \/ EndSession
  \/ Restart

-----------------------------------------------------------------------------
(* The server: its actions are those of module Server, taken when a packet *)
(* in net calls for them, and with the packets they send.                  *)

\* The sessions the server is Ready on, after the step.
Record ==
  established' = established \cup
    {[const_id |-> conns'[s].const_id, cid |-> oppsite_id'[conns'[s].my_id],
      sid |-> conns'[s].my_id] : s \in Ready'}

\* A SYN from an address without a Ready connection is answered.
ServerSyn(m) ==
  /\ m.type = "syn"
  /\ ~(m.addr \in DOMAIN by_addr /\ by_addr[m.addr] \in Ready)
  /\ net' = net \cup {SynAck(m.addr, m.id1)}
  /\ UNCHANGED <<vars, oppsite_id>>

\* The initial handshake from a new address, answered with the new id ...
ServerHandshakeNew(m) ==
  /\ m.type = "handshake" /\ m.id2 = NoId
  /\ HandshakeNew(m.addr)
  /\ net' = net \cup {Reply(m.addr, next_generation, m.id1)}
  /\ UNCHANGED oppsite_id

\* Mutant: a repeated handshake renews the connection's age.
ServerHandshakeAgainRenews(m) ==
  /\ m.type = "handshake" /\ m.id2 = NoId
  /\ m.addr \in DOMAIN by_addr
  /\ LET s == by_addr[m.addr] IN
       /\ conns[s].state = "Handshake1"
       /\ net' = net \cup {Reply(m.addr, conns[s].my_id, m.id1)}
       /\ conns' = [conns EXCEPT ![s].last_state_time = now]
  /\ UNCHANGED <<now, conns_len, free_conns, by_addr, by_const_id, ready_num,
                 next_generation, sockets, jobs, sweepVars, oppsite_id>>

\* ... and again, from the address of a connection that is shaking hands.
ServerHandshakeAgain(m) ==
  /\ m.type = "handshake" /\ m.id2 = NoId
  /\ m.addr \in DOMAIN by_addr
  /\ LET s == by_addr[m.addr] IN
       /\ conns[s].state = "Handshake1"
       /\ net' = net \cup {Reply(m.addr, conns[s].my_id, m.id1)}
  /\ UNCHANGED <<vars, oppsite_id>>

\* The second handshake packet, naming the connection's id.
ServerHandshake2(m) ==
  /\ m.type = "handshake" /\ m.id2 # NoId
  /\ m.addr \in DOMAIN by_addr
  /\ m.id2 = conns[by_addr[m.addr]].my_id
  /\ oppsite_id' = [oppsite_id EXCEPT ![m.id2] = m.id1]
  /\ Handshake2(m.addr, m.const_id)
  /\ UNCHANGED net

\* Any packet from the address of a Ready connection goes to the pipeline.
ServerRawReady(m) ==
  /\ m.type \in {"handshake", "up"}
  /\ RawReady(m.addr)
  /\ LET c == conns[by_addr[m.addr]] IN
       \A j \in jobs' \ jobs :
         j.my_id = IF m.type = "up" /\ m.id2 = c.my_id /\ m.id1 = oppsite_id[c.my_id]
                   THEN c.my_id ELSE NoId
  /\ UNCHANGED <<oppsite_id, net>>

\* Results of the pipeline: what was sealed is sent if it is still valid.
ServerDone(j) ==
  /\ \/ DoneIgnored(j)
     \/ DoneHeartbeat(j)
     \/ \E v \in Conv : DoneData(j, v)
  /\ net' = net \cup
       (IF j.op = "Encrypt" /\ valid_ready(j)
        THEN {Down(conns[j.slot].addr, j.my_id, oppsite_id[j.my_id])} ELSE {})
  /\ UNCHANGED oppsite_id

\* What the network has no part in.
ServerOther ==
  /\ OnTimer \/ Tick \/ \E i \in DOMAIN socks : SockReadable(i)
  /\ UNCHANGED <<oppsite_id, net>>

ServerNext ==
  /\ \/ \E m \in net :
          \/ ServerSyn(m)
          \/ ServerHandshakeNew(m) \/ ServerHandshakeAgain(m)
          \/ ServerHandshake2(m)
          \/ ServerRawReady(m)
     \/ \E j \in jobs : ServerDone(j)
     \/ ServerOther
  /\ Record
  /\ UNCHANGED clientVars

SessionInit ==
  /\ Init
  /\ oppsite_id = [y \in 1 .. MaxGeneration |-> NoId]
  /\ ClientInit
  /\ net = {} /\ established = {}

SessionNext == ClientNext \/ ServerNext

SessionSpec == SessionInit /\ [][SessionNext]_SessionVars

-----------------------------------------------------------------------------
(* Properties.                                                             *)

SessionTypeOK ==
  /\ raw_mode \in RawModes
  /\ client.state \in {"Idle", "TcpHandshake", "TcpHandshakeDummy",
                       "Handshake1", "Handshake2", "Ready"}
  /\ client.const_id \in ConstId \ dead /\ dead \subseteq ConstId
  /\ client.addr \in Addr \cup {NoId}
  /\ client.my_id \in 0 .. MaxId /\ client.oppsite_id \in 0 .. MaxGeneration
  /\ client.selected \in BOOLEAN
  /\ (client.my_id = NoId) = (client.state = "Idle" /\ ~client.selected)
  /\ next_id \in 1 .. MaxId
  /\ oppsite_id \in [1 .. MaxGeneration -> 0 .. MaxId]
  /\ \A m \in net : m.addr \in Addr /\ m.id1 \in Nat /\ m.id2 \in Nat
  /\ \A e \in established : e.const_id \in ConstId

\* The composition of client, network and server drives the server only in ways
\* that module Server allows, so what is proved of Server holds here.
ImplementsServer == Spec

\* A client is Ready only on a session that the server was Ready on for this
\* very process, with the same pair of ids; and the server is Ready only for a
\* process that named the server's id in its second handshake packet.  Delayed
\* packets of earlier attempts, of processes that died and of connections that
\* were swept never join two halves of different handshakes.
Agreement ==
  /\ client.state = "Ready" =>
       [const_id |-> client.const_id, cid |-> client.my_id,
        sid |-> client.oppsite_id] \in established
  /\ \A e \in established : \E a \in Addr :
       Handshake(a, e.cid, e.sid, e.const_id) \in net

\* The id of the session of the server's connection for client c.
SessionOf(c) == conns[by_const_id[c]].my_id

\* The client's source port is fixed, or one that no other attempt was made from
\* (bind_new_random_port draws a port that is free now, and may repeat one).
PortNotReused ==
  LET others == {m \in net : m.type = "handshake" /\ m.id1 # client.my_id} IN
    \/ \A m \in others : m.addr # client.addr
    \/ \A m \in others : m.addr = client.addr

\* The server does not leave the session of a Ready client for another one,
\* whatever delayed handshakes of the client's earlier attempts still arrive:
\* it can only forget the client after its time-out.  (Two handshakes that began
\* at the same reading of the clock are not told apart.  A port that is drawn
\* again may find its old half-open connection at the server, whose age is the
\* earlier attempt's, so that a handshake made in between counts as newer.)
ReadySessionKept ==
  [][\A c \in DOMAIN by_const_id :
       client.state = "Ready" /\ client.const_id = c
         /\ SessionOf(c) = client.oppsite_id /\ PortNotReused
       => \/ c \notin DOMAIN by_const_id'
          \/ SessionOf(c)' = client.oppsite_id
          \/ conns'[by_const_id'[c]].last_state_time
               = conns[by_const_id[c]].last_state_time]_SessionVars

=============================================================================
