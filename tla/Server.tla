------------------------------- MODULE Server -------------------------------
(***************************************************************************)
(* The server side of the tunnel, src/server.rs with src/conn.rs: the      *)
(* connection table with its two indexes (by client address and by client  *)
(* const_id), the take-over of an established connection by a client that  *)
(* reconnects, the upstream sockets (one per conversation), the jobs that  *)
(* are inside the crypto pipeline while all of this changes, and the       *)
(* bounded sweep that collects dead connections.                           *)
(*                                                                         *)
(* One thread runs every handler, so a handler is one action.  Time is the *)
(* variable now.  What the pipeline holds is a set: the properties here do *)
(* not depend on the order in which results come back (module Pipeline is  *)
(* about that order), and a set element may stand for several equal jobs.  *)
(***************************************************************************)
EXTENDS Naturals, FiniteSets, Functions

CONSTANTS
  Addr,       \* client addresses (source ip and port of the raw packets)
  ConstId,    \* const_ids, one per client process
  Conv,       \* conversation numbers
  MAX_HANDSHAKE_CONN_NUM, MAX_READY_CONN_NUM, MAX_CONV_NUM,
  SERVER_CONN_TIMEOUT, SERVER_HANDSHAKE_TIMEOUT, CONV_TIMEOUT,
  HEARTBEAT_INTERVAL, CONN_CLEAR_INTERVAL, CONN_CLEAR_RATIO, CONN_CLEAR_MIN,
  hb_mode,
  MaxTime, MaxGeneration, MaxJobs   \* bounds

ASSUME ServerAssumption ==
  /\ MAX_HANDSHAKE_CONN_NUM \in Nat \ {0}
  /\ MAX_READY_CONN_NUM \in Nat
  /\ MAX_CONV_NUM \in Nat
  /\ SERVER_CONN_TIMEOUT \in Nat /\ SERVER_HANDSHAKE_TIMEOUT \in Nat
  /\ CONV_TIMEOUT \in Nat /\ HEARTBEAT_INTERVAL \in Nat
  /\ CONN_CLEAR_INTERVAL \in Nat
  /\ CONN_CLEAR_RATIO \in Nat \ {0} /\ CONN_CLEAR_MIN \in Nat \ {0}
  /\ hb_mode \in Nat
  /\ 0 \notin ConstId
  /\ MaxTime \in Nat /\ MaxGeneration \in Nat /\ MaxJobs \in Nat

VARIABLES
  now,
  conns,            \* the occupied slots of the connection vector
  conns_len,        \* its length
  free_conns,       \* slots below conns_len that may be reused
  by_addr,          \* address -> slot
  by_const_id,      \* const_id -> slot
  ready_num,
  next_generation,
  socks,            \* the open upstream sockets: index -> [slot, conv]
  socks_len,
  free_socks,
  jobs,             \* jobs inside the pipeline
  clear_cursor, last_conn_clear

tables == <<conns, conns_len, free_conns, by_addr, by_const_id, ready_num,
            next_generation>>
sockets == <<socks, socks_len, free_socks>>
sweepVars == <<clear_cursor, last_conn_clear>>
vars == <<now, tables, sockets, jobs, sweepVars>>

NoClient == 0    \* the const_id field of a connection that is not Ready

Live == DOMAIN conns
Ready == {s \in Live : conns[s].state = "Ready"}
live_conns == conns_len - Cardinality(free_conns)

Init ==
  /\ now = 0
  /\ conns = << >> /\ conns_len = 0 /\ free_conns = {}
  /\ by_addr = << >> /\ by_const_id = << >>
  /\ ready_num = 0 /\ next_generation = 1
  /\ socks = << >> /\ socks_len = 0 /\ free_socks = {}
  /\ jobs = {}
  /\ clear_cursor = 0 /\ last_conn_clear = 0

\* f with x bound to v.
Bind(f, x, v) == [y \in DOMAIN f \cup {x} |-> IF y = x THEN v ELSE f[y]]

\* Handing jobs to the pipeline; an overloaded pipeline drops some of them.
Submit(js) ==
  \E kept \in SUBSET js :
    /\ jobs' = jobs \cup kept
    /\ Cardinality(jobs') <= MaxJobs

\* The job's key is slot and generation.  An Encrypt job has the session id
\* my_id sealed into it, a Decrypt job carries the id its sender put there;
\* client is the const_id the connection had when the job was made.
Job(op, s, id) ==
  [op |-> op, slot |-> s, generation |-> conns[s].generation, my_id |-> id,
   client |-> conns[s].const_id]

-----------------------------------------------------------------------------
(* Packets from clients.                                                   *)

\* Mutant: a reused slot stays on the free list.
AllocKeepsFree(s) ==
  /\ IF free_conns # {}
     THEN s \in free_conns /\ UNCHANGED conns_len
     ELSE s = conns_len /\ conns_len' = conns_len + 1
  /\ UNCHANGED free_conns

\* alloc_conn: a freed slot if there is one, else the vector grows.
Alloc(s) ==
  IF free_conns # {}
  THEN /\ s \in free_conns
       /\ free_conns' = free_conns \ {s}
       /\ UNCHANGED conns_len
  ELSE /\ s = conns_len
       /\ conns_len' = conns_len + 1
       /\ UNCHANGED free_conns

\* A connection's conversations: the set convs, and for its members the socket
\* and the time of the last data from the client (0 for the others).
Unused == [v \in Conv |-> 0]

\* ConnInfo::new, in the state of a connection whose handshake has begun.
NewConn(a) ==
  [state |-> "Handshake1", addr |-> a, const_id |-> NoClient,
   generation |-> next_generation, my_id |-> next_generation,
   last_state_time |-> now, last_hb_recv |-> 0, last_hb_sent |-> 0,
   convs |-> {}, conv_to_data |-> Unused, last_active |-> Unused]

\* Mutant: the limit on connections is off by one.
HandshakeNewOffByOne(a) ==
  /\ a \notin DOMAIN by_addr
  /\ live_conns <= MAX_HANDSHAKE_CONN_NUM
  /\ next_generation < MaxGeneration
  /\ \E s \in 0 .. conns_len :
       /\ Alloc(s)
       /\ conns' = Bind(conns, s, NewConn(a))
       /\ by_addr' = Bind(by_addr, a, s)
  /\ next_generation' = next_generation + 1
  /\ UNCHANGED <<now, by_const_id, ready_num, sockets, jobs, sweepVars>>

\* The first handshake packet from an unknown address.  The generation number
\* stands for the random id of the connection too: both are new.
HandshakeNew(a) ==
  /\ a \notin DOMAIN by_addr
  /\ live_conns < MAX_HANDSHAKE_CONN_NUM
  /\ next_generation < MaxGeneration
  /\ \E s \in 0 .. conns_len :
       /\ Alloc(s)
       /\ conns' = Bind(conns, s, NewConn(a))
       /\ by_addr' = Bind(by_addr, a, s)
  /\ next_generation' = next_generation + 1
  /\ UNCHANGED <<now, by_const_id, ready_num, sockets, jobs, sweepVars>>

\* Mutant: the limit on Ready connections is off by one.
BecomeReadyOffByOne(s, c) ==
  /\ c \notin DOMAIN by_const_id
  /\ ready_num <= MAX_READY_CONN_NUM
  /\ conns' = [conns EXCEPT ![s] = [@ EXCEPT !.state = "Ready", !.const_id = c,
                                    !.last_hb_recv = now, !.last_hb_sent = now]]
  /\ ready_num' = ready_num + 1
  /\ by_const_id' = Bind(by_const_id, c, s)
  /\ Submit({[Job("Encrypt", s, conns[s].my_id) EXCEPT !.client = c]})
  /\ UNCHANGED <<by_addr, next_generation>>

\* pre_ready, a client the server does not know: go Ready.
BecomeReady(s, c) ==
  /\ c \notin DOMAIN by_const_id
  /\ ready_num < MAX_READY_CONN_NUM
  /\ conns' = [conns EXCEPT ![s] = [@ EXCEPT !.state = "Ready", !.const_id = c,
                                    !.last_hb_recv = now, !.last_hb_sent = now]]
  /\ ready_num' = ready_num + 1
  /\ by_const_id' = Bind(by_const_id, c, s)
  /\ Submit({[Job("Encrypt", s, conns[s].my_id) EXCEPT !.client = c]})
  /\ UNCHANGED <<by_addr, next_generation>>

\* Mutant: handshakes are not compared by age.
NeverOlder(s, ori) == FALSE

\* The handshake on slot s began before that of the established connection.
Older(s, ori) == conns[s].last_state_time < conns[ori].last_state_time

\* pre_ready refuses: enough clients are Ready, or the handshake is too old.
Refuse(s, c) ==
  /\ IF c \in DOMAIN by_const_id
     THEN Older(s, by_const_id[c])
     ELSE ready_num >= MAX_READY_CONN_NUM
  /\ conns' = [conns EXCEPT ![s].state = "Idle"]
  /\ UNCHANGED <<by_addr, by_const_id, ready_num, next_generation, jobs>>

\* Mutant: only the new address is bound again.
SwapAddrsHalf(s, ori) == by_addr' = [by_addr EXCEPT ![conns[s].addr] = ori]

SwapAddrs(s, ori) ==
  by_addr' = [by_addr EXCEPT ![conns[s].addr] = ori, ![conns[ori].addr] = s]

\* Mutant: the connection keeps its generation.
RecoveredSameGeneration(old, new) ==
  [old EXCEPT !.addr = new.addr, !.my_id = new.my_id,
              !.last_state_time = new.last_state_time,
              !.last_hb_recv = now, !.last_hb_sent = new.last_hb_sent]

\* recover_from: the connection old on the session and address of new.
Recovered(old, new) ==
  [old EXCEPT !.addr = new.addr, !.my_id = new.my_id,
              !.last_state_time = new.last_state_time,
              !.last_hb_recv = now, !.last_hb_sent = new.last_hb_sent,
              !.generation = next_generation]

\* pre_ready, a client that reconnects: its established connection takes over
\* the new address and session, the fresh object goes Idle on the old address.
Recover(s, c) ==
  /\ c \in DOMAIN by_const_id
  /\ next_generation < MaxGeneration
  /\ LET ori == by_const_id[c]
         recovered == Recovered(conns[ori], conns[s])
     IN /\ ~Older(s, ori)
        /\ SwapAddrs(s, ori)
        /\ conns' = [conns EXCEPT
             ![s] = [@ EXCEPT !.addr = conns[ori].addr, !.state = "Idle"],
             ![ori] = recovered]
        /\ Submit({[Job("Encrypt", ori, recovered.my_id) EXCEPT
                      !.generation = recovered.generation]})
  /\ next_generation' = next_generation + 1
  /\ UNCHANGED <<by_const_id, ready_num>>

\* The client's answer to the handshake, naming the id of the connection.
Handshake2(a, c) ==
  /\ a \in DOMAIN by_addr
  /\ LET s == by_addr[a] IN
       /\ conns[s].state = "Handshake1"
       /\ BecomeReady(s, c) \/ Refuse(s, c) \/ Recover(s, c)
  /\ UNCHANGED <<now, conns_len, free_conns, sockets, sweepVars>>

\* A packet for an established connection goes to the pipeline, whatever
\* session it belongs to (0: one this server never had).
RawReady(a) ==
  /\ a \in DOMAIN by_addr
  /\ LET s == by_addr[a] IN
       /\ conns[s].state = "Ready"
       /\ \E id \in {0, conns[s].my_id} : Submit({Job("Decrypt", s, id)})
  /\ UNCHANGED <<now, tables, sockets, sweepVars>>

-----------------------------------------------------------------------------
(* Results of the pipeline.                                                *)

valid_ready(j) ==
  /\ j.slot \in Live
  /\ conns[j.slot].generation = j.generation
  /\ conns[j.slot].state = "Ready"

\* One of the jobs equal to j is done; there may be another.
Complete(j) == jobs' \in {jobs, jobs \ {j}}

\* The packet is accepted by accept_safer_offset; the replay window may also
\* turn down any packet (module AntiReplay), which is DoneIgnored.
Accepted(j) ==
  j.op = "Decrypt" /\ valid_ready(j) /\ j.my_id = conns[j.slot].my_id

\* A sealed packet is sent, or a result leads to nothing.
DoneIgnored(j) ==
  /\ Complete(j)
  /\ UNCHANGED <<now, tables, sockets, sweepVars>>

\* The connection after a heartbeat, and after data: data counts as a
\* heartbeat in heartbeat mode 0.
Heard(c) == [c EXCEPT !.last_hb_recv = now]
HeardData(c) == IF hb_mode = 0 THEN Heard(c) ELSE c

DoneHeartbeat(j) ==
  /\ Accepted(j)
  /\ Complete(j)
  /\ conns' = [conns EXCEPT ![j.slot] = Heard(@)]
  /\ UNCHANGED <<now, conns_len, free_conns, by_addr, by_const_id, ready_num,
                 next_generation, sockets, sweepVars>>

AllocSock(i) ==
  IF free_socks # {}
  THEN /\ i \in free_socks
       /\ UNCHANGED socks_len
  ELSE /\ i = socks_len
       /\ socks_len' = socks_len + 1

\* Data of a conversation the connection has ...
UseConv(s, v) ==
  /\ v \in conns[s].convs
  /\ conns' = [conns EXCEPT ![s] = [HeardData(@) EXCEPT !.last_active[v] = now]]
  /\ UNCHANGED sockets

\* ... or has not: it is dropped if there are too many or no socket can be had,
NoConv(s, v) ==
  /\ v \notin conns[s].convs
  /\ conns' = [conns EXCEPT ![s] = HeardData(@)]
  /\ UNCHANGED sockets

\* or if the socket cannot be registered for polling, and is closed again;
RegisterFails(s, v) ==
  /\ v \notin conns[s].convs
  /\ Cardinality(conns[s].convs) < MAX_CONV_NUM
  /\ conns' = [conns EXCEPT ![s] = HeardData(@)]
  /\ \E i \in 0 .. socks_len :
       /\ AllocSock(i)
       /\ free_socks' = free_socks \cup {i}
  /\ UNCHANGED socks

\* otherwise the conversation gets that socket.
OpenConv(s, v) ==
  /\ v \notin conns[s].convs
  /\ Cardinality(conns[s].convs) < MAX_CONV_NUM
  /\ \E i \in 0 .. socks_len :
       /\ AllocSock(i)
       /\ free_socks' = free_socks \ {i}
       /\ socks' = Bind(socks, i, [slot |-> s, conv |-> v])
       /\ conns' = [conns EXCEPT ![s] =
            [HeardData(conns[s]) EXCEPT !.convs = @ \cup {v},
                                        !.conv_to_data[v] = i,
                                        !.last_active[v] = now]]

DoneData(j, v) ==
  /\ Accepted(j)
  /\ Complete(j)
  /\ UseConv(j.slot, v) \/ NoConv(j.slot, v)
       \/ RegisterFails(j.slot, v) \/ OpenConv(j.slot, v)
  /\ UNCHANGED <<now, conns_len, free_conns, by_addr, by_const_id, ready_num,
                 next_generation, sweepVars>>

-----------------------------------------------------------------------------
(* The upstream side and the timer.                                        *)

\* A datagram from upstream on socket i goes back to the socket's connection.
SockReadable(i) ==
  /\ i \in DOMAIN socks
  /\ LET s == socks[i].slot IN
       /\ s \in Ready
       /\ Submit({Job("Encrypt", s, conns[s].my_id)})
  /\ UNCHANGED <<now, tables, sockets, sweepVars>>

\* Mutant: conversations do not keep their connection.
KeepHeard(s) ==
  LET c == conns[s] IN
  IF c.state = "Ready"
  THEN now - c.last_hb_recv <= SERVER_CONN_TIMEOUT
  ELSE now - c.last_state_time <= SERVER_HANDSHAKE_TIMEOUT

\* The rule that keeps a connection.
Keep(s) ==
  LET c == conns[s] IN
  IF c.state = "Ready"
  THEN now - c.last_hb_recv <= SERVER_CONN_TIMEOUT \/ c.convs # {}
  ELSE now - c.last_state_time <= SERVER_HANDSHAKE_TIMEOUT

\* clear_inactive_conns walks on from the cursor until it has met a bounded
\* number of connections, and erases those it need not keep.
SweepDue ==
  now - last_conn_clear > CONN_CLEAR_INTERVAL /\ live_conns > 0

num_to_clean ==
  LET n == live_conns \div CONN_CLEAR_RATIO + CONN_CLEAR_MIN
  IN IF n <= live_conns THEN n ELSE live_conns

\* The k-th slot of the walk, and the steps the walk takes.
WalkSlot(k) ==
  ((IF clear_cursor >= conns_len THEN 0 ELSE clear_cursor) + k) % conns_len

Walk ==
  {k \in 0 .. conns_len - 1 :
     Cardinality({j \in 0 .. k - 1 : WalkSlot(j) \in Live}) < num_to_clean}

Swept ==
  IF SweepDue
  THEN {s \in Live : ~Keep(s) /\ \E k \in Walk : s = WalkSlot(k)}
  ELSE {}

\* The conversations of a connection that ConvManager::clear_inactive may
\* expire, and the sockets of a set of conversations.
Inactive(s) ==
  {v \in conns[s].convs : now - conns[s].last_active[v] >= CONV_TIMEOUT}

\* Mutant: the sockets stay open.
SocksForgotten(s, vs) == {}

SocksOf(s, vs) == {conns[s].conv_to_data[v] : v \in vs}

HeartbeatDue(s) == now - conns[s].last_hb_sent >= HEARTBEAT_INTERVAL

\* Mutant: the client stays in the index by const_id.
EraseKeepsConstId(E) ==
  /\ ready_num' = ready_num - Cardinality(Ready \cap E)
  /\ by_addr' = Restrict(by_addr, DOMAIN by_addr \ {conns[s].addr : s \in E})
  /\ free_conns' = free_conns \cup E
  /\ UNCHANGED by_const_id

\* erase_conn for every slot of E: the indexes, counter and free list.
Erase(E) ==
  /\ ready_num' = ready_num - Cardinality(Ready \cap E)
  /\ by_const_id' = Restrict(by_const_id,
       DOMAIN by_const_id \ {conns[s].const_id : s \in Ready \cap E})
  /\ by_addr' = Restrict(by_addr, DOMAIN by_addr \ {conns[s].addr : s \in E})
  /\ free_conns' = free_conns \cup E

\* on_timer: the sweep, then for every Ready connection left the expiry of
\* idle conversations and the heartbeat.
OnTimer ==
  LET left == Live \ Swept
      due == {s \in Ready \ Swept : HeartbeatDue(s)}
  IN
  \E expired \in [Live -> SUBSET Conv] :
    /\ \A s \in Live : expired[s] \subseteq
         (IF s \in Swept THEN conns[s].convs
          ELSE IF s \in Ready THEN Inactive(s) ELSE {})
    /\ \A s \in Swept : expired[s] = conns[s].convs
    /\ LET closed == UNION {SocksOf(s, expired[s]) : s \in Live} IN
         /\ socks' = Restrict(socks, DOMAIN socks \ closed)
         /\ free_socks' = free_socks \cup closed
    /\ conns' = [s \in left |->
         [conns[s] EXCEPT
            !.convs = @ \ expired[s],
            !.conv_to_data = [v \in Conv |-> IF v \in expired[s] THEN 0 ELSE @[v]],
            !.last_active = [v \in Conv |-> IF v \in expired[s] THEN 0 ELSE @[v]],
            !.last_hb_sent = IF s \in due THEN now ELSE @]]
    /\ Erase(Swept)
    /\ IF SweepDue
       THEN clear_cursor' = WalkSlot(Cardinality(Walk) - 1) + 1
       ELSE UNCHANGED clear_cursor
    /\ last_conn_clear' =
         IF now - last_conn_clear > CONN_CLEAR_INTERVAL THEN now ELSE last_conn_clear
    /\ Submit({Job("Encrypt", s, conns[s].my_id) : s \in due})
    /\ UNCHANGED <<now, conns_len, next_generation, socks_len>>

Tick ==
  /\ now < MaxTime
  /\ now' = now + 1
  /\ UNCHANGED <<tables, sockets, jobs, sweepVars>>

Next ==
  \/ \E a \in Addr :
       \/ HandshakeNew(a)
       \/ \E c \in ConstId : Handshake2(a, c)
       \/ RawReady(a)
  \/ \E j \in jobs :
       \/ DoneIgnored(j)
       \/ DoneHeartbeat(j)
       \/ \E v \in Conv : DoneData(j, v)
  \/ \E i \in DOMAIN socks : SockReadable(i)
  \/ OnTimer
  \/ Tick

Spec == Init /\ [][Next]_vars

-----------------------------------------------------------------------------
(* Properties.                                                             *)

Slot == 0 .. MAX_HANDSHAKE_CONN_NUM - 1

ConnRecord ==
  [state : {"Handshake1", "Ready", "Idle"}, addr : Addr,
   const_id : ConstId \cup {NoClient}, generation : Nat, my_id : Nat,
   last_state_time : Nat, last_hb_recv : Nat, last_hb_sent : Nat,
   convs : SUBSET Conv, conv_to_data : [Conv -> Nat], last_active : [Conv -> Nat]]

JobRecord ==
  [op : {"Encrypt", "Decrypt"}, slot : Slot, generation : Nat, my_id : Nat,
   client : ConstId \cup {NoClient}]

TypeOK ==
  /\ now \in Nat
  /\ DOMAIN conns \subseteq Slot /\ conns \in [DOMAIN conns -> ConnRecord]
  /\ conns_len \in 0 .. MAX_HANDSHAKE_CONN_NUM
  /\ free_conns \subseteq Slot
  /\ DOMAIN by_addr \subseteq Addr /\ by_addr \in [DOMAIN by_addr -> Slot]
  /\ DOMAIN by_const_id \subseteq ConstId
  /\ by_const_id \in [DOMAIN by_const_id -> Slot]
  /\ ready_num \in Nat /\ next_generation \in Nat
  /\ DOMAIN socks \subseteq Nat
  /\ socks \in [DOMAIN socks -> [slot : Slot, conv : Conv]]
  /\ socks_len \in Nat /\ free_socks \subseteq Nat
  /\ jobs \subseteq JobRecord
  /\ clear_cursor \in Nat /\ last_conn_clear \in Nat

\* The free list of slots is exact: what alloc_conn reuses is unoccupied, and
\* live_conns, which limits new handshakes, counts the occupied slots.
FreeListExact == free_conns = (0 .. conns_len - 1) \ Live /\ Live \subseteq 0 .. conns_len - 1

\* by_addr and the table name each other: every address leads to the
\* connection that has it, and no two connections have one address.  The swap
\* of addresses in pre_ready and the removal in erase_conn keep this.
AddrTableExact ==
  /\ \A a \in DOMAIN by_addr : by_addr[a] \in Live /\ conns[by_addr[a]].addr = a
  /\ \A s \in Live : conns[s].addr \in DOMAIN by_addr /\ by_addr[conns[s].addr] = s

\* by_const_id lists exactly the Ready connections, one per client: the two
\* "shouldnt happen" branches of pre_ready (a handshaking connection found
\* under its own const_id, a recovered connection that is not Ready) are never
\* taken.
ConstIdTableExact ==
  /\ \A c \in DOMAIN by_const_id :
       by_const_id[c] \in Ready /\ conns[by_const_id[c]].const_id = c
  /\ \A s \in Ready :
       conns[s].const_id \in DOMAIN by_const_id /\ by_const_id[conns[s].const_id] = s

\* ready_num counts the Ready connections over all their ways in and out, so
\* that the limit on them is the limit of the code.
ReadyCountExact == ready_num = Cardinality(Ready) /\ ready_num <= MAX_READY_CONN_NUM

\* An open upstream socket belongs to one conversation of one Ready connection
\* and that conversation to it; all other indexes are free.  So a datagram
\* from upstream goes to the client whose data opened the socket, and the
\* "shouldnt happen" branch of on_sock_packet is never taken.
SocketsExact ==
  /\ \A i \in DOMAIN socks :
       LET s == socks[i].slot  v == socks[i].conv IN
       s \in Ready /\ v \in conns[s].convs /\ conns[s].conv_to_data[v] = i
  /\ \A s \in Live : \A v \in conns[s].convs :
       /\ conns[s].conv_to_data[v] \in DOMAIN socks
       /\ socks[conns[s].conv_to_data[v]] = [slot |-> s, conv |-> v]
  /\ free_socks = (0 .. socks_len - 1) \ DOMAIN socks
  /\ DOMAIN socks \subseteq 0 .. socks_len - 1

\* A job that passes valid_ready when it comes back is for the client it was
\* made for, and what was sealed is sealed for the session the connection has
\* now: slots are reused and sessions replaced while jobs are under way, and
\* the generation number tells them apart.
JobsReachTheirSession ==
  \A j \in jobs : valid_ready(j) =>
    /\ conns[j.slot].const_id = j.client
    /\ j.op = "Encrypt" => conns[j.slot].my_id = j.my_id

\* An established connection is never taken over by a handshake that began
\* before the one it already runs on, however the handshakes' packets are
\* delayed and interleaved.
NeverBackToAnOlderHandshake ==
  [][\A s \in Live : \A t \in DOMAIN conns' :
       conns[s].state = "Ready" /\ conns'[t].state = "Ready"
         /\ conns[s].const_id = conns'[t].const_id
       => conns'[t].last_state_time >= conns[s].last_state_time]_vars

\* A conversation keeps its socket, through any number of reconnects of its
\* client and whatever happens to others, until it was idle for CONV_TIMEOUT.
ConversationsOutliveReconnects ==
  [][\A s \in Ready : \A v \in conns[s].convs :
       \/ now - conns[s].last_active[v] >= CONV_TIMEOUT
       \/ /\ s \in DOMAIN conns' /\ conns'[s].const_id = conns[s].const_id
          /\ v \in conns'[s].convs
          /\ conns'[s].conv_to_data[v] = conns[s].conv_to_data[v]]_vars

=============================================================================
