--------------------------- MODULE SessionProofs ---------------------------
(***************************************************************************)
(* Proofs about Server for any numbers of addresses, clients and           *)
(* conversations and any limits and timeouts, and, from the invariant of   *)
(* the server, about Session: the composition drives the server as module  *)
(* Server allows, and client and server agree on their sessions.           *)
(***************************************************************************)
EXTENDS Session, FiniteSetTheorems, TLAPS

\* Leaves about records with many fields need more than the default time.
USE SMTT(30)

-----------------------------------------------------------------------------
(* The server alone.                                                       *)

\* Generation numbers handed out so far are below the next one, and a job whose
\* generation is still the one of its slot belongs to a Ready connection.  This
\* is what makes JobsReachTheirSession inductive: a slot that is given to a new
\* connection, or a connection that changes its session, leaves every job made
\* before behind it.
Generations ==
  /\ \A s \in Live : conns[s].generation < next_generation
  /\ \A j \in jobs : j.generation < next_generation
  /\ \A j \in jobs :
       j.slot \in Live /\ conns[j.slot].generation = j.generation =>
         /\ conns[j.slot].state = "Ready"
         /\ conns[j.slot].const_id = j.client
         /\ j.op = "Encrypt" => conns[j.slot].my_id = j.my_id

Tables == FreeListExact /\ AddrTableExact /\ ConstIdTableExact /\ ReadyCountExact

IInv == TypeOK /\ Tables /\ SocketsExact /\ Generations

\* The generations tell stale results from current ones (valid_ready).
LEMMA JobsFollow == Generations => JobsReachTheirSession
  BY Zenon DEF Generations, JobsReachTheirSession, valid_ready, Live

\* The order of ids and times, where it is all a step needs.
LEMMA Ordered ==
  /\ \A x \in Nat : x <= x /\ ~(x < x)
  /\ \A x, y \in Nat : x < y => ~(y < x)
  /\ \A x, y \in Nat : x <= y /\ ~(x < y) => x = y
  OBVIOUS

\* A session id is a positive number.
LEMMA IdsAreNumbers == \A x \in 1 .. MaxGeneration : x \in Nat \ {0}
  BY ServerAssumption

\* alloc_conn gives a slot nobody lives in.
LEMMA AllocFresh ==
  ASSUME IInv, NEW s \in 0 .. conns_len, Alloc(s)
  PROVE  s \notin Live
<1>1. FreeListExact
  BY Zenon DEF IInv, Tables
<1> QED BY <1>1 DEF Alloc, FreeListExact

\* The server starts with an empty table.
LEMMA InitInv == Init => IInv
<1> SUFFICES ASSUME Init PROVE IInv
  BY Zenon
<1> USE DEF Init
<1>1. Live = {} /\ Ready = {}
  BY DEF Live, Ready
<1>2. TypeOK
  BY ServerAssumption DEF TypeOK
<1>3. Tables
  BY <1>1, FS_EmptySet, ServerAssumption
  DEF Tables, FreeListExact, AddrTableExact, ConstIdTableExact, ReadyCountExact
<1>4. SocketsExact
  BY <1>1 DEF SocketsExact
<1>5. Generations
  BY Zenon, <1>1 DEF Generations
<1> QED BY Zenon, <1>2, <1>3, <1>4, <1>5 DEF IInv

-----------------------------------------------------------------------------
(* Facts used for several actions.                                         *)

\* Only finitely many slots exist, so the Ready ones can be counted.
LEMMA ReadyFinite ==
  ASSUME TypeOK PROVE IsFiniteSet(Ready) /\ Ready \subseteq Live
<1>1. IsFiniteSet(Slot)
  BY ServerAssumption, FS_Interval DEF Slot
<1>2. Ready \subseteq Slot /\ Ready \subseteq Live
  BY Zenon DEF TypeOK, Ready, Live
<1> QED BY Zenon, <1>1, <1>2, FS_Subset

\* A job made for slot s.
LEMMA JobTyped ==
  ASSUME TypeOK, NEW s \in Live, NEW op \in {"Encrypt", "Decrypt"}, NEW id \in Nat
  PROVE  /\ Job(op, s, id) \in JobRecord
         /\ Job(op, s, id).op = op /\ Job(op, s, id).slot = s
         /\ Job(op, s, id).generation = conns[s].generation
         /\ Job(op, s, id).my_id = id
         /\ Job(op, s, id).client = conns[s].const_id
  BY Zenon DEF TypeOK, Job, JobRecord, ConnRecord, Live

\* A new connection in slot s.
LEMMA NewConnTyped ==
  ASSUME TypeOK, NEW a \in Addr
  PROVE  /\ NewConn(a) \in ConnRecord
         /\ NewConn(a).state = "Handshake1" /\ NewConn(a).addr = a
         /\ NewConn(a).generation = next_generation
         /\ NewConn(a).convs = {}
  BY Zenon DEF TypeOK, NewConn, ConnRecord, Unused

-----------------------------------------------------------------------------
(* One lemma per action.                                                   *)

\* alloc_conn gives a new handshake an unoccupied slot and a new generation.
LEMMA HandshakeNewInv ==
  ASSUME IInv, NEW a \in Addr, HandshakeNew(a) PROVE IInv'
<1> USE DEF IInv
<1>1. PICK s \in 0 .. conns_len :
        /\ Alloc(s)
        /\ conns' = Bind(conns, s, NewConn(a))
        /\ by_addr' = Bind(by_addr, a, s)
  BY Zenon DEF HandshakeNew
<1>2. /\ UNCHANGED <<now, by_const_id, ready_num, sockets, jobs, sweepVars>>
      /\ next_generation' = next_generation + 1
      /\ a \notin DOMAIN by_addr
      /\ live_conns < MAX_HANDSHAKE_CONN_NUM
  BY Zenon DEF HandshakeNew
<1>3. /\ s \notin Live /\ s \in Slot
      /\ conns_len' \in 0 .. MAX_HANDSHAKE_CONN_NUM
      /\ FreeListExact'
  <2>1. CASE free_conns # {}
    BY Zenon, <2>1, <1>1 DEF Alloc, Tables, FreeListExact, TypeOK, Live, Bind, Slot
  <2>2. CASE free_conns = {}
    <3>1. conns_len < MAX_HANDSHAKE_CONN_NUM
      BY <2>2, <1>2, FS_EmptySet DEF live_conns, TypeOK
    <3> QED BY <3>1, <2>2, <1>1, ServerAssumption
            DEF Alloc, Tables, FreeListExact, TypeOK, Live, Bind, Slot
  <2> QED BY Zenon, <2>1, <2>2
<1>4. /\ Live' = Live \cup {s}
      /\ \A t \in Live : conns'[t] = conns[t]
      /\ conns'[s] = NewConn(a)
  BY Zenon, <1>1, <1>3 DEF Live, Bind
<1>5. Ready' = Ready
  BY Zenon, <1>4, <1>3, NewConnTyped DEF Ready
<1>6. TypeOK'
  <2>1. conns' \in [DOMAIN conns' -> ConnRecord] /\ DOMAIN conns' \subseteq Slot
    BY Zenon, <1>1, <1>3, NewConnTyped DEF TypeOK, Bind
  <2>2. by_addr' \in [DOMAIN by_addr' -> Slot] /\ DOMAIN by_addr' \subseteq Addr
    BY Zenon, <1>1, <1>3 DEF TypeOK, Bind
  <2>3. free_conns' \subseteq Slot
    BY Zenon, <1>1 DEF Alloc, TypeOK
  <2> QED BY <1>2, <1>3, <2>1, <2>2, <2>3 DEF TypeOK, sockets, sweepVars
<1>7. AddrTableExact'
  BY <1>1, <1>2, <1>3, <1>4, NewConnTyped DEF Tables, AddrTableExact, Bind, Live
<1>8. ConstIdTableExact' /\ ReadyCountExact'
  BY ZenonT(60), <1>2, <1>3, <1>4, <1>5 DEF Tables, ConstIdTableExact, ReadyCountExact, Ready
<1>9. SocketsExact'
  BY <1>2, <1>3, <1>4, <1>5, NewConnTyped DEF SocketsExact, sockets, Ready
<1>10. Generations'
  <2>1. \A t \in Live' : conns'[t].generation < next_generation'
    BY <1>2, <1>4, NewConnTyped DEF Generations, TypeOK, ConnRecord, Live
  <2>2. \A j \in jobs' : j.generation < next_generation'
    BY <1>2 DEF Generations, TypeOK, JobRecord
  <2> QED BY <2>1, <2>2, <1>2, <1>4, NewConnTyped DEF Generations, TypeOK, JobRecord
<1> QED BY Zenon, <1>3, <1>6, <1>7, <1>8, <1>9, <1>10 DEF Tables

\* A client the server does not know becomes Ready and enters the index.
LEMMA BecomeReadyInv ==
  ASSUME IInv, NEW s \in Live, NEW c \in ConstId, conns[s].state = "Handshake1",
         BecomeReady(s, c),
         UNCHANGED <<now, conns_len, free_conns, sockets, sweepVars>>
  PROVE  IInv'
<1> USE DEF IInv
<1> DEFINE job == [Job("Encrypt", s, conns[s].my_id) EXCEPT !.client = c]
           new == [conns[s] EXCEPT !.state = "Ready", !.const_id = c,
                                   !.last_hb_recv = now, !.last_hb_sent = now]
<1>1. /\ c \notin DOMAIN by_const_id
      /\ ready_num < MAX_READY_CONN_NUM
      /\ conns' = [conns EXCEPT ![s] = new]
      /\ ready_num' = ready_num + 1
      /\ by_const_id' = Bind(by_const_id, c, s)
      /\ UNCHANGED <<by_addr, next_generation>>
      /\ jobs' \subseteq jobs \cup {job}
  BY Zenon DEF BecomeReady, Submit
<1>2. conns[s] \in ConnRecord
  BY Zenon DEF TypeOK, Live
<1>3. /\ new \in ConnRecord
      /\ new.state = "Ready" /\ new.const_id = c
      /\ new.addr = conns[s].addr /\ new.my_id = conns[s].my_id
      /\ new.generation = conns[s].generation
      /\ new.convs = conns[s].convs
      /\ new.conv_to_data = conns[s].conv_to_data
  BY Zenon, <1>2 DEF TypeOK, ConnRecord
<1>4. /\ job \in JobRecord /\ job.slot = s /\ job.client = c /\ job.op = "Encrypt"
      /\ job.generation = conns[s].generation /\ job.my_id = conns[s].my_id
  BY Zenon, <1>2 DEF Job, JobRecord, TypeOK, ConnRecord, Live
<1> HIDE DEF job, new
<1>5. /\ Live' = Live /\ conns'[s] = new
      /\ \A t \in Live : t # s => conns'[t] = conns[t]
  BY Zenon, <1>1 DEF Live
<1>6. Ready' = Ready \cup {s} /\ s \notin Ready /\ Ready \subseteq Live
  BY Zenon, <1>3, <1>5 DEF Ready
<1>7. TypeOK'
  <2>1. conns' \in [DOMAIN conns' -> ConnRecord] /\ DOMAIN conns' \subseteq Slot
    BY Zenon, <1>1, <1>3 DEF TypeOK, Live
  <2>2. /\ by_const_id' \in [DOMAIN by_const_id' -> Slot]
        /\ DOMAIN by_const_id' \subseteq ConstId
    BY Zenon, <1>1 DEF TypeOK, Live, Bind
  <2> QED BY <1>1, <1>4, <2>1, <2>2 DEF TypeOK, sockets, sweepVars
<1>8. FreeListExact' /\ AddrTableExact'
  BY <1>1, <1>3, <1>5 DEF Tables, FreeListExact, AddrTableExact
<1>9. ConstIdTableExact'
  BY <1>1, <1>3, <1>5, <1>6 DEF Tables, ConstIdTableExact, Bind
<1>10. ReadyCountExact'
  <2>1. Cardinality(Ready') = Cardinality(Ready) + 1
    BY Zenon, <1>6, ReadyFinite, FS_AddElement
  <2> QED BY <2>1, <1>1, ServerAssumption DEF Tables, ReadyCountExact, TypeOK
<1>11. SocketsExact'
  BY <1>3, <1>5, <1>6 DEF SocketsExact, sockets
<1>12. Generations'
  BY <1>1, <1>3, <1>4, <1>5 DEF Generations
<1> QED BY Zenon, <1>7, <1>8, <1>9, <1>10, <1>11, <1>12 DEF Tables

\* A refused handshake leaves indexes and counter alone.
LEMMA RefuseInv ==
  ASSUME IInv, NEW s \in Live, NEW c \in ConstId, conns[s].state = "Handshake1",
         Refuse(s, c),
         UNCHANGED <<now, conns_len, free_conns, sockets, sweepVars>>
  PROVE  IInv'
<1> USE DEF IInv
<1> DEFINE new == [conns[s] EXCEPT !.state = "Idle"]
<1>1. /\ conns' = [conns EXCEPT ![s] = new]
      /\ UNCHANGED <<by_addr, by_const_id, ready_num, next_generation, jobs>>
  BY Zenon DEF Refuse
<1>2. conns[s] \in ConnRecord
  BY Zenon DEF TypeOK, Live
<1>3. /\ new \in ConnRecord
      /\ new.state = "Idle" /\ new.addr = conns[s].addr
      /\ new.generation = conns[s].generation
      /\ new.convs = conns[s].convs
      /\ new.conv_to_data = conns[s].conv_to_data
  BY Zenon, <1>2 DEF ConnRecord
<1> HIDE DEF new
<1>4. /\ Live' = Live /\ conns'[s] = new
      /\ \A t \in Live : t # s => conns'[t] = conns[t]
  BY Zenon, <1>1 DEF Live
<1>5. Ready' = Ready /\ s \notin Ready /\ Ready \subseteq Live
  BY Zenon, <1>3, <1>4 DEF Ready
<1>6. TypeOK'
  <2>1. conns' \in [DOMAIN conns' -> ConnRecord] /\ DOMAIN conns' \subseteq Slot
    BY Zenon, <1>1, <1>3 DEF TypeOK, Live
  <2> QED BY Zenon, <1>1, <2>1 DEF TypeOK, sockets, sweepVars
<1>7. FreeListExact' /\ AddrTableExact'
  BY <1>1, <1>3, <1>4 DEF Tables, FreeListExact, AddrTableExact
<1>8. ConstIdTableExact' /\ ReadyCountExact'
  BY <1>1, <1>4, <1>5 DEF Tables, ConstIdTableExact, ReadyCountExact
<1>9. SocketsExact'
  BY <1>3, <1>4, <1>5 DEF SocketsExact, sockets
<1>10. Generations'
  BY <1>1, <1>3, <1>4 DEF Generations
<1> QED BY Zenon, <1>6, <1>7, <1>8, <1>9, <1>10 DEF Tables

\* The two connections of a take-over are different: the one that is found by
\* its const_id is Ready, the one that handshakes is not.
LEMMA RecoverInv ==
  ASSUME IInv, NEW s \in Live, NEW c \in ConstId, conns[s].state = "Handshake1",
         Recover(s, c),
         UNCHANGED <<now, conns_len, free_conns, sockets, sweepVars>>
  PROVE  IInv'
<1> USE DEF IInv
<1> DEFINE ori == by_const_id[c]
           rec == Recovered(conns[ori], conns[s])
           idle == [conns[s] EXCEPT !.addr = conns[ori].addr, !.state = "Idle"]
           job == [Job("Encrypt", ori, rec.my_id) EXCEPT !.generation = rec.generation]
<1>1. /\ c \in DOMAIN by_const_id
      /\ by_addr' = [by_addr EXCEPT ![conns[s].addr] = ori, ![conns[ori].addr] = s]
      /\ conns' = [conns EXCEPT ![s] = idle, ![ori] = rec]
      /\ next_generation' = next_generation + 1
      /\ UNCHANGED <<by_const_id, ready_num>>
      /\ jobs' \subseteq jobs \cup {job}
  BY Zenon DEF Recover, SwapAddrs, Submit
<1>2. ori \in Ready /\ ori \in Live /\ ori # s /\ conns[ori].const_id = c
  BY Zenon, <1>1 DEF Tables, ConstIdTableExact, Ready
<1>a. conns[s] \in ConnRecord /\ conns[ori] \in ConnRecord /\ conns[ori].state = "Ready"
  BY Zenon, <1>2 DEF TypeOK, Live, Ready
<1>3. /\ rec \in ConnRecord /\ rec.state = "Ready" /\ rec.addr = conns[s].addr
      /\ rec.const_id = c /\ rec.generation = next_generation
      /\ rec.my_id = conns[s].my_id
      /\ rec.convs = conns[ori].convs /\ rec.conv_to_data = conns[ori].conv_to_data
  BY Zenon, <1>2, <1>a DEF TypeOK, ConnRecord, Recovered
<1>4. /\ idle \in ConnRecord /\ idle.state = "Idle" /\ idle.addr = conns[ori].addr
      /\ idle.generation = conns[s].generation /\ idle.convs = conns[s].convs
      /\ idle.conv_to_data = conns[s].conv_to_data
  BY Zenon, <1>a DEF ConnRecord
<1>5. /\ job \in JobRecord /\ job.slot = ori /\ job.client = c /\ job.op = "Encrypt"
      /\ job.generation = next_generation /\ job.my_id = conns[s].my_id
  BY Zenon, <1>2, <1>3 DEF Job, JobRecord, TypeOK, ConnRecord, Live
<1> HIDE DEF ori, rec, idle, job
<1>6. /\ Live' = Live
      /\ conns'[s] = idle /\ conns'[ori] = rec
      /\ \A t \in Live : t # s /\ t # ori => conns'[t] = conns[t]
  BY Zenon, <1>1, <1>2 DEF Live
<1>7. Ready' = Ready /\ s \notin Ready /\ Ready \subseteq Live
  BY ZenonT(60), <1>2, <1>3, <1>4, <1>6 DEF Ready
<1>8. /\ DOMAIN by_addr' = DOMAIN by_addr
      /\ by_addr'[conns[s].addr] = ori /\ by_addr'[conns[ori].addr] = s
      /\ \A a \in DOMAIN by_addr :
           a # conns[s].addr /\ a # conns[ori].addr => by_addr'[a] = by_addr[a]
      /\ conns[s].addr # conns[ori].addr
      /\ conns[s].addr \in DOMAIN by_addr /\ conns[ori].addr \in DOMAIN by_addr
  BY Zenon, <1>1, <1>2 DEF Tables, AddrTableExact
<1>9. TypeOK'
  <2>1. conns' \in [DOMAIN conns' -> ConnRecord] /\ DOMAIN conns' \subseteq Slot
    BY Zenon, <1>1, <1>2, <1>3, <1>4 DEF TypeOK, Live
  <2>2. /\ by_addr' \in [DOMAIN by_addr' -> Slot] /\ DOMAIN by_addr' \subseteq Addr
    BY Zenon, <1>1, <1>2 DEF TypeOK, Live
  <2> QED BY <1>1, <1>5, <2>1, <2>2 DEF TypeOK, sockets, sweepVars
<1>10. FreeListExact'
  BY Zenon, <1>6 DEF Tables, FreeListExact
<1>11. AddrTableExact'
  BY <1>2, <1>3, <1>4, <1>6, <1>8 DEF Tables, AddrTableExact
<1>12. ConstIdTableExact' /\ ReadyCountExact'
  <2>1. \A t \in Ready : conns'[t].const_id = conns[t].const_id
    BY Zenon, <1>2, <1>3, <1>6, <1>7
  <2> QED BY Zenon, <2>1, <1>1, <1>7 DEF Tables, ConstIdTableExact, ReadyCountExact
<1>13. SocketsExact'
  <2>1. \A t \in Live : /\ conns'[t].convs = conns[t].convs
                         /\ conns'[t].conv_to_data = conns[t].conv_to_data
    BY Zenon, <1>2, <1>3, <1>4, <1>6
  <2> QED BY <2>1, <1>6, <1>7 DEF SocketsExact, sockets
<1>14. Generations'
  <2>1. \A t \in Live' : conns'[t].generation < next_generation'
    BY <1>1, <1>2, <1>3, <1>4, <1>6 DEF Generations, TypeOK, ConnRecord, Live
  <2>2. \A j \in jobs' : j.generation < next_generation'
    BY <1>1, <1>5 DEF Generations, TypeOK, JobRecord
  <2>3. ASSUME NEW j \in jobs', j.slot \in Live',
               conns'[j.slot].generation = j.generation
        PROVE  /\ conns'[j.slot].state = "Ready"
               /\ conns'[j.slot].const_id = j.client
               /\ j.op = "Encrypt" => conns'[j.slot].my_id = j.my_id
    <3>1. CASE j = job
      BY Zenon, <3>1, <1>3, <1>5, <1>6
    <3>2. CASE j \in jobs
      BY <3>2, <2>3, <1>3, <1>4, <1>6 DEF Generations, TypeOK, JobRecord
    <3> QED BY Zenon, <3>1, <3>2, <1>1
  <2> QED BY Zenon, <2>1, <2>2, <2>3 DEF Generations
<1> QED BY Zenon, <1>9, <1>10, <1>11, <1>12, <1>13, <1>14 DEF Tables

\* The three outcomes of pre_ready.
LEMMA Handshake2Inv ==
  ASSUME IInv, NEW a \in Addr, NEW c \in ConstId, Handshake2(a, c) PROVE IInv'
<1> DEFINE s == by_addr[a]
<1>1. s \in Live /\ conns[s].state = "Handshake1"
  BY Zenon DEF IInv, Tables, AddrTableExact, Handshake2
<1>2. UNCHANGED <<now, conns_len, free_conns, sockets, sweepVars>>
  BY Zenon DEF Handshake2
<1>3. BecomeReady(s, c) \/ Refuse(s, c) \/ Recover(s, c)
  BY Zenon DEF Handshake2
<1> HIDE DEF s
<1> QED BY Zenon, <1>1, <1>2, <1>3, BecomeReadyInv, RefuseInv, RecoverInv

-----------------------------------------------------------------------------
(* Jobs on their way, results, upstream datagrams.                         *)

\* Submitting jobs made for Ready connections on their present session.
LEMMA SubmitInv ==
  ASSUME IInv, NEW js, js \subseteq JobRecord, Submit(js),
         UNCHANGED <<now, tables, sockets, sweepVars>>,
         \A j \in js : /\ j.slot \in Ready
                       /\ conns[j.slot].generation = j.generation
                       /\ conns[j.slot].const_id = j.client
                       /\ j.op = "Encrypt" => conns[j.slot].my_id = j.my_id
  PROVE  IInv'
<1> USE DEF IInv, tables
<1>1. jobs' \subseteq jobs \cup js
  BY Zenon DEF Submit
<1>2. Live' = Live /\ Ready' = Ready
  BY Zenon DEF Live, Ready
<1>3. TypeOK' /\ Tables' /\ SocketsExact'
  <2>1. TypeOK'
    BY Zenon, <1>1 DEF TypeOK, sockets, sweepVars
  <2>2. Tables'
    BY Zenon, <1>2 DEF Tables, FreeListExact, AddrTableExact, ConstIdTableExact,
       ReadyCountExact
  <2>3. SocketsExact'
    BY Zenon, <1>2 DEF SocketsExact, sockets
  <2> QED BY Zenon, <2>1, <2>2, <2>3
<1>4. Generations'
  BY Zenon, <1>1, <1>2 DEF Generations, Ready
<1> QED BY Zenon, <1>3, <1>4

\* A packet of a Ready connection becomes a job of its generation.
LEMMA RawReadyInv ==
  ASSUME IInv, NEW a \in Addr, RawReady(a) PROVE IInv'
<1> DEFINE s == by_addr[a]
<1>1. PICK id \in {0, conns[s].my_id} : Submit({Job("Decrypt", s, id)})
  BY Zenon DEF RawReady
<1>2. s \in Live /\ s \in Ready
  BY Zenon DEF IInv, Tables, AddrTableExact, RawReady, Ready
<1>3. id \in Nat
  BY <1>2 DEF IInv, TypeOK, ConnRecord, Live
<1>4. UNCHANGED <<now, tables, sockets, sweepVars>>
  BY Zenon DEF RawReady
<1> HIDE DEF s
<1>5. TypeOK
  BY Zenon DEF IInv
<1> QED BY <1>1, <1>2, <1>3, <1>4, <1>5, JobTyped, SubmitInv

\* So does a datagram from upstream.
LEMMA SockReadableInv ==
  ASSUME IInv, NEW i \in DOMAIN socks, SockReadable(i) PROVE IInv'
<1> DEFINE s == socks[i].slot
<1>1. Submit({Job("Encrypt", s, conns[s].my_id)}) /\ s \in Ready
  BY Zenon DEF SockReadable
<1>2. s \in Live /\ conns[s].my_id \in Nat
  BY Zenon, <1>1 DEF IInv, TypeOK, ConnRecord, Live, Ready
<1>3. UNCHANGED <<now, tables, sockets, sweepVars>>
  BY Zenon DEF SockReadable
<1> HIDE DEF s
<1>4. TypeOK
  BY Zenon DEF IInv
<1> QED BY <1>1, <1>2, <1>3, <1>4, JobTyped, SubmitInv

\* A result that leads to nothing only leaves the pipeline.
LEMMA DoneIgnoredInv ==
  ASSUME IInv, NEW j \in jobs, DoneIgnored(j) PROVE IInv'
<1> USE DEF IInv, tables
<1>1. jobs' \subseteq jobs /\ UNCHANGED <<now, tables, sockets, sweepVars>>
  BY Zenon DEF DoneIgnored, Complete
<1>2. Live' = Live /\ Ready' = Ready
  BY Zenon, <1>1 DEF Live, Ready
<1>3. TypeOK' /\ Tables' /\ SocketsExact'
  BY Zenon, <1>1, <1>2 DEF TypeOK, Tables, SocketsExact, sockets, sweepVars,
     FreeListExact, AddrTableExact, ConstIdTableExact, ReadyCountExact
<1>4. Generations'
  BY Zenon, <1>1, <1>2 DEF Generations, Ready
<1> QED BY Zenon, <1>3, <1>4

\* Nothing in the invariant depends on the clock's reading.
LEMMA TickInv == IInv /\ Tick => IInv'
<1> SUFFICES ASSUME IInv, Tick PROVE IInv'
  BY Zenon
<1> USE DEF IInv, tables
<1>1. UNCHANGED <<tables, sockets, jobs, sweepVars>> /\ now' = now + 1
  BY Zenon DEF Tick
<1>2. Live' = Live /\ Ready' = Ready
  BY Zenon, <1>1 DEF Live, Ready
<1>3. TypeOK' /\ Tables' /\ SocketsExact'
  <2>0. now' \in Nat
    BY SMT, <1>1 DEF TypeOK
  <2>1. TypeOK'
    BY Zenon, <1>1, <2>0 DEF TypeOK, sockets, sweepVars
  <2>2. Tables'
    BY Zenon, <1>1, <1>2 DEF Tables, FreeListExact, AddrTableExact, ConstIdTableExact,
       ReadyCountExact
  <2>3. SocketsExact'
    BY Zenon, <1>1, <1>2 DEF SocketsExact, sockets
  <2> QED BY Zenon, <2>1, <2>2, <2>3
<1>4. Generations'
  BY Zenon, <1>1, <1>2 DEF Generations, Ready
<1> QED BY Zenon, <1>3, <1>4

\* A step that changes no more of the tables than the times, the conversations
\* and the sockets of connection s.
LEMMA ConnUpdateInv ==
  ASSUME IInv, NEW s \in Ready, NEW c \in ConnRecord,
         conns' = [conns EXCEPT ![s] = c],
         c.state = conns[s].state, c.addr = conns[s].addr,
         c.const_id = conns[s].const_id, c.my_id = conns[s].my_id,
         c.generation = conns[s].generation,
         jobs' \subseteq jobs,
         UNCHANGED <<now, conns_len, free_conns, by_addr, by_const_id, ready_num,
                     next_generation, sweepVars>>
  PROVE  /\ Live' = Live /\ Ready' = Ready /\ Ready \subseteq Live
         /\ Tables' /\ Generations'
         /\ conns' \in [DOMAIN conns' -> ConnRecord] /\ DOMAIN conns' \subseteq Slot
<1> USE DEF IInv
<1>1. s \in Live /\ Ready \subseteq Live
  BY Zenon DEF Ready
<1>2. /\ Live' = Live /\ conns'[s] = c
      /\ \A t \in Live : t # s => conns'[t] = conns[t]
  BY Zenon, <1>1 DEF Live
<1>3. Ready' = Ready
  BY Zenon, <1>1, <1>2 DEF Ready
<1>4. conns' \in [DOMAIN conns' -> ConnRecord] /\ DOMAIN conns' \subseteq Slot
  BY Zenon DEF TypeOK
<1>5. \A t \in Live : /\ conns'[t].state = conns[t].state
                       /\ conns'[t].addr = conns[t].addr
                       /\ conns'[t].const_id = conns[t].const_id
                       /\ conns'[t].my_id = conns[t].my_id
                       /\ conns'[t].generation = conns[t].generation
  BY Zenon, <1>2
<1>6. Tables'
  BY <1>1, <1>2, <1>3, <1>5
  DEF Tables, FreeListExact, AddrTableExact, ConstIdTableExact, ReadyCountExact
<1>7. Generations'
  BY <1>2, <1>5 DEF Generations
<1> QED BY Zenon, <1>1, <1>2, <1>3, <1>4, <1>6, <1>7

\* The same step, when no conversation changes: the sockets stay exact if the
\* free list does.
LEMMA ConvsKeptInv ==
  ASSUME IInv, NEW s \in Ready, NEW c \in ConnRecord,
         conns' = [conns EXCEPT ![s] = c],
         c.state = conns[s].state, c.addr = conns[s].addr,
         c.const_id = conns[s].const_id, c.my_id = conns[s].my_id,
         c.generation = conns[s].generation,
         c.convs = conns[s].convs, c.conv_to_data = conns[s].conv_to_data,
         jobs' \subseteq jobs,
         UNCHANGED <<now, conns_len, free_conns, by_addr, by_const_id, ready_num,
                     next_generation, sweepVars>>,
         socks' = socks, socks_len' \in Nat, socks_len <= socks_len',
         free_socks' = (0 .. socks_len' - 1) \ DOMAIN socks
  PROVE  IInv'
<1> USE DEF IInv
<1>1. /\ Live' = Live /\ Ready' = Ready /\ Ready \subseteq Live
      /\ Tables' /\ Generations'
      /\ conns' \in [DOMAIN conns' -> ConnRecord] /\ DOMAIN conns' \subseteq Slot
  BY Zenon, ConnUpdateInv
<1>2. TypeOK'
  BY <1>1 DEF TypeOK, sweepVars
<1>3. \A t \in Live : /\ conns'[t].convs = conns[t].convs
                       /\ conns'[t].conv_to_data = conns[t].conv_to_data
  BY Zenon DEF Live
<1>4. DOMAIN socks \subseteq 0 .. socks_len' - 1
  BY DEF SocketsExact, TypeOK
<1>5. SocketsExact'
  BY <1>1, <1>3, <1>4 DEF SocketsExact
<1> QED BY Zenon, <1>1, <1>2, <1>5

\* A heartbeat or data renews the heartbeat time and nothing else.
LEMMA HeardTyped ==
  ASSUME TypeOK, NEW c \in ConnRecord, NEW d \in {Heard(c), HeardData(c)}
  PROVE  /\ d \in ConnRecord
         /\ d.state = c.state /\ d.addr = c.addr /\ d.const_id = c.const_id
         /\ d.my_id = c.my_id /\ d.generation = c.generation
         /\ d.convs = c.convs /\ d.conv_to_data = c.conv_to_data
         /\ d.last_state_time = c.last_state_time
  BY DEF TypeOK, ConnRecord, Heard, HeardData

\* What accept_safer_offset admits belongs to a Ready connection.
LEMMA AcceptedReady ==
  ASSUME IInv, NEW j \in jobs, Accepted(j)
  PROVE  j.slot \in Ready /\ conns[j.slot] \in ConnRecord
  BY Zenon DEF IInv, Accepted, valid_ready, Ready, TypeOK, Live

\* An accepted heartbeat.
LEMMA DoneHeartbeatInv ==
  ASSUME IInv, NEW j \in jobs, DoneHeartbeat(j) PROVE IInv'
<1> DEFINE s == j.slot  c == Heard(conns[s])
<1>1. s \in Ready /\ conns[s] \in ConnRecord
  BY Zenon, AcceptedReady DEF DoneHeartbeat
<1>2. /\ conns' = [conns EXCEPT ![s] = c]
      /\ jobs' \subseteq jobs
      /\ UNCHANGED <<now, conns_len, free_conns, by_addr, by_const_id, ready_num,
                     next_generation, sockets, sweepVars>>
  BY Zenon DEF DoneHeartbeat, Complete
<1>3. /\ c \in ConnRecord
      /\ c.state = conns[s].state /\ c.addr = conns[s].addr
      /\ c.const_id = conns[s].const_id /\ c.my_id = conns[s].my_id
      /\ c.generation = conns[s].generation
      /\ c.convs = conns[s].convs /\ c.conv_to_data = conns[s].conv_to_data
  BY Zenon, <1>1, HeardTyped DEF IInv
<1>4. /\ socks' = socks /\ socks_len' \in Nat /\ socks_len <= socks_len'
      /\ free_socks' = (0 .. socks_len' - 1) \ DOMAIN socks
  BY <1>2 DEF sockets, IInv, TypeOK, SocketsExact
<1> HIDE DEF s, c
<1> QED BY Zenon, <1>1, <1>2, <1>3, <1>4, ConvsKeptInv

\* A socket index that is handed out was not in use.
LEMMA AllocSockFree ==
  ASSUME IInv, NEW i \in 0 .. socks_len, AllocSock(i)
  PROVE  /\ i \notin DOMAIN socks
         /\ socks_len' \in Nat /\ socks_len <= socks_len'
         /\ free_socks \cup {i} = (0 .. socks_len' - 1) \ DOMAIN socks
         /\ i \in 0 .. socks_len' - 1
  BY DEF IInv, TypeOK, SocketsExact, AllocSock

\* Data that opens a conversation pairs a free socket index with it.
LEMMA OpenConvInv ==
  ASSUME IInv, NEW s \in Ready, NEW v \in Conv, OpenConv(s, v),
         jobs' \subseteq jobs,
         UNCHANGED <<now, conns_len, free_conns, by_addr, by_const_id, ready_num,
                     next_generation, sweepVars>>
  PROVE  IInv'
<1> USE DEF IInv
<1> DEFINE h == HeardData(conns[s])
<1>1. PICK i \in 0 .. socks_len :
        /\ AllocSock(i)
        /\ free_socks' = free_socks \ {i}
        /\ socks' = Bind(socks, i, [slot |-> s, conv |-> v])
        /\ conns' = [conns EXCEPT ![s] =
             [h EXCEPT !.convs = @ \cup {v},
                       !.conv_to_data[v] = i, !.last_active[v] = now]]
  BY Zenon DEF OpenConv
<1> DEFINE c == [h EXCEPT !.convs = @ \cup {v},
                          !.conv_to_data[v] = i, !.last_active[v] = now]
<1>2. conns[s] \in ConnRecord /\ s \in Live /\ s \in Slot /\ v \notin conns[s].convs
  BY Zenon DEF TypeOK, Live, Ready, OpenConv
<1>3. /\ h \in ConnRecord
      /\ h.state = conns[s].state /\ h.addr = conns[s].addr
      /\ h.const_id = conns[s].const_id /\ h.my_id = conns[s].my_id
      /\ h.generation = conns[s].generation
      /\ h.convs = conns[s].convs /\ h.conv_to_data = conns[s].conv_to_data
  BY Zenon, <1>2, HeardTyped
<1> HIDE DEF h
<1>4. /\ i \notin DOMAIN socks /\ i \in Nat
      /\ socks_len' \in Nat /\ socks_len <= socks_len'
      /\ free_socks \cup {i} = (0 .. socks_len' - 1) \ DOMAIN socks
      /\ i \in 0 .. socks_len' - 1
  BY <1>1, AllocSockFree
<1>5. /\ c \in ConnRecord
      /\ c.state = h.state /\ c.addr = h.addr
      /\ c.const_id = h.const_id /\ c.my_id = h.my_id /\ c.generation = h.generation
      /\ c.convs = h.convs \cup {v}
      /\ c.conv_to_data = [h.conv_to_data EXCEPT ![v] = i]
  <2> DEFINE data == [h.conv_to_data EXCEPT ![v] = i]
             active == [h.last_active EXCEPT ![v] = now]
             cs == h.convs \cup {v}
  <2>1. data \in [Conv -> Nat] /\ active \in [Conv -> Nat] /\ cs \in SUBSET Conv
    BY Zenon, <1>3, <1>4 DEF TypeOK, ConnRecord
  <2>2. c = [h EXCEPT !.convs = cs, !.conv_to_data = data, !.last_active = active]
    BY Zenon, <1>3 DEF ConnRecord
  <2> HIDE DEF data, active, cs, c
  <2>3. /\ c \in ConnRecord
        /\ c.state = h.state /\ c.addr = h.addr
        /\ c.const_id = h.const_id /\ c.my_id = h.my_id /\ c.generation = h.generation
        /\ c.convs = cs /\ c.conv_to_data = data
    BY Zenon, <1>3, <2>1, <2>2 DEF ConnRecord
  <2> QED BY Zenon, <2>3 DEF data, cs
<1>6. conns' = [conns EXCEPT ![s] = c]
  BY Zenon, <1>1
<1> HIDE DEF c
<1>7. /\ Live' = Live /\ Ready' = Ready /\ Ready \subseteq Live
      /\ Tables' /\ Generations'
      /\ conns' \in [DOMAIN conns' -> ConnRecord] /\ DOMAIN conns' \subseteq Slot
  BY ZenonT(60), <1>3, <1>5, <1>6, ConnUpdateInv
<1>8. TypeOK'
  <2>1. /\ DOMAIN socks' \subseteq Nat
        /\ socks' \in [DOMAIN socks' -> [slot : Slot, conv : Conv]]
    BY Zenon, <1>1, <1>2, <1>4 DEF TypeOK, Bind
  <2> QED BY Zenon, <1>1, <1>4, <1>7, <2>1 DEF TypeOK, sweepVars
<1>9. SocketsExact'
  <2>1. /\ DOMAIN socks' = DOMAIN socks \cup {i}
        /\ socks'[i] = [slot |-> s, conv |-> v]
        /\ \A k \in DOMAIN socks : socks'[k] = socks[k]
    BY Zenon, <1>1, <1>4 DEF Bind
  <2>2. /\ \A t \in Live : t # s => conns'[t] = conns[t]
        /\ conns'[s].convs = conns[s].convs \cup {v}
        /\ conns'[s].conv_to_data[v] = i
        /\ \A w \in conns[s].convs :
             conns'[s].conv_to_data[w] = conns[s].conv_to_data[w]
    BY ZenonT(60), <1>2, <1>3, <1>5, <1>6 DEF Live, ConnRecord
  <2>3. \A k \in DOMAIN socks' :
          /\ socks'[k].slot \in Ready'
          /\ socks'[k].conv \in conns'[socks'[k].slot].convs
          /\ conns'[socks'[k].slot].conv_to_data[socks'[k].conv] = k
    <3> SUFFICES ASSUME NEW k \in DOMAIN socks'
                 PROVE  /\ socks'[k].slot \in Ready'
                        /\ socks'[k].conv \in conns'[socks'[k].slot].convs
                        /\ conns'[socks'[k].slot].conv_to_data[socks'[k].conv] = k
      BY Zenon
    <3>1. CASE k = i
      BY <3>1, <2>1, <2>2, <1>7
    <3>2. CASE k # i
      BY <3>2, <2>1, <2>2, <1>7 DEF SocketsExact
    <3> QED BY Zenon, <3>1, <3>2
  <2>4. \A t \in Live' : \A w \in conns'[t].convs :
          /\ conns'[t].conv_to_data[w] \in DOMAIN socks'
          /\ socks'[conns'[t].conv_to_data[w]] = [slot |-> t, conv |-> w]
    <3> SUFFICES ASSUME NEW t \in Live, NEW w \in conns'[t].convs
                 PROVE  /\ conns'[t].conv_to_data[w] \in DOMAIN socks'
                        /\ socks'[conns'[t].conv_to_data[w]] = [slot |-> t, conv |-> w]
      BY Zenon, <1>7
    <3>1. CASE t = s /\ w = v
      BY Zenon, <3>1, <2>1, <2>2
    <3>2. CASE ~(t = s /\ w = v)
      BY <3>2, <2>1, <2>2, <1>2 DEF SocketsExact
    <3> QED BY Zenon, <3>1, <3>2
  <2>5. /\ free_socks' = (0 .. socks_len' - 1) \ DOMAIN socks'
        /\ DOMAIN socks' \subseteq 0 .. socks_len' - 1
    BY <1>1, <1>4, <2>1 DEF SocketsExact, TypeOK
  <2> QED BY Zenon, <2>3, <2>4, <2>5 DEF SocketsExact
<1> QED BY Zenon, <1>7, <1>8, <1>9

\* Accepted data, over the ways a conversation is found, opened or refused.
LEMMA DoneDataInv ==
  ASSUME IInv, NEW j \in jobs, NEW v \in Conv, DoneData(j, v) PROVE IInv'
<1> DEFINE s == j.slot  h == HeardData(conns[s])
<1>1. s \in Ready /\ conns[s] \in ConnRecord
  BY Zenon, AcceptedReady DEF DoneData
<1>2. /\ jobs' \subseteq jobs
      /\ UNCHANGED <<now, conns_len, free_conns, by_addr, by_const_id, ready_num,
                     next_generation, sweepVars>>
  BY Zenon DEF DoneData, Complete
<1>3. /\ h \in ConnRecord
      /\ h.state = conns[s].state /\ h.addr = conns[s].addr
      /\ h.const_id = conns[s].const_id /\ h.my_id = conns[s].my_id
      /\ h.generation = conns[s].generation
      /\ h.convs = conns[s].convs /\ h.conv_to_data = conns[s].conv_to_data
  BY Zenon, <1>1, HeardTyped DEF IInv
<1>4. CASE UseConv(s, v)
  <2> DEFINE c == [h EXCEPT !.last_active[v] = now]
  <2>1. conns' = [conns EXCEPT ![s] = c] /\ UNCHANGED sockets
    BY Zenon, <1>4 DEF UseConv
  <2> HIDE DEF h
  <2>2. /\ c \in ConnRecord
        /\ c.state = h.state /\ c.addr = h.addr
        /\ c.const_id = h.const_id /\ c.my_id = h.my_id
        /\ c.generation = h.generation
        /\ c.convs = h.convs /\ c.conv_to_data = h.conv_to_data
    <3>1. now \in Nat
      BY Zenon DEF IInv, TypeOK
    <3>2. h \in ConnRecord
      BY Zenon, <1>3
    <3> QED BY Zenon, <3>1, <3>2 DEF ConnRecord
  <2>3. /\ socks' = socks /\ socks_len' \in Nat /\ socks_len <= socks_len'
        /\ free_socks' = (0 .. socks_len' - 1) \ DOMAIN socks
    BY <2>1 DEF sockets, IInv, TypeOK, SocketsExact
  <2> HIDE DEF s, c
  <2> QED BY Zenon, <1>1, <1>2, <1>3, <2>1, <2>2, <2>3, ConvsKeptInv
<1>5. CASE NoConv(s, v)
  <2>1. /\ conns' = [conns EXCEPT ![s] = h]
        /\ socks' = socks /\ socks_len' \in Nat /\ socks_len <= socks_len'
        /\ free_socks' = (0 .. socks_len' - 1) \ DOMAIN socks
    BY <1>5 DEF NoConv, sockets, IInv, TypeOK, SocketsExact
  <2> HIDE DEF s, h
  <2> QED BY Zenon, <1>1, <1>2, <1>3, <2>1, ConvsKeptInv
<1>6. CASE RegisterFails(s, v)
  <2>1. conns' = [conns EXCEPT ![s] = h] /\ socks' = socks
    BY Zenon, <1>6 DEF RegisterFails
  <2>2. PICK i \in 0 .. socks_len : AllocSock(i) /\ free_socks' = free_socks \cup {i}
    BY Zenon, <1>6 DEF RegisterFails
  <2>3. /\ socks_len' \in Nat /\ socks_len <= socks_len'
        /\ free_socks' = (0 .. socks_len' - 1) \ DOMAIN socks
    BY Zenon, <2>2, AllocSockFree
  <2> HIDE DEF s, h
  <2> QED BY Zenon, <1>1, <1>2, <1>3, <2>1, <2>3, ConvsKeptInv
<1>7. CASE OpenConv(s, v)
  <2> HIDE DEF s
  <2> QED BY Zenon, <1>1, <1>2, <1>7, OpenConvInv
<1> QED BY Zenon, <1>4, <1>5, <1>6, <1>7 DEF DoneData

-----------------------------------------------------------------------------
(* The timer.                                                              *)

\* The sweep erases connections it need not keep, and those have no
\* conversations.
LEMMA SweptFacts ==
  ASSUME IInv
  PROVE  Swept \subseteq Live /\ \A s \in Swept : conns[s].convs = {}
<1> SUFFICES ASSUME NEW s \in Swept PROVE s \in Live /\ conns[s].convs = {}
  BY Zenon
<1>1. s \in Live /\ ~Keep(s)
  BY Zenon DEF Swept
<1>2. CASE conns[s].state = "Ready"
  BY Zenon, <1>1, <1>2 DEF Keep
<1>3. CASE conns[s].state # "Ready"
  <2> SUFFICES ASSUME NEW v \in conns[s].convs PROVE FALSE
    BY Zenon, <1>1
  <2> DEFINE i == conns[s].conv_to_data[v]
  <2>1. i \in DOMAIN socks /\ socks[i] = [slot |-> s, conv |-> v]
    BY Zenon, <1>1 DEF IInv, SocketsExact
  <2>2. socks[i].slot \in Ready
    BY Zenon, <2>1 DEF IInv, SocketsExact
  <2> QED BY <1>3, <2>1, <2>2 DEF Ready
<1> QED BY Zenon, <1>2, <1>3

\* The cursor stays a slot number plus one.
LEMMA CursorTyped ==
  ASSUME IInv, SweepDue PROVE WalkSlot(Cardinality(Walk) - 1) + 1 \in Nat
<1>1. IsFiniteSet(0 .. conns_len - 1)
  <2>1. 0 \in Int /\ conns_len - 1 \in Int
    BY ServerAssumption DEF IInv, TypeOK
  <2> QED BY Zenon, <2>1, FS_Interval
<1>2. Cardinality(Walk) \in Nat
  BY Zenon, <1>1, FS_Subset, FS_CardinalityType DEF Walk
<1>3. conns_len > 0
  <2>1. IsFiniteSet(free_conns)
    BY Zenon, <1>1, FS_Subset DEF IInv, Tables, FreeListExact
  <2>2. Cardinality(free_conns) \in Nat
    BY Zenon, <2>1, FS_CardinalityType
  <2> QED BY <2>2 DEF SweepDue, live_conns, IInv, TypeOK
<1> QED BY <1>2, <1>3 DEF WalkSlot, IInv, TypeOK

\* The timer: erase_conn takes a swept connection out of every table, and its
\* sockets, and those of expired conversations, go back to the free list.
LEMMA OnTimerInv == ASSUME IInv, OnTimer PROVE IInv'
<1> USE DEF IInv
<1> DEFINE left == Live \ Swept
           due == {s \in Ready \ Swept : HeartbeatDue(s)}
           made == {Job("Encrypt", s, conns[s].my_id) : s \in due}
<1>1. PICK expired \in [Live -> SUBSET Conv] :
    /\ \A s \in Live : expired[s] \subseteq
         (IF s \in Swept THEN conns[s].convs
          ELSE IF s \in Ready THEN Inactive(s) ELSE {})
    /\ \A s \in Swept : expired[s] = conns[s].convs
    /\ LET closed == UNION {SocksOf(s, expired[s]) : s \in Live} IN
         /\ socks' = Restrict(socks, DOMAIN socks \ closed)
         /\ free_socks' = free_socks \cup closed
    /\ conns' = [s \in left |->
         [conns[s] EXCEPT
            !.convs = @ \ expired[s],
            !.conv_to_data = [v \in Conv |-> IF v \in expired[s] THEN 0 ELSE @[v]],
            !.last_active = [v \in Conv |-> IF v \in expired[s] THEN 0 ELSE @[v]],
            !.last_hb_sent = IF s \in due THEN now ELSE @]]
    /\ Erase(Swept)
    /\ IF SweepDue
       THEN clear_cursor' = WalkSlot(Cardinality(Walk) - 1) + 1
       ELSE UNCHANGED clear_cursor
    /\ last_conn_clear' =
         IF now - last_conn_clear > CONN_CLEAR_INTERVAL THEN now ELSE last_conn_clear
    /\ Submit(made)
    /\ UNCHANGED <<now, conns_len, next_generation, socks_len>>
  BY Zenon DEF OnTimer
<1> DEFINE closed == UNION {SocksOf(s, expired[s]) : s \in Live}
           new(s) == [conns[s] EXCEPT
            !.convs = @ \ expired[s],
            !.conv_to_data = [v \in Conv |-> IF v \in expired[s] THEN 0 ELSE @[v]],
            !.last_active = [v \in Conv |-> IF v \in expired[s] THEN 0 ELSE @[v]],
            !.last_hb_sent = IF s \in due THEN now ELSE @]
<1>2. Swept \subseteq Live /\ Ready \subseteq Live /\ \A s \in Swept : conns[s].convs = {}
  BY Zenon, SweptFacts DEF Ready
<1>3. \A s \in left : conns[s] \in ConnRecord
  BY Zenon DEF TypeOK, Live
<1>4. ASSUME NEW s \in left
      PROVE  /\ new(s) \in ConnRecord
             /\ new(s).state = conns[s].state /\ new(s).addr = conns[s].addr
             /\ new(s).const_id = conns[s].const_id
             /\ new(s).my_id = conns[s].my_id
             /\ new(s).generation = conns[s].generation
             /\ new(s).convs = conns[s].convs \ expired[s]
             /\ \A v \in Conv : v \notin expired[s] =>
                  new(s).conv_to_data[v] = conns[s].conv_to_data[v]
  <2> DEFINE data == [v \in Conv |-> IF v \in expired[s] THEN 0 ELSE conns[s].conv_to_data[v]]
             active == [v \in Conv |-> IF v \in expired[s] THEN 0 ELSE conns[s].last_active[v]]
             sent == IF s \in due THEN now ELSE conns[s].last_hb_sent
             cs == conns[s].convs \ expired[s]
  <2>1. data \in [Conv -> Nat] /\ active \in [Conv -> Nat] /\ cs \in SUBSET Conv
    BY <1>3 DEF ConnRecord
  <2>2. sent \in Nat
    BY Zenon, <1>3 DEF TypeOK, ConnRecord
  <2>3. new(s) = [conns[s] EXCEPT !.convs = cs, !.conv_to_data = data,
                                  !.last_active = active, !.last_hb_sent = sent]
    BY Zenon
  <2>4. \A v \in Conv : v \notin expired[s] => data[v] = conns[s].conv_to_data[v]
    BY Zenon
  <2> HIDE DEF data, active, sent, cs, new
  <2>5. /\ new(s) \in ConnRecord
        /\ new(s).state = conns[s].state /\ new(s).addr = conns[s].addr
        /\ new(s).const_id = conns[s].const_id
        /\ new(s).my_id = conns[s].my_id
        /\ new(s).generation = conns[s].generation
        /\ new(s).convs = cs /\ new(s).conv_to_data = data
    BY ZenonT(60), <1>3, <2>1, <2>2, <2>3 DEF ConnRecord
  <2> QED BY Zenon, <2>4, <2>5 DEF cs
<1>5. Live' = left /\ \A s \in left : conns'[s] = new(s)
  BY Zenon, <1>1 DEF Live
<1> HIDE DEF new
<1>6. Ready' = Ready \ Swept
  BY <1>2, <1>4, <1>5 DEF Ready
<1>7. /\ jobs' \subseteq jobs \cup made
      /\ made \subseteq JobRecord
      /\ \A j \in made : /\ j.slot \in Ready \ Swept /\ j.op = "Encrypt"
                          /\ conns[j.slot].generation = j.generation
                          /\ conns[j.slot].const_id = j.client
                          /\ conns[j.slot].my_id = j.my_id
  <2>1. jobs' \subseteq jobs \cup made
    BY Zenon, <1>1 DEF Submit
  <2>2. ASSUME NEW s \in due PROVE conns[s].my_id \in Nat /\ s \in Live
    BY Zenon, <1>2, <1>3 DEF ConnRecord
  <2> QED BY <2>1, <2>2, JobTyped
<1> HIDE DEF made
<1>7a. ready_num' = Cardinality(Ready \ Swept) /\ ready_num' \in Nat /\ ready_num' <= ready_num
  <2>1. IsFiniteSet(Ready)
    BY Zenon, ReadyFinite
  <2>2. Cardinality(Ready \ Swept) = Cardinality(Ready) - Cardinality(Ready \cap Swept)
    BY Zenon, <2>1, FS_Difference
  <2>3. IsFiniteSet(Ready \ Swept) /\ IsFiniteSet(Ready \cap Swept)
    BY Zenon, <2>1, FS_Subset
  <2>4. Cardinality(Ready \ Swept) \in Nat /\ Cardinality(Ready \cap Swept) \in Nat
    BY Zenon, <2>3, FS_CardinalityType
  <2>5. ready_num' = ready_num - Cardinality(Ready \cap Swept)
    BY Zenon, <1>1 DEF Erase
  <2> QED BY <2>2, <2>4, <2>5 DEF Tables, ReadyCountExact, TypeOK
<1>8. TypeOK'
  <2>1. conns' \in [DOMAIN conns' -> ConnRecord] /\ DOMAIN conns' \subseteq Slot
    <3>1. DOMAIN conns' = left /\ left \subseteq Slot
      BY Zenon, <1>5 DEF Live, TypeOK
    <3> QED BY Zenon, <3>1, <1>1, <1>4 DEF new
  <2>2. /\ by_addr' \in [DOMAIN by_addr' -> Slot] /\ DOMAIN by_addr' \subseteq Addr
        /\ by_const_id' \in [DOMAIN by_const_id' -> Slot]
        /\ DOMAIN by_const_id' \subseteq ConstId
    BY Zenon, <1>1 DEF TypeOK, Erase, Restrict
  <2>3. free_conns' \subseteq Slot
    BY Zenon, <1>1, <1>2 DEF TypeOK, Erase, Live
  <2>4. /\ socks' \in [DOMAIN socks' -> [slot : Slot, conv : Conv]]
        /\ DOMAIN socks' \subseteq Nat
    BY Zenon, <1>1 DEF TypeOK, Restrict
  <2>5. closed \subseteq Nat
    <3> SUFFICES ASSUME NEW s \in Live, NEW v \in expired[s]
                 PROVE  conns[s].conv_to_data[v] \in Nat
      BY DEF SocksOf
    <3>1. v \in Conv /\ conns[s] \in ConnRecord
      BY Zenon, <1>1 DEF TypeOK, Live
    <3> QED BY Zenon, <3>1 DEF ConnRecord
  <2>6. clear_cursor' \in Nat /\ last_conn_clear' \in Nat
    BY Zenon, <1>1, CursorTyped DEF TypeOK
  <2>7. ready_num' \in Nat
    BY Zenon, <1>7a DEF TypeOK
  <2> QED BY Zenon, <1>1, <1>7, <2>1, <2>2, <2>3, <2>4, <2>5, <2>6, <2>7 DEF TypeOK
<1>9. FreeListExact'
  <2>1. free_conns' = free_conns \cup Swept /\ conns_len' = conns_len
    BY Zenon, <1>1 DEF Erase
  <2> QED BY Zenon, <2>1, <1>2, <1>5 DEF Tables, FreeListExact
<1>10. AddrTableExact'
  <2>1. by_addr' = [a \in DOMAIN by_addr \ {conns[s].addr : s \in Swept} |-> by_addr[a]]
    BY Zenon, <1>1 DEF Erase, Restrict
  <2>2. \A a \in DOMAIN by_addr : a \in DOMAIN by_addr' <=> by_addr[a] \notin Swept
    BY <2>1, <1>2 DEF Tables, AddrTableExact
  <2>3. \A a \in DOMAIN by_addr' : a \in DOMAIN by_addr /\ by_addr'[a] = by_addr[a]
    BY Zenon, <2>1
  <2> HIDE DEF left
  <2>4. \A s : s \in left <=> s \in Live /\ s \notin Swept
    BY Zenon DEF left
  <2> QED BY <2>2, <2>3, <2>4, <1>4, <1>5 DEF Tables, AddrTableExact
<1>11. ConstIdTableExact'
  <2>1. by_const_id' = [c \in DOMAIN by_const_id \
                          {conns[s].const_id : s \in Ready \cap Swept} |-> by_const_id[c]]
    BY Zenon, <1>1 DEF Erase, Restrict
  <2>2. \A c \in DOMAIN by_const_id :
          c \in DOMAIN by_const_id' <=> by_const_id[c] \notin Swept
    BY Zenon, <2>1 DEF Tables, ConstIdTableExact
  <2>3. \A c \in DOMAIN by_const_id' :
          c \in DOMAIN by_const_id /\ by_const_id'[c] = by_const_id[c]
    BY Zenon, <2>1
  <2>4. \A s \in Ready \ Swept : conns'[s].const_id = conns[s].const_id
    BY ZenonT(60), <1>2, <1>4, <1>5
  <2> QED BY <2>2, <2>3, <2>4, <1>6 DEF Tables, ConstIdTableExact
<1>12. ReadyCountExact'
  BY <1>6, <1>7a, ServerAssumption DEF Tables, ReadyCountExact, TypeOK
<1>13. SocketsExact'
  <2>1. /\ DOMAIN socks' = DOMAIN socks \ closed
        /\ \A k \in DOMAIN socks' : socks'[k] = socks[k]
        /\ free_socks' = free_socks \cup closed
        /\ socks_len' = socks_len
    BY Zenon, <1>1 DEF Restrict
  <2>2. \A s \in Live : expired[s] \subseteq conns[s].convs /\ expired[s] \subseteq Conv
    BY Zenon, <1>1 DEF Inactive
  <2>3. \A k : k \in closed <=>
          \E s \in Live : \E v \in expired[s] : k = conns[s].conv_to_data[v]
    BY DEF SocksOf
  <2> HIDE DEF closed
  <2>4. \A k \in closed : /\ k \in DOMAIN socks
                          /\ socks[k].conv \in expired[socks[k].slot]
    <3> SUFFICES ASSUME NEW k \in closed
                 PROVE  k \in DOMAIN socks /\ socks[k].conv \in expired[socks[k].slot]
      BY Zenon
    <3>1. PICK s \in Live : \E v \in expired[s] : k = conns[s].conv_to_data[v]
      BY Zenon, <2>3
    <3>2. PICK v \in expired[s] : k = conns[s].conv_to_data[v]
      BY Zenon, <3>1
    <3>3. k \in DOMAIN socks /\ socks[k] = [slot |-> s, conv |-> v]
      BY Zenon, <2>2, <3>2 DEF SocketsExact
    <3> QED BY <3>3
  <2>5. ASSUME NEW k \in DOMAIN socks'
        PROVE  /\ socks'[k].slot \in Ready'
               /\ socks'[k].conv \in conns'[socks'[k].slot].convs
               /\ conns'[socks'[k].slot].conv_to_data[socks'[k].conv] = k
    <3> DEFINE t == socks[k].slot  v == socks[k].conv
    <3>1. /\ k \in DOMAIN socks /\ k \notin closed
          /\ socks'[k].slot = t /\ socks'[k].conv = v
      BY Zenon, <2>1
    <3>2. t \in Ready /\ v \in conns[t].convs /\ conns[t].conv_to_data[v] = k
      BY Zenon, <3>1 DEF SocketsExact
    <3>3. v \in Conv
      BY Zenon, <3>1 DEF TypeOK
    <3> HIDE DEF t, v
    <3>4. v \notin expired[t]
      BY ZenonT(60), <3>1, <3>2, <2>3, <1>2
    <3>5. t \in left
      BY Zenon, <3>2, <1>2
    <3>6. conns'[t].convs = conns[t].convs \ expired[t] /\ conns'[t].conv_to_data[v] = k
      BY <3>2, <3>3, <3>4, <3>5, <1>4, <1>5
    <3> QED BY Zenon, <3>1, <3>2, <3>4, <3>5, <3>6, <1>6
  <2>6. ASSUME NEW t \in Live', NEW v \in conns'[t].convs
        PROVE  /\ conns'[t].conv_to_data[v] \in DOMAIN socks'
               /\ socks'[conns'[t].conv_to_data[v]] = [slot |-> t, conv |-> v]
    <3>1. t \in left /\ t \in Live
      BY Zenon, <1>5
    <3>2. v \in conns[t].convs /\ v \notin expired[t]
      BY Zenon, <3>1, <1>4, <1>5
    <3>3. v \in Conv
      BY Zenon, <3>1, <3>2, <1>3 DEF ConnRecord
    <3>4. conns'[t].conv_to_data[v] = conns[t].conv_to_data[v]
      BY <3>1, <3>2, <3>3, <1>4, <1>5
    <3>5. /\ conns[t].conv_to_data[v] \in DOMAIN socks
          /\ socks[conns[t].conv_to_data[v]] = [slot |-> t, conv |-> v]
      BY Zenon, <3>1, <3>2 DEF SocketsExact
    <3>6. conns[t].conv_to_data[v] \notin closed
      BY <2>4, <3>2, <3>5
    <3> QED BY Zenon, <2>1, <3>4, <3>5, <3>6
  <2>7. /\ free_socks' = (0 .. socks_len' - 1) \ DOMAIN socks'
        /\ DOMAIN socks' \subseteq 0 .. socks_len' - 1
    BY Zenon, <2>1, <2>4 DEF SocketsExact
  <2> QED BY Zenon, <2>5, <2>6, <2>7 DEF SocketsExact
<1>14. Generations'
  <2>1. \A s \in Live' : /\ s \in Live
                         /\ conns'[s].generation = conns[s].generation
                         /\ conns'[s].state = conns[s].state
                         /\ conns'[s].const_id = conns[s].const_id
                         /\ conns'[s].my_id = conns[s].my_id
    BY <1>4, <1>5
  <2>2. next_generation' = next_generation
    BY Zenon, <1>1
  <2>3. \A j \in made : j.generation < next_generation
    BY Zenon, <1>2, <1>7 DEF Generations
  <2>4. \A j \in made : conns[j.slot].state = "Ready"
    BY Zenon, <1>7 DEF Ready
  <2> QED BY <2>1, <2>2, <2>3, <2>4, <1>7 DEF Generations
<1> QED BY Zenon, <1>8, <1>9, <1>10, <1>11, <1>12, <1>13, <1>14 DEF Tables

-----------------------------------------------------------------------------
(* The theorems.                                                           *)

\* Every step keeps the invariant.
LEMMA NextInv == IInv /\ [Next]_vars => IInv'
<1> SUFFICES ASSUME IInv, [Next]_vars PROVE IInv'
  BY Zenon
<1>1. ASSUME NEW a \in Addr, HandshakeNew(a) PROVE IInv'
  BY Zenon, <1>1, HandshakeNewInv
<1>2. ASSUME NEW a \in Addr, NEW c \in ConstId, Handshake2(a, c) PROVE IInv'
  BY Zenon, <1>2, Handshake2Inv
<1>3. ASSUME NEW a \in Addr, RawReady(a) PROVE IInv'
  BY Zenon, <1>3, RawReadyInv
<1>4. ASSUME NEW j \in jobs, DoneIgnored(j) PROVE IInv'
  BY Zenon, <1>4, DoneIgnoredInv
<1>5. ASSUME NEW j \in jobs, DoneHeartbeat(j) PROVE IInv'
  BY Zenon, <1>5, DoneHeartbeatInv
<1>6. ASSUME NEW j \in jobs, NEW v \in Conv, DoneData(j, v) PROVE IInv'
  BY Zenon, <1>6, DoneDataInv
<1>7. ASSUME NEW i \in DOMAIN socks, SockReadable(i) PROVE IInv'
  BY Zenon, <1>7, SockReadableInv
<1>8. CASE OnTimer
  BY Zenon, <1>8, OnTimerInv
<1>9. CASE Tick
  BY Zenon, <1>9, TickInv
<1>10. CASE UNCHANGED vars
  <2> USE <1>10 DEF vars, tables, sockets, sweepVars
  <2>1. Live' = Live /\ Ready' = Ready
    BY Zenon DEF Live, Ready
  <2>2. TypeOK'
    BY Zenon DEF IInv, TypeOK
  <2>3. Tables' /\ SocketsExact' /\ Generations'
    BY ZenonT(60), <2>1 DEF IInv, Tables, SocketsExact, Generations, FreeListExact,
       AddrTableExact, ConstIdTableExact, ReadyCountExact
  <2> QED BY Zenon, <2>2, <2>3 DEF IInv
<1> QED BY Zenon, <1>1, <1>2, <1>3, <1>4, <1>5, <1>6, <1>7, <1>8, <1>9, <1>10 DEF Next

\* The invariant of the server: types, tables, sockets and generations.
THEOREM ServerInvariant == Spec => []IInv
<1>1. Init => IInv
  BY Zenon, InitInv
<1>2. IInv /\ [Next]_vars => IInv'
  BY Zenon, NextInv
<1> QED BY <1>1, <1>2, PTL DEF Spec

\* The server's state is well typed; in particular the connection vector never
\* grows past MAX_HANDSHAKE_CONN_NUM (alloc_conn is reached only below it).
THEOREM TypeCorrect == Spec => []TypeOK
<1>1. IInv => TypeOK
  BY Zenon DEF IInv
<1> QED BY <1>1, ServerInvariant, PTL

\* The free list, both indexes and the counter agree with the connection table
\* in every reachable state: the "shouldnt happen" branches of pre_ready are
\* dead code and MAX_READY_CONN_NUM is respected.
THEOREM TablesAgree ==
  Spec => [](FreeListExact /\ AddrTableExact /\ ConstIdTableExact /\ ReadyCountExact)
<1>1. IInv => FreeListExact /\ AddrTableExact /\ ConstIdTableExact /\ ReadyCountExact
  BY Zenon DEF IInv, Tables
<1> QED BY <1>1, ServerInvariant, PTL

\* alloc_conn never hands out a slot that a live connection has, and erase_conn loses
\* none.
THEOREM FreeListAgrees == Spec => []FreeListExact
<1> QED BY TablesAgree, PTL

\* A packet is looked up to the connection of its address, and to no other, through all
\* the swaps of pre_ready.
THEOREM AddrTableAgrees == Spec => []AddrTableExact
<1> QED BY TablesAgree, PTL

\* ready_num counts the Ready connections, up to MAX_READY_CONN_NUM of them.
THEOREM ReadyCountAgrees == Spec => []ReadyCountExact
<1> QED BY TablesAgree, PTL

\* Upstream sockets and conversations correspond one to one, so on_sock_packet
\* answers the client whose data opened the socket.
THEOREM SocketsAgree == Spec => []SocketsExact
<1>1. IInv => SocketsExact
  BY Zenon DEF IInv
<1> QED BY <1>1, ServerInvariant, PTL

\* The generation check of valid_ready is enough: no result of the pipeline is
\* used for another client or another session than the one it was made for.
THEOREM JobsSafe == Spec => []JobsReachTheirSession
<1>1. IInv => JobsReachTheirSession
  BY Zenon, JobsFollow DEF IInv
<1> QED BY <1>1, ServerInvariant, PTL

-----------------------------------------------------------------------------
(* What a step may not do.                                                 *)

\* Connections keep state, address, client, session and the age of their handshake.
Steady ==
  /\ Live' \subseteq Live
  /\ next_generation' = next_generation
  /\ \A s \in Live' : /\ conns'[s].state = conns[s].state
                       /\ conns'[s].addr = conns[s].addr
                       /\ conns'[s].my_id = conns[s].my_id
                       /\ conns'[s].const_id = conns[s].const_id
                       /\ conns'[s].last_state_time = conns[s].last_state_time

\* A step that leaves the connections alone is steady.
LEMMA UnchangedSteady ==
  ASSUME UNCHANGED <<conns, next_generation>> PROVE Steady
  BY Zenon DEF Steady, Live

\* The same for an update of one connection in the other fields.
LEMMA UpdateSteady ==
  ASSUME NEW s \in Live, NEW c, conns' = [conns EXCEPT ![s] = c],
         c.state = conns[s].state, c.addr = conns[s].addr,
         c.my_id = conns[s].my_id, c.const_id = conns[s].const_id,
         c.last_state_time = conns[s].last_state_time,
         next_generation' = next_generation
  PROVE  Steady
  BY Zenon DEF Steady, Live

\* Packets of Ready connections, results, upstream datagrams and the timer end
\* sessions at most.
LEMMA DoneSteady ==
  ASSUME IInv, NEW j \in jobs,
         DoneIgnored(j) \/ DoneHeartbeat(j) \/ \E v \in Conv : DoneData(j, v)
  PROVE  Steady
<1> DEFINE s == j.slot  h == HeardData(conns[s])
<1>1. CASE DoneIgnored(j)
  BY Zenon, <1>1, UnchangedSteady DEF DoneIgnored, tables
<1>2. CASE DoneHeartbeat(j)
  <2>1. s \in Live /\ conns[s] \in ConnRecord
    BY Zenon, <1>2, AcceptedReady DEF DoneHeartbeat, Ready
  <2> QED BY Zenon, <1>2, <2>1, HeardTyped, UpdateSteady DEF DoneHeartbeat, IInv
<1>3. ASSUME NEW v \in Conv, DoneData(j, v) PROVE Steady
  <2>1. s \in Live /\ conns[s] \in ConnRecord
    BY Zenon, <1>3, AcceptedReady DEF DoneData, Ready
  <2>2. h \in ConnRecord /\ h.state = conns[s].state /\ h.addr = conns[s].addr
        /\ h.my_id = conns[s].my_id /\ h.const_id = conns[s].const_id
        /\ h.last_state_time = conns[s].last_state_time
    BY Zenon, <2>1, HeardTyped DEF IInv
  <2>3. next_generation' = next_generation
    BY Zenon, <1>3 DEF DoneData
  <2> HIDE DEF h
  <2>4. CASE UseConv(s, v)
    <3>1. conns' = [conns EXCEPT ![s] = [h EXCEPT !.last_active[v] = now]]
      BY Zenon, <2>4, <2>1 DEF UseConv, h
    <3> DEFINE c == [h EXCEPT !.last_active[v] = now]
    <3>2. c.state = h.state /\ c.addr = h.addr /\ c.my_id = h.my_id /\ c.const_id = h.const_id
          /\ c.last_state_time = h.last_state_time
      BY Zenon, <2>2 DEF ConnRecord
    <3> HIDE DEF c
    <3> QED BY Zenon, <3>1, <3>2, <2>1, <2>2, <2>3, UpdateSteady DEF c
  <2>5. CASE NoConv(s, v) \/ RegisterFails(s, v)
    <3>1. conns' = [conns EXCEPT ![s] = h]
      BY Zenon, <2>5, <2>1 DEF NoConv, RegisterFails, h
    <3> QED BY Zenon, <3>1, <2>1, <2>2, <2>3, UpdateSteady
  <2>6. CASE OpenConv(s, v)
    <3>1. PICK i : conns' = [conns EXCEPT ![s] =
                     [h EXCEPT !.convs = @ \cup {v}, !.conv_to_data[v] = i,
                               !.last_active[v] = now]]
      BY Zenon, <2>6 DEF OpenConv, h
    <3> DEFINE c == [h EXCEPT !.convs = @ \cup {v}, !.conv_to_data[v] = i,
                              !.last_active[v] = now]
    <3>2. c.state = h.state /\ c.addr = h.addr /\ c.my_id = h.my_id /\ c.const_id = h.const_id
          /\ c.last_state_time = h.last_state_time
      BY Zenon, <2>2 DEF ConnRecord
    <3> HIDE DEF c
    <3> QED BY ZenonT(60), <3>1, <3>2, <2>1, <2>2, <2>3, UpdateSteady DEF c
  <2> QED BY Zenon, <1>3, <2>4, <2>5, <2>6 DEF DoneData
<1> QED BY Zenon, <1>1, <1>2, <1>3

\* The timer erases connections and changes no session of those it keeps.
LEMMA OtherSteady ==
  ASSUME IInv, OnTimer \/ Tick \/ \E i \in DOMAIN socks : SockReadable(i)
  PROVE  Steady
<1>1. CASE Tick
  BY Zenon, <1>1, UnchangedSteady DEF Tick, tables
<1>2. CASE \E i \in DOMAIN socks : SockReadable(i)
  BY Zenon, <1>2, UnchangedSteady DEF SockReadable, tables
<1>3. CASE OnTimer
  <2>1. PICK expired \in [Live -> SUBSET Conv] :
          conns' = [s \in Live \ Swept |->
            [conns[s] EXCEPT
               !.convs = @ \ expired[s],
               !.conv_to_data = [v \in Conv |-> IF v \in expired[s] THEN 0 ELSE @[v]],
               !.last_active = [v \in Conv |-> IF v \in expired[s] THEN 0 ELSE @[v]],
               !.last_hb_sent = IF s \in {t \in Ready \ Swept : HeartbeatDue(t)}
                                THEN now ELSE @]]
    BY Zenon, <1>3 DEF OnTimer
  <2>2. next_generation' = next_generation
    BY Zenon, <1>3 DEF OnTimer
  <2>3. Live' = Live \ Swept
    BY Zenon, <2>1 DEF Live
  <2>4. ASSUME NEW s \in Live'
        PROVE  /\ conns'[s].state = conns[s].state
               /\ conns'[s].addr = conns[s].addr
               /\ conns'[s].my_id = conns[s].my_id
               /\ conns'[s].const_id = conns[s].const_id
               /\ conns'[s].last_state_time = conns[s].last_state_time
    <3>1. conns[s] \in ConnRecord
      BY Zenon, <2>3 DEF IInv, TypeOK, Live
    <3> QED BY Zenon, <3>1, <2>1, <2>3 DEF ConnRecord
  <2> QED BY Zenon, <2>2, <2>3, <2>4 DEF Steady
<1> QED BY Zenon, <1>1, <1>2, <1>3

\* One step never moves a client's connection to an older handshake: only
\* pre_ready changes the session of a Ready connection, and it compares ages.
LEMMA NoOlderStep ==
  ASSUME IInv, [Next]_vars, NEW s \in Live, NEW t \in Live',
         conns[s].state = "Ready", conns'[t].state = "Ready",
         conns[s].const_id = conns'[t].const_id
  PROVE  conns'[t].last_state_time >= conns[s].last_state_time
<1>1. s \in Ready /\ conns[s] \in ConnRecord /\ conns[s].last_state_time \in Nat
  BY Zenon DEF Ready, IInv, TypeOK, Live, ConnRecord
<1>2. \A u \in Ready : conns[u].const_id = conns[s].const_id => u = s
  BY Zenon, <1>1 DEF IInv, Tables, ConstIdTableExact
<1>3. ASSUME t \in Live, conns'[t].state = conns[t].state,
             conns'[t].const_id = conns[t].const_id,
             conns'[t].last_state_time = conns[t].last_state_time
      PROVE  conns'[t].last_state_time >= conns[s].last_state_time
  <2>1. t = s
    BY Zenon, <1>2, <1>3 DEF Ready
  <2> QED BY <2>1, <1>1, <1>3
<1>4. CASE Steady
  BY Zenon, <1>3, <1>4 DEF Steady
<1>5. ASSUME NEW a \in Addr, HandshakeNew(a)
      PROVE  conns'[t].last_state_time >= conns[s].last_state_time
  <2>1. PICK i : conns' = Bind(conns, i, NewConn(a))
    BY Zenon, <1>5 DEF HandshakeNew
  <2>2. t # i
    BY Zenon, <2>1 DEF Bind, NewConn, Live
  <2>3. t \in Live /\ conns'[t] = conns[t]
    BY Zenon, <2>1, <2>2 DEF Bind, Live
  <2> QED BY Zenon, <2>3, <1>3
<1>6. ASSUME NEW a \in Addr, NEW c \in ConstId, Handshake2(a, c)
      PROVE  conns'[t].last_state_time >= conns[s].last_state_time
  <2> DEFINE n == by_addr[a]
  <2>1. n \in Live /\ conns[n] \in ConnRecord /\ n \notin Ready
    BY Zenon, <1>6 DEF Handshake2, IInv, Tables, AddrTableExact, TypeOK, Live, Ready
  <2>2. BecomeReady(n, c) \/ Refuse(n, c) \/ Recover(n, c)
    BY Zenon, <1>6 DEF Handshake2
  <2> HIDE DEF n
  <2>0. \A u \in Ready : u \in Live /\ u # n
    BY Zenon, <2>1 DEF Ready
  <2>3. CASE BecomeReady(n, c)
    <3>1. /\ \A u \in Live \ {n} : conns'[u] = conns[u]
          /\ conns'[n].const_id = c /\ c \notin DOMAIN by_const_id /\ Live' = Live
      BY Zenon, <2>1, <2>3 DEF BecomeReady, Live, ConnRecord
    <3>2. t # n
      BY Zenon, <3>1, <1>1 DEF IInv, Tables, ConstIdTableExact
    <3> QED BY Zenon, <3>1, <3>2, <1>3
  <2>4. CASE Refuse(n, c)
    <3>1. /\ \A u \in Live \ {n} : conns'[u] = conns[u]
          /\ conns'[n].state = "Idle" /\ Live' = Live
      BY Zenon, <2>1, <2>4 DEF Refuse, Live, ConnRecord
    <3> QED BY Zenon, <3>1, <1>3
  <2>5. CASE Recover(n, c)
    <3> DEFINE ori == by_const_id[c]
               i == [conns[n] EXCEPT !.addr = conns[ori].addr, !.state = "Idle"]
               r == Recovered(conns[ori], conns[n])
    <3>1. /\ conns' = [conns EXCEPT ![n] = i, ![ori] = r]
          /\ ~Older(n, ori) /\ c \in DOMAIN by_const_id
      BY Zenon, <2>5 DEF Recover
    <3>2. /\ ori \in Ready /\ ori \in Live /\ ori # n /\ conns[ori].const_id = c
          /\ conns[ori] \in ConnRecord
      BY Zenon, <3>1, <2>0 DEF IInv, Tables, ConstIdTableExact, TypeOK, Live
    <3>3. i.state = "Idle"
      BY Zenon, <2>1 DEF ConnRecord
    <3>4. r.const_id = c /\ r.last_state_time = conns[n].last_state_time
      BY Zenon, <3>2 DEF ConnRecord, Recovered
    <3>5. conns[n].last_state_time >= conns[ori].last_state_time
      BY <3>1, <3>2, <2>1 DEF Older, ConnRecord
    <3> HIDE DEF i, r, ori
    <3>6. /\ Live' = Live /\ conns'[n] = i /\ conns'[ori] = r
          /\ \A u \in Live \ {n, ori} : conns'[u] = conns[u]
      BY Zenon, <3>1, <3>2, <2>1 DEF Live
    <3>7. CASE t = ori
      BY Zenon, <3>7, <3>2, <3>4, <3>5, <3>6, <1>2
    <3>8. CASE t # ori
      BY Zenon, <3>8, <3>3, <3>6, <1>3
    <3> QED BY Zenon, <3>7, <3>8
  <2> QED BY Zenon, <2>2, <2>3, <2>4, <2>5
<1>7. ASSUME NEW a \in Addr, RawReady(a) PROVE Steady
  BY Zenon, <1>7, UnchangedSteady DEF RawReady, tables
<1>8. CASE UNCHANGED vars
  <2>1. UNCHANGED <<conns, next_generation>>
    BY <1>8, Zenon DEF vars, tables
  <2> QED BY <1>4, <2>1, UnchangedSteady, Zenon
<1>9. CASE OnTimer \/ Tick \/ \E i \in DOMAIN socks : SockReadable(i)
  BY <1>4, <1>9, OtherSteady, Zenon
<1>10. ASSUME NEW j \in jobs,
              DoneIgnored(j) \/ DoneHeartbeat(j) \/ \E v \in Conv : DoneData(j, v)
       PROVE  conns'[t].last_state_time >= conns[s].last_state_time
  BY <1>4, <1>10, DoneSteady, Zenon
<1> QED BY <1>4, <1>5, <1>6, <1>7, <1>8, <1>9, <1>10, Zenon DEF Next

\* However handshakes and their packets overlap, an established connection is
\* not taken back by a handshake older than its own (pre_ready).
THEOREM NoOlderTakeover == Spec => NeverBackToAnOlderHandshake
<1>1. IInv /\ [Next]_vars =>
        [\A s \in Live : \A t \in DOMAIN conns' :
           conns[s].state = "Ready" /\ conns'[t].state = "Ready"
             /\ conns[s].const_id = conns'[t].const_id
           => conns'[t].last_state_time >= conns[s].last_state_time]_vars
  BY Zenon, NoOlderStep DEF Live
<1> QED BY <1>1, ServerInvariant, PTL DEF Spec, NeverBackToAnOlderHandshake

-----------------------------------------------------------------------------
(* Conversations outlive reconnects.                                       *)

\* Conversation v stays with connection s, on its client and its socket.
Kept(s, v) ==
  /\ s \in DOMAIN conns' /\ conns'[s].const_id = conns[s].const_id
  /\ v \in conns'[s].convs
  /\ conns'[s].conv_to_data[v] = conns[s].conv_to_data[v]

\* A connection record that keeps its client and its conversations.
SameConvs(c, d) ==
  /\ d.const_id = c.const_id /\ c.convs \subseteq d.convs
  /\ \A v \in c.convs : d.conv_to_data[v] = c.conv_to_data[v]

\* An update of one connection that keeps its conversations keeps all of them.
LEMMA UpdateKeeps ==
  ASSUME NEW u \in Live, NEW c, conns' = [conns EXCEPT ![u] = c],
         SameConvs(conns[u], c), NEW s \in Live, NEW v \in conns[s].convs
  PROVE  Kept(s, v)
<1>1. s \in DOMAIN conns' /\ (s # u => conns'[s] = conns[s]) /\ (s = u => conns'[s] = c)
  BY Zenon DEF Live
<1> QED BY <1>1, Zenon DEF Kept, SameConvs

\* Results of the pipeline add conversations at most.
LEMMA DoneKeeps ==
  ASSUME IInv, NEW j \in jobs,
         DoneIgnored(j) \/ DoneHeartbeat(j) \/ \E v \in Conv : DoneData(j, v),
         NEW s \in Live, NEW w \in conns[s].convs
  PROVE  Kept(s, w)
<1> DEFINE u == j.slot  h == HeardData(conns[u])
<1>1. CASE DoneIgnored(j)
  <2>1. conns' = conns BY <1>1, Zenon DEF DoneIgnored, tables
  <2> QED BY <2>1, Zenon DEF Kept, Live
<1>2. CASE DoneHeartbeat(j)
  <2>1. u \in Live /\ conns[u] \in ConnRecord
    BY Zenon, <1>2, AcceptedReady DEF DoneHeartbeat, Ready
  <2>2. SameConvs(conns[u], Heard(conns[u]))
    <3> DEFINE d == Heard(conns[u])
    <3>1. d.const_id = conns[u].const_id /\ d.convs = conns[u].convs
          /\ d.conv_to_data = conns[u].conv_to_data
      BY <2>1, HeardTyped, Zenon DEF IInv
    <3> HIDE DEF d
    <3>2. SameConvs(conns[u], d) BY <3>1, Zenon DEF SameConvs
    <3> QED BY <3>2, Zenon DEF d
  <2>3. conns' = [conns EXCEPT ![u] = Heard(conns[u])] BY <1>2, Zenon DEF DoneHeartbeat
  <2> QED BY <2>1, <2>2, <2>3, UpdateKeeps, Zenon
<1>3. ASSUME NEW v \in Conv, DoneData(j, v) PROVE Kept(s, w)
  <2>1. u \in Live /\ conns[u] \in ConnRecord
    BY Zenon, <1>3, AcceptedReady DEF DoneData, Ready
  <2>2. h \in ConnRecord /\ h.const_id = conns[u].const_id /\ h.convs = conns[u].convs
        /\ h.conv_to_data = conns[u].conv_to_data
    BY Zenon, <2>1, HeardTyped DEF IInv
  <2> HIDE DEF h
  <2>4. CASE UseConv(u, v)
    <3> DEFINE c == [h EXCEPT !.last_active[v] = now]
    <3>1. conns' = [conns EXCEPT ![u] = c]
      BY Zenon, <2>4, <2>1 DEF UseConv, h
    <3>2. c.const_id = h.const_id /\ c.convs = h.convs /\ c.conv_to_data = h.conv_to_data
      BY Zenon, <2>2 DEF ConnRecord
    <3> HIDE DEF c
    <3>3. SameConvs(conns[u], c) BY <2>2, <3>2, Zenon DEF SameConvs
    <3> QED BY <3>1, <3>3, <2>1, UpdateKeeps, Zenon
  <2>5. CASE NoConv(u, v) \/ RegisterFails(u, v)
    <3>1. conns' = [conns EXCEPT ![u] = h]
      BY Zenon, <2>5, <2>1 DEF NoConv, RegisterFails, h
    <3>2. SameConvs(conns[u], h) BY <2>2, Zenon DEF SameConvs
    <3> QED BY Zenon, <3>1, <3>2, <2>1, UpdateKeeps
  <2>6. CASE OpenConv(u, v)
    <3>1. PICK i : conns' = [conns EXCEPT ![u] =
                     [h EXCEPT !.convs = @ \cup {v}, !.conv_to_data[v] = i,
                               !.last_active[v] = now]]
      BY Zenon, <2>6 DEF OpenConv, h
    <3>0. v \notin conns[u].convs BY Zenon, <2>6 DEF OpenConv
    <3> DEFINE c == [h EXCEPT !.convs = @ \cup {v}, !.conv_to_data[v] = i,
                              !.last_active[v] = now]
    <3>2. c.const_id = h.const_id /\ c.convs = h.convs \cup {v}
          /\ c.conv_to_data = [h.conv_to_data EXCEPT ![v] = i]
      BY <2>2, Zenon DEF ConnRecord
    <3>3. h.conv_to_data \in [Conv -> Nat] /\ h.convs \subseteq Conv BY <2>2 DEF ConnRecord
    <3>4. \A x \in h.convs : c.conv_to_data[x] = h.conv_to_data[x]
      BY <3>0, <3>2, <3>3, <2>2, Zenon
    <3> HIDE DEF c
    <3>5. SameConvs(conns[u], c) BY <2>2, <3>2, <3>4, Zenon DEF SameConvs
    <3> QED BY Zenon, <3>1, <3>5, <2>1, UpdateKeeps DEF c
  <2> QED BY <1>3, <2>4, <2>5, <2>6, Zenon DEF DoneData
<1> QED BY Zenon, <1>1, <1>2, <1>3

\* The timer ends a conversation of a Ready connection only when it is idle, and no
\* connection that has one.
LEMMA TimerKeeps ==
  ASSUME IInv, OnTimer, NEW s \in Ready, NEW v \in conns[s].convs,
         ~(now - conns[s].last_active[v] >= CONV_TIMEOUT)
  PROVE  Kept(s, v)
<1>1. PICK expired \in [Live -> SUBSET Conv] :
        /\ \A t \in Live : expired[t] \subseteq
             (IF t \in Swept THEN conns[t].convs
              ELSE IF t \in Ready THEN Inactive(t) ELSE {})
        /\ conns' = [t \in Live \ Swept |->
            [conns[t] EXCEPT
               !.convs = @ \ expired[t],
               !.conv_to_data = [x \in Conv |-> IF x \in expired[t] THEN 0 ELSE @[x]],
               !.last_active = [x \in Conv |-> IF x \in expired[t] THEN 0 ELSE @[x]],
               !.last_hb_sent = IF t \in {r \in Ready \ Swept : HeartbeatDue(r)}
                                THEN now ELSE @]]
  BY Zenon DEF OnTimer
<1>2. s \in Live /\ conns[s].state = "Ready" BY DEF Ready
<1>3. s \notin Swept
  <2>1. conns[s].convs # {} BY Zenon
  <2>2. Keep(s) BY <1>2, <2>1, Zenon DEF Keep
  <2> QED BY <2>2, Zenon DEF Swept
<1>4. v \notin expired[s]
  <2>1. expired[s] \subseteq Inactive(s) BY <1>1, <1>2, <1>3, Zenon
  <2> QED BY <2>1, Zenon DEF Inactive
<1>5. conns[s] \in ConnRecord BY <1>2 DEF IInv, TypeOK, Live
<1>6. v \in Conv BY <1>5 DEF ConnRecord
<1>7. s \in DOMAIN conns' BY <1>1, <1>2, <1>3, Zenon
<1>8. /\ conns'[s].const_id = conns[s].const_id
      /\ conns'[s].convs = conns[s].convs \ expired[s]
      /\ conns'[s].conv_to_data = [x \in Conv |-> IF x \in expired[s] THEN 0
                                                  ELSE conns[s].conv_to_data[x]]
  BY <1>1, <1>2, <1>3, <1>5, Zenon DEF ConnRecord
<1>9. conns'[s].conv_to_data[v] = conns[s].conv_to_data[v]
  BY <1>4, <1>6, <1>8, Zenon
<1> QED BY <1>4, <1>7, <1>8, <1>9, Zenon DEF Kept

\* A handshake leaves the conversations of every Ready connection alone, also of the
\* one that moves to a new address and session (recover_from).
LEMMA HandshakeKeeps ==
  ASSUME IInv, NEW a \in Addr, NEW c \in ConstId, HandshakeNew(a) \/ Handshake2(a, c),
         NEW s \in Ready, NEW v \in conns[s].convs
  PROVE  Kept(s, v)
<1>1. s \in Live BY DEF Ready
<1>2. ASSUME s \in DOMAIN conns', conns'[s] = conns[s] PROVE Kept(s, v)
  BY <1>2, Zenon DEF Kept
<1>3. CASE HandshakeNew(a)
  <2>1. PICK i \in 0 .. conns_len : Alloc(i) /\ conns' = Bind(conns, i, NewConn(a))
    BY <1>3, Zenon DEF HandshakeNew
  <2>2. i \notin Live
    BY <2>1 DEF Alloc, IInv, Tables, FreeListExact, TypeOK
  <2>3. s \in DOMAIN conns' /\ conns'[s] = conns[s]
    BY <1>1, <2>1, <2>2, Zenon DEF Bind, Live
  <2> QED BY <1>2, <2>3, Zenon
<1>4. CASE Handshake2(a, c)
  <2> DEFINE n == by_addr[a]
  <2>1. n \in Live /\ conns[n] \in ConnRecord /\ n \notin Ready
    BY Zenon, <1>4 DEF Handshake2, IInv, Tables, AddrTableExact, TypeOK, Live, Ready
  <2>2. BecomeReady(n, c) \/ Refuse(n, c) \/ Recover(n, c)
    BY Zenon, <1>4 DEF Handshake2
  <2> HIDE DEF n
  <2>3. s # n BY <2>1
  <2>4. CASE BecomeReady(n, c) \/ Refuse(n, c)
    <3>1. s \in DOMAIN conns' /\ conns'[s] = conns[s]
      BY Zenon, <1>1, <2>3, <2>4 DEF BecomeReady, Refuse, Live
    <3> QED BY <1>2, <3>1, Zenon
  <2>5. CASE Recover(n, c)
    <3> DEFINE ori == by_const_id[c]
               i == [conns[n] EXCEPT !.addr = conns[ori].addr, !.state = "Idle"]
               r == Recovered(conns[ori], conns[n])
    <3>1. conns' = [conns EXCEPT ![n] = i, ![ori] = r] /\ c \in DOMAIN by_const_id
      BY <2>5, Zenon DEF Recover
    <3>2. ori \in Live /\ ori # n /\ conns[ori] \in ConnRecord
      BY Zenon, <3>1, <2>1 DEF IInv, Tables, ConstIdTableExact, TypeOK, Live, Ready
    <3>3. r.const_id = conns[ori].const_id /\ r.convs = conns[ori].convs
          /\ r.conv_to_data = conns[ori].conv_to_data
      BY Zenon, <3>2 DEF ConnRecord, Recovered
    <3> HIDE DEF i, r, ori
    <3>4. /\ s \in DOMAIN conns' /\ conns'[ori] = r
          /\ \A u \in Live \ {n, ori} : conns'[u] = conns[u]
      BY <1>1, <3>1, <3>2, <2>1, Zenon DEF Live
    <3>5. CASE s = ori BY <3>3, <3>4, <3>5, Zenon DEF Kept
    <3>6. CASE s # ori BY <1>1, <1>2, <2>3, <3>4, <3>6, Zenon
    <3> QED BY Zenon, <3>5, <3>6
  <2> QED BY Zenon, <2>2, <2>4, <2>5
<1> QED BY Zenon, <1>3, <1>4

\* No step ends a conversation that is not idle.
LEMMA ConvsKeptStep ==
  ASSUME IInv, [Next]_vars, NEW s \in Ready, NEW v \in conns[s].convs,
         ~(now - conns[s].last_active[v] >= CONV_TIMEOUT)
  PROVE  Kept(s, v)
<1>1. s \in Live BY DEF Ready
<1>2. ASSUME conns' = conns PROVE Kept(s, v)
  BY <1>1, <1>2, Zenon DEF Kept, Live
<1>3. CASE UNCHANGED vars
  <2>1. conns' = conns BY <1>3, Zenon DEF vars, tables
  <2> QED BY Zenon, <1>2, <2>1
<1>4. ASSUME NEW a \in Addr, RawReady(a) PROVE Kept(s, v)
  <2>1. conns' = conns BY <1>4, Zenon DEF RawReady, tables
  <2> QED BY Zenon, <1>2, <2>1
<1>5. CASE Tick \/ \E i \in DOMAIN socks : SockReadable(i)
  <2>1. conns' = conns BY <1>5, Zenon DEF Tick, SockReadable, tables
  <2> QED BY Zenon, <1>2, <2>1
<1>6. CASE OnTimer BY <1>6, TimerKeeps, Zenon
<1>7. ASSUME NEW j \in jobs,
             DoneIgnored(j) \/ DoneHeartbeat(j) \/ \E x \in Conv : DoneData(j, x)
      PROVE  Kept(s, v)
  BY <1>1, <1>7, DoneKeeps, Zenon
<1>8. ASSUME NEW a \in Addr, HandshakeNew(a) PROVE Kept(s, v)
  <2>1. CASE ConstId = {}
    <3>1. conns[s].const_id \in DOMAIN by_const_id BY DEF IInv, Tables, ConstIdTableExact
    <3>2. DOMAIN by_const_id \subseteq ConstId BY DEF IInv, TypeOK
    <3> QED BY <2>1, <3>1, <3>2, Zenon
  <2>2. ASSUME NEW c \in ConstId PROVE Kept(s, v)
    BY <1>8, HandshakeKeeps, Zenon
  <2> QED BY <2>1, <2>2, Zenon
<1>9. ASSUME NEW a \in Addr, NEW c \in ConstId, Handshake2(a, c) PROVE Kept(s, v)
  BY <1>9, HandshakeKeeps, Zenon
<1> QED BY <1>3, <1>4, <1>5, <1>6, <1>7, <1>8, <1>9, Zenon DEF Next

\* A conversation keeps its client and its upstream socket through any number of
\* reconnects, sweeps and take-overs until it was idle for CONV_TIMEOUT (recover_from,
\* clear_inactive_conns, ConvManager::clear_inactive).
THEOREM ConversationsKept == Spec => ConversationsOutliveReconnects
<1> DEFINE Outlive ==
      \A s \in Ready : \A v \in conns[s].convs :
        \/ now - conns[s].last_active[v] >= CONV_TIMEOUT
        \/ /\ s \in DOMAIN conns' /\ conns'[s].const_id = conns[s].const_id
           /\ v \in conns'[s].convs
           /\ conns'[s].conv_to_data[v] = conns[s].conv_to_data[v]
<1>1. IInv /\ [Next]_vars => [Outlive]_vars
  <2> SUFFICES ASSUME IInv, [Next]_vars, NEW s \in Ready, NEW v \in conns[s].convs,
                      ~(now - conns[s].last_active[v] >= CONV_TIMEOUT)
               PROVE  Kept(s, v)
    BY Zenon DEF Kept
  <2> QED BY ConvsKeptStep, Zenon
<1>2. Spec => [][Outlive]_vars BY <1>1, ServerInvariant, PTL DEF Spec
<1> QED BY Zenon, <1>2 DEF ConversationsOutliveReconnects

-----------------------------------------------------------------------------
(* Client and server.                                                      *)

ClientRecord ==
  [state : {"Idle", "TcpHandshake", "TcpHandshakeDummy", "Handshake1",
            "Handshake2", "Ready"},
   const_id : ConstId, addr : Addr \cup {NoId}, my_id : Nat, oppsite_id : Nat,
   selected : BOOLEAN]

ClientTyped ==
  /\ client \in ClientRecord
  /\ raw_mode \in RawModes
  /\ next_id \in Nat \ {0}
  /\ client.my_id < next_id
  /\ client.state # "Idle" => client.addr \in Addr /\ client.my_id # NoId
  /\ client.selected => client.my_id # NoId

\* Handshake packets carry ids handed out so far, and only this process can
\* have sent the ones with the client's present id.
Handshakes ==
  /\ \A m \in net : m.addr \in Addr /\ (m.type = "reply" => m.id1 \in Nat)
  /\ \A m \in net : m.type = "handshake" =>
       /\ m = Handshake(m.addr, m.id1, m.id2, m.const_id)
       /\ m.const_id \in ConstId
       /\ m.id1 \in Nat /\ m.id1 # NoId /\ m.id1 < next_id
       /\ m.id1 = client.my_id => m.const_id = client.const_id

\* A connection that is shaking hands shares its id with no other, so setting
\* its oppsite_id touches no established session.
SessionIds ==
  /\ next_generation \in Nat \ {0}
  /\ oppsite_id \in [1 .. MaxGeneration -> Nat]
  /\ \A s \in Live : conns[s].my_id \in 1 .. MaxGeneration
                       /\ conns[s].my_id < next_generation
  /\ \A s, t \in Live : s # t /\ conns[s].state = "Handshake1" =>
       conns[s].my_id # conns[t].my_id

SessionAt(s) ==
  [const_id |-> conns[s].const_id, cid |-> oppsite_id[conns[s].my_id],
   sid |-> conns[s].my_id]

\* What the server is Ready on, and what it sealed, is on record.
Recorded ==
  /\ \A s \in Ready : SessionAt(s) \in established
  /\ \A m \in net : m.type = "down" =>
       \E c \in ConstId :
         [const_id |-> c, cid |-> m.id2, sid |-> m.id1] \in established

SInv ==
  /\ IInv
  /\ ClientTyped
  /\ Handshakes
  /\ SessionIds
  /\ Recorded
  /\ Agreement

\* The initial state satisfies the invariant.
LEMMA SessionInitInv == SessionInit => SInv
<1> SUFFICES ASSUME SessionInit PROVE SInv
  BY Zenon
<1>1. IInv
  BY Zenon, InitInv DEF SessionInit
<1>2. ClientTyped
  BY DEF SessionInit, ClientInit, ClientTyped, ClientRecord, IdleClient, NoId
<1>3. Handshakes
  BY Zenon DEF SessionInit, Handshakes
<1>4. Live = {} /\ Ready = {} /\ next_generation = 1
  BY DEF SessionInit, Init, Live, Ready
<1>5. SessionIds
  BY <1>4 DEF SessionInit, SessionIds, NoId
<1>6. Recorded
  BY Zenon, <1>4 DEF SessionInit, Recorded
<1>7. Agreement
  BY DEF SessionInit, ClientInit, Agreement, IdleClient
<1> QED BY Zenon, <1>1, <1>2, <1>3, <1>5, <1>6, <1>7 DEF SInv

-----------------------------------------------------------------------------
(* Steps of the client.                                                    *)

\* A step of the client leaves the server alone and adds packets that are no
\* "down" packets, so only the client's part of the invariant is at stake.
LEMMA ServerPartKept ==
  ASSUME SInv, UNCHANGED <<vars, oppsite_id, established>>, net \subseteq net',
         \A m \in net' \ net : m.type # "down"
  PROVE  /\ IInv' /\ SessionIds' /\ Recorded'
         /\ \A e \in established' : \E a \in Addr :
              Handshake(a, e.cid, e.sid, e.const_id) \in net'
<1> USE DEF SInv
<1>1. IInv'
  BY Zenon, NextInv
<1>2. UNCHANGED <<conns, next_generation>>
  BY Zenon DEF vars, tables
<1>3. SessionIds' /\ Recorded'
  BY ZenonT(60), <1>2 DEF SessionIds, Recorded, Live, Ready, SessionAt
<1>4. \A e \in established' : \E a \in Addr :
        Handshake(a, e.cid, e.sid, e.const_id) \in net'
  BY Zenon DEF Agreement
<1> QED BY Zenon, <1>1, <1>3, <1>4

\* The start of an attempt draws an id that no packet carries yet.
LEMMA AttemptInv == ASSUME SInv, Attempt PROVE SInv'
<1> USE DEF SInv
<1>1. AttemptId \in Nat /\ AttemptId # NoId /\ AttemptId < next_id'
      /\ next_id' \in Nat \ {0} /\ next_id <= next_id'
  <2>1. client.my_id \in Nat /\ next_id \in Nat \ {0} /\ client.my_id < next_id
    BY Zenon DEF ClientTyped, ClientRecord
  <2>2. CASE client.selected
    <3>1. AttemptId = client.my_id /\ next_id' = next_id /\ client.my_id # NoId
      BY Zenon, <2>2 DEF AttemptId, Attempt, ClientTyped
    <3> QED BY <3>1, <2>1
  <2>3. CASE ~client.selected
    <3>1. AttemptId = next_id /\ next_id' = next_id + 1
      BY Zenon, <2>3 DEF AttemptId, Attempt
    <3> QED BY <3>1, <2>1 DEF NoId
  <2> QED BY Zenon, <2>2, <2>3
<1>2. \A m \in net : m.type = "handshake" /\ m.id1 = AttemptId =>
        m.const_id = client.const_id
  BY DEF AttemptId, Handshakes, ClientTyped, NoId
<1>3. CASE client' = [client EXCEPT !.my_id = AttemptId, !.selected = TRUE]
           /\ UNCHANGED net
  <2>1. ClientTyped'
    BY Zenon, <1>1, <1>3 DEF Attempt, ClientTyped, ClientRecord, NoId
  <2>2. Handshakes'
    BY <1>1, <1>2, <1>3 DEF Handshakes, ClientTyped, ClientRecord
  <2>3. IInv' /\ SessionIds' /\ Recorded' /\ \A e \in established' : \E a \in Addr :
          Handshake(a, e.cid, e.sid, e.const_id) \in net'
    BY Zenon, <1>3, ServerPartKept DEF Attempt
  <2>4. Agreement'
    BY Zenon, <2>3, <1>3 DEF Agreement, Attempt, ClientTyped, ClientRecord
  <2> QED BY Zenon, <2>1, <2>2, <2>3, <2>4
<1>4. ASSUME NEW a \in Addr, NEW st \in {"TcpHandshake", "TcpHandshakeDummy", "Handshake1"},
             NEW sent \in SUBSET {Syn(a, AttemptId),
                                  Handshake(a, AttemptId, NoId, client.const_id)},
             client' = [client EXCEPT !.state = st, !.addr = a, !.my_id = AttemptId,
                                      !.selected = FALSE],
             net' = net \cup sent
      PROVE  SInv'
  <2>0. \A m \in sent : m.addr = a /\ m.type \in {"syn", "handshake"} /\ (m.type = "handshake" =>
          m.id1 = AttemptId /\ m.const_id = client.const_id
          /\ m = Handshake(m.addr, m.id1, m.id2, m.const_id))
    BY DEF Syn, Handshake
  <2>1. ClientTyped'
    BY Zenon, <1>1, <1>4 DEF Attempt, ClientTyped, ClientRecord, NoId
  <2>2. Handshakes'
    BY <1>1, <1>2, <1>4, <2>0 DEF Handshakes, ClientTyped, ClientRecord
  <2>3. IInv' /\ SessionIds' /\ Recorded' /\ \A e \in established' : \E b \in Addr :
          Handshake(b, e.cid, e.sid, e.const_id) \in net'
    <3>1. net \subseteq net' /\ \A m \in net' \ net : m.type # "down"
      BY Zenon, <1>4, <2>0
    <3> QED BY Zenon, <3>1, ServerPartKept DEF Attempt
  <2>4. Agreement'
    BY Zenon, <2>3, <1>4 DEF Agreement, Attempt, ClientTyped, ClientRecord
  <2> QED BY Zenon, <2>1, <2>2, <2>3, <2>4
<1>5. raw_mode \in {"FakeTcp", "EasyFakeTcp", "Udp"}
  BY Zenon, SessionAssumption DEF ClientTyped
<1> QED BY ZenonT(60), <1>3, <1>4, <1>5 DEF Attempt

\* The later packets of the handshake.
LEMMA RecvSynAckInv == ASSUME SInv, RecvSynAck PROVE SInv'
<1> USE DEF SInv
<1> DEFINE sent == Handshake(client.addr, client.my_id, NoId, client.const_id)
<1>0. sent.addr = client.addr /\ sent.type = "handshake"
      /\ sent.id1 = client.my_id /\ sent.const_id = client.const_id
      /\ sent = Handshake(sent.addr, sent.id1, sent.id2, sent.const_id)
  BY Zenon DEF Handshake
<1>1. net' = net \cup {sent} /\ client.state # "Idle"
  BY Zenon DEF RecvSynAck
<1>2. ClientTyped'
  BY Zenon DEF RecvSynAck, ClientTyped, ClientRecord, NoId
<1>3. Handshakes'
  BY Zenon, <1>0, <1>1 DEF Handshakes, ClientTyped, ClientRecord, RecvSynAck
<1>4. IInv' /\ SessionIds' /\ Recorded' /\ \A e \in established' : \E a \in Addr :
        Handshake(a, e.cid, e.sid, e.const_id) \in net'
  BY Zenon, <1>0, <1>1, ServerPartKept DEF RecvSynAck
<1>5. Agreement'
  BY Zenon, <1>4 DEF Agreement, RecvSynAck, ClientTyped, ClientRecord
<1> QED BY Zenon, <1>2, <1>3, <1>4, <1>5

\* The same for the answer of the server.
LEMMA RecvReplyInv == ASSUME SInv, NEW m \in net, RecvReply(m) PROVE SInv'
<1> USE DEF SInv
<1> DEFINE sent == Handshake(client.addr, client.my_id, m.id1, client.const_id)
<1>0. sent.addr = client.addr /\ sent.type = "handshake"
      /\ sent.id1 = client.my_id /\ sent.const_id = client.const_id
      /\ sent = Handshake(sent.addr, sent.id1, sent.id2, sent.const_id)
  BY Zenon DEF Handshake
<1>1. net' = net \cup {sent} /\ client.state # "Idle"
  BY Zenon DEF RecvReply
<1>2. ClientTyped'
  BY Zenon DEF RecvReply, ClientTyped, ClientRecord, NoId, Handshakes
<1>3. Handshakes'
  BY ZenonT(60), <1>0, <1>1 DEF Handshakes, ClientTyped, ClientRecord, RecvReply
<1>4. IInv' /\ SessionIds' /\ Recorded' /\ \A e \in established' : \E a \in Addr :
        Handshake(a, e.cid, e.sid, e.const_id) \in net'
  BY Zenon, <1>0, <1>1, ServerPartKept DEF RecvReply
<1>5. Agreement'
  BY Zenon, <1>4 DEF Agreement, RecvReply, ClientTyped, ClientRecord
<1> QED BY Zenon, <1>2, <1>3, <1>4, <1>5

\* A sealed packet with the client's ids was sealed for a session on record; the
\* second handshake packet of that session carries the client's id, and so this
\* process sent it.
LEMMA RecvDownInv == ASSUME SInv, NEW m \in net, RecvDown(m) PROVE SInv'
<1> USE DEF SInv
<1> DEFINE sent == Up(client.addr, client.my_id, client.oppsite_id)
           mine == [const_id |-> client.const_id, cid |-> client.my_id,
                    sid |-> client.oppsite_id]
<1>0. sent.addr = client.addr /\ sent.type = "up"
  BY Zenon DEF Up
<1>1. net' = net \cup {sent} /\ client.state # "Idle"
      /\ m.type = "down" /\ m.id1 = client.oppsite_id /\ m.id2 = client.my_id
  BY Zenon DEF RecvDown, Accept
<1>2. PICK c \in ConstId : [const_id |-> c, cid |-> m.id2, sid |-> m.id1] \in established
  BY Zenon, <1>1 DEF Recorded
<1>3. PICK a \in Addr : Handshake(a, m.id2, m.id1, c) \in net
  BY Zenon, <1>2 DEF Agreement
<1>4. c = client.const_id
  BY Zenon, <1>1, <1>3 DEF Handshakes, Handshake
<1>5. mine \in established
  BY Zenon, <1>1, <1>2, <1>4
<1>6. ClientTyped'
  BY Zenon DEF RecvDown, ClientTyped, ClientRecord, NoId
<1>7. Handshakes'
  BY Zenon, <1>0, <1>1 DEF Handshakes, ClientTyped, ClientRecord, RecvDown
<1>8. IInv' /\ SessionIds' /\ Recorded' /\ \A e \in established' : \E b \in Addr :
        Handshake(b, e.cid, e.sid, e.const_id) \in net'
  BY Zenon, <1>0, <1>1, ServerPartKept DEF RecvDown
<1>9. client'.const_id = client.const_id /\ client'.my_id = client.my_id
      /\ client'.oppsite_id = client.oppsite_id /\ established' = established
  BY Zenon DEF RecvDown, ClientTyped, ClientRecord
<1>10. Agreement'
  BY Zenon, <1>5, <1>8, <1>9 DEF Agreement
<1> QED BY Zenon, <1>6, <1>7, <1>8, <1>10

\* The end of a session, and of a process, forgets the client's id.
LEMMA EndInv == ASSUME SInv, EndSession \/ Restart PROVE SInv'
<1> USE DEF SInv
<1>1. /\ client'.state = "Idle" /\ client'.my_id = NoId
      /\ UNCHANGED <<vars, raw_mode, next_id, oppsite_id, established, net>>
  <2>1. CASE EndSession
    BY Zenon, <2>1 DEF EndSession, GoIdle, ClientTyped, ClientRecord
  <2>2. CASE Restart
    BY <2>2 DEF Restart, IdleClient
  <2> QED BY Zenon, <2>1, <2>2
<1>2. ClientTyped'
  <2>1. CASE EndSession
    <3>1. client' = [client EXCEPT !.state = "Idle", !.my_id = NoId, !.selected = FALSE]
      BY Zenon, <2>1 DEF EndSession, GoIdle
    <3>2. client' \in ClientRecord /\ client'.selected = FALSE
      BY Zenon, <3>1 DEF ClientTyped, ClientRecord, NoId
    <3> QED BY <3>2, <1>1 DEF ClientTyped, NoId
  <2>2. CASE Restart
    BY <2>2, <1>1 DEF Restart, IdleClient, ClientTyped, ClientRecord, NoId
  <2> QED BY Zenon, <2>1, <2>2
<1>3. Handshakes'
  BY Zenon, <1>1 DEF Handshakes, NoId
<1>4. IInv' /\ SessionIds' /\ Recorded' /\ \A e \in established' : \E a \in Addr :
        Handshake(a, e.cid, e.sid, e.const_id) \in net'
  BY Zenon, <1>1, ServerPartKept
<1>5. Agreement'
  BY Zenon, <1>1, <1>4 DEF Agreement
<1> QED BY Zenon, <1>2, <1>3, <1>4, <1>5

-----------------------------------------------------------------------------
(* Steps of the server.                                                    *)

\* What a step of the server has to ensure besides the invariant of Server.
LEMMA ServerStepInv ==
  ASSUME SInv, IInv', SessionIds', Record, UNCHANGED clientVars,
         net \subseteq net',
         \A m \in net' \ net :
           /\ m.addr \in Addr /\ m.type \in {"synack", "reply", "down"}
           /\ m.type = "reply" => m.id1 \in Nat
           /\ m.type = "down" => \E s \in Ready :
                m.id1 = conns[s].my_id /\ m.id2 = oppsite_id[conns[s].my_id],
         \A s \in Ready' : \/ SessionAt(s)' \in established
                           \/ \E a \in Addr :
                                Handshake(a, oppsite_id'[conns'[s].my_id],
                                          conns'[s].my_id, conns'[s].const_id) \in net
  PROVE  SInv'
<1> USE DEF SInv
<1>1. UNCHANGED <<raw_mode, client, next_id, dead>>
  BY Zenon DEF clientVars
<1>2. ClientTyped'
  BY Zenon, <1>1 DEF ClientTyped, ClientRecord
<1>3. Handshakes'
  BY Zenon, <1>1 DEF Handshakes
<1>4. established \subseteq established' /\ \A s \in Ready' : SessionAt(s)' \in established'
  BY Zenon DEF Record, SessionAt
<1>5. \A s \in Ready : conns[s].const_id \in ConstId
  BY Zenon DEF IInv, Tables, ConstIdTableExact, TypeOK
<1>6. \A m \in net' : m.type = "down" => \E c \in ConstId :
         [const_id |-> c, cid |-> m.id2, sid |-> m.id1] \in established'
  <2> SUFFICES ASSUME NEW m \in net', m.type = "down"
               PROVE \E c \in ConstId :
                 [const_id |-> c, cid |-> m.id2, sid |-> m.id1] \in established'
    BY Zenon
  <2>1. CASE m \in net
    BY Zenon, <2>1, <1>4 DEF Recorded
  <2>2. CASE m \notin net
    <3>1. PICK s \in Ready :
            m.id1 = conns[s].my_id /\ m.id2 = oppsite_id[conns[s].my_id]
      BY Zenon, <2>2
    <3>2. SessionAt(s) \in established' /\ conns[s].const_id \in ConstId
      BY Zenon, <1>4, <1>5 DEF Recorded
    <3> QED BY Zenon, <3>1, <3>2 DEF SessionAt
  <2> QED BY Zenon, <2>1, <2>2
<1>7. Recorded'
  BY Zenon, <1>4, <1>6 DEF Recorded
<1>8. \A e \in established' : \E a \in Addr :
        Handshake(a, e.cid, e.sid, e.const_id) \in net'
  <2> SUFFICES ASSUME NEW e \in established'
               PROVE \E a \in Addr : Handshake(a, e.cid, e.sid, e.const_id) \in net'
    BY Zenon
  <2>1. CASE e \in established
    BY Zenon, <2>1 DEF Agreement
  <2>2. CASE e \notin established
    <3>1. PICK s \in Ready' : e = SessionAt(s)'
      BY Zenon, <2>2 DEF Record, SessionAt
    <3>2. PICK a \in Addr : Handshake(a, oppsite_id'[conns'[s].my_id],
                                      conns'[s].my_id, conns'[s].const_id) \in net
      BY Zenon, <3>1, <2>2
    <3>3. e.cid = oppsite_id'[conns'[s].my_id] /\ e.sid = conns'[s].my_id
          /\ e.const_id = conns'[s].const_id
      BY Zenon, <3>1 DEF SessionAt
    <3> QED BY Zenon, <3>2, <3>3
  <2> QED BY Zenon, <2>1, <2>2
<1>9. Agreement'
  BY Zenon, <1>1, <1>4, <1>8 DEF Agreement
<1> QED BY Zenon, <1>2, <1>3, <1>7, <1>9

\* Then no session is new, and the ids stay apart.
LEMMA SteadyInv ==
  ASSUME SInv, Steady, UNCHANGED oppsite_id
  PROVE  SessionIds' /\ \A s \in Ready' : SessionAt(s)' \in established
<1> USE DEF SInv
<1>1. SessionIds'
  BY DEF SessionIds, Steady
<1>2. ASSUME NEW s \in Ready' PROVE SessionAt(s)' \in established
  <2>1. s \in Ready /\ s \in Live'
    BY Zenon DEF Ready, Steady
  <2> QED BY Zenon, <2>1 DEF Recorded, SessionAt, Steady
<1> QED BY Zenon, <1>1, <1>2

\* Every server step of the composition is a step of module Server.
LEMMA ServerStepsAreServers ==
  ASSUME SInv, ServerNext PROVE [Next]_vars
<1> USE DEF SInv
<1>1. ASSUME NEW m \in net PROVE m.addr \in Addr
  BY Zenon DEF Handshakes
<1>2. ASSUME NEW m \in net, ServerSyn(m) PROVE UNCHANGED vars
  BY Zenon, <1>2 DEF ServerSyn
<1>3. ASSUME NEW m \in net, ServerHandshakeNew(m) PROVE Next
  BY Zenon, <1>3, <1>1 DEF ServerHandshakeNew, Next
<1>4. ASSUME NEW m \in net, ServerHandshakeAgain(m) PROVE UNCHANGED vars
  BY Zenon, <1>4 DEF ServerHandshakeAgain
<1>5. ASSUME NEW m \in net, ServerHandshake2(m) PROVE Next
  <2>1. m.const_id \in ConstId
    BY Zenon, <1>5 DEF ServerHandshake2, Handshakes
  <2> QED BY Zenon, <1>5, <1>1, <2>1 DEF ServerHandshake2, Next
<1>6. ASSUME NEW m \in net, ServerRawReady(m) PROVE Next
  BY Zenon, <1>6, <1>1 DEF ServerRawReady, Next
<1>7. ASSUME NEW j \in jobs, ServerDone(j) PROVE Next
  BY Zenon, <1>7 DEF ServerDone, Next
<1>8. ASSUME ServerOther PROVE Next
  BY Zenon, <1>8 DEF ServerOther, Next
<1> QED BY Zenon, <1>2, <1>3, <1>4, <1>5, <1>6, <1>7, <1>8 DEF ServerNext

\* The steps that begin no session: SYNs, repeated handshakes, packets of Ready
\* connections, and what the network has no part in.
LEMMA SteadyStepInv ==
  ASSUME SInv, IInv', Record, UNCHANGED clientVars,
         \/ \E m \in net : ServerSyn(m) \/ ServerHandshakeAgain(m) \/ ServerRawReady(m)
         \/ ServerOther
  PROVE  SInv'
<1> USE DEF SInv
<1>1. ASSUME NEW m \in net, ServerSyn(m) \/ ServerHandshakeAgain(m) PROVE SInv'
  <2>1. Steady /\ UNCHANGED oppsite_id
    BY Zenon, <1>1, UnchangedSteady DEF ServerSyn, ServerHandshakeAgain, vars, tables
  <2>2. m.addr \in Addr
    BY Zenon DEF Handshakes
  <2>3. ASSUME ServerHandshakeAgain(m) PROVE conns[by_addr[m.addr]].my_id \in Nat
    <3>1. by_addr[m.addr] \in Live
      BY Zenon, <2>3 DEF ServerHandshakeAgain, IInv, Tables, AddrTableExact
    <3> QED BY Zenon, <3>1, IdsAreNumbers DEF SessionIds
  <2>4. net \subseteq net' /\ \A x \in net' \ net :
          /\ x.addr \in Addr /\ x.type \in {"synack", "reply"}
          /\ x.type = "reply" => x.id1 \in Nat
    <3>1. CASE ServerSyn(m)
      <4>1. net' = net \cup {SynAck(m.addr, m.id1)}
        BY Zenon, <3>1 DEF ServerSyn
      <4>2. SynAck(m.addr, m.id1).addr = m.addr /\ SynAck(m.addr, m.id1).type = "synack"
        BY Zenon DEF SynAck
      <4> QED BY Zenon, <4>1, <4>2, <2>2
    <3>2. CASE ServerHandshakeAgain(m)
      <4> DEFINE r == Reply(m.addr, conns[by_addr[m.addr]].my_id, m.id1)
      <4>1. net' = net \cup {r}
        BY Zenon, <3>2 DEF ServerHandshakeAgain
      <4>2. r.addr = m.addr /\ r.type = "reply" /\ r.id1 = conns[by_addr[m.addr]].my_id
        BY Zenon DEF Reply
      <4> HIDE DEF r
      <4> QED BY Zenon, <4>1, <4>2, <3>2, <2>2, <2>3
    <3> QED BY Zenon, <1>1, <3>1, <3>2
  <2> QED BY Zenon, <2>1, <2>4, SteadyInv, ServerStepInv
<1>2. ASSUME NEW m \in net, ServerRawReady(m) PROVE SInv'
  <2>1. Steady /\ UNCHANGED <<oppsite_id, net>>
    BY Zenon, <1>2, UnchangedSteady DEF ServerRawReady, RawReady, tables
  <2> QED BY Zenon, <2>1, SteadyInv, ServerStepInv
<1>3. ASSUME ServerOther PROVE SInv'
  <2>1. Steady /\ UNCHANGED <<oppsite_id, net>>
    BY Zenon, <1>3, OtherSteady DEF ServerOther
  <2> QED BY Zenon, <2>1, SteadyInv, ServerStepInv
<1> QED BY Zenon, <1>1, <1>2, <1>3

\* A result that is sent as a sealed packet belongs to a Ready connection, and
\* it is sealed with the ids of the session that connection has now.
LEMMA ServerDoneInv ==
  ASSUME SInv, IInv', Record, UNCHANGED clientVars, NEW j \in jobs, ServerDone(j)
  PROVE  SInv'
<1> USE DEF SInv
<1>1. Steady /\ UNCHANGED oppsite_id
  BY Zenon, DoneSteady DEF ServerDone
<1>2. net \subseteq net' /\ \A x \in net' \ net :
        /\ j.op = "Encrypt" /\ valid_ready(j)
        /\ x = Down(conns[j.slot].addr, j.my_id, oppsite_id[j.my_id])
  BY Zenon DEF ServerDone
<1>3. ASSUME j.op = "Encrypt", valid_ready(j)
      PROVE  j.slot \in Ready /\ conns[j.slot].my_id = j.my_id
             /\ conns[j.slot].addr \in Addr
  <2>1. j.slot \in Ready /\ conns[j.slot].my_id = j.my_id
    BY Zenon, <1>3, JobsFollow DEF IInv, JobsReachTheirSession, valid_ready, Ready
  <2>2. conns[j.slot].addr \in Addr
    BY Zenon, <2>1 DEF IInv, TypeOK, Tables, AddrTableExact, Ready
  <2> QED BY Zenon, <2>1, <2>2
<1>4. \A x \in net' \ net :
        /\ x.addr \in Addr /\ x.type = "down"
        /\ \E s \in Ready : x.id1 = conns[s].my_id /\ x.id2 = oppsite_id[conns[s].my_id]
  <2> SUFFICES ASSUME NEW x \in net' \ net
               PROVE  /\ x.addr \in Addr /\ x.type = "down"
                      /\ \E s \in Ready : /\ x.id1 = conns[s].my_id
                                          /\ x.id2 = oppsite_id[conns[s].my_id]
    BY Zenon
  <2>1. x.addr = conns[j.slot].addr /\ x.type = "down"
        /\ x.id1 = j.my_id /\ x.id2 = oppsite_id[j.my_id]
    <3> DEFINE d == Down(conns[j.slot].addr, j.my_id, oppsite_id[j.my_id])
    <3>1. d.addr = conns[j.slot].addr /\ d.type = "down"
          /\ d.id1 = j.my_id /\ d.id2 = oppsite_id[j.my_id]
      BY Zenon DEF Down
    <3>2. x = d
      BY Zenon, <1>2
    <3> HIDE DEF d
    <3> QED BY Zenon, <3>1, <3>2
  <2> QED BY Zenon, <2>1, <1>2, <1>3
<1> QED BY Zenon, <1>1, <1>2, <1>4, SteadyInv, ServerStepInv

\* A new connection gets an id that no other connection has.
LEMMA ServerHandshakeNewInv ==
  ASSUME SInv, IInv', Record, UNCHANGED clientVars,
         NEW m \in net, ServerHandshakeNew(m)
  PROVE  SInv'
<1> USE DEF SInv
<1>1. m.addr \in Addr /\ next_generation \in Nat \ {0}
  BY Zenon DEF Handshakes, SessionIds
<1>2. /\ next_generation < MaxGeneration
      /\ next_generation' = next_generation + 1
      /\ UNCHANGED oppsite_id
      /\ net' = net \cup {Reply(m.addr, next_generation, m.id1)}
  BY Zenon DEF ServerHandshakeNew, HandshakeNew
<1>3. PICK s : Alloc(s) /\ conns' = Bind(conns, s, NewConn(m.addr))
  BY Zenon DEF ServerHandshakeNew, HandshakeNew
<1>4. /\ Live' = Live \cup {s}
      /\ conns'[s] = NewConn(m.addr)
      /\ \A t \in Live \ {s} : conns'[t] = conns[t]
  BY Zenon, <1>3 DEF Bind, Live
<1>5. conns'[s].state = "Handshake1" /\ conns'[s].my_id = next_generation
  <2>1. /\ NewConn(m.addr).state = "Handshake1"
        /\ NewConn(m.addr).my_id = next_generation
    BY Zenon DEF NewConn
  <2> QED BY Zenon, <1>4, <2>1
<1>6. next_generation \in 1 .. MaxGeneration
  BY <1>1, <1>2, ServerAssumption
<1>7. SessionIds'
  <2>1. \A t \in Live' : conns'[t].my_id \in 1 .. MaxGeneration
                          /\ conns'[t].my_id < next_generation'
    BY <1>1, <1>2, <1>4, <1>5, <1>6 DEF SessionIds
  <2>2. \A t \in Live' \ {s} : t \in Live /\ conns'[t] = conns[t]
                               /\ conns[t].my_id # next_generation
    <3> SUFFICES ASSUME NEW t \in Live' \ {s}
                 PROVE  t \in Live /\ conns'[t] = conns[t]
                        /\ conns[t].my_id # next_generation
      BY Zenon
    <3>1. t \in Live /\ conns'[t] = conns[t]
      BY Zenon, <1>4
    <3>2. conns[t].my_id < next_generation
      BY Zenon, <3>1 DEF SessionIds
    <3> QED BY Zenon, <3>1, <3>2, <1>1, Ordered
  <2>3. \A t, u \in Live' : t # u /\ conns'[t].state = "Handshake1" =>
          conns'[t].my_id # conns'[u].my_id
    <3> SUFFICES ASSUME NEW t \in Live', NEW u \in Live', t # u,
                        conns'[t].state = "Handshake1"
                 PROVE  conns'[t].my_id # conns'[u].my_id
      BY Zenon
    <3>1. CASE t = s \/ u = s
      BY Zenon, <3>1, <2>2, <1>5
    <3>2. CASE t # s /\ u # s
      <4>1. /\ t \in Live /\ conns'[t] = conns[t]
            /\ u \in Live /\ conns'[u] = conns[u]
        BY Zenon, <3>2, <2>2
      <4> QED BY Zenon, <4>1 DEF SessionIds
    <3> QED BY Zenon, <3>1, <3>2
  <2>4. next_generation' \in Nat \ {0}
    BY <1>1, <1>2
  <2> QED BY Zenon, <2>1, <2>3, <2>4, <1>2 DEF SessionIds
<1>8. \A t \in Ready' : SessionAt(t)' \in established
  <2>1. \A t \in Ready' : t \in Ready /\ conns'[t] = conns[t]
    BY Zenon, <1>4, <1>5 DEF Ready
  <2> QED BY Zenon, <2>1, <1>2 DEF Recorded, SessionAt
<1>9. \A x \in net' \ net : x.addr \in Addr /\ x.type = "reply" /\ x.id1 \in Nat
  BY <1>1, <1>2 DEF Reply
<1> QED BY Zenon, <1>2, <1>7, <1>8, <1>9, ServerStepInv

\* The second handshake packet sets the oppsite_id of the connection that is
\* shaking hands, which no other connection uses, and makes at most one session
\* Ready: the one whose ids and const_id the packet names.
LEMMA ServerHandshake2Inv ==
  ASSUME SInv, IInv', Record, UNCHANGED clientVars,
         NEW m \in net, ServerHandshake2(m)
  PROVE  SInv'
<1> USE DEF SInv
<1> DEFINE s == by_addr[m.addr]  c == m.const_id
<1>1. /\ m = Handshake(m.addr, m.id1, m.id2, c) /\ m.addr \in Addr
      /\ c \in ConstId /\ m.id1 \in Nat
  BY Zenon DEF ServerHandshake2, Handshakes
<1>2. /\ s \in Live /\ conns[s].state = "Handshake1" /\ conns[s].my_id = m.id2
      /\ conns[s] \in ConnRecord
  BY Zenon DEF ServerHandshake2, Handshake2, IInv, Tables, AddrTableExact, TypeOK, Live
<1>3. /\ oppsite_id' = [oppsite_id EXCEPT ![m.id2] = m.id1]
      /\ UNCHANGED net
      /\ BecomeReady(s, c) \/ Refuse(s, c) \/ Recover(s, c)
  BY Zenon DEF ServerHandshake2, Handshake2
<1>4. /\ m.id2 \in 1 .. MaxGeneration /\ m.id2 < next_generation
      /\ oppsite_id' \in [1 .. MaxGeneration -> Nat]
      /\ oppsite_id'[m.id2] = m.id1
      /\ \A y \in 1 .. MaxGeneration : y # m.id2 => oppsite_id'[y] = oppsite_id[y]
  BY Zenon, <1>1, <1>2, <1>3 DEF SessionIds
<1>5. \A t \in Live \ {s} : conns[t].my_id # m.id2
  BY Zenon, <1>2 DEF SessionIds
<1>6. \A t \in Ready : t # s /\ t \in Live
  BY Zenon, <1>2 DEF Ready
<1> HIDE DEF s
<1>7. ASSUME NEW t \in Ready, conns'[t] = conns[t]
      PROVE  SessionAt(t)' \in established
  <2>1. conns[t].my_id \in 1 .. MaxGeneration /\ conns[t].my_id # m.id2
    BY Zenon, <1>5, <1>6 DEF SessionIds
  <2> QED BY Zenon, <1>7, <2>1, <1>4 DEF Recorded, SessionAt
<1>8. CASE BecomeReady(s, c)
  <2> DEFINE d == [conns[s] EXCEPT !.state = "Ready", !.const_id = c,
                                   !.last_hb_recv = now, !.last_hb_sent = now]
  <2>1. conns' = [conns EXCEPT ![s] = d] /\ UNCHANGED next_generation
    BY Zenon, <1>8 DEF BecomeReady
  <2>2. d.state = "Ready" /\ d.my_id = m.id2 /\ d.const_id = c
    BY Zenon, <1>2 DEF ConnRecord
  <2> HIDE DEF d
  <2>3. Live' = Live /\ conns'[s] = d /\ \A t \in Live \ {s} : conns'[t] = conns[t]
    BY Zenon, <2>1, <1>2 DEF Live
  <2>4. SessionIds'
    <3>1. \A t \in Live : conns'[t].my_id = conns[t].my_id
      BY Zenon, <2>2, <2>3, <1>2
    <3>2. \A t \in Live : conns'[t].state = "Handshake1" => conns[t].state = "Handshake1"
      BY Zenon, <2>2, <2>3
    <3> QED BY <3>1, <3>2, <2>1, <2>3, <1>4 DEF SessionIds
  <2>5. ASSUME NEW t \in Ready'
        PROVE  \/ SessionAt(t)' \in established
               \/ \E a \in Addr : Handshake(a, oppsite_id'[conns'[t].my_id],
                                            conns'[t].my_id, conns'[t].const_id) \in net
    <3>1. CASE t = s
      BY Zenon, <3>1, <2>2, <2>3, <1>1, <1>4
    <3>2. CASE t # s
      <4>1. t \in Ready /\ conns'[t] = conns[t]
        BY Zenon, <3>2, <2>3 DEF Ready
      <4> QED BY Zenon, <4>1, <1>7
    <3> QED BY Zenon, <3>1, <3>2
  <2> QED BY Zenon, <2>4, <2>5, <1>3, ServerStepInv
<1>9. CASE Refuse(s, c)
  <2>1. conns' = [conns EXCEPT ![s].state = "Idle"] /\ UNCHANGED next_generation
    BY Zenon, <1>9 DEF Refuse
  <2>2. /\ Live' = Live /\ \A t \in Live \ {s} : conns'[t] = conns[t]
        /\ conns'[s].state = "Idle" /\ conns'[s].my_id = m.id2
    BY Zenon, <2>1, <1>2 DEF Live, ConnRecord
  <2>3. SessionIds'
    <3>1. \A t \in Live : conns'[t].my_id = conns[t].my_id
      BY Zenon, <2>2, <1>2
    <3>2. \A t \in Live : conns'[t].state = "Handshake1" => conns[t].state = "Handshake1"
      BY Zenon, <2>2
    <3> QED BY <3>1, <3>2, <2>1, <2>2, <1>4 DEF SessionIds
  <2>4. \A t \in Ready' : t \in Ready /\ conns'[t] = conns[t]
    BY Zenon, <2>2 DEF Ready
  <2> QED BY Zenon, <2>3, <2>4, <1>3, <1>7, ServerStepInv
<1>10. CASE Recover(s, c)
  <2> DEFINE ori == by_const_id[c]
             i == [conns[s] EXCEPT !.addr = conns[ori].addr, !.state = "Idle"]
             r == Recovered(conns[ori], conns[s])
  <2>1. /\ conns' = [conns EXCEPT ![s] = i, ![ori] = r]
        /\ next_generation' = next_generation + 1 /\ c \in DOMAIN by_const_id
    BY Zenon, <1>10 DEF Recover
  <2>2. /\ ori \in Ready /\ ori \in Live /\ ori # s /\ conns[ori].const_id = c
        /\ conns[ori] \in ConnRecord
    BY ZenonT(60), <2>1, <1>6 DEF IInv, Tables, ConstIdTableExact, TypeOK, Live
  <2>3. i.state = "Idle" /\ i.my_id = m.id2
    BY Zenon, <1>2 DEF ConnRecord
  <2>4. r.state = "Ready" /\ r.my_id = m.id2 /\ r.const_id = c
    BY Zenon, <1>2, <2>2 DEF ConnRecord, Recovered, Ready
  <2> HIDE DEF i, r, ori
  <2>5. /\ Live' = Live /\ conns'[s] = i /\ conns'[ori] = r
        /\ \A t \in Live \ {s, ori} : conns'[t] = conns[t]
    BY Zenon, <2>1, <2>2, <1>2 DEF Live
  <2>6. SessionIds'
    <3>1. next_generation' \in Nat \ {0}
      BY <2>1 DEF SessionIds
    <3>2. ASSUME NEW t \in Live'
          PROVE  conns'[t].my_id \in 1 .. MaxGeneration
                 /\ conns'[t].my_id < next_generation'
      <4>1. \A y \in 1 .. MaxGeneration : y < next_generation => y < next_generation'
        BY <2>1, ServerAssumption DEF SessionIds
      <4>2. CASE t \in {s, ori}
        <5>1. conns'[t].my_id = m.id2
          BY Zenon, <4>2, <2>3, <2>4, <2>5
        <5> QED BY Zenon, <5>1, <4>1, <1>4
      <4>3. CASE t \notin {s, ori}
        <5>1. conns[t].my_id \in 1 .. MaxGeneration /\ conns[t].my_id < next_generation
          BY Zenon, <2>5 DEF SessionIds
        <5>2. conns'[t] = conns[t]
          BY Zenon, <4>3, <2>5
        <5> QED BY Zenon, <5>1, <5>2, <4>1
      <4> QED BY Zenon, <4>2, <4>3
    <3>3. ASSUME NEW t \in Live', NEW u \in Live', t # u,
                 conns'[t].state = "Handshake1"
          PROVE  conns'[t].my_id # conns'[u].my_id
      <4>1. t \notin {s, ori} /\ t \in Live /\ conns'[t] = conns[t]
        BY Zenon, <3>3, <2>3, <2>4, <2>5
      <4>2. conns[t].my_id # m.id2
        BY Zenon, <4>1, <1>5
      <4> QED BY ZenonT(60), <4>1, <4>2, <3>3, <2>3, <2>4, <2>5 DEF SessionIds
    <3> QED BY Zenon, <3>1, <3>2, <3>3, <1>4 DEF SessionIds
  <2>7. ASSUME NEW t \in Ready'
        PROVE  \/ SessionAt(t)' \in established
               \/ \E a \in Addr : Handshake(a, oppsite_id'[conns'[t].my_id],
                                            conns'[t].my_id, conns'[t].const_id) \in net
    <3>1. CASE t = ori
      BY Zenon, <3>1, <2>4, <2>5, <1>1, <1>4
    <3>2. CASE t # ori
      <4>1. t \in Ready /\ conns'[t] = conns[t]
        BY Zenon, <3>2, <2>3, <2>5 DEF Ready
      <4> QED BY Zenon, <4>1, <1>7
    <3> QED BY Zenon, <3>1, <3>2
  <2> QED BY Zenon, <2>6, <2>7, <1>3, ServerStepInv
<1> QED BY Zenon, <1>3, <1>8, <1>9, <1>10

-----------------------------------------------------------------------------
(* The theorems.                                                           *)

\* Every step of the composition keeps the invariant.
LEMMA SessionNextInv == SInv /\ [SessionNext]_SessionVars => SInv'
<1> SUFFICES ASSUME SInv, [SessionNext]_SessionVars PROVE SInv'
  BY Zenon
<1>1. CASE ClientNext
  BY Zenon, <1>1, AttemptInv, RecvSynAckInv, RecvReplyInv, RecvDownInv, EndInv DEF ClientNext
<1>2. CASE ServerNext
  <2>1. IInv'
    BY Zenon, <1>2, ServerStepsAreServers, NextInv DEF SInv
  <2> QED BY Zenon, <1>2, <2>1, SteadyStepInv, ServerDoneInv, ServerHandshakeNewInv,
             ServerHandshake2Inv DEF ServerNext
<1>3. CASE UNCHANGED SessionVars
  <2>1. IInv'
    BY Zenon, <1>3, NextInv DEF SInv, SessionVars
  <2>2. ClientTyped' /\ Handshakes'
    BY Zenon, <1>3 DEF SInv, SessionVars, clientVars, ClientTyped, Handshakes
  <2>3. SessionIds' /\ Recorded' /\ Agreement'
    BY ZenonT(60), <1>3 DEF SInv, SessionVars, clientVars, vars, tables, SessionIds, Recorded,
                Agreement, Live, Ready, SessionAt
  <2> QED BY Zenon, <2>1, <2>2, <2>3 DEF SInv
<1> QED BY Zenon, <1>1, <1>2, <1>3 DEF SessionNext

\* The invariant of the composition, for any number of addresses, processes,
\* attempts, losses, duplications and reorderings.
THEOREM SessionInvariant == SessionSpec => []SInv
  BY SessionInitInv, SessionNextInv, PTL DEF SessionSpec

\* A Ready client and the server agree on the session: ids and process belong
\* to one handshake (on_safer_packet, pre_ready).
THEOREM AgreementHolds == SessionSpec => []Agreement
<1>1. SInv => Agreement
  BY Zenon DEF SInv
<1> QED BY <1>1, SessionInvariant, PTL

\* With clients and a network around it, the server still behaves as module
\* Server says; so every theorem about Server above holds of the composition.
THEOREM SessionRefinesServer == SessionSpec => ImplementsServer
<1>1. SessionInit => Init
  BY Zenon DEF SessionInit
<1>2. SInv /\ [SessionNext]_SessionVars => [Next]_vars
  <2> SUFFICES ASSUME SInv, [SessionNext]_SessionVars PROVE [Next]_vars
    BY Zenon
  <2>1. CASE ClientNext
    BY Zenon, <2>1 DEF ClientNext, Attempt, RecvSynAck, RecvReply, RecvDown, EndSession, Restart
  <2>2. CASE ServerNext
    BY Zenon, <2>2, ServerStepsAreServers
  <2>3. CASE UNCHANGED SessionVars
    BY Zenon, <2>3 DEF SessionVars
  <2> QED BY Zenon, <2>1, <2>2, <2>3 DEF SessionNext
<1> QED BY <1>1, <1>2, SessionInvariant, PTL DEF SessionSpec, ImplementsServer, Spec

-----------------------------------------------------------------------------
(* The types, and which attempt a packet belongs to.                       *)

\* Packets carry ids that were handed out; the ids the server gave out are those of
\* its own connections.
PacketIds ==
  \A m \in net :
    /\ m.id1 \in Nat /\ m.id2 \in Nat
    /\ m.type = "reply" =>
         m.id1 < next_generation /\ m.id1 \in 1 .. MaxGeneration
         /\ m.id2 < next_id /\ m.id2 # NoId
    /\ m.type = "handshake" => m.id2 < next_generation

\* The packets of the present attempt: sent from its address, answered to it, and the
\* second one names the id that the client took from the answer.
Mine ==
  /\ \A m \in net : m.type = "handshake" /\ m.id1 = client.my_id =>
       /\ client.state # "Idle" /\ m.addr = client.addr
       /\ m.id2 # NoId => client.state \in {"Handshake2", "Ready"}
                            /\ m.id2 = client.oppsite_id
  /\ \A m \in net : m.type = "reply" /\ m.id2 = client.my_id =>
       client.state # "Idle" /\ m.addr = client.addr
  /\ client.state \in {"Handshake2", "Ready"} =>
       \E m \in net : m.type = "reply" /\ m.id2 = client.my_id
                       /\ m.id1 = client.oppsite_id

\* A connection that is shaking hands or Ready has the address its id was sent to, and
\* some handshake packet came from there while it is shaking hands.
Addresses ==
  /\ \A t \in Live : conns[t].state # "Idle" =>
       \A m \in net : m.type = "reply" /\ m.id1 = conns[t].my_id => m.addr = conns[t].addr
  /\ \A t \in Live : conns[t].state = "Handshake1" =>
       \E m \in net : m.type = "handshake" /\ m.addr = conns[t].addr

\* Ids are handed out in the order of time.
Ages ==
  /\ \A t \in Live : conns[t].last_state_time <= now
  /\ \A s, t \in Live : conns[s].my_id < conns[t].my_id =>
       conns[s].last_state_time <= conns[t].last_state_time

\* The second handshake packets of the other attempts.
OldSeconds ==
  {m \in net : m.type = "handshake" /\ m.id2 # NoId /\ m.id1 # client.my_id}

\* No other attempt was made from the client's port.
FreshPort ==
  \A m \in net : m.type = "handshake" /\ m.id1 # client.my_id => m.addr # client.addr

\* With a port of its own, the present attempt is known to the server by an id that is
\* newer than those the other attempts named.
Newer ==
  client.state # "Idle" /\ FreshPort =>
    \A o \in OldSeconds :
      /\ \A t \in Live : conns[t].state = "Handshake1" /\ conns[t].addr = client.addr =>
           o.id2 < conns[t].my_id
      /\ \A m \in net : m.type = "reply" /\ m.id2 = client.my_id => o.id2 < m.id1

KInv ==
  /\ SessionTypeOK
  /\ PacketIds
  /\ Mine
  /\ Addresses
  /\ Ages
  /\ Newer


\* In the initial state there are no packets and no connections.
LEMMA KInitInv == SessionInit => KInv
<1> SUFFICES ASSUME SessionInit PROVE KInv
  BY Zenon
<1>1. net = {} /\ established = {} /\ Live = {}
  BY DEF SessionInit, Init, Live
<1>2. PICK c \in ConstId : client = IdleClient(c)
  BY Zenon DEF SessionInit, ClientInit
<1>3. /\ client.state = "Idle" /\ client.const_id = c /\ client.addr = NoId
      /\ client.my_id = NoId /\ client.oppsite_id = NoId /\ client.selected = FALSE
  BY Zenon, <1>2 DEF IdleClient
<1>4. SessionTypeOK
  <2>1. oppsite_id \in [1 .. MaxGeneration -> 0 .. MaxId]
    BY SessionAssumption DEF SessionInit, NoId
  <2>2. raw_mode \in RawModes /\ next_id \in 1 .. MaxId /\ dead = {}
    BY SessionAssumption DEF SessionInit, ClientInit
  <2>3. NoId \in 0 .. MaxId /\ NoId \in 0 .. MaxGeneration
    BY SessionAssumption, ServerAssumption DEF NoId
  <2> QED BY Zenon, <1>1, <1>3, <2>1, <2>2, <2>3 DEF SessionTypeOK
<1> QED BY Zenon, <1>1, <1>3, <1>4 DEF KInv, PacketIds, Mine, Addresses, Ages, Newer

-----------------------------------------------------------------------------
(* The same invariant under the steps of the client.                       *)

\* The client's steps send no "reply" and leave the connections alone.
LEMMA ConnectionsKept ==
  ASSUME SInv, KInv, UNCHANGED <<vars, oppsite_id, established>>, net \subseteq net',
         \A m \in net' \ net : m.type # "reply"
  PROVE  Addresses' /\ Ages'
<1>1. UNCHANGED <<conns, now>>
  BY Zenon DEF vars, tables
<1>2. Addresses'
  BY ZenonT(60), <1>1 DEF KInv, Addresses, Live
<1>3. Ages'
  BY Zenon, <1>1 DEF KInv, Ages, Live
<1> QED BY Zenon, <1>2, <1>3

\* Types and ids after a step of the client, from those of what changes.
LEMMA ClientStepTyped ==
  ASSUME SInv, SInv', KInv, UNCHANGED <<vars, raw_mode, oppsite_id, established>>,
         net \subseteq net', next_id' \in 1 .. MaxId, next_id <= next_id',
         client'.const_id \in ConstId \ dead', dead' \subseteq ConstId,
         client'.oppsite_id \in 0 .. MaxGeneration,
         (client'.my_id = NoId) = (client'.state = "Idle" /\ ~client'.selected),
         \A m \in net' \ net :
           /\ m.id1 \in Nat /\ m.id2 \in Nat /\ m.type # "reply"
           /\ m.type = "handshake" => m.id2 < next_generation
  PROVE  SessionTypeOK' /\ PacketIds'
<1>1. UNCHANGED next_generation
  BY Zenon DEF vars, tables
<1>2. PacketIds'
  <2> SUFFICES ASSUME NEW m \in net'
               PROVE  /\ m.id1 \in Nat /\ m.id2 \in Nat
                      /\ m.type = "reply" =>
                           m.id1 < next_generation' /\ m.id1 \in 1 .. MaxGeneration
                           /\ m.id2 < next_id' /\ m.id2 # NoId
                      /\ m.type = "handshake" => m.id2 < next_generation'
    BY Zenon DEF PacketIds
  <2>1. CASE m \in net
    BY <2>1, <1>1 DEF KInv, PacketIds, SInv, ClientTyped
  <2>2. CASE m \notin net
    BY Zenon, <2>2, <1>1
  <2> QED BY Zenon, <2>1, <2>2
<1>3. client'.my_id \in 0 .. MaxId
  BY SessionAssumption DEF SInv, ClientTyped, ClientRecord
<1>4. /\ client'.state \in {"Idle", "TcpHandshake", "TcpHandshakeDummy",
                            "Handshake1", "Handshake2", "Ready"}
      /\ client'.addr \in Addr \cup {NoId} /\ client'.selected \in BOOLEAN
  BY Zenon DEF SInv, ClientTyped, ClientRecord
<1>5. \A m \in net' : m.addr \in Addr /\ m.id1 \in Nat /\ m.id2 \in Nat
  BY Zenon, <1>2 DEF PacketIds, SInv, Handshakes
<1> QED BY Zenon, <1>2, <1>3, <1>4, <1>5 DEF KInv, SessionTypeOK

\* The id of an attempt is on no packet before the attempt sends its first.
LEMMA AttemptIdUnused ==
  ASSUME SInv, KInv, client.state = "Idle"
  PROVE  \A m \in net : /\ m.type = "handshake" => m.id1 # AttemptId
                        /\ m.type = "reply" => m.id2 # AttemptId
<1> SUFFICES ASSUME NEW m \in net
             PROVE  /\ m.type = "handshake" => m.id1 # AttemptId
                    /\ m.type = "reply" => m.id2 # AttemptId
  BY Zenon
<1>1. next_id \in Nat
  BY Zenon DEF SInv, ClientTyped
<1>2. CASE client.selected
  BY Zenon, <1>2 DEF AttemptId, KInv, Mine
<1>3. CASE ~client.selected
  BY <1>1, <1>3 DEF AttemptId, KInv, PacketIds, SInv, Handshakes
<1> QED BY Zenon, <1>2, <1>3

\* An attempt, from the choice of its id to its first packet.
LEMMA AttemptK == ASSUME SInv, SInv', KInv, Attempt PROVE KInv'
<1>0. client.state = "Idle"
  BY Zenon DEF Attempt
<1>1. /\ \A m \in net : /\ m.type = "handshake" => m.id1 # AttemptId
                        /\ m.type = "reply" => m.id2 # AttemptId
      /\ client.state = "Idle"
  BY Zenon, <1>0, AttemptIdUnused
<1>2. client \in ClientRecord /\ next_id \in Nat \ {0} /\ next_id \in 1 .. MaxId
      /\ client.my_id \in Nat
  BY Zenon DEF SInv, ClientTyped, ClientRecord, KInv, SessionTypeOK
<1>3. AttemptId \in Nat /\ AttemptId # NoId
      /\ next_id' \in 1 .. MaxId /\ next_id <= next_id'
  <2>1. CASE client.selected
    <3>1. AttemptId = client.my_id /\ next_id' = next_id /\ client.my_id # NoId
      BY Zenon, <2>1 DEF AttemptId, Attempt, SInv, ClientTyped
    <3> QED BY <3>1, <1>2
  <2>2. CASE ~client.selected
    <3>1. AttemptId = next_id /\ next_id' = next_id + 1 /\ next_id < MaxId
      BY Zenon, <2>2 DEF AttemptId, Attempt
    <3> QED BY <3>1, <1>2, SessionAssumption DEF NoId
  <2> QED BY Zenon, <2>1, <2>2
<1>4. /\ UNCHANGED <<vars, raw_mode, dead, oppsite_id, established>>
      /\ client.const_id \in ConstId \ dead /\ dead \subseteq ConstId
      /\ client.oppsite_id \in 0 .. MaxGeneration
  BY Zenon DEF Attempt, KInv, SessionTypeOK
<1>5. CASE client' = [client EXCEPT !.my_id = AttemptId, !.selected = TRUE]
           /\ UNCHANGED net
  <2>1. /\ client'.state = "Idle" /\ client'.my_id = AttemptId
        /\ client'.const_id = client.const_id /\ client'.oppsite_id = client.oppsite_id
        /\ client'.selected
    BY Zenon, <1>1, <1>2, <1>5 DEF ClientRecord
  <2>2. SessionTypeOK' /\ PacketIds'
    BY Zenon, <1>3, <1>4, <1>5, <2>1, ClientStepTyped
  <2>3. Mine'
    BY Zenon, <1>1, <1>5, <2>1 DEF Mine
  <2>4. Addresses' /\ Ages'
    BY Zenon, <1>4, <1>5, ConnectionsKept
  <2>5. Newer'
    BY Zenon, <2>1 DEF Newer
  <2> QED BY Zenon, <2>2, <2>3, <2>4, <2>5 DEF KInv
<1>6. ASSUME NEW a \in Addr, NEW st \in {"TcpHandshake", "TcpHandshakeDummy", "Handshake1"},
             NEW sent \in SUBSET {Syn(a, AttemptId),
                                  Handshake(a, AttemptId, NoId, client.const_id)},
             client' = [client EXCEPT !.state = st, !.addr = a, !.my_id = AttemptId,
                                      !.selected = FALSE],
             net' = net \cup sent
      PROVE  KInv'
  <2>1. /\ client'.state = st /\ client'.addr = a /\ client'.my_id = AttemptId
        /\ client'.const_id = client.const_id /\ client'.oppsite_id = client.oppsite_id
    BY Zenon, <1>2, <1>6 DEF ClientRecord
  <2>2. \A m \in sent : /\ m.addr = a /\ m.id1 = AttemptId /\ m.id2 = NoId
                        /\ m.type \in {"syn", "handshake"}
    <3>1. /\ Syn(a, AttemptId).addr = a /\ Syn(a, AttemptId).id1 = AttemptId
          /\ Syn(a, AttemptId).id2 = NoId /\ Syn(a, AttemptId).type = "syn"
      BY Zenon DEF Syn
    <3> DEFINE w == Handshake(a, AttemptId, NoId, client.const_id)
    <3>2. w.addr = a /\ w.id1 = AttemptId /\ w.id2 = NoId /\ w.type = "handshake"
      BY Zenon DEF Handshake
    <3> HIDE DEF w
    <3>3. sent \subseteq {Syn(a, AttemptId), w}
      BY Zenon DEF w
    <3> QED BY Zenon, <3>1, <3>2, <3>3
  <2>3. SessionTypeOK' /\ PacketIds'
    <3>1. NoId \in Nat /\ NoId < next_generation
      <4>1. next_generation \in Nat \ {0}
        BY Zenon DEF SInv, SessionIds
      <4> QED BY <4>1 DEF NoId
    <3>2. \A m \in net' \ net :
            /\ m.id1 \in Nat /\ m.id2 \in Nat /\ m.type # "reply"
            /\ m.type = "handshake" => m.id2 < next_generation
      BY Zenon, <3>1, <2>2, <1>3, <1>6
    <3>3. (client'.my_id = NoId) = (client'.state = "Idle" /\ ~client'.selected)
      BY Zenon, <2>1, <1>3
    <3> QED BY Zenon, <3>2, <3>3, <1>3, <1>4, <1>6, <2>1, ClientStepTyped
  <2>4. Mine'
    BY Zenon, <1>1, <1>6, <2>1, <2>2 DEF Mine
  <2>5. Addresses' /\ Ages'
    BY Zenon, <1>4, <1>6, <2>2, ConnectionsKept
  <2>6. Newer'
    <3>1. UNCHANGED conns
      BY Zenon, <1>4 DEF vars, tables
    <3> SUFFICES ASSUME FreshPort',
                        NEW t \in Live', conns'[t].state = "Handshake1",
                        conns'[t].addr = client'.addr
                 PROVE  FALSE
      BY Zenon, <1>1, <1>6, <2>1, <2>2 DEF Newer
    <3>2. PICK m \in net : m.type = "handshake" /\ m.addr = a
      BY ZenonT(60), <3>1, <2>1 DEF KInv, Addresses, Live
    <3> QED BY Zenon, <3>2, <1>1, <1>6, <2>1 DEF FreshPort
  <2> QED BY Zenon, <2>3, <2>4, <2>5, <2>6 DEF KInv
<1>7. raw_mode \in {"FakeTcp", "EasyFakeTcp", "Udp"}
  BY Zenon, SessionAssumption DEF SInv, ClientTyped
<1> QED BY ZenonT(60), <1>5, <1>6, <1>7 DEF Attempt

\* A packet of the present attempt changes nothing that is said about the others.
LEMMA NewerKept ==
  ASSUME KInv, UNCHANGED vars, client'.my_id = client.my_id,
         client'.addr = client.addr, client.state # "Idle", net \subseteq net',
         \A m \in net' \ net : m.type # "reply"
                               /\ (m.type = "handshake" => m.id1 = client.my_id)
  PROVE  Newer'
<1>1. UNCHANGED conns
  BY Zenon DEF vars, tables
<1>2. FreshPort' => FreshPort
  BY Zenon DEF FreshPort
<1>3. OldSeconds' = OldSeconds
  BY Zenon DEF OldSeconds
<1> QED BY Zenon, <1>1, <1>2, <1>3 DEF KInv, Newer, Live

\* The SYN-ACK: the first handshake packet of the attempt goes out.
LEMMA RecvSynAckK == ASSUME SInv, SInv', KInv, RecvSynAck PROVE KInv'
<1> DEFINE sent == Handshake(client.addr, client.my_id, NoId, client.const_id)
<1>1. sent.type = "handshake" /\ sent.addr = client.addr /\ sent.id1 = client.my_id
      /\ sent.id2 = NoId
  BY Zenon DEF Handshake
<1>2. /\ net' = net \cup {sent}
      /\ client.state \in {"TcpHandshake", "TcpHandshakeDummy"}
      /\ UNCHANGED <<vars, raw_mode, next_id, dead, oppsite_id, established>>
  BY Zenon DEF RecvSynAck
<1> HIDE DEF sent
<1>3. /\ client'.state = "Handshake1" /\ client'.addr = client.addr
      /\ client'.my_id = client.my_id /\ client'.const_id = client.const_id
      /\ client'.oppsite_id = client.oppsite_id
  BY Zenon DEF RecvSynAck, SInv, ClientTyped, ClientRecord
<1>4. /\ client.my_id \in Nat /\ client.my_id # NoId /\ next_id \in 1 .. MaxId
      /\ client.const_id \in ConstId \ dead /\ dead \subseteq ConstId
      /\ client.oppsite_id \in 0 .. MaxGeneration
  BY Zenon, <1>2 DEF KInv, SessionTypeOK, SInv, ClientTyped, ClientRecord
<1>5. SessionTypeOK' /\ PacketIds'
  <2>1. NoId \in Nat /\ NoId < next_generation /\ next_id <= next_id'
    BY <1>2, <1>4 DEF SInv, SessionIds, NoId
  <2>2. \A m \in net' \ net : /\ m.id1 \in Nat /\ m.id2 \in Nat /\ m.type # "reply"
                              /\ m.type = "handshake" => m.id2 < next_generation
    BY Zenon, <1>1, <1>2, <1>4, <2>1
  <2>3. (client'.my_id = NoId) = (client'.state = "Idle" /\ ~client'.selected)
    BY Zenon, <1>3, <1>4
  <2> QED BY Zenon, <1>2, <1>3, <1>4, <2>1, <2>2, <2>3, ClientStepTyped
<1>6. Mine'
  BY ZenonT(60), <1>1, <1>2, <1>3 DEF KInv, Mine
<1>7. Addresses' /\ Ages'
  BY Zenon, <1>1, <1>2, ConnectionsKept
<1>8. Newer'
  BY Zenon, <1>1, <1>2, <1>3, NewerKept
<1> QED BY Zenon, <1>5, <1>6, <1>7, <1>8 DEF KInv

\* The server's answer: the client takes the id it carries, and names it.
LEMMA RecvReplyK == ASSUME SInv, SInv', KInv, NEW r \in net, RecvReply(r) PROVE KInv'
<1> DEFINE sent == Handshake(client.addr, client.my_id, r.id1, client.const_id)
<1>1. sent.type = "handshake" /\ sent.addr = client.addr /\ sent.id1 = client.my_id
      /\ sent.id2 = r.id1
  BY Zenon DEF Handshake
<1>2. /\ net' = net \cup {sent}
      /\ client.state = "Handshake1" /\ r.type = "reply" /\ r.id2 = client.my_id
      /\ UNCHANGED <<vars, raw_mode, next_id, dead, oppsite_id, established>>
  BY Zenon DEF RecvReply
<1> HIDE DEF sent
<1>3. /\ client'.state = "Handshake2" /\ client'.addr = client.addr
      /\ client'.my_id = client.my_id /\ client'.const_id = client.const_id
      /\ client'.oppsite_id = r.id1
  BY Zenon DEF RecvReply, SInv, ClientTyped, ClientRecord
<1>4. /\ client.my_id \in Nat /\ client.my_id # NoId /\ next_id \in 1 .. MaxId
      /\ client.const_id \in ConstId \ dead /\ dead \subseteq ConstId
  BY Zenon, <1>2 DEF KInv, SessionTypeOK, SInv, ClientTyped, ClientRecord
<1>5. r.id1 < next_generation /\ r.id1 \in 1 .. MaxGeneration
  BY Zenon, <1>2 DEF KInv, PacketIds
<1>6. SessionTypeOK' /\ PacketIds'
  <2>1. r.id1 \in Nat /\ r.id1 \in 0 .. MaxGeneration /\ next_id <= next_id'
    BY <1>2, <1>4, <1>5, ServerAssumption
  <2>2. \A m \in net' \ net : /\ m.id1 \in Nat /\ m.id2 \in Nat /\ m.type # "reply"
                              /\ m.type = "handshake" => m.id2 < next_generation
    BY Zenon, <1>1, <1>2, <1>4, <1>5, <2>1
  <2>3. (client'.my_id = NoId) = (client'.state = "Idle" /\ ~client'.selected)
    BY Zenon, <1>3, <1>4
  <2> QED BY Zenon, <1>2, <1>3, <1>4, <2>1, <2>2, <2>3, ClientStepTyped
<1>7. Mine'
  <2>1. \A m \in net' : m.type = "handshake" /\ m.id1 = client.my_id =>
          m.addr = client.addr /\ (m.id2 # NoId => m.id2 = r.id1)
    BY Zenon, <1>1, <1>2 DEF KInv, Mine
  <2>2. \A m \in net' : m.type = "reply" /\ m.id2 = client.my_id => m.addr = client.addr
    BY Zenon, <1>1, <1>2 DEF KInv, Mine
  <2> QED BY Zenon, <1>2, <1>3, <2>1, <2>2 DEF Mine
<1>8. Addresses' /\ Ages'
  BY Zenon, <1>1, <1>2, ConnectionsKept
<1>9. Newer'
  BY Zenon, <1>1, <1>2, <1>3, NewerKept
<1> QED BY Zenon, <1>6, <1>7, <1>8, <1>9 DEF KInv

\* A sealed packet sends no handshake packet.
LEMMA RecvDownK == ASSUME SInv, SInv', KInv, NEW d \in net, RecvDown(d) PROVE KInv'
<1> DEFINE sent == Up(client.addr, client.my_id, client.oppsite_id)
<1>1. sent.type = "up" /\ sent.id1 = client.my_id /\ sent.id2 = client.oppsite_id
  BY Zenon DEF Up
<1>2. /\ net' = net \cup {sent}
      /\ client.state \in {"Handshake2", "Ready"}
      /\ UNCHANGED <<vars, raw_mode, next_id, dead, oppsite_id, established>>
  BY Zenon DEF RecvDown
<1> HIDE DEF sent
<1>3. /\ client'.state = "Ready" /\ client'.addr = client.addr
      /\ client'.my_id = client.my_id /\ client'.const_id = client.const_id
      /\ client'.oppsite_id = client.oppsite_id
  BY Zenon DEF RecvDown, SInv, ClientTyped, ClientRecord
<1>4. /\ client.my_id \in Nat /\ client.my_id # NoId /\ next_id \in 1 .. MaxId
      /\ client.const_id \in ConstId \ dead /\ dead \subseteq ConstId
      /\ client.oppsite_id \in 0 .. MaxGeneration /\ client.oppsite_id \in Nat
  BY Zenon, <1>2 DEF KInv, SessionTypeOK, SInv, ClientTyped, ClientRecord
<1>5. SessionTypeOK' /\ PacketIds'
  <2>1. next_id <= next_id'
    BY <1>2, <1>4
  <2>2. \A m \in net' \ net : /\ m.id1 \in Nat /\ m.id2 \in Nat /\ m.type # "reply"
                              /\ m.type = "handshake" => m.id2 < next_generation
    BY Zenon, <1>1, <1>2, <1>4
  <2>3. (client'.my_id = NoId) = (client'.state = "Idle" /\ ~client'.selected)
    BY Zenon, <1>3, <1>4
  <2> QED BY Zenon, <1>2, <1>3, <1>4, <2>1, <2>2, <2>3, ClientStepTyped
<1>6. Mine'
  BY ZenonT(60), <1>1, <1>2, <1>3 DEF KInv, Mine
<1>7. Addresses' /\ Ages'
  BY Zenon, <1>1, <1>2, ConnectionsKept
<1>8. Newer'
  BY Zenon, <1>1, <1>2, <1>3, NewerKept
<1> QED BY Zenon, <1>5, <1>6, <1>7, <1>8 DEF KInv

\* Without an id of its own the client has no packets under way.
LEMMA EndK == ASSUME SInv, SInv', KInv, EndSession \/ Restart PROVE KInv'
<1>1. /\ client'.state = "Idle" /\ client'.my_id = NoId /\ ~client'.selected
      /\ UNCHANGED <<vars, raw_mode, next_id, oppsite_id, established, net>>
      /\ client'.oppsite_id \in {client.oppsite_id, NoId}
  <2>1. CASE EndSession
    BY Zenon, <2>1 DEF EndSession, GoIdle, SInv, ClientTyped, ClientRecord
  <2>2. CASE Restart
    BY <2>2 DEF Restart, IdleClient
  <2> QED BY Zenon, <2>1, <2>2
<1>2. client'.const_id \in ConstId \ dead' /\ dead' \subseteq ConstId
  <2>1. CASE EndSession
    BY Zenon, <2>1 DEF EndSession, GoIdle, SInv, ClientTyped, ClientRecord, KInv, SessionTypeOK
  <2>2. CASE Restart
    BY <2>2 DEF Restart, IdleClient, KInv, SessionTypeOK
  <2> QED BY Zenon, <2>1, <2>2
<1>3. SessionTypeOK' /\ PacketIds'
  <2>1. next_id' \in 1 .. MaxId /\ next_id <= next_id'
    BY <1>1 DEF KInv, SessionTypeOK
  <2>2. client'.oppsite_id \in 0 .. MaxGeneration
    BY <1>1, ServerAssumption DEF KInv, SessionTypeOK, NoId
  <2> QED BY Zenon, <1>1, <1>2, <2>1, <2>2, ClientStepTyped
<1>4. Mine'
  <2>1. \A m \in net : /\ m.type = "handshake" => m.id1 # NoId
                       /\ m.type = "reply" => m.id2 # NoId
    BY Zenon DEF SInv, Handshakes, KInv, PacketIds
  <2> QED BY Zenon, <1>1, <2>1 DEF Mine
<1>5. Addresses' /\ Ages'
  BY Zenon, <1>1, ConnectionsKept
<1>6. Newer'
  BY Zenon, <1>1 DEF Newer
<1> QED BY Zenon, <1>3, <1>4, <1>5, <1>6 DEF KInv

-----------------------------------------------------------------------------
(* The same invariant under the steps of the server.                       *)

\* A step of the server leaves the client alone.  Its answers name ids that were
\* handed out, and go where the handshake they answer came from.
LEMMA ClientKept ==
  ASSUME SInv, SInv', KInv, UNCHANGED clientVars, net \subseteq net',
         next_generation <= next_generation',
         oppsite_id' \in [1 .. MaxGeneration -> 0 .. MaxId],
         \A m \in net' \ net :
           /\ m.type # "handshake" /\ m.id1 \in Nat /\ m.id2 \in Nat
           /\ m.type = "reply" =>
                /\ m.id1 < next_generation' /\ m.id1 \in 1 .. MaxGeneration
                /\ \E h \in net : /\ h.type = "handshake"
                                  /\ m.id2 = h.id1 /\ m.addr = h.addr
  PROVE  SessionTypeOK' /\ PacketIds' /\ Mine'
<1>1. UNCHANGED <<raw_mode, client, next_id, dead>>
  BY Zenon DEF clientVars
<1>2. PacketIds'
  <2> SUFFICES ASSUME NEW m \in net'
               PROVE  /\ m.id1 \in Nat /\ m.id2 \in Nat
                      /\ m.type = "reply" =>
                           m.id1 < next_generation' /\ m.id1 \in 1 .. MaxGeneration
                           /\ m.id2 < next_id' /\ m.id2 # NoId
                      /\ m.type = "handshake" => m.id2 < next_generation'
    BY Zenon DEF PacketIds
  <2>1. CASE m \in net
    <3>1. next_generation \in Nat /\ next_generation' \in Nat
      BY Zenon DEF SInv, SessionIds
    <3> QED BY <2>1, <1>1, <3>1 DEF KInv, PacketIds
  <2>2. CASE m \notin net
    BY <2>2, <1>1 DEF SInv, Handshakes
  <2> QED BY Zenon, <2>1, <2>2
<1>3. Mine'
  <2>1. \A m \in net' : m.type = "handshake" => m \in net
    BY Zenon
  <2>2. ASSUME NEW m \in net', m.type = "reply", m.id2 = client.my_id
        PROVE  client.state # "Idle" /\ m.addr = client.addr
    BY <2>2 DEF KInv, Mine
  <2> QED BY Zenon, <1>1, <2>1, <2>2 DEF KInv, Mine
<1>4. \A m \in net' : m.addr \in Addr /\ m.id1 \in Nat /\ m.id2 \in Nat
  BY Zenon, <1>2 DEF PacketIds, SInv, Handshakes
<1>5. \A e \in established' : e.const_id \in ConstId
  <2> SUFFICES ASSUME NEW e \in established' PROVE e.const_id \in ConstId
    BY Zenon
  <2>1. PICK a \in Addr : Handshake(a, e.cid, e.sid, e.const_id) \in net'
    BY Zenon DEF SInv, Agreement
  <2> DEFINE h == Handshake(a, e.cid, e.sid, e.const_id)
  <2>2. h.type = "handshake" /\ h.const_id = e.const_id
    BY Zenon DEF Handshake
  <2> QED BY Zenon, <2>1, <2>2 DEF SInv, Handshakes
<1> QED BY Zenon, <1>1, <1>2, <1>3, <1>4, <1>5 DEF KInv, SessionTypeOK

\* What the network says about the connections is kept by a steady step that sends no
\* handshake packet.
LEMMA SteadyK ==
  ASSUME SInv, KInv, Steady, UNCHANGED clientVars, net \subseteq net',
         now' \in Nat, now <= now',
         \A m \in net' \ net : m.type \notin {"handshake", "reply"}
  PROVE  Addresses' /\ Ages' /\ Newer'
<1>1. UNCHANGED client
  BY Zenon DEF clientVars
<1>2. Addresses'
  <2>1. ASSUME NEW t \in Live', conns'[t].state # "Idle", NEW m \in net',
               m.type = "reply", m.id1 = conns'[t].my_id
        PROVE  m.addr = conns'[t].addr
    BY <2>1 DEF KInv, Addresses, Steady
  <2>2. ASSUME NEW t \in Live', conns'[t].state = "Handshake1"
        PROVE  \E m \in net' : m.type = "handshake" /\ m.addr = conns'[t].addr
    BY <2>2 DEF KInv, Addresses, Steady
  <2> QED BY Zenon, <2>1, <2>2 DEF Addresses
<1>3. Ages'
  <2>1. \A t \in Live : conns[t].last_state_time \in Nat
    BY Zenon DEF SInv, IInv, TypeOK, ConnRecord, Live
  <2>2. now \in Nat
    BY Zenon DEF SInv, IInv, TypeOK
  <2>3. \A t \in Live' : conns'[t].last_state_time <= now'
    BY <2>1, <2>2 DEF KInv, Ages, Steady
  <2>4. \A s, t \in Live' : conns'[s].my_id < conns'[t].my_id =>
          conns'[s].last_state_time <= conns'[t].last_state_time
    BY Zenon DEF KInv, Ages, Steady
  <2> QED BY Zenon, <2>3, <2>4 DEF Ages
<1>4. Newer'
  <2>1. FreshPort' => FreshPort
    BY Zenon, <1>1 DEF FreshPort
  <2>2. OldSeconds' = OldSeconds
    BY Zenon, <1>1 DEF OldSeconds
  <2> SUFFICES ASSUME client.state # "Idle", FreshPort, NEW o \in OldSeconds
               PROVE  /\ \A t \in Live' :
                           conns'[t].state = "Handshake1" /\ conns'[t].addr = client.addr =>
                             o.id2 < conns'[t].my_id
                      /\ \A m \in net' : m.type = "reply" /\ m.id2 = client.my_id =>
                           o.id2 < m.id1
    BY Zenon, <1>1, <2>1, <2>2 DEF Newer
  <2> QED BY Zenon DEF KInv, Newer, Steady
<1> QED BY Zenon, <1>2, <1>3, <1>4

\* The steps that answer no handshake.
LEMMA QuietK ==
  ASSUME SInv, SInv', KInv, UNCHANGED clientVars,
         \/ \E m \in net : ServerSyn(m) \/ ServerRawReady(m)
         \/ \E j \in jobs : ServerDone(j)
         \/ ServerOther
  PROVE  KInv'
<1>1. SUFFICES Steady /\ UNCHANGED oppsite_id /\ net \subseteq net' /\ now <= now'
               /\ \A m \in net' \ net : /\ m.type \notin {"handshake", "reply"}
                                        /\ m.id1 \in Nat /\ m.id2 \in Nat
  <2>1. next_generation <= next_generation' /\ now' \in Nat
    <3>1. next_generation \in Nat /\ now' \in Nat
      BY Zenon DEF SInv, IInv, TypeOK
    <3>2. next_generation' = next_generation
      BY Zenon, <1>1 DEF Steady
    <3> QED BY Zenon, <3>1, <3>2, Ordered
  <2>2. oppsite_id' \in [1 .. MaxGeneration -> 0 .. MaxId]
    BY Zenon, <1>1 DEF KInv, SessionTypeOK
  <2>3. SessionTypeOK' /\ PacketIds' /\ Mine'
    BY Zenon, <1>1, <2>1, <2>2, ClientKept
  <2>4. Addresses' /\ Ages' /\ Newer'
    BY Zenon, <1>1, <2>1, SteadyK
  <2> QED BY Zenon, <2>3, <2>4 DEF KInv
<1>2. now \in Nat
  BY Zenon DEF SInv, IInv, TypeOK
<1>3. CASE \E m \in net : ServerSyn(m)
  <2>1. PICK m \in net : ServerSyn(m)
    BY Zenon, <1>3
  <2>2. Steady /\ UNCHANGED <<now, oppsite_id>> /\ net' = net \cup {SynAck(m.addr, m.id1)}
    BY Zenon, <2>1, UnchangedSteady DEF ServerSyn, vars, tables
  <2>3. m.id1 \in Nat
    BY Zenon DEF KInv, PacketIds
  <2> QED BY <1>2, <2>2, <2>3 DEF SynAck, NoId
<1>4. CASE \E m \in net : ServerRawReady(m)
  <2>1. Steady /\ UNCHANGED <<now, oppsite_id, net>>
    BY Zenon, <1>4, UnchangedSteady DEF ServerRawReady, RawReady, tables
  <2> QED BY <1>2, <2>1
<1>5. CASE \E j \in jobs : ServerDone(j)
  <2>1. PICK j \in jobs : ServerDone(j)
    BY Zenon, <1>5
  <2>2. Steady /\ UNCHANGED <<now, oppsite_id>>
    BY Zenon, <2>1, DoneSteady DEF ServerDone, SInv, DoneIgnored, DoneHeartbeat, DoneData
  <2>3. net \subseteq net' /\ \A x \in net' \ net :
          /\ j.op = "Encrypt" /\ valid_ready(j)
          /\ x = Down(conns[j.slot].addr, j.my_id, oppsite_id[j.my_id])
    BY Zenon, <2>1 DEF ServerDone
  <2>4. ASSUME j.op = "Encrypt", valid_ready(j)
        PROVE  j.my_id \in Nat /\ oppsite_id[j.my_id] \in Nat
    <3>1. j.slot \in Live /\ conns[j.slot].my_id = j.my_id
      BY Zenon, <2>4, JobsFollow DEF SInv, IInv, JobsReachTheirSession, valid_ready
    <3> QED BY <3>1, ServerAssumption DEF SInv, SessionIds
  <2> QED BY <1>2, <2>2, <2>3, <2>4 DEF Down
<1>6. CASE ServerOther
  <2>1. Steady /\ UNCHANGED <<oppsite_id, net>>
    BY Zenon, <1>6, OtherSteady DEF ServerOther, SInv
  <2>2. now' = now \/ now' = now + 1
    BY Zenon, <1>6 DEF ServerOther, OnTimer, Tick, SockReadable
  <2> QED BY <1>2, <2>1, <2>2
<1> QED BY Zenon, <1>3, <1>4, <1>5, <1>6

\* A new connection has the newest id and the latest start, and the answer carries the
\* id back to where the handshake came from.
LEMMA HandshakeNewK ==
  ASSUME SInv, SInv', KInv, UNCHANGED clientVars, NEW h \in net, ServerHandshakeNew(h)
  PROVE  KInv'
<1> DEFINE g == next_generation  r == Reply(h.addr, g, h.id1)
<1>1. /\ h.type = "handshake" /\ g < MaxGeneration /\ next_generation' = g + 1
      /\ net' = net \cup {r} /\ UNCHANGED <<now, oppsite_id>>
  BY Zenon DEF ServerHandshakeNew, HandshakeNew
<1>2. PICK s \in 0 .. conns_len : Alloc(s) /\ conns' = Bind(conns, s, NewConn(h.addr))
  BY Zenon DEF ServerHandshakeNew, HandshakeNew
<1>3. /\ g \in Nat \ {0} /\ now \in Nat /\ UNCHANGED client /\ h.id1 \in Nat
      /\ \A t \in Live : conns[t].my_id < g /\ conns[t].my_id \in Nat
                         /\ conns[t].last_state_time \in Nat
  BY Zenon, <1>1 DEF SInv, SessionIds, IInv, TypeOK, ConnRecord, Live, clientVars, Handshakes
<1>4. r.type = "reply" /\ r.addr = h.addr /\ r.id1 = g /\ r.id2 = h.id1
  BY Zenon DEF Reply
<1>5. s \notin Live
  BY Zenon, <1>2, AllocFresh DEF SInv
<1>6. /\ Live' = Live \cup {s} /\ \A t \in Live : conns'[t] = conns[t]
      /\ conns'[s] = NewConn(h.addr)
  BY Zenon, <1>2, <1>5 DEF Bind, Live
<1>7. /\ conns'[s].state = "Handshake1" /\ conns'[s].addr = h.addr
      /\ conns'[s].my_id = g /\ conns'[s].last_state_time = now
  <2> DEFINE n == NewConn(h.addr)
  <2>1. /\ n.state = "Handshake1" /\ n.addr = h.addr
        /\ n.my_id = next_generation /\ n.last_state_time = now
    BY Zenon DEF NewConn
  <2>2. conns'[s] = n
    BY Zenon, <1>6
  <2> HIDE DEF n
  <2> QED BY Zenon, <2>1, <2>2
<1> HIDE DEF r
<1>8. SessionTypeOK' /\ PacketIds' /\ Mine'
  <2>1. g \in 1 .. MaxGeneration /\ g < next_generation' /\ g <= next_generation'
    BY <1>1, <1>3, ServerAssumption
  <2>2. oppsite_id' \in [1 .. MaxGeneration -> 0 .. MaxId]
    BY Zenon, <1>1 DEF KInv, SessionTypeOK
  <2> QED BY Zenon, <1>1, <1>3, <1>4, <2>1, <2>2, ClientKept
<1>9. Addresses'
  <2>1. ASSUME NEW t \in Live', conns'[t].state # "Idle", NEW m \in net',
               m.type = "reply", m.id1 = conns'[t].my_id
        PROVE  m.addr = conns'[t].addr
    <3>1. \A x \in net : x.type = "reply" => x.id1 < g /\ x.id1 \in Nat
      BY Zenon DEF KInv, PacketIds
    <3>2. CASE t = s
      <4>1. m.id1 = g /\ conns'[t].addr = h.addr
        BY Zenon, <2>1, <3>2, <1>7
      <4>2. m \notin net
        BY Zenon, <2>1, <3>1, <4>1, Ordered
      <4>3. m = r
        BY Zenon, <4>2, <1>1
      <4> QED BY Zenon, <4>1, <4>3, <1>4
    <3>3. CASE t # s
      <4>1. t \in Live /\ conns'[t] = conns[t]
        BY Zenon, <3>3, <1>6
      <4>2. m # r
        BY Zenon, <2>1, <4>1, <1>3, <1>4, Ordered
      <4> QED BY Zenon, <2>1, <4>1, <4>2, <1>1 DEF KInv, Addresses
    <3> QED BY Zenon, <3>2, <3>3
  <2>2. ASSUME NEW t \in Live', conns'[t].state = "Handshake1"
        PROVE  \E m \in net' : m.type = "handshake" /\ m.addr = conns'[t].addr
    <3>1. CASE t = s
      BY Zenon, <3>1, <1>1, <1>7
    <3>2. CASE t # s
      <4>1. t \in Live /\ conns'[t] = conns[t]
        BY Zenon, <3>2, <1>6
      <4> QED BY ZenonT(60), <2>2, <4>1, <1>1 DEF KInv, Addresses
    <3> QED BY Zenon, <3>1, <3>2
  <2> QED BY Zenon, <2>1, <2>2 DEF Addresses
<1>10. Ages'
  <2>1. \A t \in Live' : conns'[t].last_state_time <= now'
    BY Zenon, <1>1, <1>3, <1>6, <1>7, Ordered DEF KInv, Ages
  <2>2. ASSUME NEW t \in Live', NEW u \in Live', conns'[t].my_id < conns'[u].my_id
        PROVE  conns'[t].last_state_time <= conns'[u].last_state_time
    <3>1. t # s
      BY Zenon, <2>2, <1>3, <1>6, <1>7, Ordered
    <3>2. CASE u = s
      BY Zenon, <3>1, <3>2, <1>3, <1>6, <1>7 DEF KInv, Ages
    <3>3. CASE u # s
      BY Zenon, <2>2, <3>1, <3>3, <1>6 DEF KInv, Ages
    <3> QED BY Zenon, <3>2, <3>3
  <2> QED BY Zenon, <2>1, <2>2 DEF Ages
<1>11. Newer'
  <2>1. FreshPort' => FreshPort
    BY Zenon, <1>1, <1>3 DEF FreshPort
  <2>2. OldSeconds' = OldSeconds
    BY Zenon, <1>1, <1>3, <1>4 DEF OldSeconds
  <2> SUFFICES ASSUME client.state # "Idle", FreshPort, NEW o \in OldSeconds
               PROVE  /\ \A t \in Live' :
                           conns'[t].state = "Handshake1" /\ conns'[t].addr = client.addr =>
                             o.id2 < conns'[t].my_id
                      /\ \A m \in net' : m.type = "reply" /\ m.id2 = client.my_id =>
                           o.id2 < m.id1
    BY Zenon, <1>3, <2>1, <2>2 DEF Newer
  <2>3. o.id2 < g
    BY Zenon DEF OldSeconds, KInv, PacketIds
  <2> QED BY Zenon, <2>3, <1>1, <1>4, <1>6, <1>7 DEF KInv, Newer
<1> QED BY Zenon, <1>8, <1>9, <1>10, <1>11 DEF KInv

\* A repeated handshake is answered with the id of the connection that has its address.
LEMMA HandshakeAgainK ==
  ASSUME SInv, SInv', KInv, UNCHANGED clientVars, NEW h \in net, ServerHandshakeAgain(h)
  PROVE  KInv'
<1> DEFINE s == by_addr[h.addr]  r == Reply(h.addr, conns[s].my_id, h.id1)
<1>1. /\ h.type = "handshake" /\ h.addr \in DOMAIN by_addr /\ conns[s].state = "Handshake1"
      /\ net' = net \cup {r} /\ UNCHANGED <<vars, oppsite_id>>
  BY Zenon DEF ServerHandshakeAgain
<1>2. s \in Live /\ conns[s].addr = h.addr
  BY Zenon, <1>1 DEF SInv, IInv, Tables, AddrTableExact
<1>3. r.type = "reply" /\ r.addr = h.addr /\ r.id1 = conns[s].my_id /\ r.id2 = h.id1
  BY Zenon DEF Reply
<1> HIDE DEF r, s
<1>4. UNCHANGED <<conns, now, next_generation>> /\ UNCHANGED client
  BY Zenon, <1>1 DEF vars, tables, clientVars
<1>5. /\ next_generation \in Nat /\ h.id1 \in Nat
      /\ conns[s].my_id \in 1 .. MaxGeneration /\ conns[s].my_id < next_generation
  BY Zenon, <1>1, <1>2 DEF SInv, SessionIds, Handshakes
<1>6. SessionTypeOK' /\ PacketIds' /\ Mine'
  <2>1. next_generation <= next_generation' /\ conns[s].my_id \in Nat
        /\ conns[s].my_id < next_generation'
    BY <1>4, <1>5, ServerAssumption
  <2>2. oppsite_id' \in [1 .. MaxGeneration -> 0 .. MaxId]
    BY Zenon, <1>1 DEF KInv, SessionTypeOK
  <2> QED BY Zenon, <1>1, <1>3, <1>5, <2>1, <2>2, ClientKept
<1>7. Addresses'
  <2>1. ASSUME NEW t \in Live, conns[t].state # "Idle", conns[s].my_id = conns[t].my_id
        PROVE  t = s
    BY Zenon, <2>1, <1>1, <1>2 DEF SInv, SessionIds
  <2>2. ASSUME NEW t \in Live', conns'[t].state # "Idle", NEW m \in net',
               m.type = "reply", m.id1 = conns'[t].my_id
        PROVE  m.addr = conns'[t].addr
    <3>1. t \in Live /\ conns'[t] = conns[t]
      BY Zenon, <1>4 DEF Live
    <3>2. CASE m \in net
      BY ZenonT(60), <2>2, <3>1, <3>2 DEF KInv, Addresses
    <3>3. CASE m = r
      BY Zenon, <2>1, <2>2, <3>1, <3>3, <1>2, <1>3
    <3> QED BY Zenon, <3>2, <3>3, <1>1
  <2>3. ASSUME NEW t \in Live', conns'[t].state = "Handshake1"
        PROVE  \E m \in net' : m.type = "handshake" /\ m.addr = conns'[t].addr
    BY Zenon, <2>3, <1>1, <1>4 DEF KInv, Addresses, Live
  <2> QED BY Zenon, <2>2, <2>3 DEF Addresses
<1>8. Ages'
  BY Zenon, <1>4 DEF KInv, Ages, Live
<1>9. Newer'
  <2>1. FreshPort' => FreshPort
    BY Zenon, <1>1, <1>4 DEF FreshPort
  <2>2. OldSeconds' = OldSeconds
    BY Zenon, <1>1, <1>3, <1>4 DEF OldSeconds
  <2> SUFFICES ASSUME client.state # "Idle", FreshPort, NEW o \in OldSeconds
               PROVE  /\ \A t \in Live :
                           conns[t].state = "Handshake1" /\ conns[t].addr = client.addr =>
                             o.id2 < conns[t].my_id
                      /\ \A m \in net' : m.type = "reply" /\ m.id2 = client.my_id =>
                           o.id2 < m.id1
    BY Zenon, <1>4, <2>1, <2>2 DEF Newer, Live
  <2>3. \A t \in Live : conns[t].state = "Handshake1" /\ conns[t].addr = client.addr =>
          o.id2 < conns[t].my_id
    BY Zenon DEF KInv, Newer
  <2>4. ASSUME h.id1 = client.my_id PROVE o.id2 < conns[s].my_id
    BY Zenon, <2>3, <2>4, <1>1, <1>2 DEF KInv, Mine
  <2> QED BY Zenon, <2>3, <2>4, <1>1, <1>3 DEF KInv, Newer
<1> QED BY Zenon, <1>6, <1>7, <1>8, <1>9 DEF KInv

\* What pre_ready does to ids, addresses and ages: it moves them between connections and
\* makes none.
LEMMA Handshake2Moves ==
  ASSUME SInv, NEW h \in net, ServerHandshake2(h)
  PROVE  /\ Live' = Live
         /\ \A t \in Live : \E u \in Live :
              /\ conns'[t].my_id = conns[u].my_id
              /\ conns'[t].last_state_time = conns[u].last_state_time
         /\ \A t \in Live : conns'[t].state # "Idle" =>
              \E u \in Live : /\ conns[u].state # "Idle"
                              /\ conns'[t].my_id = conns[u].my_id
                              /\ conns'[t].addr = conns[u].addr
         /\ \A t \in Live : conns'[t].state = "Handshake1" => conns'[t] = conns[t]
<1> DEFINE s == by_addr[h.addr]  c == h.const_id
<1>1. /\ s \in Live /\ conns[s].state = "Handshake1" /\ conns[s] \in ConnRecord
      /\ BecomeReady(s, c) \/ Refuse(s, c) \/ Recover(s, c)
  BY Zenon DEF ServerHandshake2, Handshake2, SInv, IInv, Tables, AddrTableExact, TypeOK, Live
<1> HIDE DEF s
<1>2. CASE BecomeReady(s, c)
  <2> DEFINE d == [conns[s] EXCEPT !.state = "Ready", !.const_id = c,
                                   !.last_hb_recv = now, !.last_hb_sent = now]
  <2>1. conns' = [conns EXCEPT ![s] = d]
    BY Zenon, <1>2 DEF BecomeReady
  <2>2. d.state = "Ready" /\ d.my_id = conns[s].my_id /\ d.addr = conns[s].addr
        /\ d.last_state_time = conns[s].last_state_time
    BY Zenon, <1>1 DEF ConnRecord
  <2> HIDE DEF d
  <2>3. Live' = Live /\ conns'[s] = d /\ \A t \in Live \ {s} : conns'[t] = conns[t]
    BY Zenon, <2>1, <1>1 DEF Live
  <2> QED BY Zenon, <2>2, <2>3, <1>1
<1>3. CASE Refuse(s, c)
  <2> DEFINE d == [conns[s] EXCEPT !.state = "Idle"]
  <2>1. conns' = [conns EXCEPT ![s] = d]
    BY Zenon, <1>3 DEF Refuse
  <2>2. d.state = "Idle" /\ d.my_id = conns[s].my_id
        /\ d.last_state_time = conns[s].last_state_time
    BY Zenon, <1>1 DEF ConnRecord
  <2> HIDE DEF d
  <2>3. Live' = Live /\ conns'[s] = d /\ \A t \in Live \ {s} : conns'[t] = conns[t]
    BY Zenon, <2>1, <1>1 DEF Live
  <2> QED BY Zenon, <2>2, <2>3, <1>1
<1>4. CASE Recover(s, c)
  <2> DEFINE ori == by_const_id[c]
             i == [conns[s] EXCEPT !.addr = conns[ori].addr, !.state = "Idle"]
             r == Recovered(conns[ori], conns[s])
  <2>1. conns' = [conns EXCEPT ![s] = i, ![ori] = r] /\ c \in DOMAIN by_const_id
    BY Zenon, <1>4 DEF Recover
  <2>2. ori \in Live /\ ori # s /\ conns[ori] \in ConnRecord
    BY Zenon, <2>1, <1>1 DEF SInv, IInv, Tables, ConstIdTableExact, TypeOK, Live, Ready
  <2>3. i.state = "Idle" /\ i.my_id = conns[s].my_id
        /\ i.last_state_time = conns[s].last_state_time
    BY Zenon, <1>1 DEF ConnRecord
  <2>4. /\ r.state = conns[ori].state /\ r.my_id = conns[s].my_id /\ r.addr = conns[s].addr
        /\ r.last_state_time = conns[s].last_state_time
    BY Zenon, <2>2 DEF ConnRecord, Recovered
  <2>5. conns[ori].state = "Ready"
    BY Zenon, <2>1 DEF SInv, IInv, Tables, ConstIdTableExact, Ready
  <2> HIDE DEF i, r, ori
  <2>6. /\ Live' = Live /\ conns'[s] = i /\ conns'[ori] = r
        /\ \A t \in Live \ {s, ori} : conns'[t] = conns[t]
    BY Zenon, <2>1, <2>2, <1>1 DEF Live
  <2> QED BY ZenonT(60), <2>3, <2>4, <2>5, <2>6, <1>1
<1> QED BY Zenon, <1>1, <1>2, <1>3, <1>4

\* So the second handshake packet keeps the invariant.
LEMMA Handshake2K ==
  ASSUME SInv, SInv', KInv, UNCHANGED clientVars, NEW h \in net, ServerHandshake2(h)
  PROVE  KInv'
<1>1. /\ Live' = Live
      /\ \A t \in Live : \E u \in Live :
           /\ conns'[t].my_id = conns[u].my_id
           /\ conns'[t].last_state_time = conns[u].last_state_time
      /\ \A t \in Live : conns'[t].state # "Idle" =>
           \E u \in Live : /\ conns[u].state # "Idle"
                           /\ conns'[t].my_id = conns[u].my_id
                           /\ conns'[t].addr = conns[u].addr
      /\ \A t \in Live : conns'[t].state = "Handshake1" => conns'[t] = conns[t]
  BY Zenon, Handshake2Moves
<1>2. /\ h.type = "handshake" /\ oppsite_id' = [oppsite_id EXCEPT ![h.id2] = h.id1]
      /\ UNCHANGED <<net, now>>
      /\ next_generation' = next_generation \/ next_generation' = next_generation + 1
  BY Zenon DEF ServerHandshake2, Handshake2, BecomeReady, Refuse, Recover
<1>3. UNCHANGED client /\ next_generation \in Nat
  BY Zenon DEF clientVars, SInv, SessionIds
<1>4. SessionTypeOK' /\ PacketIds' /\ Mine'
  <2>1. h.id1 \in 0 .. MaxId
    <3>1. next_id \in 1 .. MaxId
      BY Zenon DEF KInv, SessionTypeOK
    <3>2. h.id1 \in Nat /\ h.id1 < next_id
      BY Zenon, <1>2 DEF SInv, Handshakes
    <3> QED BY <3>1, <3>2, SessionAssumption
  <2>2. oppsite_id' \in [1 .. MaxGeneration -> 0 .. MaxId]
    <3> DEFINE ids == 0 .. MaxId  sids == 1 .. MaxGeneration
    <3>1. oppsite_id \in [sids -> ids] /\ h.id1 \in ids
      BY Zenon, <2>1 DEF KInv, SessionTypeOK
    <3> HIDE DEF ids, sids
    <3>2. \A x, v : v \in ids => [oppsite_id EXCEPT ![x] = v] \in [sids -> ids]
      BY Zenon, <3>1
    <3> QED BY Zenon, <3>1, <3>2, <1>2 DEF ids, sids
  <2>3. next_generation <= next_generation'
    BY <1>2, <1>3
  <2> QED BY Zenon, <1>2, <2>2, <2>3, ClientKept
<1>5. Addresses'
  <2>1. ASSUME NEW t \in Live', conns'[t].state # "Idle", NEW m \in net',
               m.type = "reply", m.id1 = conns'[t].my_id
        PROVE  m.addr = conns'[t].addr
    <3>1. PICK u \in Live : /\ conns[u].state # "Idle"
                            /\ conns'[t].my_id = conns[u].my_id
                            /\ conns'[t].addr = conns[u].addr
      BY Zenon, <2>1, <1>1
    <3> QED BY ZenonT(60), <3>1, <2>1, <1>2 DEF KInv, Addresses
  <2>2. ASSUME NEW t \in Live', conns'[t].state = "Handshake1"
        PROVE  \E m \in net' : m.type = "handshake" /\ m.addr = conns'[t].addr
    <3>1. t \in Live /\ conns'[t] = conns[t] /\ net' = net
      BY Zenon, <2>2, <1>1, <1>2
    <3> QED BY Zenon, <2>2, <3>1 DEF KInv, Addresses
  <2> QED BY Zenon, <2>1, <2>2 DEF Addresses
<1>6. Ages'
  <2>1. \A t \in Live' : conns'[t].last_state_time <= now'
    BY Zenon, <1>1, <1>2 DEF KInv, Ages
  <2>2. ASSUME NEW t \in Live', NEW u \in Live', conns'[t].my_id < conns'[u].my_id
        PROVE  conns'[t].last_state_time <= conns'[u].last_state_time
    <3>1. PICK x \in Live : /\ conns'[t].my_id = conns[x].my_id
                            /\ conns'[t].last_state_time = conns[x].last_state_time
      BY Zenon, <1>1
    <3>2. PICK y \in Live : /\ conns'[u].my_id = conns[y].my_id
                            /\ conns'[u].last_state_time = conns[y].last_state_time
      BY Zenon, <1>1
    <3> QED BY Zenon, <2>2, <3>1, <3>2 DEF KInv, Ages
  <2> QED BY Zenon, <2>1, <2>2 DEF Ages
<1>7. Newer'
  <2>1. (FreshPort' => FreshPort) /\ OldSeconds' = OldSeconds
    BY Zenon, <1>2, <1>3 DEF FreshPort, OldSeconds
  <2> SUFFICES ASSUME client.state # "Idle", FreshPort, NEW o \in OldSeconds
               PROVE  /\ \A t \in Live' :
                           conns'[t].state = "Handshake1" /\ conns'[t].addr = client.addr =>
                             o.id2 < conns'[t].my_id
                      /\ \A m \in net' : m.type = "reply" /\ m.id2 = client.my_id =>
                           o.id2 < m.id1
    BY Zenon, <1>3, <2>1 DEF Newer
  <2> QED BY ZenonT(60), <1>1, <1>2 DEF KInv, Newer
<1> QED BY Zenon, <1>4, <1>5, <1>6, <1>7 DEF KInv

\* Every step of the composition keeps the packets in order.
LEMMA SessionNextK == SInv /\ SInv' /\ KInv /\ [SessionNext]_SessionVars => KInv'
<1> SUFFICES ASSUME SInv, SInv', KInv, [SessionNext]_SessionVars PROVE KInv'
  BY Zenon
<1>1. CASE ClientNext
  BY Zenon, <1>1, AttemptK, RecvSynAckK, RecvReplyK, RecvDownK, EndK DEF ClientNext
<1>2. CASE ServerNext
  BY Zenon, <1>2, QuietK, HandshakeNewK, HandshakeAgainK, Handshake2K DEF ServerNext
<1>3. CASE UNCHANGED SessionVars
  <2>1. UNCHANGED <<conns, now, next_generation>>
        /\ UNCHANGED <<raw_mode, client, next_id, dead, oppsite_id, net, established>>
    BY Zenon, <1>3 DEF SessionVars, clientVars, vars, tables
  <2>2. SessionTypeOK' /\ PacketIds'
    BY Zenon, <2>1 DEF KInv, SessionTypeOK, PacketIds
  <2>3. Mine' /\ Addresses' /\ Ages'
    BY ZenonT(60), <2>1 DEF KInv, Mine, Addresses, Ages, Live
  <2>4. Newer'
    BY Zenon, <2>1 DEF KInv, Newer, Live, FreshPort, OldSeconds
  <2> QED BY Zenon, <2>2, <2>3, <2>4 DEF KInv
<1> QED BY Zenon, <1>1, <1>2, <1>3 DEF SessionNext

-----------------------------------------------------------------------------
(* A Ready client keeps its session.                                       *)

\* A late second handshake packet of client c finds the connection s.  If the client is
\* Ready on c's present session, s began no later: the packet is not of the present
\* attempt, and the present attempt has a newer id or the very address of s.
LEMMA LateIsOlder ==
  ASSUME SInv, KInv, NEW h \in net, ServerHandshake2(h), NEW c \in DOMAIN by_const_id,
         client.state = "Ready", SessionOf(c) = client.oppsite_id, PortNotReused
  PROVE  conns[by_addr[h.addr]].last_state_time <= conns[by_const_id[c]].last_state_time
<1> DEFINE s == by_addr[h.addr]  ori == by_const_id[c]
<1>1. /\ s \in Live /\ conns[s].state = "Handshake1" /\ conns[s].addr = h.addr
      /\ conns[s].my_id = h.id2 /\ h.type = "handshake" /\ h.id2 # NoId
  BY Zenon DEF ServerHandshake2, Handshake2, SInv, IInv, Tables, AddrTableExact, Live
<1>2. /\ ori \in Live /\ conns[ori].state = "Ready" /\ conns[ori].my_id = client.oppsite_id
  BY Zenon DEF SInv, IInv, Tables, ConstIdTableExact, Ready, SessionOf
<1> HIDE DEF s, ori
<1>3. s # ori /\ conns[s].my_id # conns[ori].my_id
  BY Zenon, <1>1, <1>2 DEF SInv, SessionIds
<1>4. h.id1 # client.my_id
  BY Zenon, <1>1, <1>2, <1>3 DEF KInv, Mine
<1>5. PICK r \in net : /\ r.type = "reply" /\ r.id2 = client.my_id
                       /\ r.id1 = client.oppsite_id
  BY Zenon DEF KInv, Mine
<1>6. r.addr = client.addr /\ r.addr = conns[ori].addr
  <2>1. r.addr = client.addr
    BY Zenon, <1>5 DEF KInv, Mine
  <2>2. conns[ori].state # "Idle"
    BY Zenon, <1>2
  <2> QED BY Zenon, <2>1, <2>2, <1>2, <1>5 DEF KInv, Addresses
<1>7. h.addr # client.addr
  <2>1. SUFFICES ASSUME h.addr = client.addr PROVE s = ori
    BY ZenonT(60), <1>3
  <2>2. conns[s].addr = conns[ori].addr
    BY Zenon, <2>1, <1>1, <1>6
  <2>3. by_addr[conns[s].addr] = s /\ by_addr[conns[ori].addr] = ori
    BY Zenon, <1>1, <1>2 DEF SInv, IInv, Tables, AddrTableExact
  <2> QED BY Zenon, <2>2, <2>3
<1>8. FreshPort
  BY Zenon, <1>1, <1>4, <1>7 DEF PortNotReused, FreshPort
<1>9. h \in OldSeconds
  BY Zenon, <1>1, <1>4 DEF OldSeconds
<1>10. h.id2 < r.id1
  BY Zenon, <1>5, <1>8, <1>9 DEF KInv, Newer
<1> QED BY Zenon, <1>10, <1>1, <1>2, <1>5 DEF KInv, Ages, s, ori

\* A steady step keeps the session of every client it keeps.
LEMMA SteadySession ==
  ASSUME SInv, SInv', Steady, NEW c \in DOMAIN by_const_id, c \in DOMAIN by_const_id'
  PROVE  SessionOf(c)' = SessionOf(c)
<1> DEFINE t == by_const_id'[c]
<1>1. t \in Live' /\ conns'[t].state = "Ready" /\ conns'[t].const_id = c
  BY Zenon DEF SInv, IInv, Tables, ConstIdTableExact, Ready
<1>2. t \in Ready /\ conns[t].const_id = c /\ conns'[t].my_id = conns[t].my_id
  BY Zenon, <1>1 DEF Steady, Ready
<1>3. t = by_const_id[c]
  BY Zenon, <1>2 DEF SInv, IInv, Tables, ConstIdTableExact
<1> QED BY Zenon, <1>2, <1>3 DEF SessionOf

\* A new connection takes no other's slot.
LEMMA HandshakeNewSession ==
  ASSUME SInv, NEW h \in net, ServerHandshakeNew(h), NEW c \in DOMAIN by_const_id
  PROVE  SessionOf(c)' = SessionOf(c)
<1>1. PICK s \in 0 .. conns_len : Alloc(s) /\ conns' = Bind(conns, s, NewConn(h.addr))
  BY Zenon DEF ServerHandshakeNew, HandshakeNew
<1>2. s \notin Live /\ UNCHANGED by_const_id
  BY Zenon, <1>1, AllocFresh DEF SInv, ServerHandshakeNew, HandshakeNew
<1>3. by_const_id[c] \in Live
  BY Zenon DEF SInv, IInv, Tables, ConstIdTableExact, Ready
<1>4. conns'[by_const_id[c]] = conns[by_const_id[c]]
  BY Zenon, <1>1, <1>2, <1>3 DEF Bind, Live
<1> QED BY Zenon, <1>2, <1>4 DEF SessionOf

\* The second handshake packet changes the session of the client it names alone, and
\* gives its connection the age of the handshake.
LEMMA Handshake2Session ==
  ASSUME SInv, NEW h \in net, ServerHandshake2(h), NEW c \in DOMAIN by_const_id
  PROVE  /\ by_const_id'[c] = by_const_id[c]
         /\ \/ SessionOf(c)' = SessionOf(c)
            \/ /\ ~Older(by_addr[h.addr], by_const_id[c])
               /\ conns'[by_const_id[c]].last_state_time
                    = conns[by_addr[h.addr]].last_state_time
<1> DEFINE s == by_addr[h.addr]  d == h.const_id  ori == by_const_id[c]
<1>1. /\ s \in Live /\ conns[s].state = "Handshake1" /\ conns[s] \in ConnRecord
      /\ BecomeReady(s, d) \/ Refuse(s, d) \/ Recover(s, d)
  BY Zenon DEF ServerHandshake2, Handshake2, SInv, IInv, Tables, AddrTableExact, TypeOK, Live
<1>2. ori \in Live /\ conns[ori].state = "Ready" /\ conns[ori].const_id = c
      /\ conns[ori] \in ConnRecord
  BY Zenon DEF SInv, IInv, Tables, ConstIdTableExact, Ready, TypeOK, Live
<1>3. ori # s
  BY Zenon, <1>1, <1>2
<1> HIDE DEF s
<1>4. CASE BecomeReady(s, d)
  <2>1. c # d /\ by_const_id' = Bind(by_const_id, d, s)
    BY Zenon, <1>4 DEF BecomeReady
  <2>2. by_const_id'[c] = ori
    BY Zenon, <2>1 DEF Bind
  <2>3. conns'[ori] = conns[ori]
    BY Zenon, <1>2, <1>3, <1>4 DEF BecomeReady, Live
  <2> QED BY Zenon, <2>2, <2>3 DEF SessionOf
<1>5. CASE Refuse(s, d)
  <2>1. conns'[ori] = conns[ori] /\ by_const_id' = by_const_id
    BY Zenon, <1>2, <1>3, <1>5 DEF Refuse, Live
  <2> QED BY Zenon, <2>1 DEF SessionOf
<1>6. CASE Recover(s, d)
  <2> DEFINE o == by_const_id[d]
             i == [conns[s] EXCEPT !.addr = conns[o].addr, !.state = "Idle"]
             r == Recovered(conns[o], conns[s])
  <2>1. /\ conns' = [conns EXCEPT ![s] = i, ![o] = r] /\ d \in DOMAIN by_const_id
        /\ ~Older(s, o) /\ by_const_id' = by_const_id
    BY Zenon, <1>6 DEF Recover
  <2>2. o \in Live /\ conns[o].const_id = d /\ conns[o] \in ConnRecord
    BY Zenon, <2>1 DEF SInv, IInv, Tables, ConstIdTableExact, Ready, TypeOK, Live
  <2>3. r.last_state_time = conns[s].last_state_time
    BY Zenon, <2>2 DEF ConnRecord, Recovered
  <2>4. CASE c = d
    <3> HIDE DEF i, r
    <3>1. conns'[ori] = r /\ o = ori
      BY Zenon, <2>1, <2>2, <2>4 DEF Live
    <3> QED BY Zenon, <3>1, <2>1, <2>3 DEF s
  <2>5. CASE c # d
    <3>1. o # ori
      BY Zenon, <2>2, <2>5, <1>2
    <3> HIDE DEF i, r, o
    <3>2. conns'[ori] = conns[ori]
      BY Zenon, <2>1, <3>1, <1>2, <1>3 DEF Live
    <3> QED BY Zenon, <2>1, <3>2 DEF SessionOf
  <2> QED BY Zenon, <2>4, <2>5
<1> QED BY Zenon, <1>1, <1>4, <1>5, <1>6

\* The session of a Ready client over one step.
LEMMA ReadyKeptStep ==
  ASSUME SInv, SInv', KInv, [SessionNext]_SessionVars, NEW c \in DOMAIN by_const_id,
         client.state = "Ready", SessionOf(c) = client.oppsite_id, PortNotReused,
         c \in DOMAIN by_const_id'
  PROVE  \/ SessionOf(c)' = client.oppsite_id
         \/ conns'[by_const_id'[c]].last_state_time
              = conns[by_const_id[c]].last_state_time
<1>1. ASSUME UNCHANGED <<conns, by_const_id>> PROVE SessionOf(c)' = SessionOf(c)
  BY Zenon, <1>1 DEF SessionOf
<1>2. ASSUME UNCHANGED vars PROVE UNCHANGED <<conns, by_const_id>>
  BY Zenon, <1>2 DEF vars, tables
<1>3. CASE ClientNext \/ UNCHANGED SessionVars
  <2>1. UNCHANGED vars
    BY Zenon, <1>3 DEF ClientNext, Attempt, RecvSynAck, RecvReply, RecvDown, EndSession,
                       Restart, SessionVars
  <2> QED BY Zenon, <2>1, <1>1, <1>2
<1>4. CASE \E m \in net : ServerSyn(m) \/ ServerHandshakeAgain(m)
  <2>1. UNCHANGED vars
    BY Zenon, <1>4 DEF ServerSyn, ServerHandshakeAgain
  <2> QED BY Zenon, <2>1, <1>1, <1>2
<1>5. CASE \E m \in net : ServerRawReady(m)
  <2>1. UNCHANGED <<conns, by_const_id>>
    BY Zenon, <1>5 DEF ServerRawReady, RawReady, tables
  <2> QED BY Zenon, <2>1, <1>1
<1>6. CASE (\E j \in jobs : ServerDone(j)) \/ ServerOther
  <2>1. Steady
    BY Zenon, <1>6, DoneSteady, OtherSteady DEF ServerDone, ServerOther, SInv
  <2> QED BY Zenon, <2>1, SteadySession
<1>7. CASE \E m \in net : ServerHandshakeNew(m)
  BY Zenon, <1>7, HandshakeNewSession
<1>8. ASSUME NEW h \in net, ServerHandshake2(h)
      PROVE  \/ SessionOf(c)' = client.oppsite_id
             \/ conns'[by_const_id'[c]].last_state_time
                  = conns[by_const_id[c]].last_state_time
  <2> DEFINE s == by_addr[h.addr]  ori == by_const_id[c]
  <2>1. conns[s].last_state_time <= conns[ori].last_state_time
    BY Zenon, <1>8, LateIsOlder
  <2>2. /\ by_const_id'[c] = ori
        /\ \/ SessionOf(c)' = SessionOf(c)
           \/ /\ ~Older(s, ori)
              /\ conns'[ori].last_state_time = conns[s].last_state_time
    BY Zenon, <1>8, Handshake2Session
  <2>3. conns[s].last_state_time \in Nat /\ conns[ori].last_state_time \in Nat
    <3>1. s \in Live /\ ori \in Live
      BY Zenon, <1>8 DEF ServerHandshake2, SInv, IInv, Tables, AddrTableExact, ConstIdTableExact, Ready
    <3> QED BY Zenon, <3>1 DEF SInv, IInv, TypeOK, ConnRecord, Live
  <2>4. ~Older(s, ori) => conns[s].last_state_time = conns[ori].last_state_time
    BY Zenon, <2>1, <2>3, Ordered DEF Older
  <2> QED BY Zenon, <2>2, <2>4
<1> QED BY Zenon, <1>3, <1>4, <1>5, <1>6, <1>7, <1>8 DEF SessionNext, ServerNext

\* The invariant of the packets under way.
THEOREM PacketsInvariant == SessionSpec => [](SInv /\ KInv)
<1>1. SInv /\ KInv /\ [SessionNext]_SessionVars => (SInv /\ KInv)'
  BY Zenon, SessionNextInv, SessionNextK
<1>2. SessionInit => SInv /\ KInv
  BY Zenon, SessionInitInv, KInitInv
<1> QED BY <1>1, <1>2, PTL DEF SessionSpec

\* Type correctness of the composition: in particular the id of a client is 0 exactly
\* while it is idle and has chosen no source port (go_idle, on_timer).
THEOREM SessionTyped == SessionSpec => []SessionTypeOK
<1>1. KInv => SessionTypeOK
  BY Zenon DEF KInv
<1> QED BY <1>1, PacketsInvariant, PTL

\* pre_ready's comparison of ages is enough: however late the second handshake packets
\* of a client's earlier attempts, and of attempts that were given up, arrive, the server
\* does not leave the session the client is Ready on for theirs.
THEOREM ReadySessionsKept == SessionSpec => ReadySessionKept
<1> DEFINE Stays == \A c \in DOMAIN by_const_id :
       client.state = "Ready" /\ client.const_id = c
         /\ SessionOf(c) = client.oppsite_id /\ PortNotReused
       => \/ c \notin DOMAIN by_const_id'
          \/ SessionOf(c)' = client.oppsite_id
          \/ conns'[by_const_id'[c]].last_state_time
               = conns[by_const_id[c]].last_state_time
<1>1. SInv /\ KInv /\ SInv' /\ [SessionNext]_SessionVars => [Stays]_SessionVars
  BY Zenon, ReadyKeptStep
<1> QED BY <1>1, PacketsInvariant, PTL DEF SessionSpec, ReadySessionKept

=============================================================================
