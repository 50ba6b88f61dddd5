---------------------------- MODULE TablesProofs ----------------------------
(***************************************************************************)
(* Proofs about the three tables of the program that an algorithm of their *)
(* own keeps.  The anti-replay window implements ReplayFilter, for every   *)
(* window size and every range of sequence numbers.  The table of          *)
(* conversations keeps its four collections together, with the limits of   *)
(* the source.  The fallback budget on the disk: no probe without its      *)
(* token and its attempt, a cool-down between two probes of an old         *)
(* address, and a state file that the program always reads back, for any   *)
(* number of processes, keys, lock files and times.                        *)
(***************************************************************************)
EXTENDS AntiReplay, Conversations, FallbackBudget, FiniteSetTheorems, TLAPS

-----------------------------------------------------------------------------
(* Slots of the ring.                                                      *)

\* The ring index of is_valid: division with remainder by the window size.
LEMMA DivMod ==
  ASSUME NEW a \in Nat
  PROVE  a = W * (a \div W) + (a % W) /\ a % W \in 0 .. W - 1 /\ a \div W \in Nat
  BY WindowAssumption DEF W

\* Different multiples of the window size are a window apart.
LEMMA MultiplesApart ==
  ASSUME NEW q \in Nat, NEW r \in Nat, q < r PROVE W * r >= W * q + W
<1>1. W * r = W * q + W * (r - q)
  BY WindowAssumption DEF W
<1>2. W * (r - q) >= W
  BY WindowAssumption DEF W
<1> QED BY <1>1, <1>2, WindowAssumption DEF W

\* Two numbers less than a window apart have different slots.
LEMMA SlotsDiffer ==
  ASSUME NEW a \in Nat, NEW b \in Nat, a < b, b < a + W PROVE a % W # b % W
<1> SUFFICES ASSUME a % W = b % W PROVE FALSE
  OBVIOUS
<1> DEFINE qa == a \div W  qb == b \div W  m == a % W
<1>1. a = W * qa + m /\ b = W * qb + m /\ qa \in Nat /\ qb \in Nat /\ m \in Nat
  BY DivMod, WindowAssumption DEF W
<1>2. W \in Nat /\ W * qa \in Nat /\ W * qb \in Nat
  BY <1>1, WindowAssumption DEF W
<1> HIDE DEF qa, qb, m
<1>3. CASE qa < qb
  <2>1. W * qb >= W * qa + W
    BY <1>1, <1>3, MultiplesApart
  <2> QED BY <1>1, <1>2, <2>1
<1>4. CASE qb < qa
  <2>1. W * qa >= W * qb + W
    BY <1>1, <1>4, MultiplesApart
  <2> QED BY <1>1, <1>2, <2>1
<1>5. CASE qa = qb
  BY <1>1, <1>2, <1>5
<1> QED BY <1>1, <1>3, <1>4, <1>5

-----------------------------------------------------------------------------
(* The inductive invariant of the window.                                  *)

IInv == TypeOK /\ WindowExact

\* A new window is exact: nothing was accepted.
LEMMA InitInv == WindowInit => IInv
  BY WindowAssumption DEF WindowInit, IInv, TypeOK, WindowExact, SeqNo, W

\* A newer number: the ring slots the window leaves behind are cleared.
LEMMA NewerInv ==
  ASSUME IInv, NEW seq \in SeqNo, Newer(seq) PROVE IInv'
<1> USE DEF IInv
<1> DEFINE max == max_packet_received
<1>1. /\ seq > max /\ seq \in Nat /\ max \in Nat /\ W \in Nat
      /\ window' = Advance(seq) /\ max' = seq
      /\ accepted' = accepted \cup {seq}
      /\ verdict' = [seq |-> seq, ok |-> TRUE]
  BY WindowAssumption DEF Newer, Verdict, TypeOK, SeqNo, W
<1>2. TypeOK'
  <2>1. window' \in [0 .. W - 1 -> {0, 1}]
    BY <1>1 DEF Advance, TypeOK
  <2> QED BY <2>1, <1>1 DEF TypeOK
<1>3. \A q \in accepted' : q <= max'
  BY <1>1 DEF WindowExact, TypeOK, SeqNo
<1>4. ASSUME NEW q \in SeqNo, q <= seq, seq < q + W
      PROVE  /\ q \in accepted' => window'[q % W] = 1
             /\ q > 0 /\ window'[q % W] = 1 => q \in accepted'
  <2>1. q \in Nat /\ q % W \in 0 .. W - 1
    BY DivMod DEF SeqNo
  <2>2. CASE q = seq
    BY <2>1, <2>2, <1>1 DEF Advance
  <2>3. CASE q < seq /\ q > max
    <3>1. q \notin accepted'
      BY <2>1, <2>3, <1>1 DEF WindowExact, TypeOK, SeqNo
    <3>2. q % W # seq % W
      BY <2>1, <2>3, <1>1, <1>4, SlotsDiffer
    <3>3. q \in max + 1 .. seq - 1
      BY <2>1, <2>3, <1>1
    <3>4. window'[q % W] = 0
      BY <2>1, <3>2, <3>3, <1>1 DEF Advance
    <3> QED BY <3>1, <3>4
  <2>4. CASE q <= max
    <3>1. q % W # seq % W
      BY <2>1, <2>4, <1>1, <1>4, SlotsDiffer
    <3>2. seq - max < W
      BY <2>1, <2>4, <1>1, <1>4
    <3>3. ASSUME NEW i \in max + 1 .. seq - 1 PROVE i % W # q % W
      <4>1. i \in Nat /\ q < i /\ i < q + W
        BY <2>1, <2>4, <1>1, <1>4
      <4> QED BY <2>1, <4>1, SlotsDiffer
    <3>4. window'[q % W] = window[q % W]
      <4>1. ~(seq - max >= W)
        BY <3>2, <1>1
      <4>2. ~\E i \in max + 1 .. seq - 1 : i % W = q % W
        BY <3>3
      <4>3. Advance(seq)[q % W] = window[q % W]
        BY <2>1, <3>1, <4>1, <4>2 DEF Advance
      <4> QED BY <4>3, <1>1
    <3>5. max < q + W /\ (q > 0 => max > 0) /\ (q \in accepted /\ q = 0 => max >= 0)
      BY <2>1, <2>4, <1>1, <1>4
    <3>6. CASE max > 0
      BY <3>4, <3>5, <3>6, <2>1, <2>4, <1>1 DEF WindowExact
    <3>7. CASE max = 0
      <4>1. q = 0
        BY <3>7, <2>1, <2>4
      <4>2. 0 \notin accepted
        BY <3>7 DEF WindowExact
      <4> QED BY <3>7, <4>1, <4>2, <1>1
    <3> QED BY <3>6, <3>7, <1>1
  <2> QED BY <2>1, <2>2, <2>3, <2>4, <1>1, <1>4
<1> QED BY <1>1, <1>2, <1>3, <1>4 DEF WindowExact

\* A late number inside the window: its flag is set.
LEMMA LateInv ==
  ASSUME IInv, NEW seq \in SeqNo, Late(seq) PROVE IInv'
<1> USE DEF IInv
<1> DEFINE max == max_packet_received
<1>1. /\ seq < max /\ max < seq + W /\ seq \in Nat /\ max \in Nat /\ W \in Nat
      /\ window' = [window EXCEPT ![seq % W] = 1] /\ max' = max
      /\ accepted' = accepted \cup {seq}
      /\ verdict' = [seq |-> seq, ok |-> TRUE]
  BY WindowAssumption DEF Late, Verdict, TypeOK, SeqNo, W
<1>2. TypeOK'
  BY <1>1 DEF TypeOK
<1>3. \A q \in accepted' : q <= max'
  BY <1>1 DEF WindowExact, TypeOK, SeqNo
<1>4. ASSUME NEW q \in SeqNo, q <= max, max < q + W
      PROVE  /\ q \in accepted' => window'[q % W] = 1
             /\ q > 0 /\ window'[q % W] = 1 => q \in accepted'
  <2>1. q \in Nat /\ q % W \in 0 .. W - 1 /\ seq % W \in 0 .. W - 1
    BY DivMod, <1>1 DEF SeqNo
  <2>2. CASE q = seq
    BY <2>1, <2>2, <1>1 DEF TypeOK
  <2>3. CASE q # seq
    <3>1. q % W # seq % W
      BY <2>1, <2>3, <1>1, <1>4, SlotsDiffer
    <3>2. window'[q % W] = window[q % W]
      BY <2>1, <3>1, <1>1 DEF TypeOK
    <3> QED BY <3>2, <2>3, <1>1, <1>4 DEF WindowExact
  <2> QED BY <2>2, <2>3
<1> QED BY <1>1, <1>2, <1>3, <1>4 DEF WindowExact

\* Every step keeps the invariant.
LEMMA NextInv == IInv /\ [WindowNext]_WindowVars => IInv'
<1> SUFFICES ASSUME IInv, [WindowNext]_WindowVars PROVE IInv'
  OBVIOUS
<1>1. ASSUME NEW seq \in SeqNo, Newer(seq) PROVE IInv'
  BY <1>1, NewerInv
<1>2. ASSUME NEW seq \in SeqNo, Late(seq) PROVE IInv'
  BY <1>2, LateInv
<1>3. ASSUME NEW seq \in SeqNo, Refused(seq) PROVE IInv'
  BY <1>3 DEF IInv, Refused, Verdict, TypeOK, WindowExact
<1>4. CASE re_init
  BY <1>4, WindowAssumption DEF IInv, re_init, TypeOK, WindowExact, SeqNo
<1>5. CASE UNCHANGED WindowVars
  BY <1>5 DEF IInv, WindowVars, TypeOK, WindowExact
<1> QED BY <1>1, <1>2, <1>3, <1>4, <1>5 DEF WindowNext, is_valid

\* The flags are exact in every reachable state: for each number of the current
\* window (0 apart) is_valid finds the flag set iff the number was accepted
\* since re_init.
THEOREM FlagsExact == WindowSpec => [](TypeOK /\ WindowExact)
<1>1. WindowInit => IInv
  BY InitInv
<1>2. IInv /\ [WindowNext]_WindowVars => IInv'
  BY NextInv
<1>3. IInv => TypeOK /\ WindowExact
  BY DEF IInv
<1> QED BY <1>1, <1>2, <1>3, PTL DEF WindowSpec

\* The window's head and flags stay in range (is_valid, re_init).
THEOREM WindowTyped == WindowSpec => []TypeOK
<1> QED BY FlagsExact, PTL

-----------------------------------------------------------------------------
(* The refinement.                                                         *)

\* Every verdict of is_valid is the one the unbounded memory gives.
LEMMA StepRefines ==
  ASSUME IInv, [WindowNext]_WindowVars PROVE [RF!Next]_(RF!vars)
<1> USE DEF IInv
<1>1. ASSUME NEW seq \in SeqNo, Newer(seq) PROVE RF!Accept(seq)
  <2>1. seq \in Nat /\ max_packet_received \in Nat /\ W \in Nat
    BY WindowAssumption DEF TypeOK, SeqNo, W
  <2>2. seq \notin accepted
    BY <1>1, <2>1 DEF Newer, WindowExact, TypeOK, SeqNo
  <2> QED BY <1>1, <2>1, <2>2 DEF Newer, Verdict, RF!Accept, RF!Fresh
<1>2. ASSUME NEW seq \in SeqNo, Late(seq) PROVE RF!Accept(seq)
  <2>1. /\ seq \in Nat /\ max_packet_received \in Nat /\ W \in Nat
        /\ seq < max_packet_received /\ max_packet_received < seq + W
    BY <1>2, WindowAssumption DEF Late, TypeOK, SeqNo, W
  <2>2. seq \notin accepted
    BY <1>2, <2>1 DEF Late, WindowExact
  <2> QED BY <1>2, <2>1, <2>2 DEF Late, Verdict, RF!Accept, RF!Fresh
<1>3. ASSUME NEW seq \in SeqNo, Refused(seq) PROVE RF!Reject(seq)
  <2>1. seq \in Nat /\ max_packet_received \in Nat /\ W \in Nat
    BY WindowAssumption DEF TypeOK, SeqNo, W
  <2>2. ~RF!Fresh(seq) \/ seq = 0
    <3>1. CASE seq = max_packet_received
      BY <3>1, <2>1 DEF WindowExact, RF!Fresh
    <3>2. CASE seq < max_packet_received /\ max_packet_received - seq >= W
      BY <3>2, <2>1 DEF RF!Fresh
    <3>3. CASE /\ seq < max_packet_received /\ max_packet_received < seq + W
               /\ window[seq % W] = 1
      BY <3>3, <2>1 DEF WindowExact, RF!Fresh
    <3> QED BY <1>3, <2>1, <3>1, <3>2, <3>3 DEF Refused
  <2> QED BY <1>3, <2>2 DEF Refused, Verdict, RF!Reject
<1>4. CASE re_init
  BY <1>4 DEF re_init, RF!Next, RF!NewSession
<1>5. CASE UNCHANGED WindowVars
  BY <1>5 DEF WindowVars, RF!vars
<1> QED BY <1>1, <1>2, <1>3, <1>4, <1>5 DEF WindowNext, is_valid, RF!Next

\* is_valid accepts each number at most once per session and refuses no new
\* number of the window (0 apart): the window implements ReplayFilter.
THEOREM WindowRefinesFilter == WindowSpec => ImplementsReplayFilter
<1>1. WindowInit => RF!Init
  BY DEF WindowInit, RF!Init
<1>2. IInv /\ [WindowNext]_WindowVars => [RF!Next]_(RF!vars)
  BY StepRefines
<1>3. WindowSpec => []IInv
  BY InitInv, NextInv, PTL DEF WindowSpec
<1> QED BY <1>1, <1>2, <1>3, PTL DEF WindowSpec, ImplementsReplayFilter, RF!Spec

-----------------------------------------------------------------------------
(* The table of conversations.                                             *)

USE SMTT(30)

\* What the invariants rest on: the table is finite and the times are numbers.
Typed ==
  /\ IsFiniteSet(DOMAIN conv_to_data) /\ DOMAIN conv_to_data \subseteq Conv
  /\ clock \in Nat
  /\ last_active \in [DOMAIN conv_to_data -> Nat]

ConvInv == Typed /\ ConvTablesAgree

\* ConvManager::new sets up tables that agree.
LEMMA ConvInvInit == ConvInit => ConvInv
<1> SUFFICES ASSUME ConvInit PROVE ConvInv
  OBVIOUS
<1>1. DOMAIN conv_to_data = {} /\ DOMAIN data_to_conv = {} /\ DOMAIN last_active = {}
  BY DEF ConvInit
<1>2. IsFiniteSet({}) /\ Cardinality({}) = 0
  BY FS_EmptySet
<1>3. last_active \in [{} -> Nat]
  BY DEF ConvInit
<1>4. lru = {<<last_active[c], c>> : c \in DOMAIN conv_to_data}
  BY <1>1 DEF ConvInit
<1> QED
  BY <1>1, <1>2, <1>3, <1>4 DEF ConvInit, ConvInv, Typed, ConvTablesAgree, MAX_CONV_NUM

\* A conversation that is used moves to the end of the order, and nothing else changes.
LEMMA UseKeeps == ASSUME ConvInv, NEW conv \in Conv, NEW d \in Data, Use(conv, d) PROVE ConvInv'
<1> DEFINE D == DOMAIN conv_to_data
<1>1. /\ conv \in D /\ D = DOMAIN last_active
      /\ lru' = (lru \ {<<last_active[conv], conv>>}) \cup {<<clock, conv>>}
      /\ last_active' = Put(last_active, conv, clock)
      /\ UNCHANGED <<data_to_conv, conv_to_data, clock>>
  BY DEF ConvInv, ConvTablesAgree, Use, update_active_time, is_conv_used
<1>2. last_active' = [c \in D |-> IF c = conv THEN clock ELSE last_active[c]]
  BY <1>1 DEF Put
<1>3. Typed'
  BY <1>1, <1>2 DEF ConvInv, Typed
<1>4. lru' = {<<last_active'[c], c>> : c \in D}
  BY <1>1, <1>2 DEF ConvInv, ConvTablesAgree
<1> QED
  BY <1>1, <1>2, <1>3, <1>4 DEF ConvInv, ConvTablesAgree

\* A new conversation is entered into all four collections.
LEMMA NewKeeps == ASSUME ConvInv, NEW conv \in Conv, NEW d \in Data, New(conv, d) PROVE ConvInv'
<1> DEFINE D == DOMAIN conv_to_data
<1>1. /\ conv \notin D /\ d \notin DOMAIN data_to_conv /\ Cardinality(D) < MAX_CONV_NUM
      /\ data_to_conv' = Put(data_to_conv, d, conv) /\ conv_to_data' = Put(conv_to_data, conv, d)
      /\ last_active' = Put(last_active, conv, clock) /\ lru' = lru \cup {<<clock, conv>>}
      /\ clock' = clock
  BY DEF New, insert, is_conv_used, is_data_used
<1>2. /\ DOMAIN conv_to_data' = D \cup {conv} /\ DOMAIN last_active' = D \cup {conv}
      /\ DOMAIN data_to_conv' = DOMAIN data_to_conv \cup {d}
      /\ \A c \in D \cup {conv} : conv_to_data'[c] = IF c = conv THEN d ELSE conv_to_data[c]
      /\ \A e \in DOMAIN data_to_conv \cup {d} :
           data_to_conv'[e] = IF e = d THEN conv ELSE data_to_conv[e]
      /\ last_active' = [c \in D \cup {conv} |-> IF c = conv THEN clock ELSE last_active[c]]
  BY <1>1 DEF Put, ConvInv, ConvTablesAgree
<1>3. IsFiniteSet(D \cup {conv}) /\ Cardinality(D \cup {conv}) = Cardinality(D) + 1
  BY Zenon, <1>1, FS_AddElement DEF ConvInv, Typed
<1>4. Cardinality(D) \in Nat
  BY FS_CardinalityType DEF ConvInv, Typed
<1>5. Typed'
  BY <1>1, <1>2, <1>3 DEF ConvInv, Typed
<1>6. lru' = {<<last_active'[c], c>> : c \in DOMAIN conv_to_data'}
  <2>1. lru = {<<last_active[c], c>> : c \in D}
    BY DEF ConvInv, ConvTablesAgree
  <2>2. \A c \in D : last_active'[c] = last_active[c]
    BY <1>1, <1>2
  <2>3. last_active'[conv] = clock
    BY <1>2
  <2> QED
    BY <2>1, <2>2, <2>3, <1>1, <1>2
<1>7. Cardinality(DOMAIN conv_to_data') <= MAX_CONV_NUM
  BY <1>1, <1>2, <1>3, <1>4 DEF MAX_CONV_NUM
<1>8. \A c \in DOMAIN conv_to_data' :
        conv_to_data'[c] \in DOMAIN data_to_conv' /\ data_to_conv'[conv_to_data'[c]] = c
  BY <1>1, <1>2 DEF ConvInv, ConvTablesAgree
<1>9. \A e \in DOMAIN data_to_conv' :
        data_to_conv'[e] \in DOMAIN conv_to_data' /\ conv_to_data'[data_to_conv'[e]] = e
  BY <1>1, <1>2 DEF ConvInv, ConvTablesAgree
<1> QED
  BY <1>2, <1>5, <1>6, <1>7, <1>8, <1>9 DEF ConvInv, ConvTablesAgree

\* Conversations that are erased are erased from all four collections.
LEMMA EraseKeeps ==
  ASSUME ConvInv, NEW convs \in SUBSET DOMAIN conv_to_data, erase(convs), clock' = clock PROVE ConvInv'
<1> DEFINE D == DOMAIN conv_to_data
           gone == {conv_to_data[c] : c \in convs}
<1>1. /\ data_to_conv' = Without(data_to_conv, gone) /\ conv_to_data' = Without(conv_to_data, convs)
      /\ last_active' = Without(last_active, convs) /\ D = DOMAIN last_active
      /\ lru' = lru \ {<<last_active[c], c>> : c \in convs}
  <2>1. D = DOMAIN last_active /\ convs \cap DOMAIN last_active = convs
    BY DEF ConvInv, ConvTablesAgree
  <2> QED
    BY <2>1 DEF erase
<1>2. /\ DOMAIN conv_to_data' = D \ convs /\ DOMAIN data_to_conv' = DOMAIN data_to_conv \ gone
      /\ \A c \in D \ convs : conv_to_data'[c] = conv_to_data[c]
      /\ \A e \in DOMAIN data_to_conv \ gone : data_to_conv'[e] = data_to_conv[e]
      /\ last_active' = [c \in D \ convs |-> last_active[c]]
  BY <1>1 DEF Without
<1>3. /\ IsFiniteSet(D \ convs) /\ Cardinality(D \ convs) <= Cardinality(D)
      /\ Cardinality(D) \in Nat /\ Cardinality(D \ convs) \in Nat
  <2>1. D \ convs \in SUBSET D /\ IsFiniteSet(D)
    BY DEF ConvInv, Typed
  <2> QED
    BY <2>1, FS_Subset, FS_CardinalityType
<1>4. Typed'
  BY <1>1, <1>2, <1>3 DEF ConvInv, Typed
<1>5. lru' = {<<last_active'[c], c>> : c \in DOMAIN conv_to_data'}
  <2>1. lru = {<<last_active[c], c>> : c \in D}
    BY DEF ConvInv, ConvTablesAgree
  <2>2. \A c \in D \ convs : last_active'[c] = last_active[c]
    BY <1>2
  <2> QED
    BY <2>1, <2>2, <1>1, <1>2
<1>6. \A c \in DOMAIN conv_to_data' :
        conv_to_data'[c] \in DOMAIN data_to_conv' /\ data_to_conv'[conv_to_data'[c]] = c
  BY <1>1, <1>2 DEF ConvInv, ConvTablesAgree
<1>7. \A e \in DOMAIN data_to_conv' :
        data_to_conv'[e] \in DOMAIN conv_to_data' /\ conv_to_data'[data_to_conv'[e]] = e
  BY <1>1, <1>2 DEF ConvInv, ConvTablesAgree
<1>8. Cardinality(DOMAIN conv_to_data') <= MAX_CONV_NUM
  BY <1>2, <1>3 DEF ConvInv, ConvTablesAgree, MAX_CONV_NUM
<1> QED
  BY <1>2, <1>4, <1>5, <1>6, <1>7, <1>8 DEF ConvInv, ConvTablesAgree

\* Every call of the owners keeps the tables in agreement.
LEMMA ConvInvNext == ConvInv /\ [ConvNext]_ConvVars => ConvInv'
<1> SUFFICES ASSUME ConvInv, [ConvNext]_ConvVars PROVE ConvInv'
  OBVIOUS
<1>1. ASSUME NEW conv \in Conv, NEW d \in Data, Use(conv, d) PROVE ConvInv'
  BY <1>1, UseKeeps
<1>2. ASSUME NEW conv \in Conv, NEW d \in Data, New(conv, d) PROVE ConvInv'
  BY <1>2, NewKeeps
<1>3. CASE clear_inactive
  <2> DEFINE convs == {c \in DOMAIN conv_to_data : \E e \in Expired : e[2] = c}
  <2>1. erase(convs) /\ clock' = clock /\ convs \in SUBSET DOMAIN conv_to_data
    BY <1>3 DEF clear_inactive
  <2> HIDE DEF convs
  <2> QED
    BY <2>1, EraseKeeps
<1>4. CASE clear
  BY <1>4, EraseKeeps DEF clear
<1>5. CASE Tick
  BY <1>5 DEF Tick, ConvInv, Typed, ConvTablesAgree
<1>6. CASE UNCHANGED ConvVars
  BY <1>6 DEF ConvVars, ConvInv, Typed, ConvTablesAgree
<1> QED
  BY <1>1, <1>2, <1>3, <1>4, <1>5, <1>6 DEF ConvNext

\* The collections of ConvManager agree after any sequence of calls, for any peers and
\* with the constants the program has.
THEOREM ConvTablesAlwaysAgree == ConvSpec => []ConvTablesAgree
<1>1. ConvSpec => []ConvInv
  BY ConvInvInit, ConvInvNext, PTL DEF ConvSpec
<1>2. ConvInv => ConvTablesAgree
  BY DEF ConvInv
<1> QED
  BY <1>1, <1>2, PTL

\* What comes before something that clear_inactive takes is taken too.
LEMMA ExpiredPrefix ==
  ASSUME ConvInv, NEW e \in Expired, NEW f \in lru, Before(f, e) PROVE f \in Expired
<1> DEFINE Less(g) == {h \in lru : Before(h, g)}
<1>1. lru = {<<last_active[c], c>> : c \in DOMAIN conv_to_data}
  BY DEF ConvInv, ConvTablesAgree
<1>2. \A h \in lru : h[1] \in Nat /\ h[2] \in Nat
  <2> SUFFICES ASSUME NEW h \in lru PROVE h[1] \in Nat /\ h[2] \in Nat
    OBVIOUS
  <2>1. PICK c \in DOMAIN conv_to_data : h = <<last_active[c], c>>
    BY <1>1
  <2>2. last_active[c] \in Nat /\ c \in Conv
    BY DEF ConvInv, Typed
  <2>3. \A n \in Conv : n \in Nat
    BY DEF Conv
  <2> QED
    BY <2>1, <2>2, <2>3
<1>3. IsFiniteSet(lru)
  <2> DEFINE pair == [c \in DOMAIN conv_to_data |-> <<last_active[c], c>>]
  <2>1. pair \in Surjection(DOMAIN conv_to_data, lru)
    <3>1. pair \in [DOMAIN conv_to_data -> lru]
      BY <1>1
    <3>2. ASSUME NEW t \in lru PROVE \E c \in DOMAIN conv_to_data : pair[c] = t
      BY <1>1
    <3> HIDE DEF pair
    <3> QED
      BY <3>1, <3>2, Zenon DEF Surjection
  <2> HIDE DEF pair
  <2> QED
    BY <2>1, FS_Surjection DEF ConvInv, Typed, ExistsSurjection
<1>4. Less(f) \subseteq Less(e)
  <2> SUFFICES ASSUME NEW h \in lru, Before(h, f) PROVE Before(h, e)
    OBVIOUS
  <2> QED
    BY <1>2 DEF Before, Expired
<1>5. IsFiniteSet(Less(e))
  BY <1>3, FS_Subset
<1>6. /\ Cardinality(Less(f)) <= Cardinality(Less(e))
      /\ Cardinality(Less(f)) \in Nat /\ Cardinality(Less(e)) \in Nat
  BY <1>4, <1>5, FS_Subset, FS_CardinalityType
<1>7. num_to_clean \in Int
  BY <1>3, FS_CardinalityType DEF num_to_clean, CONV_CLEAR_RATIO, CONV_CLEAR_MIN
<1>8. Cardinality(Less(f)) < num_to_clean
  BY <1>6, <1>7 DEF Expired
<1>9. Since(f[1]) >= CONV_TIMEOUT_MS
  <2>1. e \in lru /\ Since(e[1]) >= CONV_TIMEOUT_MS
    BY DEF Expired
  <2>2. f[1] <= e[1] /\ f[1] \in Nat /\ e[1] \in Nat /\ clock \in Nat
    BY <1>2, <2>1 DEF Before, ConvInv, Typed
  <2> QED
    BY <2>1, <2>2 DEF Since, CONV_TIMEOUT_MS
<1> QED
  BY <1>8, <1>9 DEF Expired

\* clear_inactive takes what has been idle longest, and nothing before its time.
THEOREM ClearsOldestIdleFirst == ConvSpec => OldestIdleFirst
<1> DEFINE Takes ==
      clear_inactive =>
        \A c \in DOMAIN conv_to_data \ DOMAIN conv_to_data' :
          /\ Since(last_active[c]) >= CONV_TIMEOUT_MS
          /\ \A d \in DOMAIN conv_to_data' : last_active[c] <= last_active[d]
<1>1. ConvSpec => []ConvInv
  BY ConvInvInit, ConvInvNext, PTL DEF ConvSpec
<1>2. ConvInv /\ [ConvNext]_ConvVars => [Takes]_ConvVars
  <2> SUFFICES ASSUME ConvInv, clear_inactive,
                      NEW c \in DOMAIN conv_to_data \ DOMAIN conv_to_data'
               PROVE  /\ Since(last_active[c]) >= CONV_TIMEOUT_MS
                      /\ \A d \in DOMAIN conv_to_data' : last_active[c] <= last_active[d]
    OBVIOUS
  <2> DEFINE convs == {b \in DOMAIN conv_to_data : \E e \in Expired : e[2] = b}
  <2>1. conv_to_data' = Without(conv_to_data, convs)
    BY DEF clear_inactive, erase
  <2>2. DOMAIN conv_to_data' = DOMAIN conv_to_data \ convs
    BY <2>1 DEF Without
  <2>3. lru = {<<last_active[b], b>> : b \in DOMAIN conv_to_data} /\ Expired \subseteq lru
    BY DEF ConvInv, ConvTablesAgree, Expired
  <2>4. <<last_active[c], c>> \in Expired
    BY <2>2, <2>3
  <2>5. Since(last_active[c]) >= CONV_TIMEOUT_MS
    BY <2>4 DEF Expired
  <2>6. ASSUME NEW d \in DOMAIN conv_to_data' PROVE last_active[c] <= last_active[d]
    <3>1. <<last_active[d], d>> \in lru /\ <<last_active[d], d>> \notin Expired
      BY <2>2, <2>3
    <3>2. ~Before(<<last_active[d], d>>, <<last_active[c], c>>)
      BY <2>4, <3>1, ExpiredPrefix
    <3>3. last_active[c] \in Nat /\ last_active[d] \in Nat
      BY <2>2 DEF ConvInv, Typed
    <3> QED
      BY <3>2, <3>3 DEF Before
  <2> QED
    BY <2>5, <2>6
<1> QED
  BY <1>1, <1>2, PTL DEF ConvSpec, OldestIdleFirst

-----------------------------------------------------------------------------
(* The inductive invariant of the budget.                                  *)

\* Under the lock and past its check; with a charge that is not renamed yet.
Working == {"load", "write", "sync", "rename", "syncdir"}
Charging == {"write", "sync", "rename"}

ProcessType ==
  [phase: Phase, boot: BOOLEAN, usable: BOOLEAN, key: Key \cup {NoKey},
   wall: 0 .. MaxTime, inode: 0 .. MaxInode, temp: [seen: Files, stored: Files]]

Grants == [Key -> [count: 0 .. MaxAttempts, last: 0 .. MaxTime]]

BTyped ==
  /\ proc \in [Process -> ProcessType]
  /\ now \in 0 .. MaxTime /\ lock \in 0 .. MaxInode /\ inodes \in 0 .. MaxInode
  /\ file \in [seen: Files, stored: Files] /\ disk \in Files
  /\ origin \in 0 .. MaxTime /\ granted \in Grants /\ probes \in Nat

\* One process works on the file at a time, under the lock file at the path.
Exclusive ==
  /\ \A p \in Process : proc[p].phase \in {"lock", "check"} \cup Working =>
       proc[p].inode # NoInode
  /\ \A p \in Process : proc[p].phase \in Working => proc[p].inode = lock
  /\ \A p, q \in Process :
       p # q /\ Holds(p) /\ Holds(q) => proc[p].inode # proc[q].inode

\* A start never writes, and whoever charges has a key to charge.
Keyed ==
  \A p \in Process :
    /\ proc[p].phase \notin {"dead", "idle"} /\ ~proc[p].boot => proc[p].key \in Key
    /\ proc[p].phase \in Charging \cup {"syncdir"} => ~proc[p].boot

\* What a state file says of the grants g, n in all, of a budget begun at o.
Sound(f, o, g, n) ==
  /\ f \in Budgets \cup {Missing}
  /\ f = Missing => n = 0 /\ \A k \in Key : g[k].count = 0
  /\ f # Missing =>
       /\ o <= f.updated
       /\ n + f.tokens <= Capacity + (f.updated - o) \div RefillTime
       /\ Cardinality(Used(f)) <= MAX_BUDGET_ENTRIES
       /\ \A k \in Used(f) :
            /\ f.entries[k].last_used <= f.entries[k].not_before
            /\ f.entries[k].not_before - f.entries[k].last_used <= MAX_PERSISTED_COOLDOWN
       /\ \A k \in Key :
            /\ g[k].count <= f.entries[k].charged
            /\ g[k].count > 0 => g[k].last + Cooldown <= f.entries[k].not_before

\* The grants once k has its probe.
WithProbe(g, k, wall) == [g EXCEPT ![k] = [count |-> @.count + 1, last |-> wall]]

\* The file and the disk know of every grant; the file is all on the disk but for its
\* name.
Durable ==
  /\ Sound(file.seen, origin, granted, probes)
  /\ Sound(disk, origin, granted, probes)
  /\ file.stored = file.seen
  /\ file.seen = Missing => disk = Missing

\* What a process is about to rename is the file of now with the probe charged.
Prepared(r) ==
  LET b == Loaded(file.seen, r.wall) IN
  /\ MayCharge(b, r.wall, r.key)
  /\ r.temp.seen = Precharged(b, r.wall, r.key)
  /\ r.phase = "rename" => r.temp.stored = r.temp.seen

\* Before the directory is synced the file already knows of the probe to come.
Announced(r) ==
  /\ WithProbe(granted, r.key, r.wall) \in Grants
  /\ Sound(file.seen, origin, WithProbe(granted, r.key, r.wall), probes + 1)
  /\ granted[r.key].count > 0 => r.wall >= granted[r.key].last + Cooldown

Charged ==
  \A p \in Process :
    /\ proc[p].phase \in Charging => Prepared(proc[p])
    /\ proc[p].phase = "syncdir" => Announced(proc[p])

BInv == BTyped /\ Exclusive /\ Keyed /\ Durable /\ Charged

-----------------------------------------------------------------------------
(* What a charge makes of a state file.                                    *)

\* A refill adds to the intervals that are over as many as it uses up.
LEMMA DivShift ==
  ASSUME NEW a \in Nat, NEW n \in Nat, NEW r \in Nat \ {0}
  PROVE  (a + n * r) \div r = (a \div r) + n
  OBVIOUS

\* Intervals that are over take no more than the time that passed.
LEMMA DivBelow ==
  ASSUME NEW a \in Nat, NEW r \in Nat \ {0}
  PROVE  a \div r \in Nat /\ (a \div r) * r \in 0 .. a
  OBVIOUS

\* The refill of a budget: a number of intervals that does not lead past the time.
LEMMA RefillBy ==
  ASSUME NEW b \in Budgets, NEW wall \in 0 .. MaxTime
  PROVE  \E n \in Nat :
           /\ b.updated + n * RefillTime \in 0 .. MaxTime
           /\ Refilled(b, wall) = [b EXCEPT !.tokens = Smaller(b.tokens + n, Capacity),
                                            !.updated = b.updated + n * RefillTime]
  <1> DEFINE n == IF wall >= b.updated THEN (wall - b.updated) \div RefillTime ELSE 0
  <1>1. b.updated \in 0 .. MaxTime BY DEF Budgets
  <1>2. Refilled(b, wall) = [b EXCEPT !.tokens = Smaller(b.tokens + n, Capacity),
                                      !.updated = b.updated + n * RefillTime]
    BY Zenon DEF Refilled
  <1>3. CASE wall >= b.updated
    <2>1. wall - b.updated \in Nat BY <1>1, <1>3, BudgetAssumption
    <2>2. n = (wall - b.updated) \div RefillTime BY <1>3
    <2>3. n \in Nat /\ n * RefillTime \in 0 .. (wall - b.updated)
      BY Zenon, <2>1, <2>2, DivBelow, BudgetAssumption
    <2>. HIDE DEF n
    <2>4. b.updated + n * RefillTime \in 0 .. MaxTime
      <3> DEFINE m == n * RefillTime
      <3>1. m \in 0 .. (wall - b.updated) BY <2>3
      <3>. HIDE DEF m
      <3>2. b.updated + m \in 0 .. MaxTime BY <1>1, <3>1, <2>1, BudgetAssumption
      <3>. QED BY <3>2 DEF m
    <2>. QED BY <2>3, <2>4, <1>2, Zenon
  <1>4. CASE ~(wall >= b.updated)
    <2>1. n = 0 /\ n * RefillTime = 0 BY <1>4, BudgetAssumption
    <2>. HIDE DEF n
    <2>2. n \in Nat /\ b.updated + n * RefillTime \in 0 .. MaxTime
      BY <1>1, <2>1, BudgetAssumption
    <2>. QED BY <2>2, <1>2, Zenon
  <1>. QED BY <1>3, <1>4, Zenon

\* A budget with one field replaced.
LEMMA SetTokens ==
  ASSUME NEW b \in Budgets, NEW x \in 0 .. Capacity
  PROVE  LET c == [b EXCEPT !.tokens = x]
         IN  /\ c \in Budgets /\ c.tokens = x
             /\ c.updated = b.updated /\ c.entries = b.entries
  BY Zenon DEF Budgets

\* The same with the time of the last refill.
LEMMA SetUpdated ==
  ASSUME NEW b \in Budgets, NEW x \in 0 .. MaxTime
  PROVE  LET c == [b EXCEPT !.updated = x]
         IN  /\ c \in Budgets /\ c.updated = x
             /\ c.tokens = b.tokens /\ c.entries = b.entries
  BY Zenon DEF Budgets

\* The same with the table of entries.
LEMMA SetEntries ==
  ASSUME NEW b \in Budgets, NEW x \in [Key -> Entry]
  PROVE  LET c == [b EXCEPT !.entries = x]
         IN  /\ c \in Budgets /\ c.entries = x
             /\ c.tokens = b.tokens /\ c.updated = b.updated
  BY Zenon DEF Budgets

\* A refilled budget.
LEMMA RefilledIs ==
  ASSUME NEW b \in Budgets, NEW wall \in 0 .. MaxTime
  PROVE  LET c == Refilled(b, wall)
         IN  /\ c \in Budgets /\ c.entries = b.entries
             /\ \E n \in Nat : /\ c.updated = b.updated + n * RefillTime
                              /\ c.tokens <= b.tokens + n
  <1>1. PICK n \in Nat :
           /\ b.updated + n * RefillTime \in 0 .. MaxTime
           /\ Refilled(b, wall) = [b EXCEPT !.tokens = Smaller(b.tokens + n, Capacity),
                                            !.updated = b.updated + n * RefillTime]
    BY RefillBy, Zenon
  <1> DEFINE x == Smaller(b.tokens + n, Capacity)
             y == b.updated + n * RefillTime
             c1 == [b EXCEPT !.tokens = x]
             c == [c1 EXCEPT !.updated = y]
  <1>2. x \in 0 .. Capacity /\ x <= b.tokens + n
    BY BudgetAssumption DEF Budgets, Smaller
  <1>3. y \in 0 .. MaxTime BY <1>1
  <1>4. Refilled(b, wall) = c BY <1>1, Zenon
  <1>. HIDE DEF x, y
  <1>5. c1 \in Budgets /\ c1.tokens = x /\ c1.updated = b.updated /\ c1.entries = b.entries
    BY Zenon, <1>2, SetTokens
  <1>. HIDE DEF c1
  <1>6. c \in Budgets /\ c.updated = y /\ c.tokens = c1.tokens /\ c.entries = c1.entries
    BY Zenon, <1>3, <1>5, SetUpdated
  <1>. HIDE DEF c
  <1>7. c.updated = b.updated + n * RefillTime BY <1>6, Zenon DEF y
  <1>8. c.tokens <= b.tokens + n BY <1>2, <1>5, <1>6
  <1>. QED BY <1>4, <1>5, <1>6, <1>7, <1>8, Zenon

\* The entry of a probe that is charged.
ChargedEntry(b, wall, k) ==
  [charged |-> b.entries[k].charged + 1, not_before |-> wall + Cooldown,
   last_used |-> wall]

\* A charged budget: refilled, one token less and one entry more or renewed.
LEMMA PrechargedIs ==
  ASSUME NEW b \in Budgets, NEW wall \in 0 .. MaxTime, NEW k \in Key,
         MayCharge(b, wall, k)
  PROVE  LET c == Precharged(b, wall, k)
         IN  /\ c \in Budgets
             /\ c.entries = [b.entries EXCEPT ![k] = ChargedEntry(b, wall, k)]
             /\ c.updated = Refilled(b, wall).updated
             /\ \E n \in Nat : /\ c.updated = b.updated + n * RefillTime
                              /\ c.tokens + 1 <= b.tokens + n
  <1> DEFINE r == Refilled(b, wall)
             x == r.tokens - 1
             y == [r.entries EXCEPT ![k] = ChargedEntry(b, wall, k)]
             c1 == [r EXCEPT !.tokens = x]
             c == [c1 EXCEPT !.entries = [@ EXCEPT ![k] = ChargedEntry(b, wall, k)]]
  <1>1. r \in Budgets /\ r.entries = b.entries BY RefilledIs, Zenon
  <1>2. PICK n \in Nat : /\ r.updated = b.updated + n * RefillTime
                         /\ r.tokens <= b.tokens + n
    BY RefilledIs, Zenon
  <1>3. Precharged(b, wall, k) = c BY Zenon DEF Precharged, ChargedEntry
  <1>4. r.tokens > 0 BY Zenon DEF MayCharge
  <1>5. b.entries[k].charged \in 0 .. MaxAttempts - 1
    <2>1. b.entries[k].charged \in 0 .. MaxAttempts BY DEF Budgets, Entry
    <2>2. CASE k \in Used(b)
      <3>1. b.entries[k].charged < MaxAttempts BY <2>2, Zenon DEF MayCharge
      <3>. QED BY <2>1, <3>1, BudgetAssumption
    <2>3. CASE k \notin Used(b)
      <3>1. ~(b.entries[k].charged > 0) BY <2>3, Zenon DEF Used
      <3>. QED BY <2>1, <3>1, BudgetAssumption
    <2>. QED BY <2>2, <2>3
  <1>6. ChargedEntry(b, wall, k) \in Entry
    BY <1>5, BudgetAssumption DEF ChargedEntry, Entry
  <1>7. y \in [Key -> Entry] BY <1>1, <1>6 DEF Budgets
  <1>8. x \in 0 .. Capacity BY <1>1, <1>4, BudgetAssumption DEF Budgets
  <1>. HIDE DEF r, x
  <1>9. c1 \in Budgets /\ c1.tokens = x /\ c1.updated = r.updated /\ c1.entries = r.entries
    BY Zenon, <1>1, <1>8, SetTokens
  <1>10. c = [c1 EXCEPT !.entries = y] BY <1>9, Zenon
  <1>. HIDE DEF c1, y, c
  <1>11. c \in Budgets /\ c.entries = y /\ c.tokens = x /\ c.updated = r.updated
    BY Zenon, <1>7, <1>9, <1>10, SetEntries
  <1>12. c.tokens + 1 <= b.tokens + n
    BY <1>1, <1>2, <1>11 DEF x, Budgets
  <1>13. c.entries = [b.entries EXCEPT ![k] = ChargedEntry(b, wall, k)]
    BY <1>1, <1>11, Zenon DEF y
  <1>14. c.updated = b.updated + n * RefillTime BY <1>2, <1>11, Zenon
  <1>15. c.updated = Refilled(b, wall).updated BY <1>11, Zenon DEF r
  <1>. QED BY <1>3, <1>11, <1>12, <1>13, <1>14, <1>15, Zenon

\* The table of a charged budget keeps its limit.
LEMMA ChargedUsed ==
  ASSUME NEW b \in Budgets, NEW wall \in 0 .. MaxTime, NEW k \in Key,
         MayCharge(b, wall, k), Cardinality(Used(b)) <= MAX_BUDGET_ENTRIES,
         NEW c \in Budgets,
         c.entries = [b.entries EXCEPT ![k] = ChargedEntry(b, wall, k)]
  PROVE  /\ Used(c) = Used(b) \cup {k}
         /\ Cardinality(Used(c)) <= MAX_BUDGET_ENTRIES
  <1>1. Used(c) = Used(b) \cup {k}
    <2>1. b.entries \in [Key -> Entry] BY DEF Budgets
    <2>2. c.entries[k].charged > 0 BY <2>1 DEF ChargedEntry, Entry
    <2>3. \A j \in Key \ {k} : c.entries[j] = b.entries[j] BY <2>1
    <2>. QED BY <2>2, <2>3, Zenon DEF Used
  <1>2. IsFiniteSet(Used(b))
    <2>1. Used(b) \subseteq Key BY Zenon DEF Used
    <2>. QED BY <2>1, FS_Subset, BudgetAssumption, Zenon
  <1>3. Cardinality(Used(b)) \in Nat BY <1>2, FS_CardinalityType, Zenon
  <1>4. CASE k \in Used(b)
    <2>1. Used(c) = Used(b) BY <1>1, <1>4, Zenon
    <2>. QED BY <1>1, <2>1
  <1>5. CASE k \notin Used(b)
    <2>1. Cardinality(Used(b)) < MAX_BUDGET_ENTRIES BY <1>5, Zenon DEF MayCharge
    <2>2. Cardinality(Used(c)) = Cardinality(Used(b)) + 1
      BY <1>1, <1>2, <1>5, FS_AddElement, Zenon
    <2>. QED BY <1>1, <1>3, <2>1, <2>2, BudgetAssumption
  <1>. QED BY <1>4, <1>5

\* A budget in the state file is not the absence of the file.
LEMMA BudgetThere == \A b \in Budgets : b # Missing
  BY DEF Budgets, Missing

\* The numbers in a budget are natural numbers.
LEMMA BudgetParts ==
  ASSUME NEW b \in Budgets
  PROVE  /\ b.tokens \in Nat /\ b.updated \in Nat /\ b.entries \in [Key -> Entry]
         /\ \A k \in Key : b.entries[k].charged \in Nat /\ b.entries[k].not_before \in Nat
  BY BudgetAssumption DEF Budgets, Entry

\* A new budget stands for no grants at all.
LEMMA NewSound ==
  ASSUME NEW wall \in 0 .. MaxTime, NEW g \in Grants,
         \A k \in Key : g[k].count = 0
  PROVE  /\ NewBudget(wall) \in Budgets
         /\ NewBudget(wall).updated = wall
         /\ Sound(NewBudget(wall), wall, g, 0)
  <1> DEFINE b == NewBudget(wall)
  <1>1. NoEntry \in Entry BY BudgetAssumption DEF NoEntry, Entry
  <1>2. b \in Budgets /\ b.tokens = Capacity /\ b.updated = wall
    BY <1>1, BudgetAssumption DEF NewBudget, Budgets
  <1>3. b.entries = [k \in Key |-> NoEntry] BY DEF NewBudget
  <1>4. Used(b) = {} BY <1>3 DEF Used, NoEntry
  <1>5. Cardinality(Used(b)) = 0 BY <1>4, FS_EmptySet, Zenon
  <1>6. b # Missing BY <1>2, BudgetThere, Zenon
  <1>. HIDE DEF b
  <1>7. (b.updated - wall) \div RefillTime = 0 BY <1>2, BudgetAssumption
  <1>8. \A k \in Key : g[k].count <= b.entries[k].charged /\ ~(g[k].count > 0)
    BY <1>3 DEF NoEntry
  <1>9. wall <= b.updated /\ 0 + b.tokens <= Capacity + (b.updated - wall) \div RefillTime
    BY <1>2, <1>7, BudgetAssumption
  <1>10. Cardinality(Used(b)) <= MAX_BUDGET_ENTRIES BY <1>5, BudgetAssumption
  <1>11. Sound(b, wall, g, 0)
    BY <1>2, <1>4, <1>6, <1>8, <1>9, <1>10, Zenon DEF Sound
  <1>. QED BY <1>2, <1>11, Zenon DEF b

\* A charged budget stands for the grants before the probe and for those after it, and
\* the probe comes a cool-down after the one before.
LEMMA ChargedSound ==
  ASSUME NEW b \in Budgets, NEW wall \in 0 .. MaxTime, NEW k \in Key,
         NEW o \in 0 .. MaxTime, NEW g \in Grants, NEW n \in Nat,
         Sound(b, o, g, n), MayCharge(b, wall, k)
  PROVE  LET c == Precharged(b, wall, k)
             h == WithProbe(g, k, wall)
         IN  /\ c \in Budgets /\ h \in Grants
             /\ Sound(c, o, g, n)
             /\ Sound(c, o, h, n + 1)
             /\ g[k].count > 0 => wall >= g[k].last + Cooldown
  <1> DEFINE c == Precharged(b, wall, k)
             e == ChargedEntry(b, wall, k)
             h == WithProbe(g, k, wall)
  <1>1. c \in Budgets /\ c.entries = [b.entries EXCEPT ![k] = e] BY PrechargedIs, ZenonT(60)
  <1>2. PICK i \in Nat : /\ c.updated = b.updated + i * RefillTime
                         /\ c.tokens + 1 <= b.tokens + i
    BY PrechargedIs, Zenon
  <1>3. b # Missing /\ c # Missing BY <1>1, BudgetThere, Zenon
  <1>4. /\ o <= b.updated
        /\ n + b.tokens <= Capacity + (b.updated - o) \div RefillTime
        /\ Cardinality(Used(b)) <= MAX_BUDGET_ENTRIES
        /\ \A j \in Used(b) :
             /\ b.entries[j].last_used <= b.entries[j].not_before
             /\ b.entries[j].not_before - b.entries[j].last_used <= MAX_PERSISTED_COOLDOWN
        /\ \A j \in Key :
             /\ g[j].count <= b.entries[j].charged
             /\ g[j].count > 0 => g[j].last + Cooldown <= b.entries[j].not_before
    BY <1>3, Zenon DEF Sound
  <1>5. Used(c) = Used(b) \cup {k} /\ Cardinality(Used(c)) <= MAX_BUDGET_ENTRIES
    BY <1>1, <1>4, ChargedUsed, Zenon
  <1>. HIDE DEF c
  <1>6. /\ o <= c.updated
        /\ n + 1 + c.tokens <= Capacity + (c.updated - o) \div RefillTime
    <2> DEFINE a == b.updated - o
               m == i * RefillTime
    <2>1. a \in Nat
      <3>1. b.updated \in Nat BY BudgetParts, Zenon
      <3>. QED BY <1>4, <3>1
    <2>2. (a + m) \div RefillTime = (a \div RefillTime) + i
      <3>. HIDE DEF a
      <3>. QED BY <2>1, DivShift, BudgetAssumption, Zenon DEF m
    <2>3. a \div RefillTime \in Nat BY <2>1, DivBelow, BudgetAssumption
    <2>4. m \in Nat BY BudgetAssumption
    <2>5. c.updated = b.updated + m BY <1>2
    <2>. HIDE DEF m
    <2>6. c.updated - o = a + m /\ o <= c.updated
      BY <2>1, <2>4, <2>5, BudgetAssumption DEF Budgets
    <2>7. n + 1 + c.tokens <= Capacity + (a \div RefillTime) + i
      <3>1. n + b.tokens <= Capacity + (a \div RefillTime) BY Zenon, <1>4
      <3>2. b.tokens \in Nat /\ c.tokens \in Nat BY <1>1, BudgetParts, Zenon
      <3>. HIDE DEF a
      <3>. QED BY <3>1, <3>2, <2>3, <1>2, BudgetAssumption
    <2>8. Capacity + (a \div RefillTime) + i = Capacity + (c.updated - o) \div RefillTime
      BY <2>2, <2>3, <2>6, BudgetAssumption
    <2>. QED BY <2>6, <2>7, <2>8
  <1>7. e.last_used = wall /\ e.not_before = wall + Cooldown
    BY Zenon DEF ChargedEntry
  <1>8. \A j \in Used(c) :
          /\ c.entries[j].last_used <= c.entries[j].not_before
          /\ c.entries[j].not_before - c.entries[j].last_used <= MAX_PERSISTED_COOLDOWN
    <2> SUFFICES ASSUME NEW j \in Used(c)
                 PROVE  /\ c.entries[j].last_used <= c.entries[j].not_before
                        /\ c.entries[j].not_before - c.entries[j].last_used
                             <= MAX_PERSISTED_COOLDOWN
      BY Zenon
    <2>1. b.entries \in [Key -> Entry] BY DEF Budgets
    <2>2. CASE j = k
      <3>1. c.entries[j] = e BY <1>1, <2>1, <2>2, Zenon
      <3>. HIDE DEF e
      <3>. QED BY <3>1, <1>7, BudgetAssumption
    <2>3. CASE j # k
      <3>1. j \in Used(b) BY <1>5, <2>3, Zenon
      <3>2. c.entries[j] = b.entries[j] BY <1>1, <2>1, <2>3, <3>1, Zenon DEF Used
      <3>. QED BY Zenon, <3>1, <3>2, <1>4
    <2>. QED BY Zenon, <2>2, <2>3
  <1>9. g[k].count \in Nat /\ g[k].last \in 0 .. MaxTime /\ b.entries[k].charged \in Nat
    <2>1. b.entries[k].charged \in Nat BY BudgetParts, Zenon
    <2>2. g[k] \in [count: 0 .. MaxAttempts, last: 0 .. MaxTime] BY Zenon DEF Grants
    <2>. QED BY <2>1, <2>2, BudgetAssumption
  <1>10. g[k].count > 0 => wall >= g[k].last + Cooldown
    <2> SUFFICES ASSUME g[k].count > 0 PROVE wall >= g[k].last + Cooldown
      BY Zenon
    <2>1. b.entries[k].charged > 0 BY <1>4, <1>9
    <2>2. k \in Used(b) BY <2>1, Zenon DEF Used
    <2>3. wall >= b.entries[k].not_before BY <2>2, Zenon DEF MayCharge
    <2>4. g[k].last + Cooldown <= b.entries[k].not_before BY <2>1, <1>4, Zenon
    <2>5. b.entries[k].not_before \in Nat
      BY BudgetParts, Zenon
    <2>. QED BY <1>9, <2>3, <2>4, <2>5, BudgetAssumption
  <1>11. c.entries[k].charged = b.entries[k].charged + 1 /\ c.entries[k].not_before = wall + Cooldown
    <2>1. c.entries[k] = e BY <1>1 DEF Budgets
    <2>. QED BY <2>1 DEF ChargedEntry
  <1>12. \A j \in Key \ {k} : c.entries[j] = b.entries[j]
    BY Zenon, <1>1 DEF Budgets
  <1>13. h[k].count = g[k].count + 1 /\ h[k].last = wall
    BY Zenon DEF WithProbe, Grants
  <1>14. \A j \in Key \ {k} : h[j] = g[j] BY DEF WithProbe, Grants
  <1>15. h \in Grants
    <2>1. c.entries[k].charged \in 0 .. MaxAttempts
      <3>1. c.entries[k] \in Entry BY <1>1, Zenon DEF Budgets
      <3>. QED BY Zenon, <3>1 DEF Entry
    <2>2. g[k].count <= b.entries[k].charged BY <1>4, Zenon
    <2>3. g[k].count + 1 \in 0 .. MaxAttempts BY <2>1, <2>2, <1>9, <1>11, BudgetAssumption
    <2>4. [count |-> g[k].count + 1, last |-> wall] \in [count: 0 .. MaxAttempts, last: 0 .. MaxTime]
      BY Zenon, <2>3
    <2>. QED BY <2>4 DEF WithProbe, Grants
  <1>. HIDE DEF e, h
  <1>16. \A j \in Key :
           /\ g[j].count <= c.entries[j].charged
           /\ g[j].count > 0 => g[j].last + Cooldown <= c.entries[j].not_before
    <2> SUFFICES ASSUME NEW j \in Key
                 PROVE  /\ g[j].count <= c.entries[j].charged
                        /\ g[j].count > 0 => g[j].last + Cooldown <= c.entries[j].not_before
      BY Zenon
    <2>1. CASE j = k
      <3>1. g[k].count <= b.entries[k].charged BY <1>4, Zenon
      <3>2. g[k].count <= c.entries[k].charged BY <3>1, <1>9, <1>11
      <3>3. g[k].count > 0 => g[k].last + Cooldown <= c.entries[k].not_before
        BY <1>9, <1>10, <1>11, BudgetAssumption
      <3>. QED BY <2>1, <3>2, <3>3, Zenon
    <2>2. CASE j # k BY <2>2, <1>4, <1>12, Zenon
    <2>. QED BY Zenon, <2>1, <2>2
  <1>17. \A j \in Key :
           /\ h[j].count <= c.entries[j].charged
           /\ h[j].count > 0 => h[j].last + Cooldown <= c.entries[j].not_before
    <2> SUFFICES ASSUME NEW j \in Key
                 PROVE  /\ h[j].count <= c.entries[j].charged
                        /\ h[j].count > 0 => h[j].last + Cooldown <= c.entries[j].not_before
      BY Zenon
    <2>1. CASE j = k
      <3>1. g[k].count <= b.entries[k].charged BY <1>4, Zenon
      <3>2. h[k].count <= c.entries[k].charged BY <3>1, <1>9, <1>11, <1>13
      <3>3. h[k].last + Cooldown <= c.entries[k].not_before
        BY <1>11, <1>13, BudgetAssumption
      <3>. QED BY <2>1, <3>2, <3>3, Zenon
    <2>2. CASE j # k BY <2>2, <1>4, <1>12, <1>14, Zenon
    <2>. QED BY Zenon, <2>1, <2>2
  <1>18. n + c.tokens <= Capacity + (c.updated - o) \div RefillTime
    <2> DEFINE d == (c.updated - o) \div RefillTime
    <2>1. d \in Nat
      <3>1. c.updated - o \in Nat BY <1>1, <1>6, BudgetAssumption DEF Budgets
      <3>. QED BY <3>1, DivBelow, BudgetAssumption, Zenon
    <2>2. c.tokens \in Nat BY <1>1, BudgetAssumption DEF Budgets
    <2>3. n + 1 + c.tokens <= Capacity + d BY <1>6
    <2>. HIDE DEF d
    <2>4. n + c.tokens <= Capacity + d BY <2>1, <2>2, <2>3, BudgetAssumption
    <2>. QED BY <2>4 DEF d
  <1>19. Sound(c, o, g, n)
    BY <1>1, <1>3, <1>5, <1>6, <1>8, <1>16, <1>18, Zenon DEF Sound, c
  <1>20. Sound(c, o, h, n + 1)
    BY <1>1, <1>3, <1>5, <1>6, <1>8, <1>17, Zenon DEF Sound, c
  <1>. QED BY <1>1, <1>10, <1>15, <1>19, <1>20, Zenon DEF c, h

\* What a process prepares from a sound file is sound, before the probe and after it: a
\* missing file is a new budget, which begins at the time it is made.
LEMMA PreparedSound ==
  ASSUME NEW f, NEW wall \in 0 .. MaxTime, NEW k \in Key,
         NEW o \in 0 .. MaxTime, NEW g \in Grants, NEW n \in Nat,
         Sound(f, o, g, n), MayCharge(Loaded(f, wall), wall, k)
  PROVE  LET c == Precharged(Loaded(f, wall), wall, k)
             h == WithProbe(g, k, wall)
             u == IF f = Missing THEN c.updated ELSE o
         IN  /\ c \in Budgets /\ h \in Grants
             /\ Sound(c, u, g, n)
             /\ Sound(c, u, h, n + 1)
             /\ g[k].count > 0 => wall >= g[k].last + Cooldown
  <1>1. CASE f # Missing
    <2>1. Loaded(f, wall) = f BY <1>1, Zenon DEF Loaded
    <2>2. f \in Budgets BY <1>1, Zenon DEF Sound
    <2>. QED BY <1>1, <2>1, <2>2, ChargedSound, Zenon
  <1>2. CASE f = Missing
    <2> DEFINE b == NewBudget(wall)
               c == Precharged(b, wall, k)
    <2>1. Loaded(f, wall) = b BY <1>2, Zenon DEF Loaded
    <2>2. n = 0 /\ \A j \in Key : g[j].count = 0 BY <1>2, Zenon DEF Sound
    <2>3. b \in Budgets /\ b.updated = wall /\ Sound(b, wall, g, 0) BY <2>2, NewSound, Zenon
    <2>4. c.updated = wall
      <3>1. (wall - b.updated) \div RefillTime = 0 BY <2>3, BudgetAssumption
      <3>2. Refilled(b, wall) = [b EXCEPT !.tokens = Smaller(b.tokens + 0, Capacity),
                                          !.updated = b.updated + 0 * RefillTime]
        <4>1. wall >= b.updated BY <2>3
        <4>. QED BY <3>1, <4>1, Zenon DEF Refilled
      <3> DEFINE x == Smaller(b.tokens + 0, Capacity)
                 y == b.updated + 0 * RefillTime
                 c1 == [b EXCEPT !.tokens = x]
      <3>3. x \in 0 .. Capacity BY <2>3, BudgetAssumption DEF Budgets, Smaller
      <3>4. y = wall BY <2>3, BudgetAssumption
      <3>5. Refilled(b, wall) = [c1 EXCEPT !.updated = y] BY <3>2, Zenon
      <3>. HIDE DEF x, y, b
      <3>6. c1 \in Budgets BY <2>3, <3>3, SetTokens
      <3>. HIDE DEF c1
      <3>7. Refilled(b, wall).updated = wall BY <3>4, <3>5, <3>6, SetUpdated
      <3>8. MayCharge(b, wall, k) BY <2>1, Zenon
      <3>. QED BY <3>7, <3>8, <2>3, PrechargedIs, ZenonT(60)
    <2>5. /\ c \in Budgets /\ WithProbe(g, k, wall) \in Grants
          /\ Sound(c, wall, g, n)
          /\ Sound(c, wall, WithProbe(g, k, wall), n + 1)
          /\ g[k].count > 0 => wall >= g[k].last + Cooldown
      <3>1. MayCharge(b, wall, k) /\ Sound(b, wall, g, n) BY <2>1, <2>2, <2>3, Zenon
      <3>. HIDE DEF b
      <3>. QED BY <2>3, <3>1, ChargedSound, ZenonT(60)
    <2>. QED BY <1>2, <2>1, <2>4, <2>5, Zenon
  <1>. QED BY <1>1, <1>2, Zenon

-----------------------------------------------------------------------------
(* Every step keeps the invariant.                                         *)

\* A process record with its phase replaced.
LEMMA SetPhase ==
  ASSUME NEW r \in ProcessType, NEW ph \in Phase
  PROVE  LET s == [r EXCEPT !.phase = ph]
         IN  /\ s \in ProcessType /\ s.phase = ph /\ s.boot = r.boot /\ s.key = r.key
             /\ s.wall = r.wall /\ s.inode = r.inode /\ s.temp = r.temp
  BY Zenon DEF ProcessType

\* A process at rest, and one that does not run.
LEMMA AtRest ==
  ASSUME NEW u \in BOOLEAN
  PROVE  /\ IdleProcess(u) \in ProcessType /\ IdleProcess(u).phase = "idle"
         /\ DeadProcess \in ProcessType /\ DeadProcess.phase = "dead"
  <1>1. Whole(Missing) \in [seen: Files, stored: Files] BY DEF Files, Whole
  <1>2. "idle" \in Phase /\ "dead" \in Phase BY DEF Phase
  <1>3. 0 \in 0 .. MaxTime /\ NoInode \in 0 .. MaxInode BY BudgetAssumption DEF NoInode
  <1>4. \A v \in BOOLEAN : IdleProcess(v) \in ProcessType
    BY <1>1, <1>2, <1>3, Zenon DEF IdleProcess, ProcessType
  <1>5. IdleProcess(u).phase = "idle" BY DEF IdleProcess
  <1>6. IdleProcess(FALSE) \in ProcessType BY <1>4, Zenon
  <1>7. DeadProcess \in ProcessType /\ DeadProcess.phase = "dead"
    BY <1>2, <1>6, SetPhase, Zenon DEF DeadProcess
  <1>. QED BY <1>4, <1>5, <1>7, Zenon

\* Nobody works at first, and there is nothing to know.
LEMMA BudgetInit == Init => BInv
  <1> SUFFICES ASSUME Init PROVE BInv OBVIOUS
  <1>1. Missing \in Files /\ Whole(Missing) \in [seen: Files, stored: Files]
    BY Zenon DEF Files, Whole
  <1>2. DeadProcess \in ProcessType /\ DeadProcess.phase = "dead" BY AtRest, Zenon
  <1>3. [k \in Key |-> [count |-> 0, last |-> 0]] \in Grants
    BY BudgetAssumption DEF Grants
  <1>4. BTyped
    BY <1>1, <1>2, <1>3, BudgetAssumption DEF Init, BTyped, NoInode
  <1>5. \A p \in Process : proc[p].phase = "dead" BY <1>2 DEF Init
  <1>6. Exclusive BY <1>5 DEF Exclusive, Working, Holds
  <1>7. Keyed BY <1>5 DEF Keyed, Charging
  <1>8. Charged BY <1>5 DEF Charged, Charging
  <1>9. Durable
    <2>1. Sound(Missing, origin, granted, probes) BY DEF Init, Sound
    <2>2. file.seen = Missing /\ file.stored = Missing /\ disk = Missing
      BY Zenon DEF Init, Whole
    <2>. QED BY <2>1, <2>2, Zenon DEF Durable
  <1>. QED BY <1>4, <1>6, <1>7, <1>8, <1>9 DEF BInv

\* A process takes a step and leaves the file, the disk and the lock file alone: what is
\* asked of its own new state.
OwnStep(p, r) ==
  /\ r \in ProcessType
  /\ r.phase \in {"lock", "check"} \cup Working => r.inode # NoInode
  /\ r.phase \in Working => r.inode = lock
  /\ r.phase \in {"check"} \cup Working =>
       \A q \in Process \ {p} : Holds(q) => proc[q].inode # r.inode
  /\ r.phase \notin {"dead", "idle"} /\ ~r.boot => r.key \in Key
  /\ r.phase \in Charging \cup {"syncdir"} => ~r.boot
  /\ r.phase \in Charging => Prepared(r)
  /\ r.phase = "syncdir" => Announced(r)

\* A step that is right for the process itself is right for all.
LEMMA ProcessStep ==
  ASSUME BInv, NEW p \in Process, NEW r, OwnStep(p, r),
         proc' = [proc EXCEPT ![p] = r],
         UNCHANGED <<now, lock, inodes, file, disk, origin, granted, probes>>
  PROVE  BInv'
  <1>1. /\ now' = now /\ lock' = lock /\ inodes' = inodes /\ file' = file /\ disk' = disk
        /\ origin' = origin /\ granted' = granted /\ probes' = probes
    BY Zenon
  <1>2. BTyped /\ Exclusive /\ Keyed /\ Durable /\ Charged BY Zenon DEF BInv
  <1>3. proc \in [Process -> ProcessType] /\ r \in ProcessType BY <1>2, Zenon DEF BTyped, OwnStep
  <1>4. proc'[p] = r /\ \A q \in Process \ {p} : proc'[q] = proc[q] BY <1>3
  <1>5. proc' \in [Process -> ProcessType] BY <1>3
  <1>6. BTyped' BY <1>1, <1>2, <1>5, Zenon DEF BTyped
  <1>7. Durable' BY <1>1, <1>2, Zenon DEF Durable
  <1>8. Keyed'
    <2> SUFFICES ASSUME NEW q \in Process
                 PROVE  /\ proc'[q].phase \notin {"dead", "idle"} /\ ~proc'[q].boot => proc'[q].key \in Key
                        /\ proc'[q].phase \in Charging \cup {"syncdir"} => ~proc'[q].boot
      BY Zenon DEF Keyed
    <2>1. CASE q = p BY <1>4, <2>1, Zenon DEF OwnStep
    <2>2. CASE q # p BY <1>2, <1>4, <2>2, Zenon DEF Keyed
    <2>. QED BY Zenon, <2>1, <2>2
  <1>9. Charged'
    <2>1. \A x : Prepared(x)' <=> Prepared(x) BY <1>1, Zenon DEF Prepared
    <2> SUFFICES ASSUME NEW q \in Process
                 PROVE  /\ proc'[q].phase \in Charging => Prepared(proc[q])'
                        /\ proc'[q].phase = "syncdir" => Announced(proc[q])'
      BY Zenon DEF Charged
    <2>2. CASE q = p
      <3>1. r.phase \in Charging => Prepared(r) BY DEF OwnStep
      <3>2. r.phase = "syncdir" => Announced(r) BY DEF OwnStep
      <3>3. proc'[q] = r BY <1>4, <2>2
      <3>. QED BY <1>1, <3>1, <3>2, <3>3, Zenon DEF Prepared, Announced
    <2>3. CASE q # p
      <3>1. proc[q].phase \in Charging => Prepared(proc[q]) BY <1>2, Zenon DEF Charged
      <3>2. proc[q].phase = "syncdir" => Announced(proc[q]) BY <1>2, Zenon DEF Charged
      <3>3. proc'[q] = proc[q] BY <1>4, <2>3
      <3>. QED BY <1>1, <3>1, <3>2, <3>3, Zenon DEF Prepared, Announced
    <2>. QED BY <2>2, <2>3
  <1>10. Exclusive'
    <2>1. ASSUME NEW q \in Process
          PROVE  /\ proc'[q].phase \in {"lock", "check"} \cup Working => proc'[q].inode # NoInode
                 /\ proc'[q].phase \in Working => proc'[q].inode = lock'
      <3>1. CASE q = p BY <1>1, <1>4, <3>1, Zenon DEF OwnStep
      <3>2. CASE q # p BY <1>1, <1>2, <1>4, <3>2, Zenon DEF Exclusive
      <3>. QED BY <3>1, <3>2
    <2>2. ASSUME NEW q1 \in Process, NEW q2 \in Process, q1 # q2, Holds(q1)', Holds(q2)'
          PROVE  proc'[q1].inode # proc'[q2].inode
      <3>1. \A q \in Process \ {p} : Holds(q)' => Holds(q) BY <1>4, Zenon DEF Holds
      <3>2. \A q \in Process \ {p} : Holds(p)' /\ Holds(q) => proc[q].inode # r.inode
        BY Zenon, <1>4 DEF OwnStep, Holds, Working
      <3>3. CASE q1 = p BY <1>4, <2>2, <3>1, <3>2, <3>3, Zenon
      <3>4. CASE q2 = p BY <1>4, <2>2, <3>1, <3>2, <3>4, Zenon
      <3>5. CASE q1 # p /\ q2 # p BY <1>2, <1>4, <2>2, <3>1, <3>5, ZenonT(60) DEF Exclusive
      <3>. QED BY <3>3, <3>4, <3>5
    <2>. QED BY <2>1, <2>2, Zenon DEF Exclusive
  <1>. QED BY <1>6, <1>7, <1>8, <1>9, <1>10, Zenon DEF BInv

\* Whoever stops, for whatever reason, leaves what is true of the others.
LEMMA RestStep ==
  ASSUME BInv, NEW p \in Process, NEW r \in ProcessType, r.phase \in {"idle", "dead"},
         proc' = [proc EXCEPT ![p] = r],
         UNCHANGED <<now, lock, inodes, file, disk, origin, granted, probes>>
  PROVE  BInv'
  <1>1. OwnStep(p, r) BY DEF OwnStep, Working, Charging
  <1>. QED BY <1>1, ProcessStep, Zenon

\* A start or a charge begins.
LEMMA BeginAny ==
  ASSUME BInv, NEW p \in Process, NEW boot \in BOOLEAN, NEW k \in Key \cup {NoKey},
         boot \/ k \in Key, Begin(p, boot, k),
         UNCHANGED <<now, lock, inodes, file, disk, origin, granted, probes>>
  PROVE  BInv'
  <1> DEFINE i == IdleProcess(TRUE)
             r1 == [i EXCEPT !.phase = "open"]
             r2 == [r1 EXCEPT !.boot = boot]
             r3 == [r2 EXCEPT !.key = k]
             r == [r3 EXCEPT !.wall = now]
  <1>1. now \in 0 .. MaxTime BY Zenon DEF BInv, BTyped
  <1>2. i \in ProcessType
    <2>1. TRUE \in BOOLEAN BY Zenon
    <2>. QED BY <2>1, AtRest, Zenon
  <1>3. proc' = [proc EXCEPT ![p] = r] BY Zenon DEF Begin
  <1>. HIDE DEF i
  <1>4. r1 \in ProcessType /\ r1.phase = "open"
    <2>1. "open" \in Phase BY DEF Phase
    <2>. QED BY <1>2, <2>1, SetPhase, Zenon
  <1>. HIDE DEF r1
  <1>5. r2 \in ProcessType /\ r2.phase = "open" /\ r2.boot = boot BY <1>4 DEF ProcessType
  <1>. HIDE DEF r2
  <1>6. r3 \in ProcessType /\ r3.phase = "open" /\ r3.boot = boot /\ r3.key = k
    BY Zenon, <1>5 DEF ProcessType
  <1>. HIDE DEF r3
  <1>7. r \in ProcessType /\ r.phase = "open" /\ r.boot = boot /\ r.key = k
    BY Zenon, <1>1, <1>6 DEF ProcessType
  <1>. HIDE DEF r
  <1>8. OwnStep(p, r) BY Zenon, <1>7 DEF OwnStep, Working, Charging
  <1>. QED BY <1>3, <1>8, ProcessStep, Zenon

\* Start and Charge: bootstrap and charge_fallback begin.
LEMMA BeginStep ==
  ASSUME BInv, NEW p \in Process, Start(p) \/ \E k \in Key : Charge(p, k)
  PROVE  BInv'
  <1>1. CASE Start(p)
    <2>1. Begin(p, TRUE, NoKey) /\ UNCHANGED <<now, lock, inodes, file, disk, origin, granted, probes>>
      BY <1>1, Zenon DEF Start
    <2>2. TRUE \in BOOLEAN /\ NoKey \in Key \cup {NoKey} BY Zenon
    <2>. QED BY <2>1, <2>2, BeginAny, Zenon
  <1>2. CASE \E k \in Key : Charge(p, k)
    <2>1. PICK k \in Key : Charge(p, k) BY <1>2, Zenon
    <2>2. Begin(p, FALSE, k) /\ UNCHANGED <<now, lock, inodes, file, disk, origin, granted, probes>>
      BY <2>1, Zenon DEF Charge
    <2>3. FALSE \in BOOLEAN /\ k \in Key \cup {NoKey} BY Zenon
    <2>. QED BY <2>2, <2>3, BeginAny, Zenon
  <1>. QED BY <1>1, <1>2, Zenon

\* TakeLock: no other holder of the same lock file.
LEMMA TakeLockStep ==
  ASSUME BInv, NEW p \in Process, TakeLock(p)
  PROVE  BInv'
  <1> DEFINE r == [proc[p] EXCEPT !.phase = "check"]
  <1>1. proc[p] \in ProcessType BY DEF BInv, BTyped
  <1>2. "check" \in Phase BY DEF Phase
  <1>3. /\ r \in ProcessType /\ r.phase = "check" /\ r.boot = proc[p].boot
        /\ r.key = proc[p].key /\ r.inode = proc[p].inode
    BY <1>1, <1>2, SetPhase, Zenon
  <1>4. proc' = [proc EXCEPT ![p] = r] BY Zenon DEF TakeLock, Step
  <1>5. proc[p].phase = "lock" BY Zenon DEF TakeLock, Step
  <1>6. \A q \in Process : Holds(q) => proc[q].inode # proc[p].inode BY Zenon DEF TakeLock
  <1>7. proc[p].inode # NoInode BY Zenon, <1>5 DEF BInv, Exclusive
  <1>8. ~proc[p].boot => proc[p].key \in Key BY Zenon, <1>5 DEF BInv, Keyed
  <1>. HIDE DEF r
  <1>9. OwnStep(p, r) BY Zenon, <1>3, <1>6, <1>7, <1>8 DEF OwnStep, Working, Charging
  <1>. QED BY <1>4, <1>9, ProcessStep, Zenon DEF TakeLock

\* CheckLock: the lock that is held is the one at the path, so nobody else works.
LEMMA CheckLockStep ==
  ASSUME BInv, NEW p \in Process, CheckLock(p)
  PROVE  BInv'
  <1> DEFINE r == [proc[p] EXCEPT !.phase = "load"]
  <1>1. proc[p] \in ProcessType BY DEF BInv, BTyped
  <1>2. "load" \in Phase BY DEF Phase
  <1>3. /\ r \in ProcessType /\ r.phase = "load" /\ r.boot = proc[p].boot
        /\ r.key = proc[p].key /\ r.inode = proc[p].inode
    BY <1>1, <1>2, SetPhase, Zenon
  <1>4. proc' = [proc EXCEPT ![p] = r] BY Zenon DEF CheckLock, Step
  <1>5. proc[p].phase = "check" /\ proc[p].inode = lock BY Zenon DEF CheckLock, Step
  <1>6. \A q \in Process \ {p} : Holds(q) => proc[q].inode # proc[p].inode
    <2>1. Holds(p) BY <1>5 DEF Holds
    <2>. QED BY <2>1, Zenon DEF BInv, Exclusive
  <1>7. proc[p].inode # NoInode BY Zenon, <1>5 DEF BInv, Exclusive
  <1>8. ~proc[p].boot => proc[p].key \in Key BY Zenon, <1>5 DEF BInv, Keyed
  <1>. HIDE DEF r
  <1>9. OwnStep(p, r) BY Zenon, <1>3, <1>5, <1>6, <1>7, <1>8 DEF OwnStep, Working, Charging
  <1>. QED BY <1>4, <1>9, ProcessStep, Zenon DEF CheckLock

\* Who works under the lock may go on working.
LEMMA Onward ==
  ASSUME BInv, NEW p \in Process, proc[p].phase \in Working, NEW r \in ProcessType,
         r.phase \in Working, r.inode = proc[p].inode, r.boot = proc[p].boot,
         r.key = proc[p].key, ~r.boot,
         r.phase \in Charging => Prepared(r),
         r.phase = "syncdir" => Announced(r)
  PROVE  OwnStep(p, r)
  <1>1. Exclusive /\ Keyed BY DEF BInv
  <1>2. Holds(p) BY DEF Holds, Working
  <1>3. \A q \in Process \ {p} : Holds(q) => proc[q].inode # r.inode
    BY <1>1, <1>2, Zenon DEF Exclusive
  <1>4. r.inode # NoInode /\ r.inode = lock BY Zenon, <1>1 DEF Exclusive
  <1>5. r.key \in Key BY Zenon, <1>1 DEF Keyed, Working
  <1>. QED BY <1>3, <1>4, <1>5, Zenon DEF OwnStep

\* A loaded file, whether from the disk or new, is a sound budget; a charge is prepared
\* from it.
LEMMA LoadStep ==
  ASSUME BInv, NEW p \in Process, Load(p)
  PROVE  BInv'
  <1> DEFINE b == Loaded(file.seen, proc[p].wall)
             c == Precharged(b, proc[p].wall, proc[p].key)
  <1>1. /\ proc[p].phase = "load"
        /\ UNCHANGED <<now, lock, inodes, file, disk, origin, granted, probes>>
    BY Zenon DEF Load
  <1>2. proc[p] \in ProcessType BY DEF BInv, BTyped
  <1>3. CASE proc[p].boot \/ ~MayCharge(b, proc[p].wall, proc[p].key)
    <2>1. proc' = [proc EXCEPT ![p] = IdleProcess(TRUE)] BY <1>3, Zenon DEF Load, Leave
    <2>2. IdleProcess(TRUE) \in ProcessType /\ IdleProcess(TRUE).phase \in {"idle", "dead"}
      <3>1. TRUE \in BOOLEAN BY Zenon
      <3>. QED BY <3>1, AtRest, Zenon
    <2>. QED BY <1>1, <2>1, <2>2, RestStep, Zenon
  <1>4. CASE ~proc[p].boot /\ MayCharge(b, proc[p].wall, proc[p].key)
    <2> DEFINE r1 == [proc[p] EXCEPT !.phase = "write"]
               r == [r1 EXCEPT !.temp = Whole(c)]
    <2>1. proc' = [proc EXCEPT ![p] = r] BY <1>4, Zenon DEF Load
    <2>2. proc[p].wall \in 0 .. MaxTime BY Zenon, <1>2 DEF ProcessType
    <2>3. proc[p].key \in Key BY Zenon, <1>1, <1>4 DEF BInv, Keyed
    <2>4. /\ Sound(file.seen, origin, granted, probes) /\ origin \in 0 .. MaxTime
          /\ granted \in Grants /\ probes \in Nat
      BY Zenon DEF BInv, BTyped, Durable
    <2>5. c \in Budgets BY <1>4, <2>2, <2>3, <2>4, PreparedSound, Zenon
    <2>6. Whole(c) \in [seen: Files, stored: Files] /\ Whole(c).seen = c
      <3>. HIDE DEF c
      <3>. QED BY <2>5 DEF Whole, Files
    <2>7. /\ r1 \in ProcessType /\ r1.phase = "write" /\ r1.boot = proc[p].boot
          /\ r1.key = proc[p].key /\ r1.inode = proc[p].inode /\ r1.wall = proc[p].wall
      <3>1. "write" \in Phase BY DEF Phase
      <3>. QED BY <1>2, <3>1, SetPhase, ZenonT(60)
    <2>. HIDE DEF c, r1
    <2>8. /\ r \in ProcessType /\ r.phase = "write" /\ r.boot = proc[p].boot
          /\ r.key = proc[p].key /\ r.inode = proc[p].inode /\ r.wall = proc[p].wall
          /\ r.temp = Whole(c)
      BY Zenon, <2>6, <2>7 DEF ProcessType
    <2>. HIDE DEF r
    <2>9. Prepared(r)
      <3>1. r.phase # "rename" BY Zenon, <2>8
      <3>. QED BY <1>4, <2>6, <2>8, <3>1, Zenon DEF Prepared, c
    <2>10. OwnStep(p, r)
      <3>1. r.phase \in Working /\ r.phase # "syncdir" /\ proc[p].phase \in Working
        BY Zenon, <1>1, <2>8 DEF Working
      <3>. QED BY <1>4, <2>8, <2>9, <3>1, Onward, Zenon
    <2>. QED BY <1>1, <2>1, <2>10, ProcessStep, Zenon
  <1>. QED BY <1>3, <1>4, Zenon

\* Writing and syncing the temporary file leave its contents alone.
LEMMA TempStep ==
  ASSUME BInv, NEW p \in Process, NEW ph \in {"sync", "rename"}, NEW st \in Files,
         proc[p].phase \in Charging,
         ph = "rename" => st = proc[p].temp.seen,
         proc' = [proc EXCEPT ![p] = [[proc[p] EXCEPT !.phase = ph] EXCEPT
                     !.temp = [seen |-> proc[p].temp.seen, stored |-> st]]],
         UNCHANGED <<now, lock, inodes, file, disk, origin, granted, probes>>
  PROVE  BInv'
  <1> DEFINE r1 == [proc[p] EXCEPT !.phase = ph]
             t == [seen |-> proc[p].temp.seen, stored |-> st]
             r == [r1 EXCEPT !.temp = t]
  <1>1. proc[p] \in ProcessType BY DEF BInv, BTyped
  <1>2. t \in [seen: Files, stored: Files] /\ t.seen = proc[p].temp.seen /\ t.stored = st
    BY Zenon, <1>1 DEF ProcessType
  <1>3. /\ r1 \in ProcessType /\ r1.phase = ph /\ r1.boot = proc[p].boot
        /\ r1.key = proc[p].key /\ r1.inode = proc[p].inode /\ r1.wall = proc[p].wall
    <2>1. ph \in Phase BY DEF Phase
    <2>. QED BY <1>1, <2>1, SetPhase, ZenonT(60)
  <1>. HIDE DEF r1, t
  <1>4. /\ r \in ProcessType /\ r.phase = ph /\ r.boot = proc[p].boot
        /\ r.key = proc[p].key /\ r.inode = proc[p].inode /\ r.wall = proc[p].wall
        /\ r.temp = t
    BY Zenon, <1>2, <1>3 DEF ProcessType
  <1>5. proc' = [proc EXCEPT ![p] = r] BY Zenon DEF r1, t
  <1>. HIDE DEF r
  <1>6. Prepared(proc[p]) /\ ~proc[p].boot
    BY Zenon DEF BInv, Charged, Keyed
  <1>7. Prepared(r) BY <1>2, <1>4, <1>6, Zenon DEF Prepared
  <1>8. r.phase \in Working /\ r.phase # "syncdir" /\ proc[p].phase \in Working
    BY Zenon, <1>4 DEF Working, Charging
  <1>9. OwnStep(p, r) BY <1>4, <1>6, <1>7, <1>8, Onward, Zenon
  <1>. QED BY <1>5, <1>9, ProcessStep, Zenon

\* Write and Sync.
LEMMA WriteStep ==
  ASSUME BInv, NEW p \in Process, Write(p) \/ Sync(p)
  PROVE  BInv'
  <1>1. proc[p] \in ProcessType BY DEF BInv, BTyped
  <1>2. Torn \in Files /\ proc[p].temp.seen \in Files BY <1>1 DEF Files, ProcessType
  <1>3. CASE Write(p)
    <2>1. proc' = [proc EXCEPT ![p] = [[proc[p] EXCEPT !.phase = "sync"] EXCEPT
                     !.temp = [seen |-> proc[p].temp.seen, stored |-> Torn]]]
      BY <1>3, Zenon DEF Write, Unsynced
    <2>2. proc[p].phase \in Charging BY <1>3 DEF Write, Charging
    <2>3. UNCHANGED <<now, lock, inodes, file, disk, origin, granted, probes>>
      BY <1>3, Zenon DEF Write
    <2>. QED BY <1>2, <2>1, <2>2, <2>3, TempStep, Zenon
  <1>4. CASE Sync(p)
    <2>1. proc' = [proc EXCEPT ![p] = [[proc[p] EXCEPT !.phase = "rename"] EXCEPT
                     !.temp = [seen |-> proc[p].temp.seen, stored |-> proc[p].temp.seen]]]
      BY <1>4, Zenon DEF Sync, Whole
    <2>2. proc[p].phase \in Charging BY <1>4 DEF Sync, Charging
    <2>3. UNCHANGED <<now, lock, inodes, file, disk, origin, granted, probes>>
      BY <1>4, Zenon DEF Sync
    <2>. QED BY <1>2, <2>1, <2>2, <2>3, TempStep, Zenon
  <1>. QED BY <1>3, <1>4, Zenon

\* Two processes never work on the file at once.
LEMMA OneWorks ==
  ASSUME BInv, NEW p \in Process, NEW q \in Process,
         proc[p].phase \in Working, proc[q].phase \in Working
  PROVE  p = q
  <1>1. Exclusive BY DEF BInv
  <1>2. Holds(p) /\ Holds(q) BY DEF Holds, Working
  <1>3. proc[p].inode = lock /\ proc[q].inode = lock BY <1>1, Zenon DEF Exclusive
  <1>. QED BY <1>1, <1>2, <1>3, Zenon DEF Exclusive

\* A new lock file appears only where there was none, so nobody works under another.
LEMMA OpenLockStep ==
  ASSUME BInv, NEW p \in Process, OpenLock(p)
  PROVE  BInv'
  <1> DEFINE r1 == [proc[p] EXCEPT !.phase = "lock"]
             r == [r1 EXCEPT !.inode = lock']
  <1>1. BTyped /\ Exclusive /\ Keyed /\ Durable /\ Charged BY Zenon DEF BInv
  <1>2. proc[p] \in ProcessType /\ lock \in 0 .. MaxInode /\ inodes \in 0 .. MaxInode
    BY Zenon, <1>1 DEF BTyped
  <1>3. /\ now' = now /\ file' = file /\ disk' = disk /\ origin' = origin
        /\ granted' = granted /\ probes' = probes
    BY Zenon DEF OpenLock
  <1>4. /\ lock' \in 0 .. MaxInode /\ inodes' \in 0 .. MaxInode /\ lock' # NoInode
        /\ lock # NoInode => lock' = lock
    BY <1>2, BudgetAssumption DEF OpenLock, NoInode
  <1>5. /\ r1 \in ProcessType /\ r1.phase = "lock" /\ r1.boot = proc[p].boot
        /\ r1.key = proc[p].key
    <2>1. "lock" \in Phase BY DEF Phase
    <2>. QED BY <1>2, <2>1, SetPhase, Zenon
  <1>6. proc' = [proc EXCEPT ![p] = r] BY Zenon DEF OpenLock
  <1>. HIDE DEF r1
  <1>7. /\ r \in ProcessType /\ r.phase = "lock" /\ r.boot = proc[p].boot
        /\ r.key = proc[p].key /\ r.inode = lock'
    BY Zenon, <1>4, <1>5 DEF ProcessType
  <1>. HIDE DEF r
  <1>8. proc \in [Process -> ProcessType] BY <1>1, Zenon DEF BTyped
  <1>9. proc'[p] = r /\ \A q \in Process \ {p} : proc'[q] = proc[q] BY <1>6, <1>8
  <1>10. proc' \in [Process -> ProcessType] BY <1>6, <1>7, <1>8
  <1>11. BTyped' BY <1>1, <1>3, <1>4, <1>10, Zenon DEF BTyped
  <1>12. Durable' BY <1>1, <1>3, Zenon DEF Durable
  <1>13. proc[p].phase = "open" BY Zenon DEF OpenLock
  <1>14. \A q \in Process : proc'[q].phase \in Working \/ Holds(q)' => q # p
    BY Zenon, <1>7, <1>9 DEF Working, Holds
  <1>15. Keyed'
    <2> SUFFICES ASSUME NEW q \in Process
                 PROVE  /\ proc'[q].phase \notin {"dead", "idle"} /\ ~proc'[q].boot => proc'[q].key \in Key
                        /\ proc'[q].phase \in Charging \cup {"syncdir"} => ~proc'[q].boot
      BY Zenon DEF Keyed
    <2>1. CASE q = p BY Zenon, <1>1, <1>7, <1>9, <1>13, <2>1 DEF Keyed, Charging
    <2>2. CASE q # p BY <1>1, <1>9, <2>2, Zenon DEF Keyed
    <2>. QED BY Zenon, <2>1, <2>2
  <1>16. Charged'
    <2> SUFFICES ASSUME NEW q \in Process
                 PROVE  /\ proc'[q].phase \in Charging => Prepared(proc[q])'
                        /\ proc'[q].phase = "syncdir" => Announced(proc[q])'
      BY Zenon DEF Charged
    <2>1. CASE q = p BY Zenon, <1>7, <1>9, <2>1 DEF Charging
    <2>2. CASE q # p
      <3>1. proc[q].phase \in Charging => Prepared(proc[q]) BY <1>1, Zenon DEF Charged
      <3>2. proc[q].phase = "syncdir" => Announced(proc[q]) BY <1>1, Zenon DEF Charged
      <3>3. proc'[q] = proc[q] BY Zenon, <1>9, <2>2
      <3>. QED BY <1>3, <3>1, <3>2, <3>3, Zenon DEF Prepared, Announced
    <2>. QED BY Zenon, <2>1, <2>2
  <1>17. Exclusive'
    <2>1. ASSUME NEW q \in Process
          PROVE  /\ proc'[q].phase \in {"lock", "check"} \cup Working => proc'[q].inode # NoInode
                 /\ proc'[q].phase \in Working => proc'[q].inode = lock'
      <3>1. CASE q = p BY <1>4, <1>7, <1>9, <1>14, <3>1, Zenon
      <3>2. CASE q # p
        <4>1. proc'[q] = proc[q] BY <1>9, <3>2
        <4>. QED BY <1>1, <1>4, <4>1, Zenon DEF Exclusive
      <3>. QED BY Zenon, <3>1, <3>2
    <2>2. ASSUME NEW q1 \in Process, NEW q2 \in Process, q1 # q2, Holds(q1)', Holds(q2)'
          PROVE  proc'[q1].inode # proc'[q2].inode
      <3>1. proc'[q1] = proc[q1] /\ proc'[q2] = proc[q2] BY <1>9, <1>14, <2>2, Zenon
      <3>2. Holds(q1) /\ Holds(q2) BY <2>2, <3>1, Zenon DEF Holds
      <3>. QED BY <1>1, <2>2, <3>1, <3>2, Zenon DEF Exclusive
    <2>. QED BY <2>1, <2>2, Zenon DEF Exclusive
  <1>. QED BY <1>11, <1>12, <1>15, <1>16, <1>17, Zenon DEF BInv

\* A process that works under the lock goes on or stops while it changes file and disk:
\* nobody else is affected, for nobody else works.
LEMMA WorkerStep ==
  ASSUME BInv, NEW p \in Process, proc[p].phase \in Working, NEW r \in ProcessType,
         proc' = [proc EXCEPT ![p] = r], lock' = lock,
         \/ r.phase = "idle"
         \/ /\ r.phase = "syncdir" /\ r.inode = proc[p].inode
            /\ r.key = proc[p].key /\ ~r.boot /\ r.key \in Key
  PROVE  /\ proc' \in [Process -> ProcessType] /\ Exclusive' /\ Keyed'
         /\ proc'[p] = r
         /\ \A q \in Process : proc'[q].phase \in Working => q = p
  <1>1. BTyped /\ Exclusive /\ Keyed BY Zenon DEF BInv
  <1>2. proc \in [Process -> ProcessType] BY <1>1, Zenon DEF BTyped
  <1>3. proc'[p] = r /\ \A q \in Process \ {p} : proc'[q] = proc[q] BY <1>2
  <1>4. proc' \in [Process -> ProcessType] BY <1>2
  <1>5. \A q \in Process : proc[q].phase \in Working => q = p BY OneWorks, Zenon
  <1>6. \A q \in Process : proc'[q].phase \in Working => q = p BY <1>3, <1>5, Zenon
  <1>7. Keyed'
    <2> SUFFICES ASSUME NEW q \in Process
                 PROVE  /\ proc'[q].phase \notin {"dead", "idle"} /\ ~proc'[q].boot => proc'[q].key \in Key
                        /\ proc'[q].phase \in Charging \cup {"syncdir"} => ~proc'[q].boot
      BY Zenon DEF Keyed
    <2>1. CASE q = p BY Zenon, <1>3, <2>1 DEF Charging
    <2>2. CASE q # p BY <1>1, <1>3, <2>2, Zenon DEF Keyed
    <2>. QED BY Zenon, <2>1, <2>2
  <1>8. Exclusive'
    <2>1. proc[p].inode # NoInode /\ proc[p].inode = lock BY Zenon, <1>1 DEF Exclusive
    <2>2. ASSUME NEW q \in Process
          PROVE  /\ proc'[q].phase \in {"lock", "check"} \cup Working => proc'[q].inode # NoInode
                 /\ proc'[q].phase \in Working => proc'[q].inode = lock'
      <3>1. CASE q = p BY Zenon, <1>3, <2>1, <3>1 DEF Working
      <3>2. CASE q # p BY <1>1, <1>3, <3>2, ZenonT(60) DEF Exclusive
      <3>. QED BY Zenon, <3>1, <3>2
    <2>3. Holds(p) /\ (Holds(p)' => proc'[p].inode = proc[p].inode)
      BY Zenon, <1>3 DEF Holds, Working
    <2>4. ASSUME NEW q1 \in Process, NEW q2 \in Process, q1 # q2, Holds(q1)', Holds(q2)'
          PROVE  proc'[q1].inode # proc'[q2].inode
      <3>1. \A q \in Process : Holds(q)' => Holds(q) /\ proc'[q].inode = proc[q].inode
        <4> SUFFICES ASSUME NEW q \in Process, Holds(q)'
                     PROVE  Holds(q) /\ proc'[q].inode = proc[q].inode
          BY Zenon
        <4>1. CASE q = p BY <2>3, <4>1, Zenon
        <4>2. CASE q # p BY <1>3, <4>2, Zenon DEF Holds
        <4>. QED BY Zenon, <4>1, <4>2
      <3>2. /\ Holds(q1) /\ proc'[q1].inode = proc[q1].inode
            /\ Holds(q2) /\ proc'[q2].inode = proc[q2].inode
        BY <2>4, <3>1, Zenon
      <3>3. \A q3, q4 \in Process :
              q3 # q4 /\ Holds(q3) /\ Holds(q4) => proc[q3].inode # proc[q4].inode
        BY <1>1, Zenon DEF Exclusive
      <3>4. proc[q1].inode # proc[q2].inode
        BY <2>4, <3>2, <3>3, Zenon
      <3>. QED BY <3>2, <3>4, Zenon
    <2>. QED BY <2>2, <2>4, Zenon DEF Exclusive
  <1>. QED BY <1>3, <1>4, <1>6, <1>7, <1>8, Zenon

\* The rename puts the charged budget, all of it on the disk, in the place of the file;
\* the disk may keep the old one, which is sound as well.
LEMMA RenameStep ==
  ASSUME BInv, NEW p \in Process, Rename(p)
  PROVE  BInv'
  <1> DEFINE r == [proc[p] EXCEPT !.phase = "syncdir"]
             wall == proc[p].wall
             k == proc[p].key
             c == Precharged(Loaded(file.seen, wall), wall, k)
             h == WithProbe(granted, k, wall)
             u == IF file.seen = Missing THEN c.updated ELSE origin
  <1>1. BTyped /\ Durable /\ Charged BY Zenon DEF BInv
  <1>2. proc[p].phase = "rename" BY Zenon DEF Rename, Step
  <1>3. proc' = [proc EXCEPT ![p] = r] BY Zenon DEF Rename, Step
  <1>4. /\ now' = now /\ lock' = lock /\ inodes' = inodes /\ disk' = disk
        /\ granted' = granted /\ probes' = probes
    BY Zenon DEF Rename
  <1>5. proc[p] \in ProcessType BY <1>1 DEF BTyped
  <1>6. /\ r \in ProcessType /\ r.phase = "syncdir" /\ r.boot = proc[p].boot
        /\ r.key = k /\ r.wall = wall /\ r.inode = proc[p].inode
    <2>1. "syncdir" \in Phase BY DEF Phase
    <2>. QED BY <1>5, <2>1, SetPhase, Zenon
  <1>7. k \in Key /\ ~proc[p].boot BY Zenon, <1>2 DEF BInv, Keyed, Charging
  <1>8. /\ MayCharge(Loaded(file.seen, wall), wall, k)
        /\ proc[p].temp.seen = c /\ proc[p].temp.stored = proc[p].temp.seen
    <2>1. proc[p].phase \in Charging BY Zenon, <1>2 DEF Charging
    <2>2. Prepared(proc[p]) BY <1>1, <2>1, Zenon DEF Charged
    <2>. QED BY <1>2, <2>2, Zenon DEF Prepared
  <1>9. wall \in 0 .. MaxTime BY Zenon, <1>5 DEF ProcessType
  <1>10. /\ Sound(file.seen, origin, granted, probes) /\ origin \in 0 .. MaxTime
         /\ granted \in Grants /\ probes \in Nat
    BY <1>1, Zenon DEF BTyped, Durable
  <1>11. /\ c \in Budgets /\ h \in Grants
         /\ Sound(c, u, granted, probes)
         /\ Sound(c, u, h, probes + 1)
         /\ granted[k].count > 0 => wall >= granted[k].last + Cooldown
    BY <1>7, <1>8, <1>9, <1>10, PreparedSound, Zenon
  <1>12. file' = proc[p].temp /\ origin' = u BY <1>8, Zenon DEF Rename
  <1>13. file'.seen = c /\ file'.stored = c BY <1>8, <1>12, Zenon
  <1>14. /\ proc' \in [Process -> ProcessType] /\ Exclusive' /\ Keyed' /\ proc'[p] = r
         /\ \A q \in Process : proc'[q].phase \in Working => q = p
    <2>1. proc[p].phase \in Working BY Zenon, <1>2 DEF Working
    <2>. HIDE DEF r
    <2>. QED BY <1>3, <1>4, <1>6, <1>7, <2>1, WorkerStep, Zenon
  <1>15. file' \in [seen: Files, stored: Files] BY <1>5, <1>12, Zenon DEF ProcessType
  <1>16. u \in 0 .. MaxTime
    <2>. HIDE DEF c
    <2>. QED BY Zenon, <1>10, <1>11 DEF Budgets
  <1>. HIDE DEF r, c, u
  <1>17. BTyped' BY <1>1, <1>4, <1>12, <1>14, <1>15, <1>16, Zenon DEF BTyped
  <1>18. Durable'
    <2>1. Sound(file'.seen, origin', granted', probes') BY <1>4, <1>11, <1>12, <1>13, Zenon
    <2>2. Sound(disk', origin', granted', probes')
      <3>1. CASE file.seen = Missing
        <4>1. disk = Missing BY <1>1, <3>1, Zenon DEF Durable
        <4>. QED BY <1>4, <1>10, <3>1, <4>1, Zenon DEF Sound
      <3>2. CASE file.seen # Missing
        <4>1. origin' = origin BY <1>12, <3>2, Zenon DEF u
        <4>. QED BY <1>1, <1>4, <4>1, Zenon DEF Durable
      <3>. QED BY <3>1, <3>2
    <2>3. file'.seen # Missing BY <1>11, <1>13, BudgetThere, Zenon
    <2>. QED BY <1>13, <2>1, <2>2, <2>3, Zenon DEF Durable
  <1>19. Charged'
    <2> SUFFICES ASSUME NEW q \in Process
                 PROVE  /\ proc'[q].phase \in Charging => Prepared(proc[q])'
                        /\ proc'[q].phase = "syncdir" => Announced(proc[q])'
      BY Zenon DEF Charged
    <2>1. CASE q = p
      <3>1. proc'[q].phase \notin Charging BY Zenon, <1>6, <1>14, <2>1 DEF Charging
      <3>2. Announced(proc[q])'
        BY <1>4, <1>6, <1>11, <1>12, <1>13, <1>14, <2>1, Zenon DEF Announced
      <3>. QED BY Zenon, <3>1, <3>2
    <2>2. CASE q # p BY <1>14, <2>2 DEF Working, Charging
    <2>. QED BY <2>1, <2>2
  <1>. QED BY <1>14, <1>17, <1>18, <1>19, Zenon DEF BInv

\* The directory is synced: the disk has the probe, and the probe is granted.
LEMMA SyncDirectoryStep ==
  ASSUME BInv, NEW p \in Process, SyncDirectory(p)
  PROVE  BInv'
  <1> DEFINE r == IdleProcess(TRUE)
             h == WithProbe(granted, proc[p].key, proc[p].wall)
  <1>1. BTyped /\ Durable /\ Charged BY Zenon DEF BInv
  <1>2. /\ now' = now /\ lock' = lock /\ inodes' = inodes /\ file' = file /\ origin' = origin
        /\ disk' = file.stored /\ probes' = probes + 1 /\ proc' = [proc EXCEPT ![p] = r]
    BY Zenon DEF SyncDirectory, Leave
  <1>3. granted' = h BY Zenon DEF SyncDirectory, WithProbe
  <1>4. proc[p].phase = "syncdir" BY Zenon DEF SyncDirectory
  <1>5. /\ h \in Grants /\ Sound(file.seen, origin, h, probes + 1)
    <2>1. Announced(proc[p]) BY <1>1, <1>4, Zenon DEF Charged
    <2>. QED BY <2>1, Zenon DEF Announced
  <1>6. r \in ProcessType /\ r.phase = "idle"
    <2>1. TRUE \in BOOLEAN BY Zenon
    <2>. QED BY <2>1, AtRest, Zenon
  <1>7. /\ proc' \in [Process -> ProcessType] /\ Exclusive' /\ Keyed' /\ proc'[p] = r
        /\ \A q \in Process : proc'[q].phase \in Working => q = p
    <2>1. proc[p].phase \in Working BY Zenon, <1>4 DEF Working
    <2>. HIDE DEF r
    <2>. QED BY <1>2, <1>6, <2>1, WorkerStep, Zenon
  <1>. HIDE DEF h, r
  <1>8. file.stored = file.seen BY <1>1, Zenon DEF Durable
  <1>9. Durable' BY <1>2, <1>3, <1>5, <1>8, Zenon DEF Durable
  <1>10. disk' \in Files /\ probes' \in Nat BY <1>1, <1>2 DEF BTyped
  <1>11. BTyped' BY <1>1, <1>2, <1>3, <1>5, <1>7, <1>10, Zenon DEF BTyped
  <1>12. \A q \in Process : proc'[q].phase \notin Working
    BY Zenon, <1>6, <1>7 DEF Working
  <1>13. Charged' BY <1>12 DEF Charged, Working, Charging
  <1>. QED BY <1>7, <1>9, <1>11, <1>13, Zenon DEF BInv

\* Fail and Crash.
LEMMA StopStep ==
  ASSUME BInv, NEW p \in Process, Fail(p) \/ Crash(p)
  PROVE  BInv'
  <1>1. FALSE \in BOOLEAN BY Zenon
  <1>2. CASE Fail(p)
    <2>1. proc' = [proc EXCEPT ![p] = IdleProcess(FALSE)] BY <1>2, Zenon DEF Fail, Leave
    <2>2. IdleProcess(FALSE) \in ProcessType /\ IdleProcess(FALSE).phase \in {"idle", "dead"}
      BY <1>1, AtRest, Zenon
    <2>. QED BY <1>2, <2>1, <2>2, RestStep, Zenon DEF Fail
  <1>3. CASE Crash(p)
    <2>1. proc' = [proc EXCEPT ![p] = DeadProcess] BY <1>3, Zenon DEF Crash, Leave
    <2>2. DeadProcess \in ProcessType /\ DeadProcess.phase \in {"idle", "dead"}
      BY <1>1, AtRest, Zenon
    <2>. QED BY <1>3, <2>1, <2>2, RestStep, Zenon DEF Crash
  <1>. QED BY <1>2, <1>3, Zenon

\* The kernel writes the directory back: the disk has the file.
LEMMA WriteBackStep ==
  ASSUME BInv, WriteBack
  PROVE  BInv'
  <1>1. BTyped /\ Exclusive /\ Keyed /\ Durable /\ Charged BY Zenon DEF BInv
  <1>2. /\ proc' = proc /\ now' = now /\ lock' = lock /\ inodes' = inodes /\ file' = file
        /\ origin' = origin /\ granted' = granted /\ probes' = probes /\ disk' = file.stored
    BY Zenon DEF WriteBack
  <1>3. file.stored = file.seen BY <1>1, Zenon DEF Durable
  <1>4. disk' \in Files BY <1>1, <1>2 DEF BTyped
  <1>5. BTyped' BY <1>1, <1>2, <1>4, Zenon DEF BTyped
  <1>6. Exclusive' /\ Keyed' BY <1>1, <1>2, Zenon DEF Exclusive, Keyed, Holds
  <1>7. Durable' BY <1>1, <1>2, <1>3, Zenon DEF Durable
  <1>8. Charged' BY <1>1, <1>2, Zenon DEF Charged, Prepared, Announced
  <1>. QED BY <1>5, <1>6, <1>7, <1>8, Zenon DEF BInv

\* A loss of power leaves what is on the disk, which accounts for every grant.
LEMMA PowerLossStep ==
  ASSUME BInv, PowerLoss
  PROVE  BInv'
  <1>1. BTyped /\ Durable BY Zenon DEF BInv
  <1>2. /\ proc' = [p \in Process |-> DeadProcess] /\ file' = Whole(disk)
        /\ lock' \in {lock, NoInode} /\ now' = now /\ inodes' = inodes /\ disk' = disk
        /\ origin' = origin /\ granted' = granted /\ probes' = probes
    BY Zenon DEF PowerLoss
  <1>3. DeadProcess \in ProcessType /\ DeadProcess.phase = "dead"
    <2>1. FALSE \in BOOLEAN BY Zenon
    <2>. QED BY <2>1, AtRest, Zenon
  <1>4. proc' \in [Process -> ProcessType] /\ \A p \in Process : proc'[p].phase = "dead"
    BY Zenon, <1>2, <1>3
  <1>5. file' \in [seen: Files, stored: Files] /\ file'.seen = disk /\ file'.stored = disk
    BY Zenon, <1>1, <1>2 DEF BTyped, Whole
  <1>6. lock' \in 0 .. MaxInode BY <1>1, <1>2, BudgetAssumption DEF BTyped, NoInode
  <1>7. BTyped' BY <1>1, <1>2, <1>4, <1>5, <1>6, Zenon DEF BTyped
  <1>8. Exclusive' BY <1>4 DEF Exclusive, Holds, Working
  <1>9. Keyed' BY <1>4 DEF Keyed, Charging
  <1>10. Charged' BY <1>4 DEF Charged, Charging
  <1>11. Durable' BY <1>1, <1>2, <1>5, Zenon DEF Durable
  <1>. QED BY <1>7, <1>8, <1>9, <1>10, <1>11, Zenon DEF BInv

\* The lock file is removed while nobody works under it.
LEMMA RemoveLockStep ==
  ASSUME BInv, RemoveLock
  PROVE  BInv'
  <1>1. BTyped /\ Exclusive /\ Keyed /\ Durable /\ Charged BY Zenon DEF BInv
  <1>2. /\ proc' = proc /\ now' = now /\ lock' = NoInode /\ inodes' = inodes /\ file' = file
        /\ origin' = origin /\ granted' = granted /\ probes' = probes /\ disk' = disk
    BY Zenon DEF RemoveLock
  <1>3. \A p \in Process : proc[p].phase \notin Working BY DEF RemoveLock, Working
  <1>4. lock' \in 0 .. MaxInode BY <1>2, BudgetAssumption DEF NoInode
  <1>5. BTyped' BY <1>1, <1>2, <1>4, Zenon DEF BTyped
  <1>6. Exclusive' BY <1>1, <1>2, <1>3, Zenon DEF Exclusive, Holds
  <1>7. Keyed' /\ Durable' BY <1>1, <1>2, Zenon DEF Keyed, Durable
  <1>8. Charged' BY <1>1, <1>2, Zenon DEF Charged, Prepared, Announced
  <1>. QED BY <1>5, <1>6, <1>7, <1>8, Zenon DEF BInv

\* The clock moves, either way.
LEMMA ClockStep ==
  ASSUME BInv, Clock
  PROVE  BInv'
  <1>1. BTyped /\ Exclusive /\ Keyed /\ Durable /\ Charged BY Zenon DEF BInv
  <1>2. /\ proc' = proc /\ lock' = lock /\ inodes' = inodes /\ file' = file
        /\ origin' = origin /\ granted' = granted /\ probes' = probes /\ disk' = disk
        /\ now' \in 0 .. MaxTime
    BY Zenon DEF Clock
  <1>3. BTyped' BY <1>1, <1>2, Zenon DEF BTyped
  <1>4. Exclusive' BY <1>1, <1>2, Zenon DEF Exclusive, Holds
  <1>5. Keyed' /\ Durable' BY <1>1, <1>2, Zenon DEF Keyed, Durable
  <1>6. Charged' BY <1>1, <1>2, Zenon DEF Charged, Prepared, Announced
  <1>. QED BY <1>3, <1>4, <1>5, <1>6, Zenon DEF BInv

\* Nothing happens.
LEMMA StutterStep ==
  ASSUME BInv, UNCHANGED vars
  PROVE  BInv'
  <1>1. BTyped /\ Exclusive /\ Keyed /\ Durable /\ Charged BY Zenon DEF BInv
  <1>2. /\ proc' = proc /\ now' = now /\ lock' = lock /\ inodes' = inodes /\ file' = file
        /\ origin' = origin /\ granted' = granted /\ probes' = probes /\ disk' = disk
    BY Zenon DEF vars
  <1>3. BTyped' BY <1>1, <1>2, Zenon DEF BTyped
  <1>4. Exclusive' BY <1>1, <1>2, Zenon DEF Exclusive, Holds
  <1>5. Keyed' /\ Durable' BY <1>1, <1>2, Zenon DEF Keyed, Durable
  <1>6. Charged' BY <1>1, <1>2, Zenon DEF Charged, Prepared, Announced
  <1>. QED BY <1>3, <1>4, <1>5, <1>6, Zenon DEF BInv

\* Every step of a process.
LEMMA ProcessNext ==
  ASSUME BInv, NEW p \in Process,
         \/ Start(p) \/ \E k \in Key : Charge(p, k)
         \/ OpenLock(p) \/ TakeLock(p) \/ CheckLock(p) \/ Load(p)
         \/ Write(p) \/ Sync(p) \/ Rename(p) \/ SyncDirectory(p)
         \/ Fail(p) \/ Crash(p)
  PROVE  BInv'
  BY Zenon, BeginStep, OpenLockStep, TakeLockStep, CheckLockStep, LoadStep, WriteStep,
     RenameStep, SyncDirectoryStep, StopStep, Zenon

\* Every step.
LEMMA BudgetNext == BInv /\ [Next]_vars => BInv'
  <1> SUFFICES ASSUME BInv, [Next]_vars PROVE BInv' OBVIOUS
  <1>. QED BY ProcessNext, WriteBackStep, PowerLossStep, RemoveLockStep, ClockStep,
              StutterStep, Zenon DEF Next

\* The invariant of the budget: one process at a time works on the file, what it
\* prepares is the file of now with one probe charged, and file and disk, each by
\* itself, account for every probe granted (charge_fallback, with_owner_only_lock,
\* write_owner_only_atomic).
THEOREM BudgetInvariant == Spec => []BInv
  BY BudgetInit, BudgetNext, PTL DEF Spec

-----------------------------------------------------------------------------
(* What follows.                                                           *)

\* Every variable keeps its type; no key gets more probes than max_attempts.
THEOREM BudgetTyped == Spec => []BudgetTypeOK
  <1>1. BInv => BudgetTypeOK
    <2> SUFFICES ASSUME BInv PROVE BudgetTypeOK OBVIOUS
    <2>1. BTyped BY Zenon DEF BInv
    <2>2. \A p \in Process : proc[p] \in ProcessType BY <2>1 DEF BTyped
    <2>. QED BY Zenon, <2>1, <2>2 DEF BTyped, BudgetTypeOK, ProcessType, Grants
  <1>. QED BY <1>1, BudgetInvariant, PTL

\* No probe without its token: whatever crashes and however the clock is set, the
\* probes granted are paid by tokens that are gone from the disk (charge_fallback
\* before a probe, write_owner_only_atomic).
THEOREM ProbesPaid == Spec => []TokensConserved
  <1>1. BInv => TokensConserved
    <2> SUFFICES ASSUME BInv PROVE TokensConserved OBVIOUS
    <2>1. Sound(disk, origin, granted, probes) BY Zenon DEF BInv, Durable
    <2>2. disk.kind = "budget" => disk # Missing BY DEF Missing
    <2>3. disk.kind = "missing" => disk = Missing
      <3>1. disk \in Budgets \cup {Missing} BY <2>1, Zenon DEF Sound
      <3>. QED BY <3>1 DEF Budgets
    <2>. QED BY <2>1, <2>2, <2>3, Zenon DEF Sound, TokensConserved
  <1>. QED BY <1>1, BudgetInvariant, PTL

\* The disk knows of every probe that an old address got, so no crash, restart or loss
\* of power gives it one more than max_attempts.
THEOREM AttemptsOnDisk == Spec => []AttemptsBounded
  <1>1. BInv => AttemptsBounded
    <2> SUFFICES ASSUME BInv PROVE AttemptsBounded OBVIOUS
    <2>1. Sound(disk, origin, granted, probes) BY Zenon DEF BInv, Durable
    <2>2. disk.kind = "budget" => disk # Missing BY DEF Missing
    <2>. QED BY <2>1, <2>2, Zenon DEF Sound, AttemptsBounded
  <1>. QED BY <1>1, BudgetInvariant, PTL

\* The program always reads back what it wrote: neither the file nor what a loss of
\* power leaves of it is torn or refused by load_fallback_state.
THEOREM FileAlwaysLoadable == Spec => []AlwaysLoadable
  <1>1. BInv => AlwaysLoadable
    <2> SUFFICES ASSUME BInv PROVE AlwaysLoadable OBVIOUS
    <2>1. Sound(disk, origin, granted, probes) /\ Sound(file.seen, origin, granted, probes)
      BY Zenon DEF BInv, Durable
    <2>2. ASSUME NEW f, Sound(f, origin, granted, probes)
          PROVE  f # Torn /\ Loads(f, MaxTime)
      <3>1. f \in Budgets \cup {Missing} BY <2>2, Zenon DEF Sound
      <3>2. f # Torn
        <4>1. f \in Budgets => f.kind = "budget" BY DEF Budgets
        <4>2. Missing.kind = "missing" /\ Torn.kind = "torn" BY DEF Missing, Torn
        <4>. QED BY <3>1, <4>1, <4>2
      <3>3. ASSUME f.kind = "budget" PROVE Loads(f, MaxTime)
        <4>1. f \in Budgets /\ f # Missing BY <3>1, <3>3 DEF Missing
        <4>2. /\ Cardinality(Used(f)) <= MAX_BUDGET_ENTRIES
              /\ \A k \in Used(f) :
                   /\ f.entries[k].last_used <= f.entries[k].not_before
                   /\ f.entries[k].not_before - f.entries[k].last_used <= MAX_PERSISTED_COOLDOWN
          BY <2>2, <4>1, Zenon DEF Sound
        <4>3. f.tokens <= Capacity /\ f.updated <= MaxTime + FutureSlack
          BY <4>1, BudgetAssumption DEF Budgets
        <4>4. \A k \in Used(f) : f.entries[k].last_used <= MaxTime + FutureSlack
          BY <4>1, BudgetAssumption DEF Budgets, Entry, Used
        <4>. QED BY <4>2, <4>3, <4>4, Zenon DEF Loads
      <3>. QED BY Zenon, <3>2, <3>3 DEF Loads
    <2>. QED BY <2>1, <2>2, Zenon DEF AlwaysLoadable
  <1>. QED BY <1>1, BudgetInvariant, PTL

\* Two probes of one old address are a cool-down apart, on the clock that the charges
\* read, whoever made them and whatever crashed in between.
THEOREM ProbesAlwaysSpaced == Spec => ProbesSpaced
  <1> DEFINE Spaced == \A k \in Key : granted[k].count > 0 /\ granted'[k] # granted[k] =>
                          granted'[k].last >= granted[k].last + Cooldown
  <1>1. BInv /\ [Next]_vars => [Spaced]_vars
    <2> SUFFICES ASSUME BInv, Next PROVE Spaced BY Zenon DEF vars
    <2>1. CASE \E p \in Process : SyncDirectory(p)
      <3>1. PICK p \in Process : SyncDirectory(p) BY <2>1, Zenon
      <3>2. granted' = WithProbe(granted, proc[p].key, proc[p].wall)
        BY <3>1, Zenon DEF SyncDirectory, WithProbe
      <3>3. proc[p].phase = "syncdir" BY <3>1, Zenon DEF SyncDirectory
      <3>4. Announced(proc[p]) BY <3>3, Zenon DEF BInv, Charged
      <3>5. granted \in Grants BY Zenon DEF BInv, BTyped
      <3> SUFFICES ASSUME NEW k \in Key, granted[k].count > 0, granted'[k] # granted[k]
                   PROVE  granted'[k].last >= granted[k].last + Cooldown
        BY Zenon
      <3>6. k = proc[p].key /\ granted'[k].last = proc[p].wall
        BY Zenon, <3>2, <3>5 DEF WithProbe, Grants
      <3>7. proc[p].wall >= granted[k].last + Cooldown BY <3>4, <3>6, Zenon DEF Announced
      <3>. QED BY Zenon, <3>6, <3>7
    <2>2. CASE ~\E p \in Process : SyncDirectory(p)
      <3>1. granted' = granted
        <4>1. ASSUME NEW p \in Process,
                     \/ Start(p) \/ \E k \in Key : Charge(p, k)
                     \/ OpenLock(p) \/ TakeLock(p) \/ CheckLock(p) \/ Load(p)
              PROVE  granted' = granted
          BY <4>1, Zenon DEF Start, Charge, OpenLock, TakeLock, CheckLock, Load
        <4>2. ASSUME NEW p \in Process,
                     \/ Write(p) \/ Sync(p) \/ Rename(p) \/ Fail(p) \/ Crash(p)
              PROVE  granted' = granted
          BY <4>2, Zenon DEF Write, Sync, Rename, Fail, Crash
        <4>3. ASSUME WriteBack \/ PowerLoss \/ RemoveLock \/ Clock PROVE granted' = granted
          BY <4>3, Zenon DEF WriteBack, PowerLoss, RemoveLock, Clock
        <4>. QED BY <2>2, <4>1, <4>2, <4>3, Zenon DEF Next
      <3>. QED BY <3>1, Zenon
    <2>. QED BY Zenon, <2>1, <2>2
  <1>2. Spec => [][Spaced]_vars BY <1>1, BudgetInvariant, PTL DEF Spec
  <1>. QED BY <1>2 DEF ProbesSpaced

=============================================================================
