--------------------------- MODULE Conversations ---------------------------
(***************************************************************************)
(* The table of conversations (src/conv.rs, ConvManager) as its owners     *)
(* work on it: the client, for which the data of a conversation is the     *)
(* address of a local peer (src/client.rs), and the server, for which it   *)
(* is a socket of its own (src/server.rs).  Four collections tell the same *)
(* story: two maps between numbers and data, the time of the last          *)
(* activity, and the order by that time.                                   *)
(*                                                                         *)
(* The constants of src/consts.rs have their values, so the module is for  *)
(* the prover.                                                             *)
(***************************************************************************)
EXTENDS Integers, FiniteSets

CONSTANT Data              \* addresses of local peers, or sockets

Conv == {c \in Nat : c < 65536 * 65536}   \* a u32; the client draws none that is zero

MAX_CONV_NUM == 10000
CONV_TIMEOUT_MS == 180000
CONV_CLEAR_INTERVAL_MS == 1000
CONV_CLEAR_RATIO == 30
CONV_CLEAR_MIN == 1

VARIABLES
  data_to_conv, conv_to_data,
  last_active,
  lru,                     \* pairs of a time and a number
  last_clear_time,
  clock

ConvVars == <<data_to_conv, conv_to_data, last_active, lru, last_clear_time, clock>>

ConvInit ==
  /\ data_to_conv = [d \in {} |-> 0] /\ conv_to_data = [c \in {} |-> 0]
  /\ last_active = [c \in {} |-> 0] /\ lru = {} /\ last_clear_time = 0
  /\ clock \in Nat

Put(f, x, y) == [z \in DOMAIN f \cup {x} |-> IF z = x THEN y ELSE f[z]]
Without(f, S) == [z \in DOMAIN f \ S |-> f[z]]

is_conv_used(conv) == conv \in DOMAIN conv_to_data
is_data_used(d) == d \in DOMAIN data_to_conv

\* saturating_sub
Since(time) == IF clock >= time THEN clock - time ELSE 0

insert(conv, d) ==
  /\ data_to_conv' = Put(data_to_conv, d, conv) /\ conv_to_data' = Put(conv_to_data, conv, d)
  /\ last_active' = Put(last_active, conv, clock) /\ lru' = lru \cup {<<clock, conv>>}
  /\ UNCHANGED <<last_clear_time, clock>>

update_active_time(conv) ==
  /\ IF conv \in DOMAIN last_active
     THEN /\ lru' = (lru \ {<<last_active[conv], conv>>}) \cup {<<clock, conv>>}
          /\ last_active' = Put(last_active, conv, clock)
     ELSE UNCHANGED <<lru, last_active>>
  /\ UNCHANGED <<data_to_conv, conv_to_data, last_clear_time, clock>>

\* erase, for the conversations of a set that are used.
erase(convs) ==
  /\ data_to_conv' = Without(data_to_conv, {conv_to_data[c] : c \in convs})
  /\ conv_to_data' = Without(conv_to_data, convs)
  /\ last_active' = Without(last_active, convs)
  /\ lru' = lru \ {<<last_active[c], c>> : c \in convs \cap DOMAIN last_active}

\* on_udp_packet, and on_safer_data of the server: a conversation that is known is
\* active; a new one is entered, unless there are too many, under a number that is not
\* used (the client draws it) with data that is not used (the server opens a socket).
Use(conv, d) ==
  /\ is_conv_used(conv) /\ conv_to_data[conv] = d
  /\ update_active_time(conv)

New(conv, d) ==
  /\ ~is_conv_used(conv) /\ ~is_data_used(d)
  /\ Cardinality(DOMAIN conv_to_data) < MAX_CONV_NUM
  /\ insert(conv, d)

\* The order of the set lru.
Before(e, f) == e[1] < f[1] \/ (e[1] = f[1] /\ e[2] < f[2])

\* What clear_inactive takes: from the first on, while it is old enough, and no more
\* than its share of the table.
num_to_clean == Cardinality(lru) \div CONV_CLEAR_RATIO + CONV_CLEAR_MIN

Expired ==
  {e \in lru : Since(e[1]) >= CONV_TIMEOUT_MS
               /\ Cardinality({f \in lru : Before(f, e)}) < num_to_clean}

clear_inactive ==
  /\ Since(last_clear_time) > CONV_CLEAR_INTERVAL_MS
  /\ last_clear_time' = clock
  /\ erase({c \in DOMAIN conv_to_data : \E e \in Expired : e[2] = c})
  /\ UNCHANGED clock

\* The server drops the connection, and all its conversations.
clear ==
  /\ erase(DOMAIN conv_to_data)
  /\ UNCHANGED <<last_clear_time, clock>>

Tick == clock' \in {t \in Nat : t >= clock} /\ UNCHANGED <<data_to_conv, conv_to_data, last_active, lru, last_clear_time>>

ConvNext ==
  \/ \E conv \in Conv, d \in Data : Use(conv, d) \/ New(conv, d)
  \/ clear_inactive \/ clear \/ Tick

ConvSpec == ConvInit /\ [][ConvNext]_ConvVars

-----------------------------------------------------------------------------

\* The four collections of ConvManager agree after any sequence of calls its owners make:
\* the maps are inverse to each other, and the order is that of the last activity of the
\* conversations that are used, each once; and there are never too many of them.
ConvTablesAgree ==
  /\ \A c \in DOMAIN conv_to_data :
       conv_to_data[c] \in DOMAIN data_to_conv /\ data_to_conv[conv_to_data[c]] = c
  /\ \A d \in DOMAIN data_to_conv :
       data_to_conv[d] \in DOMAIN conv_to_data /\ conv_to_data[data_to_conv[d]] = d
  /\ DOMAIN last_active = DOMAIN conv_to_data
  /\ lru = {<<last_active[c], c>> : c \in DOMAIN conv_to_data}
  /\ Cardinality(DOMAIN conv_to_data) <= MAX_CONV_NUM

\* clear_inactive takes no conversation that was active within CONV_TIMEOUT_MS, and none
\* before one that has been idle longer.
OldestIdleFirst ==
  [][clear_inactive =>
       \A c \in DOMAIN conv_to_data \ DOMAIN conv_to_data' :
         /\ Since(last_active[c]) >= CONV_TIMEOUT_MS
         /\ \A d \in DOMAIN conv_to_data' : last_active[c] <= last_active[d]]_ConvVars

=============================================================================
