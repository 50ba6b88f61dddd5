------------------------------ MODULE Resolver ------------------------------
(***************************************************************************)
(* One lookup of the relay's name (src/dns.rs, resolve_a): the configured  *)
(* servers are asked in order, over UDP and, when the reply is truncated,  *)
(* over TCP, until one returns a usable answer or the time is up.          *)
(*                                                                         *)
(* Two clocks run: that of the exchange with one server over one           *)
(* transport, and that of the whole lookup.  Time passes at any step.  The *)
(* socket calls are here by how they end; a datagram that is no reply to   *)
(* the query, and a TCP read or write that moves a part of the bytes, keep *)
(* the exchange waiting.                                                   *)
(***************************************************************************)
EXTENDS Integers, FiniteSets, FiniteSetsExt, Sequences, SequencesExt

CONSTANTS
  Name, QName,              \* the domain names, and the one that is asked for
  Answers,                  \* answer sections a server may return: sets of records
  Servers,                  \* number of servers
  timeout, overall_timeout, \* of one exchange, of the lookup
  MAX_CNAME_HOPS, MAX_ENDPOINT_CANDIDATES, TTL_MIN_SECS, TTL_MAX_SECS,
  MaxTtl                    \* u32::MAX

Octet == 0 .. 255

Record == [name : Name, type : {"A", "CNAME", "other"}, addr : Octet \X Octet \X Octet \X Octet,
           target : Name, ttl : 0 .. MaxTtl]

ASSUME ResolverAssumption ==
  /\ QName \in Name
  /\ \A section \in Answers : section \subseteq Record
  /\ Servers \in Nat \ {0} /\ timeout \in Nat \ {0} /\ overall_timeout \in Nat \ {0}
  /\ MAX_CNAME_HOPS \in Nat /\ MAX_ENDPOINT_CANDIDATES \in Nat \ {0}
  /\ TTL_MIN_SECS \in 0 .. TTL_MAX_SECS /\ TTL_MAX_SECS \in 0 .. MaxTtl

VARIABLES
  allow_private,
  pc,           \* "server" before a server is asked, "udp" while waiting for its datagram,
                \* a stage of the TCP exchange or "unlimited", "outcome" when query_server
                \* has returned, "done"
  server,       \* number of the server that is asked
  left,         \* time left for the exchange
  shared,       \* whether the exchange ends with the lookup
  total,        \* time left for the lookup
  outcome,      \* what query_server returned
  result,       \* what resolve_a returned
  promised      \* history: what each server asked so far has to say of the name

vars == <<allow_private, pc, server, left, shared, total, outcome, result, promised>>

-----------------------------------------------------------------------------
(* What a reply says.                                                      *)

Failed(why) == [ok |-> FALSE, why |-> why, addrs |-> {}, ttl |-> 0]
Found(addrs, ttl) == [ok |-> TRUE, why |-> "", addrs |-> addrs, ttl |-> ttl]

Of(section, name, type) == {r \in section : r.name = name /\ r.type = type}

LeastTtl(records, ttl) == Min({r.ttl : r \in records} \cup {ttl})

Clamp(ttl) == Max({TTL_MIN_SECS, Min({ttl, TTL_MAX_SECS})})

\* The loop of interpret, at name, with the aliases that led there.
RECURSIVE Follow(_, _, _, _)
Follow(section, name, cnames, chain_ttl) ==
  LET as == Of(section, name, "A")
      cs == Of(section, name, "CNAME")
      targets == {r.target : r \in cs}
  IN  CASE as # {} /\ cs # {} -> Failed("malformed")
        [] as # {} /\ cs = {} ->
             Found({r.addr : r \in as}, Clamp(LeastTtl(as, chain_ttl)))
        [] as = {} /\ cs = {} -> Failed("no data")
        [] OTHER ->
             LET target == CHOOSE t \in targets : TRUE
             IN  IF \/ Cardinality(targets) > 1 \/ Len(cnames) >= MAX_CNAME_HOPS
                    \/ target = name \/ target \in Range(cnames)
                 THEN Failed("malformed")
                 ELSE Follow(section, target, Append(cnames, target), LeastTtl(cs, chain_ttl))

\* Mutant: the answer lives as long as its addresses.
InterpretAddressTtl(reply) ==
  LET found == Follow(reply.section, QName, <<>>, MaxTtl)
      as == {r \in reply.section : r.type = "A" /\ r.addr \in found.addrs}
  IN  IF reply.rcode # "no error" THEN Failed(reply.rcode)
      ELSE IF found.ok THEN [found EXCEPT !.ttl = Clamp(LeastTtl(as, MaxTtl))] ELSE found

interpret(reply) ==
  IF reply.rcode # "no error" THEN Failed(reply.rcode)
  ELSE Follow(reply.section, QName, <<>>, MaxTtl)

\* check_endpoint_ip, the predicates of Ipv4Addr written out.
check_endpoint_ip(o) ==
  LET link_local == o[1] = 169 /\ o[2] = 254
      documentation == <<o[1], o[2], o[3]>> \in {<<192, 0, 2>>, <<198, 51, 100>>, <<203, 0, 113>>}
      private == \/ o[1] = 10
                 \/ o[1] = 172 /\ o[2] \in 16 .. 31
                 \/ o[1] = 192 /\ o[2] = 168
      cgnat == o[1] = 100 /\ o[2] \in 64 .. 127
  IN  /\ o[1] \notin {0, 127} /\ ~link_local
      /\ o[1] \notin 224 .. 239 /\ o[1] < 240
      /\ ~documentation /\ ~(o[1] = 198 /\ o[2] \in {18, 19})
      /\ <<o[1], o[2], o[3]>> \notin {<<192, 0, 0>>, <<192, 88, 99>>}
      /\ private \/ cgnat => allow_private

\* The order of addresses as numbers.
Below(a, b) == \E i \in 1 .. 4 : a[i] < b[i] /\ \A j \in 1 .. i - 1 : a[j] = b[j]

\* canonicalize_answer: the list is in numeric order and has no duplicate, so a set
\* stands for it.
canonicalize_answer(answer) ==
  LET usable == {a \in answer.addrs : check_endpoint_ip(a)}
      kept == {a \in usable : Cardinality({b \in usable : Below(b, a)}) < MAX_ENDPOINT_CANDIDATES}
  IN  IF usable = {} THEN Failed("no usable addresses") ELSE [answer EXCEPT !.addrs = kept]

-----------------------------------------------------------------------------
(* What a reply should say, by definition.                                 *)

\* a.b.c.d/len
InBlock(o, block, len) ==
  \A i \in 1 .. 4 :
    LET bits == Max({0, Min({8, len - 8 * (i - 1)})})
        unit == 2 ^ (8 - bits)
    IN  o[i] \div unit = block[i] \div unit

\* Blocks where no relay can be, and those where one can be if this is allowed.
Special ==
  {<<<<0, 0, 0, 0>>, 8>>, <<<<127, 0, 0, 0>>, 8>>, <<<<169, 254, 0, 0>>, 16>>,
   <<<<224, 0, 0, 0>>, 4>>, <<<<240, 0, 0, 0>>, 4>>, <<<<192, 0, 0, 0>>, 24>>,
   <<<<192, 0, 2, 0>>, 24>>, <<<<192, 88, 99, 0>>, 24>>, <<<<198, 18, 0, 0>>, 15>>,
   <<<<198, 51, 100, 0>>, 24>>, <<<<203, 0, 113, 0>>, 24>>}

Private ==
  {<<<<10, 0, 0, 0>>, 8>>, <<<<172, 16, 0, 0>>, 12>>, <<<<192, 168, 0, 0>>, 16>>,
   <<<<100, 64, 0, 0>>, 10>>}

Allowed(o) ==
  \A b \in Special \cup IF allow_private THEN {} ELSE Private : ~InBlock(o, b[1], b[2])

\* The names from the one asked for to one with addresses: each but the last has one
\* alias and no address, the last has addresses and no alias.
ChainOf(section) ==
  {s \in UNION {[1 .. n + 1 -> Name] : n \in 0 .. MAX_CNAME_HOPS} :
     /\ s[1] = QName
     /\ \A i \in 1 .. Len(s) - 1 :
          /\ {r.target : r \in Of(section, s[i], "CNAME")} = {s[i + 1]}
          /\ Of(section, s[i], "A") = {}
     /\ Of(section, s[Len(s)], "A") # {} /\ Of(section, s[Len(s)], "CNAME") = {}}

\* What a reply has to say of the name.
Says(reply) ==
  LET chain == ChainOf(reply.section)
      used == {r \in reply.section : r.type # "other" /\ \E s \in chain : r.name \in Range(s)}
      allowed == {a \in {r.addr : r \in {u \in used : u.type = "A"}} : Allowed(a)}
      lowest == {a \in allowed : Cardinality({b \in allowed : Below(b, a)}) < MAX_ENDPOINT_CANDIDATES}
  IN  IF reply.rcode # "no error" \/ allowed = {} THEN Failed("")
      ELSE Found(lowest, Clamp(Min({r.ttl : r \in used})))

-----------------------------------------------------------------------------
(* The lookup.                                                             *)

Stage == {"connect", "write", "length", "body"}   \* of tcp_exchange, in this order

Smaller(a, b) == IF a < b THEN a ELSE b

Return(r) ==
  /\ result' = r /\ pc' = "done"
  /\ UNCHANGED <<allow_private, server, left, shared, total, outcome>>

\* transport_deadline, and the exchange begins.
Exchange(transport) ==
  IF total = 0
  THEN Return(Failed("deadline exceeded"))
  ELSE /\ pc' = transport
       /\ left' = Smaller(timeout, total) /\ shared' = (timeout >= total)
       /\ UNCHANGED <<allow_private, server, total, outcome, result>>

\* The head of the loop of resolve_a, and query_server up to the UDP exchange.
Ask ==
  /\ pc = "server" /\ server <= Servers
  /\ Exchange("udp")
  /\ UNCHANGED promised

\* query_server returns.
Outcome(r) ==
  /\ outcome' = r /\ pc' = "outcome"
  /\ UNCHANGED <<allow_private, server, left, shared, total, result>>

\* A reply to the query arrives, it may be at the last moment.
Reply(reply) ==
  /\ pc \in {"udp", "body"}
  /\ IF pc = "udp" /\ reply.truncated
     THEN Exchange("connect") /\ UNCHANGED promised
     ELSE /\ Outcome(interpret(reply))
          /\ promised' = Append(promised, Says(reply))

\* The next stage of the TCP exchange, in time.
Proceed(stage, next) ==
  /\ pc = stage /\ left > 0
  /\ pc' = next
  /\ UNCHANGED <<allow_private, server, left, shared, total, outcome, result, promised>>

tcp_connect == Proceed("connect", "write")

\* connect is called with less than a microsecond left: SO_SNDTIMEO is cut to whole
\* microseconds, and zero is no limit.
Unlimited ==
  /\ pc = "connect" /\ left = 0
  /\ pc' = "unlimited"
  /\ UNCHANGED <<allow_private, server, left, shared, total, outcome, result, promised>>

write_all_until == Proceed("write", "length")

\* The length of the reply is read; zero is the case of Broken.
read_length == Proceed("length", "body")

\* A socket call fails, or over TCP the length is zero or too large, the reply is
\* undecodable or not ours.  The UDP socket call that sends may time out.
Broken ==
  /\ pc \in {"udp"} \cup Stage
  /\ \E why \in {"io"} \cup (IF pc \in {"length", "body"} THEN {"malformed"} ELSE {})
                     \cup (IF pc = "udp" /\ left = 0 THEN {"timeout"} ELSE {}) :
       Outcome(Failed(why))
  /\ promised' = Append(promised, Failed(""))

\* Then connect succeeds, fails, or is given up by the kernel.
ConnectReturns ==
  /\ pc = "unlimited"
  /\ \/ /\ pc' = "write"
        /\ UNCHANGED <<allow_private, server, left, shared, total, outcome, result, promised>>
     \/ /\ \E why \in {"io", IF shared THEN "deadline exceeded" ELSE "io"} : Outcome(Failed(why))
        /\ promised' = Append(promised, Failed(""))

\* Mutant: the exchange waits its time again.
PartialRestarts ==
  /\ pc \in {"udp", "write", "length", "body"} /\ left > 0
  /\ left' = timeout
  /\ UNCHANGED <<allow_private, pc, server, shared, total, outcome, result, promised>>

\* A datagram that is no reply to the query, a part of what is written or read: the loop
\* goes on with what is left of the time.
Partial ==
  /\ pc \in {"udp", "write", "length", "body"} /\ left > 0
  /\ UNCHANGED vars

\* timeout_error
Timeout ==
  /\ pc \in {"udp"} \cup Stage /\ left = 0
  /\ Outcome(Failed(IF shared THEN "deadline exceeded" ELSE "timeout"))
  /\ promised' = Append(promised, Failed(""))

\* resolve_a with what query_server returned: the answer, the next server, or the end.
Conclude ==
  LET answer == IF outcome.ok THEN canonicalize_answer(outcome) ELSE outcome
  IN  /\ pc = "outcome"
      /\ IF total = 0 \/ answer.why = "deadline exceeded" THEN Return(Failed("deadline exceeded"))
         ELSE IF answer.ok THEN Return(answer)
         ELSE IF server = Servers THEN Return(Failed("all failed"))
         ELSE /\ pc' = "server" /\ server' = server + 1
              /\ UNCHANGED <<allow_private, left, shared, total, outcome, result>>
      /\ UNCHANGED promised

\* Time passes.
Tick ==
  /\ pc # "done" /\ total > 0
  /\ total' = total - 1 /\ left' = IF left = 0 THEN 0 ELSE left - 1
  /\ UNCHANGED <<allow_private, pc, server, shared, outcome, result, promised>>

Done == pc = "done" /\ UNCHANGED vars

Init ==
  /\ allow_private \in BOOLEAN
  /\ pc = "server" /\ server = 1 /\ left = 0 /\ shared = FALSE /\ total = overall_timeout
  /\ outcome = Failed("") /\ result = Failed("") /\ promised = <<>>

Replies ==
  [rcode : {"no error"}, section : Answers, truncated : {FALSE}]
    \cup [rcode : {"no error", "nx domain"}, section : {{}}, truncated : BOOLEAN]

Next ==
  \/ Ask \/ tcp_connect \/ Unlimited \/ ConnectReturns \/ write_all_until \/ read_length
  \/ Broken \/ Partial \/ Timeout \/ Conclude \/ Tick \/ Done
  \/ \E reply \in Replies : Reply(reply)

\* Time passes, the thread runs, and the kernel sends a SYN only so many times.
Spec ==
  /\ Init /\ [][Next]_vars
  /\ WF_vars(Tick) /\ WF_vars(Ask) /\ WF_vars(Timeout) /\ WF_vars(Conclude)
  /\ WF_vars(ConnectReturns)

-----------------------------------------------------------------------------

\* resolve_a returns what the first server with a usable answer says of the name: the
\* lowest addresses at the end of its aliases that are allowed, valid as long as every
\* record on the way; and it says that all servers failed only if none has one.
FirstUsableAnswer ==
  pc = "done" =>
    \/ result.why = "deadline exceeded" /\ total = 0
    \/ /\ result.ok /\ result = promised[Len(promised)]
       /\ \A i \in 1 .. Len(promised) - 1 : ~promised[i].ok
    \/ /\ result.why = "all failed" /\ Len(promised) = Servers
       /\ \A i \in 1 .. Servers : ~promised[i].ok

\* A lookup ends, whatever arrives meanwhile: no datagram that is no reply and no slow
\* TCP peer prolongs it for ever (udp_exchange, read_exact_until, tcp_connect).
Ends == <>(pc = "done")

=============================================================================
