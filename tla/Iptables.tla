------------------------------ MODULE Iptables ------------------------------
(***************************************************************************)
(* The DROP rules of one process (src/iptables.rs): one private chain, or  *)
(* two with --keep-rule, and one jump of INPUT into a chain for each       *)
(* address the process talks to.                                           *)
(*                                                                         *)
(* A firewall is a record: the addresses the process has on record, the    *)
(* jumps and chains the kernel has, and the count of the keep thread.      *)
(* Every operation runs commands that may fail.  It is the set of its      *)
(* outcomes; each has the firewall, the answer and the number of commands  *)
(* that failed for a reason of their own.                                  *)
(***************************************************************************)
EXTENDS Integers, FiniteSets, FiniteSetsExt

CONSTANTS
  Addr,
  DelAttempts    \* deletions tried per chain

ASSUME IptablesAssumption == IsFiniteSet(Addr) /\ DelAttempts \in Nat \ {0}

Chain == {0, 1}

Firewall ==
  [keep : BOOLEAN, keep_index : Chain, patterns : SUBSET Addr, jumps : [Addr -> [Chain -> Nat]],
   chains : [Chain -> {"none", "empty", "drop"}]]

\* The chains this process has, and the one that add_pattern uses.
Managed(fw) == IF fw.keep THEN Chain ELSE {0}
active_chain(fw) == IF fw.keep THEN fw.keep_index ELSE 0

NoJumps == [a \in Addr |-> [c \in Chain |-> 0]]

NoFirewall(keep) ==
  [keep |-> keep, keep_index |-> 0, patterns |-> {}, jumps |-> NoJumps,
   chains |-> [c \in Chain |-> "none"]]

\* listing_has_jump, of a listing that succeeded.
HasJump(fw, c, a) == fw.jumps[a][c] > 0

\* What the kernel does with a packet of the address.
Covered(fw, a) == \E c \in Chain : HasJump(fw, c, a) /\ fw.chains[c] = "drop"

Outcome(fw, answer, failed) == [fw |-> fw, answer |-> answer, failed |-> failed]

-----------------------------------------------------------------------------
(* The commands.                                                           *)

\* -I INPUT: the jump is added, unless the command fails; into a chain that does
\* not exist it always fails.
Insert(fw, c, a) ==
  IF fw.chains[c] = "none" THEN {Outcome(fw, FALSE, 0)}
  ELSE {Outcome([fw EXCEPT !.jumps[a][c] = @ + 1], TRUE, 0), Outcome(fw, FALSE, 1)}

\* -D INPUT, so many times at most.
Delete(fw, c, a, times) ==
  LET n == Min({fw.jumps[a][c], times})
  IN  {Outcome([fw EXCEPT !.jumps[a][c] = @ - d], TRUE, IF d < n THEN 1 ELSE 0) : d \in 0 .. n}

\* -N and -F: there is an empty chain, unless a command fails.
Flush(fw, c) ==
  {Outcome([fw EXCEPT !.chains[c] = "empty"], TRUE, 0), Outcome(fw, FALSE, 1)}

\* -I of the DROP rule into the chain.
InsertDrop(fw, c) ==
  IF fw.chains[c] = "none" THEN {Outcome(fw, FALSE, 0)}
  ELSE {Outcome([fw EXCEPT !.chains[c] = "drop"], TRUE, 0), Outcome(fw, FALSE, 1)}

-----------------------------------------------------------------------------
(* The operations.  All of them hold the mutex on the patterns.            *)

\* Mutant: always the first chain.
AddFirstChain(fw, a) ==
  IF a \in fw.patterns THEN {Outcome(fw, TRUE, 0)}
  ELSE {[o EXCEPT !.fw.patterns = IF o.answer THEN @ \cup {a} ELSE @] : o \in Insert(fw, 0, a)}

add_pattern(fw, a) ==
  IF a \in fw.patterns THEN {Outcome(fw, TRUE, 0)}
  ELSE {[o EXCEPT !.fw.patterns = IF o.answer THEN @ \cup {a} ELSE @] :
          o \in Insert(fw, active_chain(fw), a)}

\* With a listing, what it shows; without one, a jump more.
reconcile_pattern(fw, a) ==
  {IF HasJump(fw, active_chain(fw), a)
   THEN Outcome([fw EXCEPT !.patterns = @ \cup {a}], "Present", 0)
   ELSE Outcome([fw EXCEPT !.patterns = @ \ {a}], "Absent", 0)}
  \cup
  {IF o.answer
   THEN Outcome([o.fw EXCEPT !.patterns = @ \cup {a}], "Present", 1)
   ELSE Outcome(o.fw, "Unknown", 1 + o.failed) : o \in Insert(fw, active_chain(fw), a)}

\* The outcomes of a second command, with what failed in the first.
And(o, outcomes) == {[p EXCEPT !.failed = @ + o.failed] : p \in outcomes}

\* The deletions, from every managed chain.
DeleteAll(fw, a) ==
  LET first == Delete(fw, 0, a, DelAttempts)
  IN  IF fw.keep THEN UNION {And(o, Delete(o.fw, 1, a, DelAttempts)) : o \in first} ELSE first

\* Mutant: the deletions are not verified.
DelUnverified(fw, a) ==
  {Outcome([o.fw EXCEPT !.patterns = @ \ {a}], TRUE, o.failed) : o \in DeleteAll(fw, a)}

\* The pattern stays on record until a listing shows no jump of it.
del_pattern(fw, a) ==
  IF a \notin fw.patterns THEN {Outcome(fw, TRUE, 0)}
  ELSE UNION {
    {IF \E c \in Managed(fw) : HasJump(o.fw, c, a)
     THEN Outcome(o.fw, FALSE, o.failed)
     ELSE Outcome([o.fw EXCEPT !.patterns = @ \ {a}], TRUE, o.failed),
     Outcome(o.fw, FALSE, o.failed + 1)} : o \in DeleteAll(fw, a)}

\* clear: one deletion for each pattern and chain, then the chains.  A chain that
\* something still jumps to cannot be removed.
Listed(fw) == {j \in fw.patterns \X Managed(fw) : HasJump(fw, j[2], j[1])}

Existing(fw) == {c \in Managed(fw) : fw.chains[c] # "none"}

JumpsLeft(fw, deleted) ==
  [a \in Addr |-> [c \in Chain |-> fw.jumps[a][c] - (IF <<a, c>> \in deleted THEN 1 ELSE 0)]]

ChainsLeft(fw, jumps, flushed) ==
  [c \in Chain |-> IF c \notin flushed THEN fw.chains[c]
                   ELSE IF \A a \in Addr : jumps[a][c] = 0 THEN "none" ELSE "empty"]

\* What is left when so many of the commands succeed.
Left(fw, deleted, flushed) ==
  LET jumps == JumpsLeft(fw, deleted)
  IN  Outcome([fw EXCEPT !.jumps = jumps, !.chains = ChainsLeft(fw, jumps, flushed)], TRUE,
              Cardinality(Listed(fw) \ deleted) + Cardinality(Existing(fw) \ flushed))

clear(fw) ==
  {Left(fw, deleted, flushed) : deleted \in SUBSET Listed(fw), flushed \in SUBSET Existing(fw)}

\* A command that runs if the one before it succeeded.
IfDone(o, outcomes) == IF o.answer THEN And(o, outcomes) ELSE {o}

\* init, one chain: make it, fill it, jump to it, up to the command that fails.
Prepare(fw, c, a) ==
  LET filled == UNION {IfDone(o, InsertDrop(o.fw, c)) : o \in Flush(fw, c)}
  IN  UNION {IfDone(o, Insert(o.fw, c, a)) : o \in filled}

\* init: the pattern is on record first, so that clear can take it all back.
init(keep, a) ==
  LET first == Prepare([NoFirewall(keep) EXCEPT !.patterns = {a}], 0, a)
      Second(o) == IF keep THEN IfDone(o, Prepare(o.fw, 1, a)) ELSE {o}
      Back(o) ==
        IF o.answer THEN {o} ELSE {[p EXCEPT !.answer = FALSE] : p \in And(o, clear(o.fw))}
  IN  UNION {Back(o) : o \in UNION {Second(f) : f \in first}}

=============================================================================
