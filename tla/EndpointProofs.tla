--------------------------- MODULE EndpointProofs ---------------------------
(***************************************************************************)
(* Proofs about Endpoint: types, probation, the cache and the charges of   *)
(* old-address probes, for every set of addresses and every policy that    *)
(* config.rs accepts.  First what each method of the controller (module    *)
(* EndpointController) keeps and what it may change: Fine is what every    *)
(* method preserves, Moves is what a cycle of the timer may do with the    *)
(* rights to return to an address.  The client's invariant is built from   *)
(* both and follows action by action.                                      *)
(***************************************************************************)
EXTENDS Endpoint, FiniteSetTheorems, WellFoundedInduction, TLAPS

\* Leaves about records with many fields need more than the default time.
USE SMTT(30)

-----------------------------------------------------------------------------
(* The constants.                                                          *)

Positive(n) == n \in Nat /\ n > 0

\* The options and constants as config.rs leaves them.
LEMMA Constants ==
  /\ Addr \subseteq Nat /\ 0 \notin Addr /\ NoAddr = 0 /\ Never = 0 - 1 /\ Grace = 2
  /\ Positive(MAX_ENDPOINT_CANDIDATES) /\ Positive(AfterFailures)
  /\ Positive(PreferredRound) /\ Positive(MaxAge) /\ Positive(ProbationTime)
  /\ Positive(MIN_PROMOTION_DATA_PACKETS) /\ Positive(RollbackWindow)
  /\ Positive(BackoffMin) /\ Positive(MaxGap)
  /\ BackoffMax \in Nat /\ BackoffMin <= BackoffMax
  /\ CLIENT_CONN_TIMEOUT \in Nat /\ CLIENT_HANDSHAKE_TIMEOUT \in Nat
  /\ QueryTimes \subseteq Nat
<1>1. Addr \subseteq Nat /\ 0 \notin Addr /\ NoAddr = 0 /\ Never = 0 - 1 /\ Grace = 2
  BY EndpointAssumption DEF NoAddr, Never, Grace
<1>2. /\ Positive(MAX_ENDPOINT_CANDIDATES) /\ Positive(AfterFailures)
      /\ Positive(PreferredRound) /\ Positive(MaxAge) /\ Positive(ProbationTime)
      /\ Positive(MIN_PROMOTION_DATA_PACKETS) /\ Positive(RollbackWindow)
      /\ Positive(BackoffMin) /\ Positive(MaxGap)
  <2>1. \A n \in Nat \ {0} : Positive(n)
    BY DEF Positive
  <2> QED BY <2>1, EndpointAssumption, Zenon
<1>3. QueryTimes \subseteq Nat
  BY EndpointAssumption
<1> QED BY <1>1, <1>2, <1>3, EndpointAssumption, Zenon

-----------------------------------------------------------------------------
(* Candidates.                                                             *)

\* The lowest of some addresses is one of them (canonical_candidates).
LEMMA MinIn ==
  ASSUME NEW T \in SUBSET Nat, T # {}
  PROVE  Min(T) \in T /\ \A y \in T : Min(T) <= y
<1> DEFINE R == OpToRel(<, Nat)
<1>1. IsWellFoundedOn(R, Nat)
  BY NatLessThanWellFounded, Zenon
<1>2. \A x, y \in Nat : y < x => <<y, x>> \in R
  BY DEF OpToRel
<1> HIDE DEF R
<1>3. PICK x \in T : \A y \in T : ~(<<y, x>> \in R)
  BY <1>1, WFMin, Zenon
<1>4. ASSUME NEW y \in T PROVE x <= y
  <2>1. x \in Nat /\ y \in Nat
    OBVIOUS
  <2>2. ~(y < x)
    BY <2>1, <1>2, <1>3, Zenon
  <2> QED BY <2>1, <2>2
<1>5. \E z \in T : \A y \in T : z <= y
  BY <1>4
<1> QED BY <1>5, Zenon DEF Min

\* An answer with addresses leaves candidates.
LEMMA CanonicalFacts ==
  ASSUME NEW T \in SUBSET Addr, T # {}
  PROVE  Canonical(T) \subseteq Addr /\ Canonical(T) # {}
<1>1. T \in SUBSET Nat /\ MAX_ENDPOINT_CANDIDATES \in Nat /\ MAX_ENDPOINT_CANDIDATES > 0
  BY Constants DEF Positive
<1>2. Min(T) \in T /\ \A y \in T : Min(T) <= y
  BY <1>1, MinIn
<1>3. {b \in T : b < Min(T)} = {}
  <2>1. ASSUME NEW b \in T PROVE ~(b < Min(T))
    <3>1. b \in Nat /\ Min(T) \in Nat /\ Min(T) <= b
      BY <1>1, <1>2, Zenon
    <3> QED BY <3>1
  <2> QED BY <2>1, Zenon
<1>4. Cardinality({b \in T : b < Min(T)}) = 0
  BY <1>3, FS_EmptySet
<1>5. Min(T) \in Canonical(T)
  BY <1>1, <1>2, <1>4 DEF Canonical
<1> QED BY <1>5, Zenon DEF Canonical

\* next_dns_candidate answers a candidate if there is one.
LEMMA NextIn ==
  ASSUME NEW e \in Controller
  PROVE  /\ NextCandidate(e) \in Addr \cup {NoAddr}
         /\ NextCandidate(e) # NoAddr => NextCandidate(e) \in e.candidates
<1> DEFINE above == {a \in e.candidates : a > e.current}
<1>0. e.candidates \in SUBSET Addr
  BY DEF Controller
<1>1. e.candidates \in SUBSET Nat /\ above \in SUBSET Nat
  BY <1>0, Constants, Zenon
<1>2. above # {} => Min(above) \in above
  BY <1>1, MinIn
<1>3. e.candidates # {} => Min(e.candidates) \in e.candidates
  BY <1>1, MinIn
<1> QED BY <1>0, <1>2, <1>3 DEF NextCandidate

\* The first of the ordered candidates is one (order_candidates).
LEMMA PreferredIn ==
  ASSUME NEW e \in Controller, e.candidates # {} PROVE Preferred(e) \in e.candidates
<1>0. e.candidates \in SUBSET Addr
  BY DEF Controller
<1>1. e.candidates \in SUBSET Nat
  BY <1>0, Constants, Zenon
<1>2. Min(e.candidates) \in e.candidates
  BY <1>1, MinIn
<1> QED BY <1>2 DEF Preferred

-----------------------------------------------------------------------------
(* What the methods keep.                                                  *)

\* Policy, committed address and rights to return.
SameRights(e, f) ==
  /\ f.enabled = e.enabled /\ f.committed_good = e.committed_good
  /\ f.attended_cutover = e.attended_cutover
  /\ f.probation.candidate = e.probation.candidate
  /\ f.probation.rollback = e.probation.rollback
  /\ f.probation.direct_return = e.probation.direct_return
  /\ f.probation.rollback_authorized = e.probation.rollback_authorized

SameAddress(e, f) ==
  f.current = e.current /\ f.current_authenticated = e.current_authenticated

Kept(e, f) == SameRights(e, f) /\ SameAddress(e, f) /\ f.candidates = e.candidates

\* Clocks that run down stay in their ranges.
LEMMA ClockTyped ==
  ASSUME NEW n \in Nat, NEW t \in Within(n), NEW d \in Nat
  PROVE  /\ Left(t, d) \in Within(n) /\ Due(t, d) \in Within(n)
         /\ t # Never => Due(t, d) \in 0 .. n
  BY DEF Within, Left, Due, Larger, Never

\* The fields of a controller (EndpointController).
LEMMA Fields ==
  ASSUME NEW e \in Controller
  PROVE  /\ e.probation \in Probation /\ e.current \in Addr
         /\ e.committed_good \in Addr \cup {NoAddr} /\ e.candidates \in SUBSET Addr
         /\ e.cache_fresh \in Within(MaxAge) /\ e.activity \in Within(RollbackWindow)
         /\ e.backoff \in 0 .. BackoffMax /\ e.round \in Within(PreferredRound)
         /\ e.probation.rollback_at \in Within(RollbackWindow)
         /\ e.probation.idle \in 0 .. MaxGap + 1
         /\ e.probation.span \in 0 .. ProbationTime
         /\ e.probation.packets \in 0 .. MIN_PROMOTION_DATA_PACKETS
         /\ e.probation.candidate \in Addr \cup {NoAddr}
         /\ e.probation.rollback \in Addr \cup {NoAddr}
<1>1. e.probation \in Probation
  BY DEF Controller
<1> QED BY <1>1 DEF Controller, Probation

\* Time passes.
LEMMA ElapseKeeps ==
  ASSUME NEW e \in Controller, NEW d \in Nat
  PROVE  Elapse(e, d) \in Controller /\ Kept(e, Elapse(e, d))
<1> DEFINE p == [e.probation EXCEPT !.rollback_at = Due(@, d),
                   !.idle = IF e.probation.packets = 0 THEN 0
                            ELSE Smaller(@ + d, MaxGap + 1)]
           f == [e EXCEPT !.cache_fresh = Left(@, d), !.activity = Left(@, d),
                          !.backoff = Due(@, d), !.round = Due(@, d), !.probation = p]
<1>0. e.probation \in Probation
  BY Fields
<1>1. Elapse(e, d) = f
  BY <1>0, ZenonT(60) DEF Elapse, Controller, Probation
<1>2. /\ Left(e.cache_fresh, d) \in Within(MaxAge)
      /\ Left(e.activity, d) \in Within(RollbackWindow)
      /\ Due(e.round, d) \in Within(PreferredRound)
      /\ Due(e.probation.rollback_at, d) \in Within(RollbackWindow)
  BY Zenon, Constants, Fields, ClockTyped DEF Positive
<1>3. Due(e.backoff, d) \in 0 .. BackoffMax
  BY Constants, Fields DEF Due, Larger
<1>4. p \in Probation
  <2>1. (IF e.probation.packets = 0 THEN 0
         ELSE Smaller(e.probation.idle + d, MaxGap + 1)) \in 0 .. MaxGap + 1
    BY Constants, Fields DEF Smaller, Positive
  <2>2. e.probation \in Probation
    BY Fields
  <2> QED BY <1>2, <2>1, <2>2, Zenon DEF Probation
<1>5. /\ p.candidate = e.probation.candidate /\ p.rollback = e.probation.rollback
      /\ p.direct_return = e.probation.direct_return
      /\ p.rollback_authorized = e.probation.rollback_authorized
  BY Fields DEF Probation
<1> HIDE DEF p
<1>6. f \in Controller
  BY <1>2, <1>3, <1>4, Zenon DEF Controller
<1>7. Kept(e, f)
  BY <1>5 DEF Controller, Kept, SameRights, SameAddress
<1> QED BY <1>1, <1>6, <1>7

\* A round begins, or goes on.
LEMMA StartKeeps ==
  ASSUME NEW e \in Controller
  PROVE  StartPreferredRound(e) \in Controller /\ Kept(e, StartPreferredRound(e))
<1>1. PreferredRound \in Within(PreferredRound) /\ 0 \in 0 .. MAX_ENDPOINT_CANDIDATES
  BY Constants DEF Within, Positive
<1>2. StartPreferredRound(e) \in Controller
  BY <1>1, Zenon DEF Controller, StartPreferredRound
<1>3. Kept(e, StartPreferredRound(e))
  BY DEF Controller, StartPreferredRound, Kept, SameRights, SameAddress
<1> QED BY <1>2, <1>3

\* A refresh changes candidates only to candidates.
LEMMA QueryKeeps ==
  ASSUME NEW e \in Controller, NEW answer \in SUBSET Addr,
         NEW delay \in BackoffMin .. BackoffMax
  PROVE  LET f == Query(e, answer, delay) IN
         /\ f \in Controller /\ SameRights(e, f) /\ SameAddress(e, f)
         /\ e.candidates # {} \/ answer # {} => f.candidates # {}
<1>1. delay \in 0 .. BackoffMax /\ BackoffMin \in 0 .. BackoffMax
  BY Constants DEF Positive
<1>2. 0 \in 0 .. BackoffMax /\ 0 \in 0 .. AfterFailures /\ 0 \in 0 .. MAX_ENDPOINT_CANDIDATES
  BY Constants DEF Positive
<1>3. CASE answer = {}
  BY <1>1, <1>3 DEF Query, Controller, SameRights, SameAddress
<1>4. CASE answer # {}
  <2>1. Canonical(answer) \in SUBSET Addr /\ Canonical(answer) # {}
    BY <1>4, CanonicalFacts
  <2> DEFINE b == IF e.reconnect_refresh_pending THEN BackoffMin ELSE 0
             n == IF Canonical(answer) # e.candidates THEN 0 ELSE e.failures
             m == IF Canonical(answer) # e.candidates THEN 0 ELSE e.attempts
             f == [e EXCEPT !.backoff = b, !.candidates = Canonical(answer),
                            !.failures = n, !.attempts = m]
  <2>2. Query(e, answer, delay) = f
    BY <1>4, Zenon DEF Query, Controller
  <2>3. /\ b \in 0 .. BackoffMax /\ n \in 0 .. AfterFailures
        /\ m \in 0 .. MAX_ENDPOINT_CANDIDATES
    BY <1>1, <1>2, Zenon DEF Controller
  <2> HIDE DEF b, n, m
  <2>4. f \in Controller
    BY <2>1, <2>3, Zenon DEF Controller
  <2>5. SameRights(e, f) /\ SameAddress(e, f) /\ f.candidates = Canonical(answer)
    BY DEF Controller, SameRights, SameAddress
  <2> QED BY <2>1, <2>2, <2>4, <2>5
<1> QED BY <1>3, <1>4

\* switch_to
LEMMA SwitchKeeps ==
  ASSUME NEW e \in Controller, NEW a \in Addr \cup {NoAddr}
  PROVE  LET f == SwitchTo(e, a) IN
         /\ f \in Controller /\ SameRights(e, f) /\ f.candidates = e.candidates
         /\ f.current = IF a = NoAddr THEN e.current ELSE a
         /\ ~e.current_authenticated => ~f.current_authenticated
         /\ f.current # e.current => ~f.current_authenticated
<1> DEFINE g == [e EXCEPT !.current = a, !.current_authenticated = FALSE]
<1>1. CASE a \in {e.current, NoAddr}
  BY <1>1, Zenon DEF SwitchTo, SameRights
<1>2. CASE a \notin {e.current, NoAddr}
  <2>1. SwitchTo(e, a) = g /\ a \in Addr /\ a # NoAddr
    BY <1>2, Zenon DEF SwitchTo
  <2>2. g \in Controller
    BY <2>1, Zenon DEF Controller
  <2>3. /\ SameRights(e, g) /\ g.candidates = e.candidates
        /\ g.current = a /\ g.current_authenticated = FALSE
    BY DEF Controller, SameRights
  <2> QED BY <2>1, <2>2, <2>3
<1> QED BY <1>1, <1>2

-----------------------------------------------------------------------------
(* The choice of an address.                                               *)

\* What a controller always satisfies.
Fine(e) ==
  /\ e.probation.candidate = NoAddr => e.probation.rollback = NoAddr
  /\ e.probation.candidate # NoAddr =>
       /\ e.probation.rollback = e.committed_good /\ e.committed_good # NoAddr
       /\ e.probation.candidate # e.committed_good
  /\ e.committed_good \notin {NoAddr, e.current} => e.candidates # {}
  /\ e.current_authenticated /\ e.current # e.committed_good => OnProbation(e)

\* f is e with, perhaps, fewer rights to return.
Less(e, f) ==
  /\ f \in Controller /\ SameAddress(e, f) /\ f.candidates = e.candidates
  /\ f.enabled = e.enabled /\ f.committed_good = e.committed_good
  /\ f.attended_cutover => e.attended_cutover
  /\ f.probation.direct_return => e.probation.direct_return
  /\ f.probation.rollback_authorized => e.probation.rollback_authorized
  /\ \/ f.probation.candidate = NoAddr /\ f.probation.rollback = NoAddr
     \/ /\ f.probation.candidate = e.probation.candidate
        /\ f.probation.rollback = e.probation.rollback

\* The address is another one, and none of the candidates.
ToOld(e, f) == f.current # e.current /\ f.current \notin f.candidates

\* What a timer may do to a controller: it goes to an old address with a right to only,
\* and a right is new only if it is charged.
Moves(e, f, charged) ==
  /\ f \in Controller /\ Fine(f)
  /\ f.enabled = e.enabled /\ f.committed_good = e.committed_good
  /\ f.attended_cutover => e.attended_cutover
  /\ f.probation.direct_return => e.probation.direct_return
  /\ f.probation.rollback_authorized =>
       \/ e.probation.rollback_authorized \/ e.probation.direct_return
       \/ charged /\ f.current = e.current
  /\ ToOld(e, f) => \/ charged \/ e.attended_cutover \/ e.probation.direct_return
                    \/ e.probation.rollback_authorized
  /\ ToOld(e, f) /\ ~charged /\ f.probation.rollback_authorized => e.attended_cutover

Chooses(e, choice) == Moves(e, choice.e, choice.charged) /\ ~choice.e.current_authenticated

\* A method that keeps everything keeps the rights.
LEMMA KeptLess ==
  ASSUME NEW e \in Controller, NEW f \in Controller, Kept(e, f) PROVE Less(e, f)
  BY DEF Kept, SameRights, SameAddress, Less

\* One after the other.
LEMMA LessTransitive ==
  ASSUME NEW e, NEW f, NEW g, Less(e, f), Less(f, g) PROVE Less(e, g)
  BY DEF Less, SameAddress

\* No probation is one.
LEMMA NoProbationTyped == NoProbation \in Probation
<1>1. /\ Never \in Within(RollbackWindow) /\ 0 \in 0 .. MIN_PROMOTION_DATA_PACKETS
      /\ 0 \in 0 .. ProbationTime /\ 0 \in 0 .. MaxGap + 1
  BY Constants DEF Within, Positive
<1> QED BY <1>1, Zenon DEF NoProbation, Probation

\* The updates of select that take rights away, end a round or count a failure.
LEMMA UpdatesLess ==
  ASSUME NEW e \in Controller
  PROVE  /\ Less(e, e)
         /\ Less(e, [e EXCEPT !.attended_cutover = FALSE])
         /\ Less(e, [e EXCEPT !.round = Never])
         /\ Less(e, [e EXCEPT !.round = Never, !.attempts = 0])
         /\ Less(e, [e EXCEPT !.probation = NoProbation])
         /\ Less(e, [e EXCEPT !.probation = NoProbation, !.attended_cutover = FALSE])
<1>1. Never \in Within(PreferredRound) /\ 0 \in 0 .. MAX_ENDPOINT_CANDIDATES
  BY Constants DEF Within, Positive
<1>2. /\ NoProbation \in Probation /\ NoProbation.direct_return = FALSE
      /\ NoProbation.rollback_authorized = FALSE /\ NoProbation.candidate = NoAddr
      /\ NoProbation.rollback = NoAddr
  BY NoProbationTyped DEF NoProbation
<1>3. Less(e, e)
  BY DEF Less, SameAddress
<1>4. Less(e, [e EXCEPT !.attended_cutover = FALSE])
  <2> DEFINE f == [e EXCEPT !.attended_cutover = FALSE]
  <2>1. f \in Controller
    BY Zenon DEF Controller
  <2> QED BY <2>1 DEF Less, SameAddress, Controller
<1>5. Less(e, [e EXCEPT !.round = Never])
  <2> DEFINE f == [e EXCEPT !.round = Never]
  <2>1. f \in Controller
    BY <1>1, Zenon DEF Controller
  <2> QED BY <2>1 DEF Less, SameAddress, Controller
<1>6. Less(e, [e EXCEPT !.round = Never, !.attempts = 0])
  <2> DEFINE f == [e EXCEPT !.round = Never, !.attempts = 0]
  <2>1. f \in Controller
    BY <1>1, Zenon DEF Controller
  <2> QED BY <2>1 DEF Less, SameAddress, Controller
<1>7. Less(e, [e EXCEPT !.probation = NoProbation])
  <2> DEFINE f == [e EXCEPT !.probation = NoProbation]
  <2>1. f \in Controller
    BY <1>2, Zenon DEF Controller
  <2> QED BY <2>1, <1>2 DEF Less, SameAddress, Controller
<1>8. Less(e, [e EXCEPT !.probation = NoProbation, !.attended_cutover = FALSE])
  <2> DEFINE f == [e EXCEPT !.probation = NoProbation, !.attended_cutover = FALSE]
  <2>1. f \in Controller
    BY <1>2, Zenon DEF Controller
  <2> QED BY <2>1, <1>2 DEF Less, SameAddress, Controller
<1> QED BY <1>3, <1>4, <1>5, <1>6, <1>7, <1>8

\* Staying where one is, with fewer rights.
LEMMA Stays ==
  ASSUME NEW e \in Controller, Fine(e), ~e.current_authenticated, NEW f, Less(e, f),
         NEW charged
  PROVE  Moves(e, f, charged) /\ ~f.current_authenticated
  BY DEF Less, Moves, Fine, SameAddress, ToOld, OnProbation

\* Going to a candidate, or staying for want of one.
LEMMA ToCandidate ==
  ASSUME NEW e \in Controller, Fine(e), ~e.current_authenticated, NEW f, Less(e, f),
         NEW a \in e.candidates \cup {NoAddr}, NEW charged
  PROVE  /\ Moves(e, SwitchTo(f, a), charged)
         /\ ~SwitchTo(f, a).current_authenticated
<1> DEFINE g == SwitchTo(f, a)
<1>1. f \in Controller /\ a \in Addr \cup {NoAddr}
  BY Fields DEF Less
<1>2. /\ g \in Controller /\ SameRights(f, g) /\ g.candidates = f.candidates
      /\ g.current = IF a = NoAddr THEN f.current ELSE a
      /\ ~f.current_authenticated => ~g.current_authenticated
  BY <1>1, SwitchKeeps
<1> HIDE DEF g
<1>3. Fine(g)
  BY <1>2 DEF Less, Fine, SameAddress, SameRights, OnProbation
<1>4. ~ToOld(e, g)
  BY <1>2 DEF Less, SameAddress, ToOld
<1>5. ~g.current_authenticated
  BY <1>2 DEF Less, SameAddress
<1>6. Moves(e, g, charged)
  BY <1>2, <1>3, <1>4 DEF Less, Moves, SameRights
<1> QED BY <1>5, <1>6 DEF g

\* Going to the committed address with a right to.
LEMMA ToCommitted ==
  ASSUME NEW e \in Controller, Fine(e), ~e.current_authenticated, NEW f, Less(e, f),
         NEW charged,
         \/ charged \/ e.attended_cutover \/ e.probation.direct_return
         \/ e.probation.rollback_authorized,
         ~charged /\ f.probation.rollback_authorized => e.attended_cutover
  PROVE  /\ Moves(e, SwitchTo(f, e.committed_good), charged)
         /\ ~SwitchTo(f, e.committed_good).current_authenticated
<1> DEFINE g == SwitchTo(f, e.committed_good)
<1>1. f \in Controller /\ e.committed_good \in Addr \cup {NoAddr}
  BY Fields DEF Less
<1>2. /\ g \in Controller /\ SameRights(f, g) /\ g.candidates = f.candidates
      /\ g.current = IF e.committed_good = NoAddr THEN f.current ELSE e.committed_good
      /\ ~f.current_authenticated => ~g.current_authenticated
  BY <1>1, SwitchKeeps
<1> HIDE DEF g
<1>3. Fine(g)
  BY <1>2 DEF Less, Fine, SameAddress, SameRights, OnProbation
<1>5. ~g.current_authenticated
  BY <1>2 DEF Less, SameAddress
<1>6. Moves(e, g, charged)
  BY <1>2, <1>3 DEF Less, Moves, SameRights
<1> QED BY <1>5, <1>6 DEF g

\* A choice and its charge.
LEMMA ChoiceOf ==
  ASSUME NEW e, NEW f, NEW c, Moves(e, f, c), ~f.current_authenticated
  PROVE  Chooses(e, [e |-> f, charged |-> c])
  BY DEF Chooses

\* select, for a rollback that is due or asked for.
LEMMA RollbackChooses ==
  ASSUME NEW e \in Controller, Fine(e), ~e.current_authenticated
  PROVE  Chooses(e, Free(SelectRollback(e)))
<1> DEFINE f == [e EXCEPT !.probation = NoProbation, !.attended_cutover = FALSE]
           g == SelectRollback(e)
<1>1. Less(e, e) /\ Less(e, f)
  BY UpdatesLess, Zenon
<1>2. f.probation = NoProbation
  BY DEF Controller
<1>3. ~f.probation.rollback_authorized
  BY <1>2 DEF NoProbation
<1> HIDE DEF f
<1>4. Moves(e, g, FALSE) /\ ~g.current_authenticated
  <2>1. CASE ~e.probation.rollback_authorized
    <3>1. g = e
      BY <2>1 DEF SelectRollback
    <3> QED BY <1>1, <3>1, Stays, Zenon
  <2>2. CASE e.probation.rollback_authorized /\ e.probation.candidate = NoAddr
    <3>1. g = f
      BY <2>2 DEF SelectRollback, Fine, SwitchTo, f
    <3> QED BY <1>1, <3>1, Stays, Zenon
  <2>3. CASE e.probation.rollback_authorized /\ e.probation.candidate # NoAddr
    <3>1. g = SwitchTo(f, e.committed_good)
      BY <2>3 DEF SelectRollback, Fine, f
    <3> QED BY <1>1, <1>3, <2>3, <3>1, ToCommitted, Zenon
  <2> QED BY <2>1, <2>2, <2>3, Zenon
<1> QED BY <1>4, Zenon DEF Chooses, Free

\* select, for a forced refresh: an attended cutover.
LEMMA ForcedChooses ==
  ASSUME NEW e \in Controller, Fine(e), ~e.current_authenticated,
         NEW answered \in BOOLEAN, answered => e.candidates # {}
  PROVE  Chooses(e, Free(SelectForced(e, answered)))
<1> DEFINE s == StartPreferredRound(e)
           g == SelectForced(e, answered)
           h == [e EXCEPT !.round = Never]
           Stay(x) == [x EXCEPT !.attended_cutover = FALSE]
<1>0. s \in Controller /\ Less(e, s) /\ Less(e, e) /\ Less(e, h)
  BY StartKeeps, KeptLess, UpdatesLess, Zenon
<1>1. s \in Controller /\ Less(e, s) /\ Less(e, e) /\ h \in Controller /\ Less(e, h)
  BY <1>0, Zenon DEF Less
<1>2. \A x \in Controller : Less(x, Stay(x))
  BY UpdatesLess, Zenon
<1>3. Less(e, Stay(s)) /\ Less(e, Stay(e)) /\ Less(e, Stay(h))
  BY <1>1, <1>2, LessTransitive, Zenon
<1>4. answered => Preferred(e) \in e.candidates
  BY PreferredIn
<1>5. \/ g = Stay(h) \/ g = Stay(e) \/ g = Stay(s)
      \/ answered /\ g = SwitchTo(s, Preferred(e))
  BY Zenon DEF SelectForced
<1> HIDE DEF s, h, g, Stay
<1>6. Moves(e, g, FALSE) /\ ~g.current_authenticated
  <2>1. CASE g = Stay(h) \/ g = Stay(e) \/ g = Stay(s)
    BY <2>1, <1>3, Stays, Zenon
  <2>2. CASE answered /\ g = SwitchTo(s, Preferred(e))
    BY <2>2, <1>1, <1>4, ToCandidate, Zenon
  <2> QED BY <1>5, <2>1, <2>2, Zenon
<1> QED BY <1>6, Zenon DEF Chooses, Free, g

\* select after a failure of the committed address.
LEMMA AfterCommittedChooses ==
  ASSUME NEW e \in Controller, Fine(e), ~e.current_authenticated
  PROVE  Chooses(e, Free(SelectAfterCommitted(e)))
<1> DEFINE s == StartPreferredRound(e)
           g == SelectAfterCommitted(e)
           h == [e EXCEPT !.round = Never, !.attempts = 0]
<1>1. Less(e, s) /\ Less(e, h)
  BY StartKeeps, KeptLess, UpdatesLess, Zenon
<1>2. NextCandidate(e) \in e.candidates \cup {NoAddr}
  BY NextIn
<1>3. g = h \/ g = SwitchTo(s, NextCandidate(e))
  BY DEF SelectAfterCommitted
<1> HIDE DEF s, h, g
<1>4. Moves(e, g, FALSE) /\ ~g.current_authenticated
  BY <1>1, <1>2, <1>3, Stays, ToCandidate, Zenon
<1> QED BY <1>4, Zenon DEF Chooses, Free, g

\* select after a failure of a candidate: the old address only with a charge.
LEMMA AfterCandidateChooses ==
  ASSUME NEW e \in Controller, Fine(e), ~e.current_authenticated, NEW grant \in BOOLEAN
  PROVE  Chooses(e, SelectAfterCandidate(e, grant))
<1> DEFINE r == StartPreferredRound(e)
           n == Smaller(r.failures + 1, AfterFailures)
           m == Smaller(r.attempts + 1, MAX_ENDPOINT_CANDIDATES)
           s == [r EXCEPT !.failures = n, !.attempts = m]
           h == [s EXCEPT !.round = Never]
           k == [s EXCEPT !.round = Never, !.attempts = 0]
           g == SelectAfterCandidate(e, grant)
<1>1. r \in Controller /\ Less(e, r)
  BY StartKeeps, KeptLess
<1>2. n \in 0 .. AfterFailures /\ m \in 0 .. MAX_ENDPOINT_CANDIDATES
  <2>1. r.failures \in 0 .. AfterFailures /\ r.attempts \in 0 .. MAX_ENDPOINT_CANDIDATES
    BY <1>1, Zenon DEF Controller
  <2> QED BY <2>1, Constants DEF Smaller, Positive
<1>3. SelectAfterCandidate(e, grant) =
        IF /\ \/ RoundExpired(s)
              \/ /\ s.failures >= AfterFailures
                 /\ s.attempts >= Larger(Cardinality(s.candidates), 1)
           /\ CommittedFresh(s) # NoAddr /\ grant
        THEN [e |-> SwitchTo(h, CommittedFresh(s)), charged |-> grant]
        ELSE IF ~RoundExpired(s) THEN Free(SwitchTo(s, NextCandidate(s))) ELSE Free(k)
  BY Zenon DEF SelectAfterCandidate
<1> HIDE DEF r, n, m
<1>4. s \in Controller /\ Less(e, s)
  <2>1. s \in Controller
    BY <1>1, <1>2, Zenon DEF Controller
  <2>2. Kept(r, s)
    BY <1>1 DEF Controller, Kept, SameRights, SameAddress
  <2> QED BY <1>1, <2>1, <2>2, KeptLess, LessTransitive
<1> HIDE DEF s
<1>5. Less(e, h) /\ Less(e, k)
  BY <1>4, UpdatesLess, LessTransitive, Zenon
<1>6. NextCandidate(s) \in e.candidates \cup {NoAddr}
  BY <1>4, NextIn DEF Less
<1>7. CommittedFresh(s) # NoAddr => CommittedFresh(s) = e.committed_good
  BY <1>4 DEF CommittedFresh, Less
<1> HIDE DEF h, k
<1>8. \/ g = [e |-> SwitchTo(h, e.committed_good), charged |-> TRUE]
      \/ g = Free(SwitchTo(s, NextCandidate(s))) \/ g = Free(k)
  BY <1>3, <1>7, Zenon
<1> HIDE DEF g
<1>9. ASSUME g = [e |-> SwitchTo(h, e.committed_good), charged |-> TRUE]
      PROVE  Chooses(e, g)
  <2>1. Moves(e, SwitchTo(h, e.committed_good), TRUE)
        /\ ~SwitchTo(h, e.committed_good).current_authenticated
    BY <1>5, ToCommitted, Zenon
  <2> QED BY <1>9, <2>1, ChoiceOf, Zenon
<1>10. ASSUME g = Free(SwitchTo(s, NextCandidate(s))) PROVE Chooses(e, g)
  <2>1. Moves(e, SwitchTo(s, NextCandidate(s)), FALSE)
        /\ ~SwitchTo(s, NextCandidate(s)).current_authenticated
    BY <1>4, <1>6, ToCandidate, Zenon
  <2> QED BY <1>10, <2>1, ChoiceOf, Zenon DEF Free
<1>11. ASSUME g = Free(k) PROVE Chooses(e, g)
  <2>1. Moves(e, k, FALSE) /\ ~k.current_authenticated
    BY <1>5, Stays, Zenon
  <2> QED BY <1>11, <2>1, ChoiceOf, Zenon DEF Free
<1> QED BY <1>8, <1>9, <1>10, <1>11, Zenon DEF g

\* The return from probation: direct, or charged.
LEMMA ReturnChooses ==
  ASSUME NEW e \in Controller, Fine(e), ~e.current_authenticated, NEW grant \in BOOLEAN,
         MayReturn(e, grant)
  PROVE  Chooses(e, ReturnFromProbation(e, grant))
<1> DEFINE f == [e EXCEPT !.probation = NoProbation]
           c == grant /\ ~e.probation.direct_return
<1>1. Less(e, f)
  BY UpdatesLess, Zenon
<1>2. f.probation = NoProbation
  BY DEF Controller
<1>3. ~f.probation.rollback_authorized
  BY <1>2 DEF NoProbation
<1>4. e.probation.rollback = e.committed_good
  BY DEF MayReturn, OnProbation, Fine
<1>5. ReturnFromProbation(e, grant) = [e |-> SwitchTo(f, e.committed_good), charged |-> c]
  BY <1>4, Zenon DEF ReturnFromProbation
<1>6. c \/ e.probation.direct_return
  BY Zenon DEF MayReturn
<1> HIDE DEF f, c
<1>7. /\ Moves(e, SwitchTo(f, e.committed_good), c)
      /\ ~SwitchTo(f, e.committed_good).current_authenticated
  BY <1>1, <1>3, <1>6, ToCommitted, Zenon
<1> QED BY <1>5, <1>7, ChoiceOf, Zenon

\* select, after a failed attempt.
LEMMA AttemptFailedChooses ==
  ASSUME NEW e \in Controller, Fine(e), ~e.current_authenticated, NEW grant \in BOOLEAN
  PROVE  Chooses(e, SelectAttemptFailed(e, grant))
<1> DEFINE g == SelectAttemptFailed(e, grant)
           f == [e EXCEPT !.attended_cutover = FALSE]
<1>1. Less(e, f)
  BY UpdatesLess, Zenon
<1> HIDE DEF f
<1>2. \/ MayReturn(e, grant) /\ g = ReturnFromProbation(e, grant)
      \/ e.attended_cutover /\ g = Free(SwitchTo(f, e.committed_good))
      \/ g = Free(SelectAfterCommitted(e)) \/ g = SelectAfterCandidate(e, grant)
  BY Zenon DEF SelectAttemptFailed, f
<1> HIDE DEF g
<1>3. ASSUME e.attended_cutover, g = Free(SwitchTo(f, e.committed_good)) PROVE Chooses(e, g)
  <2>1. /\ Moves(e, SwitchTo(f, e.committed_good), FALSE)
        /\ ~SwitchTo(f, e.committed_good).current_authenticated
    BY <1>1, <1>3, ToCommitted, Zenon
  <2> QED BY <1>3, <2>1, ChoiceOf, Zenon DEF Free
<1> QED BY <1>2, <1>3, ReturnChooses, AfterCommittedChooses, AfterCandidateChooses, Zenon DEF g

\* select, after a session was lost.
LEMMA SessionLostChooses ==
  ASSUME NEW e \in Controller, Fine(e), ~e.current_authenticated, NEW grant \in BOOLEAN
  PROVE  Chooses(e, SelectSessionLost(e, grant))
<1> DEFINE g == SelectSessionLost(e, grant)
           s == StartPreferredRound(e)
           a == IF e.candidates = {} THEN NoAddr ELSE Min(e.candidates)
<1>1. s \in Controller /\ Kept(e, s)
  BY StartKeeps
<1>2. Less(e, s) /\ Less(e, e)
  BY <1>1, KeptLess, UpdatesLess, Zenon
<1>3. s.candidates = e.candidates
  BY <1>1 DEF Kept
<1>4. a \in e.candidates \cup {NoAddr}
  <2>1. e.candidates \in SUBSET Addr
    BY Fields
  <2>2. e.candidates \in SUBSET Nat
    BY <2>1, Constants, Zenon
  <2>3. e.candidates # {} => Min(e.candidates) \in e.candidates
    BY <2>2, MinIn, Zenon
  <2> QED BY <2>3
<1>5. \/ MayReturn(e, grant) /\ g = ReturnFromProbation(e, grant)
      \/ g = Free(s) \/ g = Free(e)
      \/ e.candidates # {} /\ g = Free(SwitchTo(s, Min(e.candidates)))
  BY <1>3, Zenon DEF SelectSessionLost
<1>6. e.candidates # {} => SwitchTo(s, Min(e.candidates)) = SwitchTo(s, a)
  OBVIOUS
<1> HIDE DEF g, s, a
<1>7. /\ Moves(e, s, FALSE) /\ ~s.current_authenticated
      /\ Moves(e, e, FALSE)
      /\ Moves(e, SwitchTo(s, a), FALSE) /\ ~SwitchTo(s, a).current_authenticated
  BY <1>2, <1>4, Stays, ToCandidate, Zenon
<1>8. Chooses(e, Free(s)) /\ Chooses(e, Free(e)) /\ Chooses(e, Free(SwitchTo(s, a)))
  BY <1>7, ChoiceOf, Zenon DEF Free
<1> QED BY <1>5, <1>6, <1>8, ReturnChooses, Zenon DEF g

\* select
LEMMA SelectChooses ==
  ASSUME NEW e \in Controller, Fine(e), ~e.current_authenticated, NEW reason \in CycleReason,
         NEW answered \in BOOLEAN, answered => e.candidates # {}, NEW grant \in BOOLEAN
  PROVE  Chooses(e, Select(e, reason, answered, grant))
<1>1. CASE reason \in {"ProbationExpired", "OperatorRollback"}
  BY <1>1, RollbackChooses DEF Select
<1>2. CASE reason = "Forced"
  BY <1>2, ForcedChooses DEF Select
<1>3. CASE reason = "AttemptFailed"
  BY <1>3, AttemptFailedChooses DEF Select
<1>4. CASE reason = "SessionLost"
  BY <1>4, SessionLostChooses DEF Select
<1>5. CASE reason = "Startup"
  <2>1. Chooses(e, Free(e))
    BY UpdatesLess, Stays, ChoiceOf, Zenon DEF Free
  <2> QED BY <1>5, <2>1 DEF Select
<1> QED BY <1>1, <1>2, <1>3, <1>4, <1>5 DEF CycleReason

\* on_cycle: the refresh changes no right, and leaves candidates if there were any.
LEMMA CycleChooses ==
  ASSUME NEW e \in Controller, Fine(e), ~e.current_authenticated, NEW reason \in CycleReason,
         NEW w \in Answers
  PROVE  Chooses(e, OnCycle(e, reason, w))
<1> DEFINE s == [e EXCEPT !.reconnect_refresh_pending = @ \/ reason = "SessionLost"]
           due0 == \/ s.force_refresh \/ s.reconnect_refresh_pending
                   \/ w.expired \/ s.candidates = {}
           t == IF due0 /\ reason \in {"Forced", "SessionLost", "AttemptFailed"}
                THEN StartPreferredRound(s) ELSE s
           v == [t EXCEPT !.force_refresh = FALSE]
           q == Query(v, w.answer, w.delay)
           query == due0 /\ t.backoff = 0
           u == IF query THEN Elapse(q, w.took) ELSE t
           answered == query /\ w.answer # {}
<1>1. OnCycle(e, reason, w) = Select(u, reason, answered, w.grant)
  BY Zenon DEF OnCycle
<1>2. /\ w.answer \in SUBSET Addr /\ w.delay \in BackoffMin .. BackoffMax
      /\ w.took \in Nat /\ w.grant \in BOOLEAN
  <2>1. w.answer \in SUBSET Addr /\ w.delay \in BackoffMin .. BackoffMax
        /\ w.took \in QueryTimes /\ w.grant \in BOOLEAN
    BY Zenon DEF Answers
  <2> QED BY <2>1, Constants, Zenon
<1>3. s \in Controller /\ Kept(e, s)
  <2>1. (e.reconnect_refresh_pending \/ reason = "SessionLost") \in BOOLEAN
    BY Zenon
  <2>2. s \in Controller
    BY <2>1, Zenon DEF Controller
  <2>3. Kept(e, s)
    BY DEF Controller, Kept, SameRights, SameAddress
  <2> QED BY <2>2, <2>3
<1> HIDE DEF s
<1>4. t \in Controller /\ Kept(s, t)
  <2>1. Kept(s, s)
    BY DEF Kept, SameRights, SameAddress
  <2> QED BY <1>3, <2>1, StartKeeps, Zenon
<1> HIDE DEF t
<1>5. v \in Controller /\ Kept(t, v)
  <2>1. v \in Controller
    BY <1>4, Zenon DEF Controller
  <2>2. Kept(t, v)
    BY <1>4 DEF Controller, Kept, SameRights, SameAddress
  <2> QED BY <2>1, <2>2
<1> HIDE DEF v
<1>6. /\ q \in Controller /\ SameRights(v, q) /\ SameAddress(v, q)
      /\ v.candidates # {} \/ w.answer # {} => q.candidates # {}
  BY <1>2, <1>5, QueryKeeps, Zenon
<1> HIDE DEF q
<1>7. Elapse(q, w.took) \in Controller /\ Kept(q, Elapse(q, w.took))
  BY <1>2, <1>6, ElapseKeeps, Zenon
<1>8. /\ u \in Controller /\ SameRights(e, u) /\ SameAddress(e, u)
      /\ e.candidates # {} \/ answered => u.candidates # {}
  <2>1. CASE query
    <3>1. u = Elapse(q, w.took)
      BY <2>1
    <3> HIDE DEF u, query
    <3> QED BY <1>3, <1>4, <1>5, <1>6, <1>7, <2>1, <3>1
            DEF Kept, SameRights, SameAddress
  <2>2. CASE ~query
    <3>1. u = t /\ ~answered
      BY <2>2
    <3> HIDE DEF u, query, answered
    <3> QED BY <1>3, <1>4, <3>1 DEF Kept, SameRights, SameAddress
  <2> QED BY Zenon, <2>1, <2>2
<1>9. answered \in BOOLEAN
  BY Zenon
<1> HIDE DEF u, answered, query
<1>10. Fine(u) /\ ~u.current_authenticated
  BY <1>8 DEF Fine, SameRights, SameAddress, OnProbation
<1>11. Chooses(u, Select(u, reason, answered, w.grant))
  BY <1>2, <1>8, <1>9, <1>10, SelectChooses, Zenon
<1>12. Chooses(e, Select(u, reason, answered, w.grant))
  BY Zenon, <1>8, <1>11 DEF Chooses, Moves, ToOld, SameRights, SameAddress
<1> QED BY <1>1, <1>12

-----------------------------------------------------------------------------
(* Sessions, the operator's commands and the start of the process.         *)

\* on_session_ended
LEMMA SessionEndedKeeps ==
  ASSUME NEW e \in Controller
  PROVE  LET f == OnSessionEnded(e) IN
         /\ f \in Controller /\ SameRights(e, f) /\ f.current = e.current
         /\ f.candidates = e.candidates /\ ~f.current_authenticated
<1> DEFINE f == [e EXCEPT !.current_authenticated = FALSE]
<1>1. f \in Controller
  BY Zenon DEF Controller
<1>2. /\ SameRights(e, f) /\ f.current = e.current
      /\ f.candidates = e.candidates /\ f.current_authenticated = FALSE
  BY DEF Controller, SameRights
<1> QED BY <1>1, <1>2 DEF OnSessionEnded

\* Ending the session after a step of the controller.
LEMMA EndedMoves ==
  ASSUME NEW e, NEW f, NEW c, Moves(e, f, c)
  PROVE  Moves(e, OnSessionEnded(f), c) /\ ~OnSessionEnded(f).current_authenticated
<1> DEFINE g == OnSessionEnded(f)
<1>1. f \in Controller
  BY DEF Moves
<1>2. /\ g \in Controller /\ SameRights(f, g) /\ g.current = f.current
      /\ g.candidates = f.candidates /\ ~g.current_authenticated
  BY <1>1, SessionEndedKeeps
<1> HIDE DEF g
<1> QED BY ZenonT(60), <1>2 DEF Moves, Fine, SameRights, ToOld, g

\* Staying as one is.
LEMMA MovesNot ==
  ASSUME NEW e \in Controller, Fine(e), NEW f \in Controller, SameRights(e, f),
         f.current = e.current, f.candidates = e.candidates,
         f.current_authenticated => e.current_authenticated, NEW c
  PROVE  Moves(e, f, c)
  BY DEF Moves, Fine, SameRights, ToOld, OnProbation

\* probation_rollback_due and authorize_operator_rollback: the right is there already, or
\* it is direct, or it is charged.
LEMMA AuthorizeMoves ==
  ASSUME NEW e \in Controller, Fine(e), NEW grant \in BOOLEAN, MayRollBack(e, grant)
  PROVE  LET r == AuthorizeRollback(e, grant) IN
         Moves(e, r.e, r.charged) /\ r.e.current = e.current /\ r.charged \in BOOLEAN
<1> DEFINE p == [e.probation EXCEPT !.rollback_authorized = TRUE]
           f == [e EXCEPT !.probation = p]
           c == grant /\ ~e.probation.rollback_authorized /\ ~e.probation.direct_return
<1>0. e.probation \in Probation
  BY Fields
<1>1. AuthorizeRollback(e, grant) = [e |-> f, charged |-> c]
  BY <1>0, Zenon DEF AuthorizeRollback, Controller
<1>2. p \in Probation
  BY <1>0, Zenon DEF Probation
<1>3. /\ p.candidate = e.probation.candidate /\ p.rollback = e.probation.rollback
      /\ p.direct_return = e.probation.direct_return
  BY <1>0 DEF Probation
<1> HIDE DEF p
<1>4. f \in Controller
  BY <1>2, Zenon DEF Controller
<1>5. /\ f.probation = p /\ f.current = e.current /\ f.candidates = e.candidates
      /\ f.enabled = e.enabled /\ f.committed_good = e.committed_good
      /\ f.attended_cutover = e.attended_cutover
      /\ f.current_authenticated = e.current_authenticated
  BY DEF Controller
<1>6. Fine(f)
  BY <1>3, <1>5 DEF Fine, OnProbation
<1>7. c \/ e.probation.rollback_authorized \/ e.probation.direct_return
  BY Zenon DEF MayRollBack
<1>8. c \in BOOLEAN
  BY Zenon
<1> HIDE DEF c, f
<1>9. Moves(e, f, c)
  BY <1>3, <1>4, <1>5, <1>6, <1>7 DEF Moves, ToOld
<1> QED BY <1>1, <1>5, <1>8, <1>9

\* The right to return of a controller, as the history has it: p for a charge
\* still unused, i for a reconnect that ended a session with the committed address.
Rights(e, p, i) ==
  /\ e.attended_cutover => i
  /\ e.probation.direct_return => i
  /\ e.probation.rollback_authorized => p \/ i

Rightless(e) ==
  /\ ~e.attended_cutover /\ ~e.probation.direct_return
  /\ ~e.probation.rollback_authorized

\* promote_candidate and on_authenticated: the current address is committed.
LEMMA CommitKeeps ==
  ASSUME NEW e \in Controller
  PROVE  LET f == Commit(e) IN
         /\ f \in Controller /\ Fine(f) /\ f.enabled = e.enabled
         /\ f.current = e.current /\ f.committed_good = e.current
         /\ f.current_authenticated = e.current_authenticated
         /\ f.attended_cutover = FALSE /\ f.probation = NoProbation
<1> DEFINE f == [e EXCEPT !.committed_good = e.current, !.activity = RollbackWindow,
                   !.cache_fresh = Never, !.probation = NoProbation,
                   !.attended_cutover = FALSE]
<1>1. /\ e.current \in Addr \cup {NoAddr} /\ RollbackWindow \in Within(RollbackWindow)
      /\ Never \in Within(MaxAge) /\ NoProbation \in Probation
  BY Constants, Fields, NoProbationTyped DEF Within, Positive
<1>2. f \in Controller
  BY <1>1, Zenon DEF Controller
<1>3. /\ f.enabled = e.enabled
      /\ f.current = e.current /\ f.committed_good = e.current
      /\ f.current_authenticated = e.current_authenticated
      /\ f.attended_cutover = FALSE /\ f.probation = NoProbation
  BY DEF Controller
<1>4. Commit(e) = f
  BY DEF Commit
<1> HIDE DEF f
<1>5. Fine(f)
  BY <1>3 DEF Fine, NoProbation
<1> QED BY <1>2, <1>3, <1>4, <1>5

\* rollback_at is within the window.
LEMMA RollbackAtTyped ==
  ASSUME NEW e \in Controller PROVE RollbackAt(e) \in Within(RollbackWindow)
<1>1. e.cache_fresh \in Int /\ e.activity \in Int
  BY Fields, Constants DEF Within, Positive
<1>2. Health(e) \in Int
  BY <1>1, Constants DEF Health, Larger
<1> HIDE DEF Health
<1> QED BY <1>2, Constants DEF RollbackAt, Smaller, Within, Positive

\* on_authenticated: the address is committed, or it is on probation, with the right to
\* return directly that a reconnect gave.
LEMMA AuthenticatedKeeps ==
  ASSUME NEW e \in Controller, Fine(e)
  PROVE  LET f == OnAuthenticated(e) IN
         /\ f \in Controller /\ Fine(f) /\ f.enabled = e.enabled
         /\ f.current = e.current /\ f.attended_cutover = FALSE
         /\ f.probation.rollback_authorized = FALSE
         /\ \/ /\ f.committed_good = f.current /\ f.probation.direct_return = FALSE
               /\ CommitsAtOnce(e)
            \/ /\ f.committed_good = e.committed_good /\ f.committed_good # f.current
               /\ f.probation.direct_return = e.attended_cutover
<1> DEFINE s == [e EXCEPT !.current_authenticated = TRUE,
                     !.reconnect_refresh_pending = FALSE, !.backoff = 0,
                     !.failures = 0, !.attempts = 0, !.round = Never]
           p == [NoProbation EXCEPT
                  !.candidate = e.current, !.rollback = e.committed_good,
                  !.direct_return = e.attended_cutover, !.rollback_at = RollbackAt(e)]
           g == [s EXCEPT !.attended_cutover = FALSE, !.probation = p]
           f == OnAuthenticated(e)
<1>1. f = IF CommitsAtOnce(e) THEN Commit(s) ELSE g
  BY Zenon DEF OnAuthenticated
<1>2. /\ 0 \in 0 .. BackoffMax /\ 0 \in 0 .. AfterFailures
      /\ 0 \in 0 .. MAX_ENDPOINT_CANDIDATES /\ Never \in Within(PreferredRound)
  BY Constants DEF Within, Positive
<1>3. s \in Controller
  BY <1>2, Zenon DEF Controller
<1>4. /\ s.enabled = e.enabled /\ s.current = e.current
      /\ s.committed_good = e.committed_good /\ s.candidates = e.candidates
      /\ s.current_authenticated = TRUE
  BY DEF Controller
<1> HIDE DEF s, f
<1>5. CASE CommitsAtOnce(e)
  <2>1. f = Commit(s)
    BY <1>1, <1>5
  <2>2. /\ f \in Controller /\ Fine(f) /\ f.enabled = s.enabled
        /\ f.current = s.current /\ f.committed_good = s.current
        /\ f.attended_cutover = FALSE /\ f.probation = NoProbation
    BY <1>3, <2>1, CommitKeeps, Zenon
  <2>3. NoProbation.rollback_authorized = FALSE /\ NoProbation.direct_return = FALSE
    BY DEF NoProbation
  <2> QED BY <1>4, <1>5, <2>2, <2>3, Zenon DEF f
<1>6. CASE ~CommitsAtOnce(e)
  <2>1. f = g
    BY <1>1, <1>6
  <2>2. RollbackAt(e) \in Within(RollbackWindow) /\ NoProbation \in Probation
    BY RollbackAtTyped, NoProbationTyped
  <2>3. /\ e.current \in Addr \cup {NoAddr} /\ e.committed_good \in Addr \cup {NoAddr}
        /\ e.attended_cutover \in BOOLEAN /\ e.current # NoAddr
    BY Fields, Constants DEF Controller
  <2>4. p \in Probation
    BY <2>2, <2>3, Zenon DEF Probation
  <2>5. /\ p.candidate = e.current /\ p.rollback = e.committed_good
        /\ p.direct_return = e.attended_cutover /\ p.rollback_authorized = FALSE
    BY DEF NoProbation
  <2> HIDE DEF p
  <2>6. g \in Controller
    BY <1>3, <2>4, Zenon DEF Controller
  <2>7. /\ g.enabled = s.enabled /\ g.current = s.current
        /\ g.committed_good = s.committed_good /\ g.candidates = s.candidates
        /\ g.current_authenticated = s.current_authenticated
        /\ g.attended_cutover = FALSE /\ g.probation = p
    BY <1>3 DEF Controller
  <2> HIDE DEF g
  <2>8. e.committed_good # NoAddr /\ e.committed_good # e.current
    BY <1>6 DEF CommitsAtOnce
  <2>9. Fine(g)
    BY <1>4, <2>3, <2>5, <2>7, <2>8 DEF Fine, OnProbation
  <2>10. /\ f.enabled = e.enabled /\ f.current = e.current
         /\ f.committed_good = e.committed_good /\ f.committed_good # f.current
    BY <1>4, <2>1, <2>7, <2>8
  <2>11. /\ f.attended_cutover = FALSE /\ f.probation.rollback_authorized = FALSE
         /\ f.probation.direct_return = e.attended_cutover
    BY <2>1, <2>5, <2>7, Zenon
  <2> QED BY <2>1, <2>6, <2>9, <2>10, <2>11, Zenon DEF f
<1> QED BY <1>5, <1>6, Zenon

\* on_authenticated_activity changes clocks and evidence only.
LEMMA ActivityKeeps ==
  ASSUME NEW e \in Controller, NEW isData \in BOOLEAN
  PROVE  OnActivity(e, isData) \in Controller /\ Kept(e, OnActivity(e, isData))
<1> DEFINE s == IF e.current_authenticated /\ e.committed_good = e.current
                THEN [e EXCEPT !.activity = RollbackWindow] ELSE e
           afresh == e.probation.packets = 0 \/ e.probation.idle > MaxGap
           n == IF afresh THEN 1
                ELSE Smaller(s.probation.packets + 1, MIN_PROMOTION_DATA_PACKETS)
           t == IF afresh THEN 0
                ELSE Smaller(s.probation.span + e.probation.idle, ProbationTime)
           p == [s.probation EXCEPT !.idle = 0, !.packets = n, !.span = t]
           g == [s EXCEPT !.probation = p]
<1>1. RollbackWindow \in Within(RollbackWindow)
  BY Constants DEF Within, Positive
<1>2. s \in Controller
  BY <1>1, Zenon DEF Controller
<1>3. Kept(e, s) /\ s.probation = e.probation
  BY DEF Controller, Kept, SameRights, SameAddress
<1> HIDE DEF s
<1>4. s.probation \in Probation
  BY <1>2, Fields
<1>5. OnActivity(e, isData) = IF ~isData \/ ~OnProbation(e) THEN s ELSE g
  BY <1>2, <1>4, ZenonT(60) DEF OnActivity, Controller, Probation, s
<1>6. /\ n \in 0 .. MIN_PROMOTION_DATA_PACKETS /\ t \in 0 .. ProbationTime
      /\ 0 \in 0 .. MaxGap + 1
  <2>1. /\ s.probation.packets \in Nat /\ s.probation.span \in Nat
        /\ e.probation.idle \in Nat
    BY <1>3, <1>4 DEF Probation
  <2> QED BY <2>1, Constants DEF Smaller, Positive
<1> HIDE DEF n, t
<1>7. p \in Probation
  BY <1>4, <1>6, Zenon DEF Probation
<1>8. /\ p.candidate = s.probation.candidate /\ p.rollback = s.probation.rollback
      /\ p.direct_return = s.probation.direct_return
      /\ p.rollback_authorized = s.probation.rollback_authorized
  BY <1>4 DEF Probation
<1> HIDE DEF p
<1>9. g \in Controller
  BY <1>2, <1>7, Zenon DEF Controller
<1>10. Kept(s, g)
  BY <1>2, <1>8 DEF Controller, Kept, SameRights, SameAddress
<1> HIDE DEF g
<1>11. Kept(e, g)
  BY <1>3, <1>10 DEF Kept, SameRights, SameAddress
<1> QED BY <1>2, <1>3, <1>5, <1>9, <1>11, Zenon

\* request_refresh gives the right to return when it ends a session with the committed
\* address.
LEMMA RefreshKeeps ==
  ASSUME NEW e \in Controller
  PROVE  LET f == RequestRefresh(e) IN
         /\ f \in Controller /\ f.enabled = e.enabled /\ SameAddress(e, f)
         /\ f.committed_good = e.committed_good /\ f.candidates = e.candidates
         /\ f.probation = e.probation
         /\ f.attended_cutover =>
              e.current_authenticated /\ e.committed_good = e.current
<1> DEFINE at == e.current_authenticated /\ e.committed_good = e.current
           f == [e EXCEPT !.attended_cutover = at, !.force_refresh = TRUE, !.backoff = 0]
<1>0. 0 \in 0 .. BackoffMax
  BY Constants
<1>1. at \in BOOLEAN
  BY Zenon
<1>2. RequestRefresh(e) = f
  BY Zenon DEF RequestRefresh
<1> HIDE DEF at
<1>3. f \in Controller
  BY <1>0, <1>1, Zenon DEF Controller
<1>4. /\ f.enabled = e.enabled /\ SameAddress(e, f)
      /\ f.committed_good = e.committed_good /\ f.candidates = e.candidates
      /\ f.probation = e.probation
  BY DEF Controller, SameAddress
<1>5. f.attended_cutover = at
  BY Zenon DEF Controller
<1> HIDE DEF f
<1> QED BY <1>2, <1>3, <1>4, <1>5, Zenon DEF at

\* A controller that may have no address yet.
Booting ==
  [enabled: BOOLEAN, current: Addr \cup {NoAddr}, current_authenticated: BOOLEAN,
   committed_good: Addr \cup {NoAddr}, cache_fresh: Within(MaxAge),
   activity: Within(RollbackWindow), candidates: SUBSET Addr, backoff: 0 .. BackoffMax,
   force_refresh: BOOLEAN, reconnect_refresh_pending: BOOLEAN,
   failures: 0 .. AfterFailures, attempts: 0 .. MAX_ENDPOINT_CANDIDATES,
   round: Within(PreferredRound), attended_cutover: BOOLEAN, probation: Probation]

\* What bootstrap leaves alone.
Boots(f, enabled, c) ==
  /\ f.enabled = enabled /\ f.committed_good = c
  /\ f.current_authenticated = FALSE /\ f.attended_cutover = FALSE
  /\ f.probation = NoProbation

\* What a process may start with, having found c in the cache.
StartsWell(e, enabled, c) ==
  /\ e \in Controller /\ Fine(e) /\ Rightless(e)
  /\ e.enabled = enabled /\ e.committed_good = c /\ ~e.current_authenticated

\* bootstrap up to the choice of the address.
LEMMA BootQueried ==
  ASSUME NEW enabled \in BOOLEAN, NEW c \in Addr \cup {NoAddr}, NEW e \in Booting,
         Boots(e, enabled, c), e.candidates = {}, NEW answer \in SUBSET Addr,
         NEW delay \in BackoffMin .. BackoffMax
  PROVE  LET q == Query(StartPreferredRound(e), answer, delay) IN
         /\ q \in Booting /\ Boots(q, enabled, c)
         /\ answer # {} => q.candidates # {}
<1> DEFINE s == StartPreferredRound(e)
           q == Query(s, answer, delay)
<1>1. /\ PreferredRound \in Within(PreferredRound) /\ 0 \in 0 .. MAX_ENDPOINT_CANDIDATES
      /\ 0 \in 0 .. BackoffMax /\ 0 \in 0 .. AfterFailures
      /\ delay \in 0 .. BackoffMax /\ BackoffMin \in 0 .. BackoffMax
  BY Constants DEF Within, Positive
<1>2. s \in Booting
  BY <1>1, ZenonT(60) DEF Booting, StartPreferredRound
<1>3. Boots(s, enabled, c)
  BY DEF Boots, Booting, StartPreferredRound
<1> HIDE DEF s
<1>4. CASE answer = {}
  <2>1. q = [s EXCEPT !.backoff = delay]
    BY <1>4, Zenon DEF Query
  <2>2. q \in Booting
    BY <1>1, <1>2, <2>1, ZenonT(60) DEF Booting
  <2>3. Boots(q, enabled, c)
    BY <1>2, <1>3, <2>1 DEF Boots, Booting
  <2> QED BY <1>4, <2>2, <2>3 DEF s
<1>5. CASE answer # {}
  <2>1. Canonical(answer) \in SUBSET Addr /\ Canonical(answer) # {}
    BY <1>5, CanonicalFacts
  <2> DEFINE b == IF s.reconnect_refresh_pending THEN BackoffMin ELSE 0
             n == IF Canonical(answer) # s.candidates THEN 0 ELSE s.failures
             m == IF Canonical(answer) # s.candidates THEN 0 ELSE s.attempts
             f == [s EXCEPT !.backoff = b, !.candidates = Canonical(answer),
                            !.failures = n, !.attempts = m]
  <2>2. q = f
    BY <1>2, <1>5, Zenon DEF Query, Booting
  <2>3. /\ b \in 0 .. BackoffMax /\ n \in 0 .. AfterFailures
        /\ m \in 0 .. MAX_ENDPOINT_CANDIDATES
    BY <1>1, <1>2, Zenon DEF Booting
  <2> HIDE DEF b, n, m
  <2>4. f \in Booting
    BY <1>2, <2>1, <2>3, Zenon DEF Booting
  <2>5. Boots(f, enabled, c) /\ f.candidates = Canonical(answer)
    BY <1>2, <1>3 DEF Boots, Booting
  <2> HIDE DEF f
  <2> QED BY <2>1, <2>2, <2>4, <2>5 DEF s
<1> QED BY <1>4, <1>5

\* bootstrap: nobody is on probation, what the cache holds is committed, and where that
\* is not the address to start with there are candidates.
LEMMA BootstrapTyped ==
  ASSUME NEW enabled \in BOOLEAN, NEW c \in Addr \cup {NoAddr}, NEW age \in Nat, NEW first \in Addr \cup {NoAddr},
         NEW w \in Answers,
         Elapse(Bootstrap(enabled, c, age, first, w), w.took).current # NoAddr
  PROVE  StartsWell(Elapse(Bootstrap(enabled, c, age, first, w), w.took), enabled, c)
<1> DEFINE e == Elapse(Bootstrap(enabled, c, age, first, w), w.took)
           fresh == IF enabled /\ c # NoAddr /\ age < MaxAge THEN MaxAge - age ELSE Never
           s == [enabled |-> enabled, current |-> NoAddr, current_authenticated |-> FALSE,
                 committed_good |-> c, cache_fresh |-> fresh,
                 activity |-> Never, candidates |-> {}, backoff |-> 0,
                 force_refresh |-> FALSE, reconnect_refresh_pending |-> FALSE,
                 failures |-> 0, attempts |-> 0, round |-> Never,
                 attended_cutover |-> FALSE, probation |-> NoProbation]
           q == Query(StartPreferredRound(s), w.answer, w.delay)
           a == IF w.answer # {} THEN Preferred(q)
                ELSE IF c # NoAddr THEN c ELSE first
           f == [q EXCEPT !.current = a]
<1>1. Bootstrap(enabled, c, age, first, w) = f
  BY DEF Bootstrap
<1>2. /\ w.answer \in SUBSET Addr /\ w.took \in QueryTimes
      /\ w.delay \in BackoffMin .. BackoffMax
  BY Zenon DEF Answers
<1>3. w.took \in Nat
  BY <1>2, Constants, Zenon
<1>4. /\ fresh \in Within(MaxAge)
      /\ Never \in Within(RollbackWindow) /\ Never \in Within(PreferredRound)
      /\ 0 \in 0 .. BackoffMax
      /\ 0 \in 0 .. AfterFailures /\ 0 \in 0 .. MAX_ENDPOINT_CANDIDATES
  BY Constants DEF Within, Positive
<1> HIDE DEF fresh
<1>5. s \in Booting
  BY <1>4, NoProbationTyped, Zenon DEF Booting
<1>6. Boots(s, enabled, c) /\ s.candidates = {}
  BY Zenon DEF Boots
<1> HIDE DEF s
<1>7. /\ q \in Booting /\ Boots(q, enabled, c)
      /\ w.answer # {} => q.candidates # {}
  BY <1>2, <1>5, <1>6, BootQueried, Zenon
<1> HIDE DEF q
<1>8. w.answer # {} => Preferred(q) \in Addr
  <2> SUFFICES ASSUME w.answer # {} PROVE Preferred(q) \in Addr
    OBVIOUS
  <2>1. q.candidates \in SUBSET Addr /\ q.candidates # {}
    BY <1>7 DEF Booting
  <2>2. Min(q.candidates) \in q.candidates
    BY <2>1, MinIn, Constants
  <2> QED BY <2>1, <2>2 DEF Preferred
<1>9. a \in Addr \cup {NoAddr}
  BY <1>8
<1>10. c \notin {NoAddr, a} => q.candidates # {}
  BY <1>7
<1> HIDE DEF a
<1>11. f \in Booting
  BY <1>7, <1>9, Zenon DEF Booting
<1>12. Boots(f, enabled, c) /\ f.current = a /\ f.candidates = q.candidates
  BY <1>7 DEF Boots, Booting
<1>13. ASSUME a \in Addr PROVE f \in Controller
  BY <1>7, <1>13, Zenon DEF Booting, Controller
<1> HIDE DEF f
<1>14. Elapse(f, w.took).current = f.current
  BY <1>11 DEF Elapse, Booting
<1>15. a # NoAddr
  BY <1>1, <1>12, <1>14
<1>16. f \in Controller
  BY <1>9, <1>13, <1>15
<1>17. e \in Controller /\ Kept(f, e)
  BY <1>1, <1>3, <1>16, ElapseKeeps
<1>18. /\ NoProbation.rollback_authorized = FALSE /\ NoProbation.direct_return = FALSE
       /\ NoProbation.candidate = NoAddr /\ NoProbation.rollback = NoAddr
  BY DEF NoProbation
<1>19. /\ e.attended_cutover = FALSE /\ e.probation.rollback_authorized = FALSE
       /\ e.probation.direct_return = FALSE /\ e.probation.candidate = NoAddr
       /\ e.probation.rollback = NoAddr
       /\ e.enabled = enabled /\ e.committed_good = c /\ e.current_authenticated = FALSE
       /\ e.current = a /\ e.candidates = q.candidates
  BY <1>12, <1>17, <1>18, ZenonT(60) DEF Kept, SameRights, SameAddress, Boots
<1>20. Fine(e)
  BY <1>10, <1>19, Zenon DEF Fine
<1> QED BY <1>17, <1>19, <1>20, Zenon DEF StartsWell, Rightless

\* What keeps everything keeps Fine and the rights.
LEMMA KeptFine ==
  ASSUME NEW e, NEW f, Kept(e, f), Fine(e) PROVE Fine(f)
  BY DEF Kept, SameRights, SameAddress, Fine, OnProbation

\* The same for the rights.
LEMMA KeptRights ==
  ASSUME NEW e, NEW f, Kept(e, f), NEW p, NEW i, Rights(e, p, i) PROVE Rights(f, p, i)
  BY Zenon DEF Kept, SameRights, Rights

-----------------------------------------------------------------------------
(* The client's side.                                                      *)

\* The RSTs only disable the transport (parse_recv).
LEMMA RstsKeep ==
  ASSUME NEW d \in Client, NEW c \in AfterRsts(d)
  PROVE  c \in Client /\ c.state = d.state /\ c.hb = d.hb
<1>1. CASE c = d
  BY <1>1
<1>2. CASE c = [d EXCEPT !.disabled = TRUE]
  <2>1. c \in Client
    BY <1>2, Zenon DEF Client
  <2> QED BY <1>2, <2>1 DEF Client
<1> QED BY <1>1, <1>2, Zenon DEF AfterRsts

\* go_idle, whatever the reason.
LEMMA IdleTyped ==
  ASSUME NEW d \in Client, NEW reason \in CycleReason
  PROVE  GoIdle(d, reason) \in Client /\ GoIdle(d, reason).state = "Idle"
<1>1. 0 \in 0 .. CLIENT_CONN_TIMEOUT + 1
  BY Constants
<1>2. GoIdle(d, reason) \in Client
  BY <1>1, Zenon DEF GoIdle, Client
<1>3. GoIdle(d, reason).state = "Idle"
  BY DEF GoIdle, Client
<1> QED BY <1>2, <1>3

\* A packet sets the heartbeat's clock back, at most.
LEMMA HeardTyped ==
  ASSUME NEW kind, NEW d \in Client
  PROVE  HeardBy(kind, d) \in Client /\ HeardBy(kind, d).state = d.state
<1> DEFINE n == IF kind = "heartbeat" \/ hb_mode = 0 THEN 0 ELSE d.hb
           f == [d EXCEPT !.hb = n]
<1>1. 0 \in 0 .. CLIENT_CONN_TIMEOUT + 1 /\ d.hb \in 0 .. CLIENT_CONN_TIMEOUT + 1
  BY Constants DEF Client
<1>2. n \in 0 .. CLIENT_CONN_TIMEOUT + 1
  BY <1>1, Zenon
<1>3. HeardBy(kind, d) = f
  BY Zenon DEF HeardBy, Client
<1> HIDE DEF n
<1>4. f \in Client
  BY <1>2, Zenon DEF Client
<1>5. f.state = d.state
  BY DEF Client
<1> QED BY <1>3, <1>4, <1>5

\* A packet changes clocks and evidence only.
LEMMA ShownKeeps ==
  ASSUME NEW kind, NEW e \in Controller
  PROVE  ShownBy(kind, e) \in Controller /\ Kept(e, ShownBy(kind, e))
<1>1. Kept(e, e)
  BY DEF Kept, SameRights, SameAddress
<1>2. (kind = "data") \in BOOLEAN
  BY Zenon
<1> QED BY <1>1, <1>2, ActivityKeeps, Zenon DEF ShownBy

\* The answers a timer may get are answers.
LEMMA WorldsIn ==
  ASSUME NEW c PROVE Worlds(c) \subseteq Answers
<1>1. \E w : w \in Answers
  <2>1. BackoffMin \in BackoffMin .. BackoffMax
    BY Constants DEF Positive
  <2>2. PICK t : t \in QueryTimes
    BY EndpointAssumption, Zenon
  <2>3. [expired |-> TRUE, answer |-> {}, took |-> t, delay |-> BackoffMin,
         grant |-> TRUE] \in Answers
    BY <2>1, <2>2, Zenon DEF Answers
  <2> QED BY <2>3, Zenon
<1> DEFINE v == CHOOSE w \in Answers : TRUE
<1>2. v \in Answers
  BY <1>1, Zenon
<1> HIDE DEF v
<1>3. \A g \in BOOLEAN : [v EXCEPT !.grant = g] \in Answers
  BY <1>2, Zenon DEF Answers
<1> USE DEF v
<1>4. ASSUME NEW w \in Worlds(c) PROVE w \in Answers
  <2>1. CASE c.disabled \/ c.state = "Idle"
    BY <2>1, Zenon DEF Worlds
  <2>2. CASE ~(c.disabled \/ c.state = "Idle")
    <3>1. PICK g \in BOOLEAN : w = [v EXCEPT !.grant = g]
      BY <2>2, Zenon DEF Worlds
    <3> HIDE DEF v
    <3> QED BY <1>3, <3>1
  <2> QED BY <2>1, <2>2
<1> QED BY <1>4, Zenon

-----------------------------------------------------------------------------
(* The timer and the start of the process.                                 *)

\* What a step of the timer's handler does for a client in any state: to the controller
\* what Moves allows, and no session is left without the controller knowing.
LEMMA TimerMoves ==
  ASSUME NEW e \in Controller, Fine(e), NEW c \in Client,
         c.state # "Ready" => ~e.current_authenticated,
         NEW w \in Answers, NEW x \in [setup: BOOLEAN, ended: BOOLEAN]
  PROVE  LET r == OnTimer(e, c, w, x) IN
         /\ r.c \in Client /\ Moves(e, r.e, r.charged)
         /\ r.c.state # "Ready" => ~r.e.current_authenticated
<1> DEFINE c1 == IF c.disabled THEN GoIdle(c, DisabledReason(c)) ELSE c
           e1 == IF c.disabled THEN OnSessionEnded(e) ELSE e
           cycle == IF c1.state = "Idle" /\ ~c1.selected
                    THEN OnCycle(e1, c1.cycle_reason, w) ELSE Free(e1)
           c2 == IF c1.state # "Idle" THEN c1
                 ELSE [c1 EXCEPT !.cycle_reason = "AttemptFailed", !.disabled = FALSE,
                                 !.selected = ~x.setup,
                                 !.state = IF x.setup THEN "Handshake" ELSE "Idle"]
           Ended(choice, reason) ==
             [e |-> OnSessionEnded(choice.e), c |-> GoIdle(c2, reason),
              charged |-> choice.charged]
           auth == AuthorizeRollback(e1, w.grant)
           r == OnTimer(e, c, w, x)
<1>1. \/ r = Ended(cycle, "AttemptFailed") \/ r = Ended(cycle, "SessionLost")
      \/ MayRollBack(e1, w.grant) /\ r = Ended(auth, "ProbationExpired")
      \/ r = [e |-> cycle.e, c |-> c2, charged |-> cycle.charged]
  BY ZenonT(60) DEF OnTimer, RollbackDue
<1>2. w.grant \in BOOLEAN /\ x.setup \in BOOLEAN
  BY Zenon DEF Answers
<1>3. /\ \A reason \in CycleReason : \A d \in Client :
           GoIdle(d, reason) \in Client /\ GoIdle(d, reason).state = "Idle"
      /\ DisabledReason(c) \in CycleReason
  BY IdleTyped DEF DisabledReason, CycleReason
<1>4. /\ e1 \in Controller /\ Fine(e1) /\ SameRights(e, e1) /\ e1.current = e.current
      /\ e1.candidates = e.candidates
      /\ e1.current_authenticated => e.current_authenticated
      /\ c1 \in Client
      /\ c1.state # "Ready" => ~e1.current_authenticated
  <2>1. CASE c.disabled
    <3>1. e1 = OnSessionEnded(e) /\ c1 = GoIdle(c, DisabledReason(c))
      BY <2>1
    <3> HIDE DEF e1, c1
    <3>2. /\ e1 \in Controller /\ SameRights(e, e1) /\ e1.current = e.current
          /\ e1.candidates = e.candidates /\ ~e1.current_authenticated
      BY <3>1, SessionEndedKeeps
    <3>3. Fine(e1)
      BY <3>2 DEF Fine, SameRights
    <3>4. c1 \in Client
      BY <3>1, <1>3
    <3> QED BY <3>2, <3>3, <3>4
  <2>2. CASE ~c.disabled
    <3>1. e1 = e /\ c1 = c
      BY <2>2
    <3> HIDE DEF e1, c1
    <3> QED BY <3>1 DEF SameRights
  <2> QED BY Zenon, <2>1, <2>2
<1> HIDE DEF e1, c1
<1>5. /\ c2 \in Client
      /\ c2.state # "Ready" => c1.state # "Ready"
  <2>1. CASE c1.state # "Idle"
    BY <1>4, <2>1
  <2>2. CASE c1.state = "Idle"
    <3> DEFINE sel == ~x.setup
               st == IF x.setup THEN "Handshake" ELSE "Idle"
               d == [c1 EXCEPT !.cycle_reason = "AttemptFailed", !.disabled = FALSE,
                               !.selected = sel, !.state = st]
    <3>1. c2 = d
      BY <2>2
    <3>2. sel \in BOOLEAN /\ st \in {"Idle", "Handshake", "Ready"}
          /\ "AttemptFailed" \in CycleReason
      BY Zenon DEF CycleReason
    <3> HIDE DEF sel, st
    <3>3. d \in Client
      BY <1>4, <3>2, Zenon DEF Client
    <3> QED BY <2>2, <3>1, <3>3
  <2> QED BY <2>1, <2>2
<1>6. /\ Moves(e1, cycle.e, cycle.charged)
      /\ c1.state # "Ready" => ~cycle.e.current_authenticated
  <2>1. CASE c1.state = "Idle" /\ ~c1.selected
    <3>1. c1.cycle_reason \in CycleReason
      BY <1>4 DEF Client
    <3>2. Chooses(e1, OnCycle(e1, c1.cycle_reason, w))
      BY <1>4, <2>1, <3>1, CycleChooses
    <3> QED BY <2>1, <3>2 DEF Chooses
  <2>2. CASE ~(c1.state = "Idle" /\ ~c1.selected)
    <3>1. cycle.e = e1 /\ cycle.charged = FALSE
      BY <2>2 DEF Free
    <3>2. SameRights(e1, e1)
      BY DEF SameRights
    <3>3. Moves(e1, e1, FALSE)
      BY <1>4, <3>2, MovesNot, Zenon
    <3> HIDE DEF cycle
    <3> QED BY <1>4, <3>1, <3>3, Zenon
  <2> QED BY Zenon, <2>1, <2>2
<1> HIDE DEF cycle, c2
<1>7. \A f, b : Moves(e1, f, b) => Moves(e, f, b)
  BY <1>4 DEF Moves, SameRights, ToOld
<1>8. ASSUME NEW f, NEW b, Moves(e1, f, b), NEW reason \in CycleReason,
             r.e = OnSessionEnded(f), r.c = GoIdle(c2, reason), r.charged = b
      PROVE  /\ r.c \in Client /\ Moves(e, r.e, r.charged)
             /\ ~r.e.current_authenticated
  <2>1. Moves(e, OnSessionEnded(f), b) /\ ~OnSessionEnded(f).current_authenticated
    BY <1>7, <1>8, EndedMoves, Zenon
  <2>2. GoIdle(c2, reason) \in Client
    BY <1>3, <1>5
  <2> HIDE DEF r
  <2> QED BY Zenon, <1>8, <2>1, <2>2
<1>9. ASSUME NEW reason \in {"AttemptFailed", "SessionLost"}, r = Ended(cycle, reason)
      PROVE  /\ r.c \in Client /\ Moves(e, r.e, r.charged)
             /\ ~r.e.current_authenticated
  <2>1. /\ r.e = OnSessionEnded(cycle.e) /\ r.c = GoIdle(c2, reason)
        /\ r.charged = cycle.charged /\ reason \in CycleReason
    BY <1>9 DEF CycleReason
  <2> QED BY <1>6, <1>8, <2>1, Zenon
<1>10. ASSUME MayRollBack(e1, w.grant), r = Ended(auth, "ProbationExpired")
       PROVE  /\ r.c \in Client /\ Moves(e, r.e, r.charged)
              /\ ~r.e.current_authenticated
  <2>1. Moves(e1, auth.e, auth.charged)
    BY <1>2, <1>4, <1>10, AuthorizeMoves, Zenon
  <2>2. /\ r.e = OnSessionEnded(auth.e) /\ r.c = GoIdle(c2, "ProbationExpired")
        /\ r.charged = auth.charged /\ "ProbationExpired" \in CycleReason
    BY <1>10 DEF CycleReason
  <2> QED BY <1>8, <2>1, <2>2, Zenon
<1>11. ASSUME r = [e |-> cycle.e, c |-> c2, charged |-> cycle.charged]
       PROVE  /\ r.c \in Client /\ Moves(e, r.e, r.charged)
              /\ r.c.state # "Ready" => ~r.e.current_authenticated
  <2>1. r.e = cycle.e /\ r.c = c2 /\ r.charged = cycle.charged
    BY <1>11
  <2> QED BY <1>5, <1>6, <1>7, <2>1, Zenon
<1> QED BY <1>1, <1>9, <1>10, <1>11, Zenon

\* The outcomes a timer may have are outcomes.
LEMMA OutcomesIn ==
  ASSUME NEW c PROVE Outcomes(c) \subseteq [setup: BOOLEAN, ended: BOOLEAN]
<1>1. [setup: BOOLEAN, ended: {FALSE}] \subseteq [setup: BOOLEAN, ended: BOOLEAN]
  BY Zenon
<1>2. [setup: {TRUE}, ended: BOOLEAN] \subseteq [setup: BOOLEAN, ended: BOOLEAN]
  BY Zenon
<1> QED BY <1>1, <1>2, Zenon DEF Outcomes

\* A run of the timer's handler is a run of OnTimer.
LEMMA RunsMove ==
  ASSUME NEW e \in Controller, Fine(e), NEW c \in Client,
         c.state # "Ready" => ~e.current_authenticated,
         NEW outcomes, outcomes \subseteq Outcomes(c), NEW r \in TimerRuns(e, c, outcomes)
  PROVE  /\ r.c \in Client /\ Moves(e, r.e, r.charged)
         /\ r.c.state # "Ready" => ~r.e.current_authenticated
<1>1. PICK w \in Worlds(c), x \in outcomes : r = OnTimer(e, c, w, x)
  BY DEF TimerRuns
<1>2. w \in Answers
  BY WorldsIn, Zenon
<1>3. x \in [setup: BOOLEAN, ended: BOOLEAN]
  BY OutcomesIn, Zenon
<1> DEFINE o == OnTimer(e, c, w, x)
<1>4. /\ o.c \in Client /\ Moves(e, o.e, o.charged)
      /\ o.c.state # "Ready" => ~o.e.current_authenticated
  BY <1>2, <1>3, TimerMoves, Zenon
<1> HIDE DEF o
<1>5. r = o
  BY <1>1 DEF o
<1> QED BY <1>4, <1>5, Zenon

\* The controllers a process may start with.
LEMMA StartedTyped ==
  ASSUME NEW enabled \in BOOLEAN, NEW c \in Addr \cup {NoAddr},
         NEW e \in Started[enabled][c]
  PROVE  StartsWell(e, enabled, c)
<1>1. PICK entry \in CacheEntry(c), w \in Answers :
        /\ e = Elapse(Bootstrap(enabled, entry.addr, entry.age, bootstrap, w), w.took)
        /\ e.current # NoAddr
  BY DEF Started
<1>2. entry.addr = c /\ entry.age \in Nat /\ bootstrap \in Addr \cup {NoAddr}
  BY ClientAssumption DEF CacheEntry
<1> DEFINE f == Elapse(Bootstrap(enabled, c, entry.age, bootstrap, w), w.took)
<1>3. e = f
  BY <1>1, <1>2
<1>4. f.current # NoAddr => StartsWell(f, enabled, c)
  BY <1>2, BootstrapTyped, Zenon
<1> HIDE DEF f
<1> QED BY Zenon, <1>1, <1>3, <1>4

-----------------------------------------------------------------------------
(* The history.                                                            *)

\* A timer that moves the controller as Moves allows leaves no address tried without a
\* right, and the rights are again those of the history.
LEMMA SwitchNoted ==
  ASSUME NEW a \in Controller, a.current = ep.current, NEW f, NEW c,
         NEW p \in BOOLEAN, NEW i \in BOOLEAN, i => interrupted,
         Rights(a, p, i), Moves(a, f, c), NoteSwitch(f, c, p)
  PROVE  /\ Rights(f, paid', i) /\ ~unpaid'
         /\ paid' \in BOOLEAN /\ unpaid' \in BOOLEAN
<1> DEFINE old == ToOld(a, f)
           switched == f.current # a.current
<1>1. /\ unpaid' = (old /\ ~c /\ ~p /\ ~interrupted)
      /\ paid' = IF c THEN ~switched \/ p ELSE p /\ ~old
  BY Zenon DEF NoteSwitch, ToOld
<1>2. /\ old => c \/ i \/ p
      /\ f.attended_cutover => i
      /\ f.probation.direct_return => i
      /\ f.probation.rollback_authorized => p \/ i \/ (c /\ ~switched)
      /\ old /\ ~c /\ f.probation.rollback_authorized => i
  BY Zenon DEF Moves, Rights
<1> HIDE DEF old, switched
<1>3. paid' \in BOOLEAN /\ unpaid' \in BOOLEAN
  BY <1>1, Zenon
<1>4. ~unpaid'
  BY <1>1, <1>2, Zenon
<1>5. f.probation.rollback_authorized => paid' \/ i
  BY <1>1, <1>2, Zenon
<1> QED BY <1>2, <1>3, <1>4, <1>5, Zenon DEF Rights

\* The rounds counted stay in their range.
LEMMA RoundNoted ==
  ASSUME NEW n \in 0 .. 2, NEW e, NEW f, NEW b, NoteRound(n, e, f, b)
  PROVE  rounds' \in 0 .. 2
  BY DEF NoteRound, Smaller

-----------------------------------------------------------------------------
(* The invariant.                                                          *)

\* A client without a session knows of no authenticated address; the rights of the
\* controller are those of the history; and Fine, whose candidates make the charge
\* of a probe possible.
EInv ==
  /\ EndpointTypeOK /\ Fine(ep)
  /\ cl.state # "Ready" => ~ep.current_authenticated
  /\ RestartFindsCommitted
  /\ Rights(ep, paid, interrupted) /\ ~unpaid

\* The invariant at the start (bootstrap without a cache).
LEMMA InitEInv == Init => EInv
<1> SUFFICES ASSUME Init PROVE EInv
  OBVIOUS
<1>1. PICK enabled \in BOOLEAN : ep \in Started[enabled][cache]
  BY DEF Init
<1>2. cache = NoAddr /\ cache \in Addr \cup {NoAddr}
  BY DEF Init
<1>3. StartsWell(ep, enabled, cache)
  BY <1>1, <1>2, StartedTyped, Zenon
<1>4. cl \in Client
  <2>1. 0 \in 0 .. CLIENT_CONN_TIMEOUT + 1
    BY Constants
  <2>2. "Startup" \in CycleReason
    BY DEF CycleReason
  <2> QED BY <2>1, <2>2, Zenon DEF Init, FreshClient, Client
<1>5. /\ due = FALSE /\ paid = FALSE /\ unpaid = FALSE /\ interrupted = FALSE
      /\ reconnects = 0 /\ rounds = 2
  BY DEF Init
<1>6. EndpointTypeOK
  <2>1. reconnects \in 0 .. MaxReconnects /\ rounds \in 0 .. 2
    BY <1>5, ClientAssumption
  <2> QED BY <1>2, <1>3, <1>4, <1>5, <2>1, Zenon DEF EndpointTypeOK, StartsWell
<1>7. RestartFindsCommitted
  BY <1>2 DEF RestartFindsCommitted
<1>8. ~unpaid /\ Rights(ep, paid, interrupted)
  BY <1>3, <1>5, Zenon DEF StartsWell, Rights, Rightless
<1> QED BY <1>3, <1>6, <1>7, <1>8 DEF EInv, StartsWell

\* What the invariant says of the types, one by one.
LEMMA Typed ==
  ASSUME EndpointTypeOK
  PROVE  /\ ep \in Controller /\ cl \in Client /\ cache \in Addr \cup {NoAddr}
         /\ due \in BOOLEAN /\ paid \in BOOLEAN /\ unpaid \in BOOLEAN
         /\ interrupted \in BOOLEAN
         /\ reconnects \in 0 .. MaxReconnects /\ rounds \in 0 .. 2
  BY Zenon DEF EndpointTypeOK

\* The timer: the candidate, the committed address or none is chosen (on_timer).
LEMMA TimerStep == EInv /\ Timer => EInv'
<1> SUFFICES ASSUME EInv, Timer PROVE EInv'
  OBVIOUS
<1>0. /\ EndpointTypeOK /\ Fine(ep) /\ Rights(ep, paid, interrupted)
      /\ RestartFindsCommitted
      /\ cl.state # "Ready" => ~ep.current_authenticated
  BY DEF EInv
<1>1. /\ ep \in Controller /\ cl \in Client /\ cache \in Addr \cup {NoAddr}
      /\ due \in BOOLEAN /\ paid \in BOOLEAN /\ unpaid \in BOOLEAN
      /\ interrupted \in BOOLEAN
      /\ reconnects \in 0 .. MaxReconnects /\ rounds \in 0 .. 2
  BY <1>0, Typed
<1>2. PICK c \in AfterRsts(cl) : \E r \in TimerRuns(ep, c, Outcomes(c)) :
        /\ ep' = r.e /\ cl' = r.c
        /\ NoteSwitch(r.e, r.charged, paid)
        /\ NoteRound(rounds, ep, r.e, c.state = "Idle" \/ c.disabled)
  BY Zenon DEF Timer
<1>3. PICK r \in TimerRuns(ep, c, Outcomes(c)) :
        /\ ep' = r.e /\ cl' = r.c
        /\ NoteSwitch(r.e, r.charged, paid)
        /\ NoteRound(rounds, ep, r.e, c.state = "Idle" \/ c.disabled)
  BY <1>2, Zenon
<1>4. c \in Client /\ c.state = cl.state
  BY <1>1, RstsKeep
<1>5. /\ r.c \in Client /\ Moves(ep, r.e, r.charged)
      /\ r.c.state # "Ready" => ~r.e.current_authenticated
  BY <1>0, <1>1, <1>4, RunsMove, Zenon
<1>6. /\ Rights(r.e, paid', interrupted) /\ ~unpaid'
      /\ paid' \in BOOLEAN /\ unpaid' \in BOOLEAN
  <2> DEFINE old == ToOld(ep, r.e)
             charged == r.charged
             switched == r.e.current # ep.current
             i == interrupted
  <2>1. /\ unpaid' = (old /\ ~charged /\ ~paid /\ ~i)
        /\ paid' = IF charged THEN ~switched \/ paid ELSE paid /\ ~old
    BY <1>3, Zenon DEF NoteSwitch, ToOld
  <2>2. /\ old => charged \/ i \/ paid
        /\ r.e.attended_cutover => i
        /\ r.e.probation.direct_return => i
        /\ r.e.probation.rollback_authorized => paid \/ i \/ (charged /\ ~switched)
        /\ old /\ ~charged /\ r.e.probation.rollback_authorized => i
    BY <1>0, <1>5, Zenon DEF Moves, Rights
  <2> HIDE DEF old, charged, switched
  <2>3. paid' \in BOOLEAN /\ unpaid' \in BOOLEAN
    BY <1>1, <2>1, Zenon
  <2>4. ~unpaid'
    BY <2>1, <2>2, Zenon
  <2>5. r.e.probation.rollback_authorized => paid' \/ i
    BY <2>1, <2>2, Zenon
  <2> QED BY <2>2, <2>3, <2>4, <2>5, Zenon DEF Rights
<1>7. rounds' \in 0 .. 2
  BY <1>1, <1>3, RoundNoted, Zenon
<1>8. due' = FALSE /\ cache' = cache /\ reconnects' = reconnects /\ interrupted' = interrupted
  BY Zenon DEF Timer
<1>9. /\ r.e \in Controller /\ Fine(r.e) /\ r.e.enabled = ep.enabled
      /\ r.e.committed_good = ep.committed_good
  BY Zenon, <1>5 DEF Moves
<1>10. EndpointTypeOK'
  BY <1>1, <1>3, <1>5, <1>6, <1>7, <1>8, <1>9, Zenon DEF EndpointTypeOK
<1>11. RestartFindsCommitted'
  BY <1>0, <1>3, <1>8, <1>9, Zenon DEF RestartFindsCommitted
<1>12. Fine(ep)' /\ Rights(ep, paid, interrupted)'
  BY <1>3, <1>6, <1>8, <1>9, Zenon
<1>13. (cl.state # "Ready" => ~ep.current_authenticated)'
  BY <1>3, <1>5, Zenon
<1> QED BY <1>6, <1>10, <1>11, <1>12, <1>13, Zenon DEF EInv

\* Time passes.
LEMMA TickStep == EInv /\ Tick => EInv'
<1> SUFFICES ASSUME EInv, Tick PROVE EInv'
  OBVIOUS
<1>0. /\ EndpointTypeOK /\ Fine(ep) /\ Rights(ep, paid, interrupted)
      /\ RestartFindsCommitted /\ ~unpaid
      /\ cl.state # "Ready" => ~ep.current_authenticated
  BY DEF EInv
<1>1. /\ ep \in Controller /\ cl \in Client /\ cache \in Addr \cup {NoAddr}
      /\ due \in BOOLEAN /\ paid \in BOOLEAN /\ unpaid \in BOOLEAN
      /\ interrupted \in BOOLEAN
      /\ reconnects \in 0 .. MaxReconnects /\ rounds \in 0 .. 2
  BY <1>0, Typed
<1> DEFINE n == IF cl.state = "Ready" THEN Smaller(cl.hb + 1, CLIENT_CONN_TIMEOUT + 1) ELSE 0
<1>2. /\ ep' = Elapse(ep, 1) /\ cl' = [cl EXCEPT !.hb = n] /\ due' = TRUE
      /\ cache' = cache /\ reconnects' = reconnects /\ paid' = paid /\ unpaid' = unpaid
      /\ interrupted' = interrupted /\ rounds' = rounds
  BY <1>1, Zenon DEF Tick, history, Client
<1>3. ep' \in Controller /\ Kept(ep, ep')
  <2>1. 1 \in Nat
    OBVIOUS
  <2> QED BY <1>1, <1>2, <2>1, ElapseKeeps, Zenon
<1>4. n \in 0 .. CLIENT_CONN_TIMEOUT + 1
  BY <1>1, Constants DEF Client, Smaller
<1> HIDE DEF n
<1>5. cl' \in Client
  BY <1>1, <1>2, <1>4, Zenon DEF Client
<1>6. cl'.state = cl.state
  BY <1>1, <1>2 DEF Client
<1>7. EndpointTypeOK'
  BY <1>1, <1>2, <1>3, <1>5, Zenon DEF EndpointTypeOK
<1>8. Fine(ep)'
  BY <1>0, <1>3, KeptFine, Zenon
<1>9. Rights(ep, paid, interrupted)'
  BY <1>0, <1>2, <1>3, KeptRights, Zenon
<1>10. RestartFindsCommitted'
  BY <1>0, <1>2, <1>3, Zenon DEF RestartFindsCommitted, Kept, SameRights
<1>11. (cl.state # "Ready" => ~ep.current_authenticated)'
  BY <1>0, <1>3, <1>6, Zenon DEF Kept, SameAddress
<1>12. ~unpaid'
  BY <1>0, <1>2, Zenon
<1> QED BY <1>7, <1>8, <1>9, <1>10, <1>11, <1>12, Zenon DEF EInv

\* A packet of a session (on_safer_packet).
LEMMA PacketStep == ASSUME NEW kind, EInv, Packet(kind) PROVE EInv'
<1>0. /\ EndpointTypeOK /\ Fine(ep) /\ Rights(ep, paid, interrupted)
      /\ RestartFindsCommitted /\ ~unpaid
      /\ cl.state # "Ready" => ~ep.current_authenticated
  BY DEF EInv
<1>1. /\ ep \in Controller /\ cl \in Client /\ cache \in Addr \cup {NoAddr}
      /\ due \in BOOLEAN /\ paid \in BOOLEAN /\ unpaid \in BOOLEAN
      /\ interrupted \in BOOLEAN
      /\ reconnects \in 0 .. MaxReconnects /\ rounds \in 0 .. 2
  BY <1>0, Typed
<1>2. /\ ep' = ShownBy(kind, ep) /\ cl' = HeardBy(kind, cl) /\ due' = due
      /\ cache' = cache /\ reconnects' = reconnects /\ paid' = paid /\ unpaid' = unpaid
      /\ interrupted' = interrupted /\ rounds' = rounds
  BY Zenon DEF Packet
<1>3. ep' \in Controller /\ Kept(ep, ep')
  BY <1>1, <1>2, ShownKeeps, Zenon
<1>4. cl' \in Client /\ cl'.state = cl.state
  BY <1>1, <1>2, HeardTyped, Zenon
<1>5. EndpointTypeOK'
  BY <1>1, <1>2, <1>3, <1>4, Zenon DEF EndpointTypeOK
<1>6. Fine(ep)'
  BY <1>0, <1>3, KeptFine, Zenon
<1>7. Rights(ep, paid, interrupted)'
  BY <1>0, <1>2, <1>3, KeptRights, Zenon
<1>8. RestartFindsCommitted'
  BY <1>0, <1>2, <1>3, Zenon DEF RestartFindsCommitted, Kept, SameRights
<1>9. (cl.state # "Ready" => ~ep.current_authenticated)'
  BY <1>0, <1>3, <1>4, Zenon DEF Kept, SameAddress
<1>10. ~unpaid'
  BY <1>0, <1>2, Zenon
<1> QED BY <1>5, <1>6, <1>7, <1>8, <1>9, <1>10, Zenon DEF EInv

\* The first sealed packet: the address is committed or on probation, and the timer's
\* handler runs (on_authenticated, persist_committed).
LEMMA FirstPacketStep == ASSUME NEW kind, EInv, FirstPacket(kind) PROVE EInv'
<1>0. /\ EndpointTypeOK /\ Fine(ep) /\ Rights(ep, paid, interrupted)
      /\ RestartFindsCommitted /\ ~unpaid
      /\ cl.state # "Ready" => ~ep.current_authenticated
  BY DEF EInv
<1>1. /\ ep \in Controller /\ cl \in Client /\ cache \in Addr \cup {NoAddr}
      /\ due \in BOOLEAN /\ paid \in BOOLEAN /\ unpaid \in BOOLEAN
      /\ interrupted \in BOOLEAN
      /\ reconnects \in 0 .. MaxReconnects /\ rounds \in 0 .. 2
  BY <1>0, Typed
<1> DEFINE a == OnAuthenticated(ep)
           commits == a.committed_good = a.current
           d == [cl EXCEPT !.state = "Ready", !.hb = 0]
           i == interrupted /\ ~commits
           Chosen(c, r) ==
             /\ ep' = ShownBy(kind, r.e) /\ cl' = HeardBy(kind, r.c)
             /\ NoteSwitch(r.e, r.charged, FALSE)
             /\ NoteRound(IF commits THEN 0 ELSE rounds, a, r.e, c.disabled)
<1>2. PICK c \in AfterRsts(d) :
        \E r \in TimerRuns(a, c, {x \in Outcomes(c) : ~x.ended}) : Chosen(c, r)
  BY Zenon DEF FirstPacket
<1>3. PICK r \in TimerRuns(a, c, {x \in Outcomes(c) : ~x.ended}) : Chosen(c, r)
  BY <1>2, Zenon
<1>4. /\ cache' \in Persisted(commits) /\ interrupted' = i
      /\ due' = due /\ reconnects' = reconnects
  BY Zenon DEF FirstPacket
<1>5. /\ a \in Controller /\ Fine(a) /\ a.enabled = ep.enabled
      /\ a.current = ep.current /\ a.attended_cutover = FALSE
      /\ a.probation.rollback_authorized = FALSE
      /\ \/ /\ a.committed_good = a.current /\ a.probation.direct_return = FALSE
            /\ CommitsAtOnce(ep)
         \/ /\ a.committed_good = ep.committed_good /\ a.committed_good # a.current
            /\ a.probation.direct_return = ep.attended_cutover
  BY <1>0, <1>1, AuthenticatedKeeps, Zenon
<1>6. d \in Client /\ d.state = "Ready"
  <2>1. 0 \in 0 .. CLIENT_CONN_TIMEOUT + 1
    BY Constants
  <2>2. d \in Client
    BY <1>1, <2>1, Zenon DEF Client
  <2> QED BY <1>1, <2>2 DEF Client
<1> HIDE DEF a, d
<1>7. c \in Client /\ c.state = "Ready"
  BY <1>6, RstsKeep
<1>8. /\ r.c \in Client /\ Moves(a, r.e, r.charged)
      /\ r.c.state # "Ready" => ~r.e.current_authenticated
  <2> DEFINE out == {x \in Outcomes(c) : ~x.ended}
  <2>1. out \subseteq Outcomes(c)
    BY Zenon
  <2>2. r \in TimerRuns(a, c, out)
    OBVIOUS
  <2> HIDE DEF out
  <2>3. c.state # "Ready" => ~a.current_authenticated
    BY <1>7
  <2> QED BY <1>5, <1>7, <2>1, <2>2, <2>3, RunsMove, Zenon
<1>9. i \in BOOLEAN /\ (i => interrupted) /\ FALSE \in BOOLEAN
  BY Zenon
<1>10. Rights(a, FALSE, i)
  <2>1. CASE commits
    <3>1. a.probation.direct_return = FALSE
      BY <1>5, <2>1, Zenon
    <3> QED BY <1>5, <3>1, Zenon DEF Rights
  <2>2. CASE ~commits
    <3>1. a.probation.direct_return = ep.attended_cutover
      BY <1>5, <2>2, Zenon
    <3>2. ep.attended_cutover => interrupted
      BY <1>0, Zenon DEF Rights
    <3> QED BY <1>5, <2>2, <3>1, <3>2, Zenon DEF Rights
  <2> QED BY <2>1, <2>2, Zenon
<1>11. NoteSwitch(r.e, r.charged, FALSE)
  BY <1>3, Zenon
<1>12. NoteRound(IF commits THEN 0 ELSE rounds, a, r.e, c.disabled)
  BY <1>3, Zenon
<1>13. ep' = ShownBy(kind, r.e) /\ cl' = HeardBy(kind, r.c)
  BY <1>3, Zenon
<1> HIDE DEF Chosen, i
<1>14. /\ Rights(r.e, paid', i) /\ ~unpaid'
       /\ paid' \in BOOLEAN /\ unpaid' \in BOOLEAN
  BY <1>5, <1>8, <1>9, <1>10, <1>11, SwitchNoted, Zenon
<1>15. rounds' \in 0 .. 2
  <2> DEFINE n == IF commits THEN 0 ELSE rounds
  <2>1. n \in 0 .. 2
    BY <1>1
  <2>2. NoteRound(n, a, r.e, c.disabled)
    BY Zenon, <1>12
  <2> HIDE DEF n
  <2> QED BY <2>1, <2>2, RoundNoted, Zenon
<1>16. /\ r.e \in Controller /\ Fine(r.e) /\ r.e.enabled = a.enabled
       /\ r.e.committed_good = a.committed_good
  BY <1>8, Zenon DEF Moves
<1>17. ep' \in Controller /\ Kept(r.e, ep')
  BY <1>13, <1>16, ShownKeeps, Zenon
<1>18. cl' \in Client /\ cl'.state = r.c.state
  BY <1>8, <1>13, HeardTyped, Zenon
<1>19. Fine(ep)'
  BY <1>16, <1>17, KeptFine, Zenon
<1>20. Rights(ep, paid, interrupted)'
  BY <1>4, <1>14, <1>17, KeptRights, Zenon
<1>21. (cl.state # "Ready" => ~ep.current_authenticated)'
  BY <1>8, <1>17, <1>18, Zenon DEF Kept, SameAddress
<1>22. /\ ep'.enabled = ep.enabled /\ ep'.committed_good = a.committed_good
  BY Zenon, <1>5, <1>16, <1>17 DEF Kept, SameRights
<1>23. cache' = cache \/ (commits /\ cache' = ep.current)
  BY <1>4 DEF Persisted
<1>24. RestartFindsCommitted'
  <2> SUFFICES ASSUME ep'.enabled PROVE cache' \in {NoAddr, ep'.committed_good}
    BY Zenon DEF RestartFindsCommitted
  <2>1. ep.enabled /\ cache \in {NoAddr, ep.committed_good}
    BY <1>0, <1>22, Zenon DEF RestartFindsCommitted
  <2> DEFINE good == cache' \in {NoAddr, ep'.committed_good}
  <2>2. commits /\ cache' = ep.current => good
    BY <1>5, <1>22, Zenon
  <2>3. cache' = cache => good
    BY Zenon, <1>5, <1>22, <2>1 DEF CommitsAtOnce
  <2> HIDE DEF good, commits
  <2>4. good
    BY <1>23, <2>2, <2>3, Zenon
  <2> QED BY <2>4, Zenon DEF good
<1>25. cache' \in Addr \cup {NoAddr}
  BY Zenon, <1>1, <1>23, Fields
<1>26. EndpointTypeOK'
  BY <1>1, <1>4, <1>9, <1>14, <1>15, <1>17, <1>18, <1>25, Zenon DEF EndpointTypeOK
<1> QED BY <1>14, <1>19, <1>20, <1>21, <1>24, <1>26, Zenon DEF EInv

\* The operator's reconnect (on_fifo, request_refresh).
LEMMA ReconnectStep == ASSUME EInv, Reconnect PROVE EInv'
<1>0. /\ EndpointTypeOK /\ Fine(ep) /\ Rights(ep, paid, interrupted)
      /\ RestartFindsCommitted /\ ~unpaid
      /\ cl.state # "Ready" => ~ep.current_authenticated
  BY DEF EInv
<1>1. /\ ep \in Controller /\ cl \in Client /\ cache \in Addr \cup {NoAddr}
      /\ due \in BOOLEAN /\ paid \in BOOLEAN /\ unpaid \in BOOLEAN
      /\ interrupted \in BOOLEAN
      /\ reconnects \in 0 .. MaxReconnects /\ rounds \in 0 .. 2
  BY <1>0, Typed
<1> DEFINE f == RequestRefresh(ep)
           g == OnSessionEnded(f)
           now == ep.current_authenticated /\ ep.committed_good = ep.current
<1>2. /\ ep' = g /\ reconnects' = reconnects + 1 /\ interrupted' = (interrupted \/ now)
      /\ cache' = cache /\ due' = due /\ paid' = paid /\ unpaid' = unpaid
      /\ rounds' = rounds
  BY Zenon DEF Reconnect
<1>3. PICK c \in AfterRsts(cl) : cl' = GoIdle(c, "Forced")
  BY Zenon DEF Reconnect
<1>4. cl' \in Client
  <2>1. c \in Client
    BY <1>1, RstsKeep
  <2>2. "Forced" \in CycleReason
    BY DEF CycleReason
  <2> QED BY <1>3, <2>1, <2>2, IdleTyped, Zenon
<1>5. /\ f \in Controller /\ f.enabled = ep.enabled /\ SameAddress(ep, f)
      /\ f.committed_good = ep.committed_good /\ f.candidates = ep.candidates
      /\ f.probation = ep.probation
      /\ f.attended_cutover => now
  BY <1>1, RefreshKeeps, Zenon
<1> HIDE DEF f
<1>6. /\ g \in Controller /\ SameRights(f, g) /\ g.current = f.current
      /\ g.candidates = f.candidates /\ ~g.current_authenticated
  BY <1>5, SessionEndedKeeps, Zenon
<1> HIDE DEF g, now
<1>7. Fine(g)
  BY ZenonT(60), <1>0, <1>5, <1>6 DEF Fine, SameRights, SameAddress
<1>8. Rights(g, paid, interrupted \/ now)
  BY <1>0, <1>5, <1>6, Zenon DEF Rights, SameRights
<1>9. g.enabled = ep.enabled /\ g.committed_good = ep.committed_good
  BY Zenon, <1>5, <1>6 DEF SameRights
<1>10. reconnects' \in 0 .. MaxReconnects
  <2>1. reconnects < MaxReconnects
    BY Zenon DEF Reconnect
  <2>2. reconnects \in 0 .. MaxReconnects /\ reconnects' = reconnects + 1
    BY Zenon, <1>1, <1>2
  <2> QED BY <2>1, <2>2, ClientAssumption
<1>11. interrupted' \in BOOLEAN
  BY <1>2, Zenon
<1>12. EndpointTypeOK'
  BY <1>1, <1>2, <1>4, <1>6, <1>10, <1>11, Zenon DEF EndpointTypeOK
<1>13. RestartFindsCommitted'
  BY <1>0, <1>2, <1>9, Zenon DEF RestartFindsCommitted
<1>14. Fine(ep)' /\ Rights(ep, paid, interrupted)'
  BY <1>2, <1>7, <1>8, Zenon
<1>15. ~unpaid' /\ ~ep'.current_authenticated
  BY <1>0, <1>2, <1>6, Zenon
<1> QED BY <1>12, <1>13, <1>14, <1>15, Zenon DEF EInv

\* The operator's promotion of a candidate (promote_candidate).
LEMMA PromoteStep == ASSUME EInv, Promote PROVE EInv'
<1>0. /\ EndpointTypeOK /\ Fine(ep) /\ Rights(ep, paid, interrupted)
      /\ RestartFindsCommitted /\ ~unpaid
      /\ cl.state # "Ready" => ~ep.current_authenticated
  BY DEF EInv
<1>1. /\ ep \in Controller /\ cl \in Client /\ cache \in Addr \cup {NoAddr}
      /\ due \in BOOLEAN /\ paid \in BOOLEAN /\ unpaid \in BOOLEAN
      /\ interrupted \in BOOLEAN
      /\ reconnects \in 0 .. MaxReconnects /\ rounds \in 0 .. 2
  BY <1>0, Typed
<1> DEFINE f == Commit(ep)
<1>2. /\ ep' = f /\ cache' = ep.current /\ interrupted' = FALSE /\ rounds' = 0
      /\ cl' = cl /\ due' = due /\ reconnects' = reconnects
      /\ paid' = paid /\ unpaid' = unpaid
  BY Zenon DEF Promote
<1>3. /\ f \in Controller /\ Fine(f) /\ f.enabled = ep.enabled
      /\ f.current = ep.current /\ f.committed_good = ep.current
      /\ f.current_authenticated = ep.current_authenticated
      /\ f.attended_cutover = FALSE /\ f.probation = NoProbation
  BY <1>1, CommitKeeps, Zenon
<1> HIDE DEF f
<1>4. NoProbation.rollback_authorized = FALSE /\ NoProbation.direct_return = FALSE
  BY DEF NoProbation
<1>5. cache' \in Addr \cup {NoAddr} /\ rounds' \in 0 .. 2
  BY <1>1, <1>2, Fields
<1>6. EndpointTypeOK'
  BY <1>1, <1>2, <1>3, <1>5, Zenon DEF EndpointTypeOK
<1>7. RestartFindsCommitted'
  BY <1>2, <1>3, Zenon DEF RestartFindsCommitted
<1>8. Fine(ep)' /\ Rights(ep, paid, interrupted)'
  BY <1>2, <1>3, <1>4, Zenon DEF Rights
<1>9. ~unpaid' /\ (cl.state # "Ready" => ~ep.current_authenticated)'
  BY <1>0, <1>2, <1>3, Zenon
<1> QED BY <1>6, <1>7, <1>8, <1>9, Zenon DEF EInv

\* The operator's rollback (authorize_operator_rollback).
LEMMA RollbackStep == ASSUME EInv, Rollback PROVE EInv'
<1>0. /\ EndpointTypeOK /\ Fine(ep) /\ Rights(ep, paid, interrupted)
      /\ RestartFindsCommitted /\ ~unpaid
      /\ cl.state # "Ready" => ~ep.current_authenticated
  BY DEF EInv
<1>1. /\ ep \in Controller /\ cl \in Client /\ cache \in Addr \cup {NoAddr}
      /\ due \in BOOLEAN /\ paid \in BOOLEAN /\ unpaid \in BOOLEAN
      /\ interrupted \in BOOLEAN
      /\ reconnects \in 0 .. MaxReconnects /\ rounds \in 0 .. 2
  BY <1>0, Typed
<1>2. PICK grant \in BOOLEAN :
        /\ MayRollBack(ep, grant) /\ ep' = OnSessionEnded(AuthorizeRollback(ep, grant).e)
        /\ paid' = (paid \/ AuthorizeRollback(ep, grant).charged)
  BY Zenon DEF Rollback
<1> DEFINE r == AuthorizeRollback(ep, grant)
<1>3. /\ cache' = cache /\ due' = due /\ reconnects' = reconnects /\ unpaid' = unpaid
      /\ interrupted' = interrupted /\ rounds' = rounds
  BY Zenon DEF Rollback
<1>4. PICK c \in AfterRsts(cl) : cl' = GoIdle(c, "OperatorRollback")
  BY Zenon DEF Rollback
<1>5. cl' \in Client
  <2>1. c \in Client
    BY <1>1, RstsKeep
  <2>2. "OperatorRollback" \in CycleReason
    BY DEF CycleReason
  <2> QED BY <1>4, <2>1, <2>2, IdleTyped, Zenon
<1>6. Moves(ep, r.e, r.charged)
  BY <1>0, <1>1, <1>2, AuthorizeMoves, Zenon
<1>7. ep' = OnSessionEnded(r.e) /\ paid' = (paid \/ r.charged)
  BY <1>2
<1> HIDE DEF r
<1>8. Moves(ep, ep', r.charged) /\ ~ep'.current_authenticated
  BY <1>6, <1>7, EndedMoves, Zenon
<1>9. /\ ep' \in Controller /\ Fine(ep') /\ ep'.enabled = ep.enabled
      /\ ep'.committed_good = ep.committed_good
      /\ ep'.attended_cutover => ep.attended_cutover
      /\ ep'.probation.direct_return => ep.probation.direct_return
      /\ ep'.probation.rollback_authorized =>
           ep.probation.rollback_authorized \/ ep.probation.direct_return \/ r.charged
  BY <1>8, Zenon DEF Moves
<1>10. paid' \in BOOLEAN
  BY <1>7, Zenon
<1>11. EndpointTypeOK'
  BY <1>1, <1>3, <1>5, <1>9, <1>10, Zenon DEF EndpointTypeOK
<1>12. RestartFindsCommitted'
  BY <1>0, <1>3, <1>9, Zenon DEF RestartFindsCommitted
<1>13. Rights(ep, paid, interrupted)'
  BY <1>0, <1>3, <1>7, <1>9, Zenon DEF Rights
<1>14. ~unpaid'
  BY <1>0, <1>3, Zenon
<1> QED BY <1>8, <1>9, <1>11, <1>12, <1>13, <1>14, Zenon DEF EInv

\* The process dies and another takes its place.
LEMMA RestartStep == ASSUME EInv, Restart PROVE EInv'
<1>0. /\ EndpointTypeOK /\ Fine(ep) /\ Rights(ep, paid, interrupted)
      /\ RestartFindsCommitted /\ ~unpaid
      /\ cl.state # "Ready" => ~ep.current_authenticated
  BY DEF EInv
<1>1. /\ ep \in Controller /\ cl \in Client /\ cache \in Addr \cup {NoAddr}
      /\ due \in BOOLEAN /\ paid \in BOOLEAN /\ unpaid \in BOOLEAN
      /\ interrupted \in BOOLEAN
      /\ reconnects \in 0 .. MaxReconnects /\ rounds \in 0 .. 2
  BY <1>0, Typed
<1>2. /\ cl' = FreshClient /\ paid' = FALSE /\ unpaid' = FALSE /\ interrupted' = FALSE
      /\ rounds' = 2 /\ due' = due /\ reconnects' = reconnects
  BY Zenon DEF Restart
<1>3. /\ ep' \in Started[ep.enabled][cache'] /\ ep.enabled \in BOOLEAN
      /\ cache' \in Addr \cup {NoAddr}
  BY <1>1, Zenon DEF Restart, Controller
<1>4. StartsWell(ep', ep.enabled, cache')
  BY <1>3, StartedTyped, Zenon
<1>5. cl' \in Client
  <2>1. 0 \in 0 .. CLIENT_CONN_TIMEOUT + 1
    BY Constants
  <2>2. "Startup" \in CycleReason
    BY DEF CycleReason
  <2> QED BY <1>2, <2>1, <2>2, Zenon DEF FreshClient, Client
<1>6. rounds' \in 0 .. 2
  BY <1>2
<1>7. EndpointTypeOK'
  BY <1>1, <1>2, <1>3, <1>4, <1>5, <1>6, Zenon DEF EndpointTypeOK, StartsWell
<1>8. RestartFindsCommitted'
  BY <1>2, <1>4, Zenon DEF RestartFindsCommitted, StartsWell
<1>9. ~unpaid' /\ Rights(ep, paid, interrupted)'
  BY <1>2, <1>4, Zenon DEF StartsWell, Rights, Rightless
<1> QED BY <1>4, <1>7, <1>8, <1>9, Zenon DEF EInv, StartsWell

\* Every step preserves the invariant.
LEMMA NextEInv == EInv /\ [Next]_vars => EInv'
<1> SUFFICES ASSUME EInv, [Next]_vars PROVE EInv'
  OBVIOUS
<1>1. ASSUME NEW kind, FirstPacket(kind) \/ Packet(kind) PROVE EInv'
  BY <1>1, FirstPacketStep, PacketStep, Zenon
<1>2. CASE UNCHANGED vars
  BY <1>2, Zenon DEF vars, history, EInv, EndpointTypeOK, RestartFindsCommitted
<1> QED BY <1>1, <1>2, TimerStep, TickStep, ReconnectStep, PromoteStep, RollbackStep,
           RestartStep, Zenon DEF Next

\* The invariant holds in every state of the client.
THEOREM EndpointInvariant == Spec => []EInv
<1> QED BY InitEInv, NextEInv, PTL DEF Spec

\* The controller's clocks, counters and addresses stay in range (src/endpoint.rs), for
\* every configuration config.rs accepts.
THEOREM EndpointTyped == Spec => []EndpointTypeOK
<1>1. EInv => EndpointTypeOK
  BY DEF EInv
<1> QED BY <1>1, EndpointInvariant, PTL

\* Whoever is authenticated and not committed is on probation, with the committed address
\* to return to (on_authenticated, promote_candidate, select).
THEOREM AlwaysProbationSound == Spec => []ProbationSound
<1>1. EInv => ProbationSound
  BY Zenon DEF EInv, Fine, ProbationSound
<1> QED BY <1>1, EndpointInvariant, PTL

\* With the fallback policy on, the cache holds the committed address or nothing
\* (persist_committed, promote_candidate, bootstrap).
THEOREM CacheNeverAhead == Spec => []RestartFindsCommitted
<1>1. EInv => RestartFindsCommitted
  BY DEF EInv
<1> QED BY <1>1, EndpointInvariant, PTL

\* No old address is tried without a charge or a reconnect that ended the last session
\* with it (charge_fallback, select).
THEOREM NoUnpaidProbe == Spec => []ProbesPrecharged
<1>1. EInv => ProbesPrecharged
  BY Zenon DEF EInv, Fine, ProbesPrecharged
<1> QED BY <1>1, EndpointInvariant, PTL

=============================================================================
