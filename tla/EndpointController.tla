------------------------ MODULE EndpointController ------------------------
(***************************************************************************)
(* The endpoint controller of a client whose relay is a host name          *)
(* (src/endpoint.rs): which address the next attempt uses, which address   *)
(* is committed, and when an old address may be tried again.               *)
(*                                                                         *)
(* The controller is a record e; every method is an operator from records  *)
(* to records.  A deadline is kept as the time left until it, counted in   *)
(* timer intervals: Never when there is none, and all comparisons with the *)
(* clock are comparisons with 0.  Addresses are numbers, in the order of   *)
(* their numeric value; candidates is the set of the last usable answer,   *)
(* and its order (order_candidates) is recomputed where it matters.        *)
(*                                                                         *)
(* A spent old-address probe is an answer grant of charge_fallback; module *)
(* FallbackBudget is about the file that decides it.                       *)
(***************************************************************************)
EXTENDS Integers, FiniteSets, FiniteSetsExt

CONSTANTS
  Addr,                     \* the addresses the name may resolve to
  MAX_ENDPOINT_CANDIDATES,  \* bound on the candidates kept
  AfterFailures,            \* after_failures
  PreferredRound,           \* preferred_round_timeout_ms, in timer intervals
  RollbackWindow,           \* rollback_window_ms
  MaxAge,                   \* max_age_ms: freshness of a cached address
  ProbationTime,            \* probation_ms
  MaxGap,                   \* probation_ms.clamp(1, 5000)
  MIN_PROMOTION_DATA_PACKETS,
  CLIENT_HANDSHAKE_TIMEOUT,
  CLIENT_CONN_TIMEOUT,
  BackoffMin, BackoffMax,   \* the delays of Backoff, the jitter included
  QueryTimes                \* how long a refresh may take

NoAddr == 0
Never == -1
Grace == 2                  \* 2 * TIMER_INTERVAL_MS

\* The checks config.rs makes on the options, in timer intervals.
PolicyFits ==
  CLIENT_CONN_TIMEOUT + PreferredRound + CLIENT_HANDSHAKE_TIMEOUT
    + ProbationTime + Grace < RollbackWindow

ASSUME EndpointAssumption ==
  /\ Addr \subseteq Nat \ {NoAddr} /\ IsFiniteSet(Addr) /\ Addr # {}
  /\ {MAX_ENDPOINT_CANDIDATES, AfterFailures, PreferredRound, MaxAge,
      ProbationTime, MIN_PROMOTION_DATA_PACKETS, RollbackWindow,
      BackoffMin, MaxGap} \subseteq Nat \ {0}
  /\ CLIENT_CONN_TIMEOUT \in Nat /\ CLIENT_HANDSHAKE_TIMEOUT \in Nat \ {0, 1}
  /\ BackoffMax \in Nat /\ BackoffMin <= BackoffMax
  /\ QueryTimes \subseteq 0 .. PreferredRound /\ QueryTimes # {}
  /\ PolicyFits

\* What a cycle starts from (CycleReason).
CycleReason == {"Startup", "AttemptFailed", "SessionLost", "Forced",
                "ProbationExpired", "OperatorRollback"}

Within(n) == Never .. n

\* Probation.  The evidence is the number of DATA packets, the time from the
\* first of them to the last (up to what is asked for), and that since the last.
Probation ==
  [candidate: Addr \cup {NoAddr}, rollback: Addr \cup {NoAddr},
   direct_return: BOOLEAN, rollback_at: Within(RollbackWindow),
   rollback_authorized: BOOLEAN, packets: 0 .. MIN_PROMOTION_DATA_PACKETS,
   span: 0 .. ProbationTime, idle: 0 .. MaxGap + 1]

NoProbation ==
  [candidate |-> NoAddr, rollback |-> NoAddr, direct_return |-> FALSE,
   rollback_at |-> Never, rollback_authorized |-> FALSE,
   packets |-> 0, span |-> 0, idle |-> 0]

\* EndpointController, of a name.
Controller ==
  [enabled: BOOLEAN,                     \* the fallback policy is on
   current: Addr, current_authenticated: BOOLEAN,
   committed_good: Addr \cup {NoAddr},
   cache_fresh: Within(MaxAge),          \* left of cache_fresh_until_ms
   activity: Within(RollbackWindow),     \* left of runtime activity + window
   candidates: SUBSET Addr,
   backoff: 0 .. BackoffMax,
   force_refresh: BOOLEAN, reconnect_refresh_pending: BOOLEAN,
   failures: 0 .. AfterFailures,         \* preferred_failures, up to its limit
   attempts: 0 .. MAX_ENDPOINT_CANDIDATES,
   round: Within(PreferredRound),        \* left of the preferred round
   attended_cutover: BOOLEAN, probation: Probation]

-----------------------------------------------------------------------------
(* Clocks.                                                                 *)

\* The time left of a deadline that, once past, is as good as none.
Left(t, d) == IF t >= d THEN t - d ELSE Never

Larger(m, n) == IF m >= n THEN m ELSE n
Smaller(m, n) == IF m <= n THEN m ELSE n

\* Mutant: the time left goes on below zero.
DueUnsaturated(t, d) == IF t = Never THEN Never ELSE t - d

\* The time left of a deadline that stays due.
Due(t, d) == IF t = Never THEN Never ELSE Larger(t - d, 0)

Elapse(e, d) ==
  [e EXCEPT !.cache_fresh = Left(@, d), !.activity = Left(@, d),
            !.backoff = Due(@, d), !.round = Due(@, d),
            !.probation.rollback_at = Due(@, d),
            !.probation.idle = IF e.probation.packets = 0 THEN 0
                               ELSE Smaller(@ + d, MaxGap + 1)]

\* committed_health_deadline
Health(e) ==
  IF ~e.enabled \/ e.committed_good = NoAddr THEN Never
  ELSE Larger(e.activity, e.cache_fresh)

\* committed_fresh: the committed address, fresh enough to be returned to.
CommittedFresh(e) ==
  IF Health(e) # Never /\ e.committed_good # e.current
  THEN e.committed_good ELSE NoAddr

\* Mutant: every cycle begins a round of its own.
ExtendPreferredRound(e) ==
  IF e.enabled THEN [e EXCEPT !.round = PreferredRound, !.attempts = 0] ELSE e

\* start_preferred_round: a round that is going on is not extended.
StartPreferredRound(e) ==
  IF e.enabled /\ e.round = Never
  THEN [e EXCEPT !.round = PreferredRound, !.attempts = 0] ELSE e

RoundExpired(e) == e.round = 0

-----------------------------------------------------------------------------
(* Candidates.                                                             *)

\* The lowest MAX_ENDPOINT_CANDIDATES addresses of an answer.
Canonical(S) ==
  {a \in S : Cardinality({b \in S : b < a}) < MAX_ENDPOINT_CANDIDATES}

\* The first of the ordered candidates: current, committed, then the lowest.
Preferred(e) ==
  IF e.current \in e.candidates THEN e.current
  ELSE IF e.committed_good \in e.candidates THEN e.committed_good
  ELSE Min(e.candidates)

\* next_dns_candidate: round robin in numeric order.
NextCandidate(e) ==
  LET above == {a \in e.candidates : a > e.current}
  IN  IF e.candidates = {} THEN NoAddr
      ELSE IF e.current \in e.candidates /\ above # {} THEN Min(above)
      ELSE Min(e.candidates)

\* query: an answer, {} for a failure or an answer without a usable address.
Query(e, answer, delay) ==
  LET safe == Canonical(answer)
      changed == safe # e.candidates
  IN  IF answer = {} THEN [e EXCEPT !.backoff = delay]
      ELSE [e EXCEPT !.backoff = IF e.reconnect_refresh_pending THEN BackoffMin ELSE 0,
                     !.candidates = safe,
                     !.failures = IF changed THEN 0 ELSE @,
                     !.attempts = IF changed THEN 0 ELSE @]

-----------------------------------------------------------------------------
(* Choosing the address.  A choice is the new controller and whether a     *)
(* probe was charged for it; grant is what charge_fallback answers.        *)

SwitchTo(e, a) ==
  IF a \in {e.current, NoAddr} THEN e
  ELSE [e EXCEPT !.current = a, !.current_authenticated = FALSE]

Free(e) == [e |-> e, charged |-> FALSE]

OnProbation(e) ==
  e.probation.candidate # NoAddr /\ e.probation.candidate = e.current

\* Whether the candidate on probation may be left for the committed address.
MayReturn(e, grant) ==
  /\ OnProbation(e)
  /\ CommittedFresh(e) = e.probation.rollback
  /\ e.probation.direct_return \/ grant

ReturnFromProbation(e, grant) ==
  [e |-> SwitchTo([e EXCEPT !.probation = NoProbation], e.probation.rollback),
   charged |-> grant /\ ~e.probation.direct_return]

SelectRollback(e) ==
  IF ~e.probation.rollback_authorized THEN e
  ELSE SwitchTo([e EXCEPT !.probation = NoProbation, !.attended_cutover = FALSE],
                e.probation.rollback)

\* An attended cutover: refused unless the committed address stays fresh until
\* the candidate could be given up.
SelectForced(e, answered) ==
  LET s == StartPreferredRound(e)
      stay(x) == [x EXCEPT !.attended_cutover = FALSE]
      needed == s.round + CLIENT_HANDSHAKE_TIMEOUT + ProbationTime + Grace
  IN  IF RoundExpired(e) THEN stay([e EXCEPT !.round = Never])
      ELSE IF ~answered \/ Preferred(e) = e.current THEN stay(e)
      ELSE IF e.enabled /\ e.committed_good = e.current /\ Health(e) < needed
      THEN stay(s)
      ELSE SwitchTo(s, Preferred(e))

\* The committed address failed: the next candidate, within the round.
SelectAfterCommitted(e) ==
  IF RoundExpired(e) THEN [e EXCEPT !.round = Never, !.attempts = 0]
  ELSE SwitchTo(StartPreferredRound(e), NextCandidate(e))

\* A candidate failed: an old-address probe when the round is over or all were
\* tried, else the next candidate.
SelectAfterCandidate(e, grant) ==
  LET s == [StartPreferredRound(e) EXCEPT
              !.failures = Smaller(@ + 1, AfterFailures),
              !.attempts = Smaller(@ + 1, MAX_ENDPOINT_CANDIDATES)]
      fallbackDue == \/ RoundExpired(s)
                     \/ /\ s.failures >= AfterFailures
                        /\ s.attempts >= Larger(Cardinality(s.candidates), 1)
  IN  IF fallbackDue /\ CommittedFresh(s) # NoAddr /\ grant
      THEN [e |-> SwitchTo([s EXCEPT !.round = Never], CommittedFresh(s)),
            charged |-> grant]
      ELSE IF ~RoundExpired(s) THEN Free(SwitchTo(s, NextCandidate(s)))
      ELSE Free([s EXCEPT !.round = Never, !.attempts = 0])

SelectAttemptFailed(e, grant) ==
  IF MayReturn(e, grant) THEN ReturnFromProbation(e, grant)
  ELSE IF e.attended_cutover /\ e.committed_good \notin {NoAddr, e.current}
  THEN Free(SwitchTo([e EXCEPT !.attended_cutover = FALSE], e.committed_good))
  ELSE IF e.committed_good = e.current THEN Free(SelectAfterCommitted(e))
  ELSE SelectAfterCandidate(e, grant)

SelectSessionLost(e, grant) ==
  IF MayReturn(e, grant) THEN ReturnFromProbation(e, grant)
  ELSE IF e.committed_good = e.current /\ e.current \notin e.candidates
  THEN LET s == StartPreferredRound(e)
       IN  Free(IF s.candidates = {} THEN s ELSE SwitchTo(s, Min(s.candidates)))
  ELSE Free(e)

Select(e, reason, answered, grant) ==
  CASE reason \in {"ProbationExpired", "OperatorRollback"} -> Free(SelectRollback(e))
    [] reason = "Forced" -> Free(SelectForced(e, answered))
    [] reason = "AttemptFailed" -> SelectAttemptFailed(e, grant)
    [] reason = "SessionLost" -> SelectSessionLost(e, grant)
    [] reason = "Startup" -> Free(e)

\* What the world answers to a cycle: whether the last answer's TTL is over, the
\* resolver (after how long), the back-off its failure earns, and the budget of
\* old-address probes.
Answers ==
  [expired: BOOLEAN, answer: SUBSET Addr, took: QueryTimes,
   delay: BackoffMin .. BackoffMax, grant: BOOLEAN]

\* on_cycle: the refresh, when it is due and the back-off allows it, then the
\* choice, made with the time it is after the refresh.
OnCycle(e, reason, w) ==
  LET s == [e EXCEPT !.reconnect_refresh_pending = @ \/ reason = "SessionLost"]
      due == \/ s.force_refresh \/ s.reconnect_refresh_pending
             \/ w.expired \/ s.candidates = {}
      t == IF due /\ reason \in {"Forced", "SessionLost", "AttemptFailed"}
           THEN StartPreferredRound(s) ELSE s
      query == due /\ t.backoff = 0
      u == IF query
           THEN Elapse(Query([t EXCEPT !.force_refresh = FALSE], w.answer, w.delay),
                       w.took)
           ELSE t
  IN  Select(u, reason, query /\ w.answer # {}, w.grant)

-----------------------------------------------------------------------------
(* Sessions, and the operator.                                             *)

\* bootstrap: the address the process starts with, NoAddr if there is none.  The
\* cache gives the committed address, whose freshness depends on the file's age.
Bootstrap(enabled, cached, age, bootstrap, w) ==
  LET e == [enabled |-> enabled, current |-> NoAddr, current_authenticated |-> FALSE,
            committed_good |-> cached,
            cache_fresh |-> IF enabled /\ cached # NoAddr /\ age < MaxAge
                            THEN MaxAge - age ELSE Never,
            activity |-> Never, candidates |-> {}, backoff |-> 0,
            force_refresh |-> FALSE, reconnect_refresh_pending |-> FALSE,
            failures |-> 0, attempts |-> 0, round |-> Never,
            attended_cutover |-> FALSE, probation |-> NoProbation]
      q == Query(StartPreferredRound(e), w.answer, w.delay)
  IN  [q EXCEPT !.current = IF w.answer # {} THEN Preferred(q)
                            ELSE IF cached # NoAddr THEN cached ELSE bootstrap]

\* Whether authenticating makes the current address the committed one at once.
CommitsAtOnce(e) ==
  ~e.enabled \/ e.committed_good \in {NoAddr, e.current}

\* Mutant: the probation outlives the commit.
CommitKeepingProbation(e) ==
  [e EXCEPT !.committed_good = e.current, !.activity = RollbackWindow,
            !.cache_fresh = Never, !.attended_cutover = FALSE]

Commit(e) ==
  [e EXCEPT !.committed_good = e.current, !.activity = RollbackWindow,
            !.cache_fresh = Never, !.probation = NoProbation,
            !.attended_cutover = FALSE]

\* rollback_at: before the committed address stops being fresh, and not before
\* the candidate could have shown its evidence.
RollbackAt(e) ==
  LET fresh == Smaller(Health(e), RollbackWindow)
  IN  IF fresh >= ProbationTime + Grace THEN fresh - Grace ELSE Never

\* on_authenticated
OnAuthenticated(e) ==
  LET s == [e EXCEPT !.current_authenticated = TRUE,
                     !.reconnect_refresh_pending = FALSE, !.backoff = 0,
                     !.failures = 0, !.attempts = 0, !.round = Never]
  IN  IF CommitsAtOnce(e) THEN Commit(s)
      ELSE [s EXCEPT !.attended_cutover = FALSE,
              !.probation = [NoProbation EXCEPT
                 !.candidate = e.current, !.rollback = e.committed_good,
                 !.direct_return = e.attended_cutover,
                 !.rollback_at = RollbackAt(e)]]

\* on_authenticated_activity
OnActivity(e, isData) ==
  LET s == IF e.current_authenticated /\ e.committed_good = e.current
           THEN [e EXCEPT !.activity = RollbackWindow] ELSE e
      p == e.probation
      afresh == p.packets = 0 \/ p.idle > MaxGap
  IN  IF ~isData \/ ~OnProbation(e) THEN s
      ELSE [s EXCEPT !.probation.idle = 0,
              !.probation.packets =
                 IF afresh THEN 1 ELSE Smaller(@ + 1, MIN_PROMOTION_DATA_PACKETS),
              !.probation.span =
                 IF afresh THEN 0 ELSE Smaller(@ + p.idle, ProbationTime)]

\* promote_candidate up to the write of the cache: its early returns.
MayPromote(e, expected) ==
  LET p == e.probation IN
  /\ p.candidate = expected /\ e.current = expected /\ e.current_authenticated
  /\ p.rollback_at = Never \/ (p.rollback_at > 0 /\ CommittedFresh(e) = p.rollback)
  /\ p.packets >= MIN_PROMOTION_DATA_PACKETS /\ p.span >= ProbationTime
  /\ p.idle <= MaxGap

\* Mutant: a direct return is charged like any other.
MayRollBackCharged(e, grant) ==
  /\ OnProbation(e)
  /\ CommittedFresh(e) = e.probation.rollback
  /\ e.probation.rollback_authorized \/ grant

\* probation_rollback_due and authorize_operator_rollback: whether the rollback of
\* the candidate is authorized, now or already, charging it if it is not direct.
MayRollBack(e, grant) ==
  /\ OnProbation(e)
  /\ CommittedFresh(e) = e.probation.rollback
  /\ e.probation.rollback_authorized \/ e.probation.direct_return \/ grant

AuthorizeRollback(e, grant) ==
  [e |-> [e EXCEPT !.probation.rollback_authorized = TRUE],
   charged |-> /\ grant
               /\ ~e.probation.rollback_authorized /\ ~e.probation.direct_return]

RollbackDue(e, grant) == e.probation.rollback_at = 0 /\ MayRollBack(e, grant)

\* Mutant: any reconnect gives the right to return.
RequestRefreshAlways(e) ==
  [e EXCEPT !.attended_cutover = TRUE, !.force_refresh = TRUE, !.backoff = 0]

\* request_refresh: it gives that right only if it ends a session with the
\* committed address.
RequestRefresh(e) ==
  [e EXCEPT !.attended_cutover = e.current_authenticated /\ e.committed_good = e.current,
            !.force_refresh = TRUE, !.backoff = 0]

\* on_session_ended
OnSessionEnded(e) == [e EXCEPT !.current_authenticated = FALSE]

=============================================================================
