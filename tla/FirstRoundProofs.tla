-------------------------- MODULE FirstRoundProofs --------------------------
(***************************************************************************)
(* Proofs about Endpoint, continued: the time that is left to a candidate  *)
(* of the first round after a session with the committed address.  The     *)
(* deadlines of two sessions, a round, a refresh and a handshake add up    *)
(* over many steps; InTime says at each of them what is still to spare.    *)
(***************************************************************************)
EXTENDS EndpointProofs

USE SMTT(30)

-----------------------------------------------------------------------------
(* The clocks of a first round.                                            *)

\* What a candidate of the round still needs when the round is over: its handshake, its
\* probation and the two intervals the rollback is early by.
Spare == CLIENT_HANDSHAKE_TIMEOUT + ProbationTime + Grace

\* What config.rs checks on the options, as the proofs use it.
LEMMA Policy ==
  /\ Spare \in Nat /\ Spare >= ProbationTime + Grace + 2
  /\ CLIENT_CONN_TIMEOUT + PreferredRound + Spare < RollbackWindow
  /\ \A d \in QueryTimes : d \in 0 .. PreferredRound
<1>1. CLIENT_HANDSHAKE_TIMEOUT \in Nat /\ CLIENT_HANDSHAKE_TIMEOUT >= 2
  BY EndpointAssumption
<1>2. CLIENT_CONN_TIMEOUT + PreferredRound + CLIENT_HANDSHAKE_TIMEOUT
        + ProbationTime + Grace < RollbackWindow
  BY EndpointAssumption DEF PolicyFits
<1>3. \A d \in QueryTimes : d \in 0 .. PreferredRound
  BY EndpointAssumption, Zenon
<1> QED BY <1>1, <1>2, <1>3, Constants DEF Spare, Positive

\* The clocks that start_preferred_round sets and those it leaves.
LEMMA StartClocks ==
  ASSUME NEW e \in Controller
  PROVE  LET s == StartPreferredRound(e) IN
         /\ s.activity = e.activity /\ s.probation = e.probation /\ s.backoff = e.backoff
         /\ s.round = IF e.enabled /\ e.round = Never THEN PreferredRound ELSE e.round
  BY DEF Controller, StartPreferredRound

\* switch_to sets no clock.
LEMMA SwitchClocks ==
  ASSUME NEW e \in Controller, NEW a
  PROVE  LET f == SwitchTo(e, a) IN
         f.activity = e.activity /\ f.probation = e.probation /\ f.round = e.round
  BY DEF Controller, SwitchTo

\* What select may do to the clocks: it begins a round, leaves it, or ends it.
Paces(e, f) ==
  /\ f.activity = e.activity /\ f.probation \in {e.probation, NoProbation}
  /\ \/ f.round \in {e.round, Never}
     \/ e.enabled /\ e.round = Never /\ f.round = PreferredRound

\* A round that is over is ended, unless the client goes back to the committed address.
Closes(e, f) == e.round = 0 /\ f.round = 0 => f.current = e.committed_good

\* The two for a choice that keeps to a candidate, after an update that takes rights away,
\* ends a round or counts a failure.
LEMMA SwitchPaces ==
  ASSUME NEW e, NEW f \in Controller, NEW a, Paces(e, f)
  PROVE  Paces(e, SwitchTo(f, a))
<1> DEFINE g == SwitchTo(f, a)
<1>1. g.activity = f.activity /\ g.probation = f.probation /\ g.round = f.round
  BY SwitchClocks
<1> HIDE DEF g
<1> QED BY <1>1 DEF Paces, g

\* The updates of select.
LEMMA UpdatesPace ==
  ASSUME NEW e \in Controller
  PROVE  /\ Paces(e, e) /\ Paces(e, StartPreferredRound(e))
         /\ Paces(e, [e EXCEPT !.attended_cutover = FALSE])
         /\ Paces(e, [e EXCEPT !.probation = NoProbation])
         /\ Paces(e, [e EXCEPT !.probation = NoProbation, !.attended_cutover = FALSE])
<1>1. Paces(e, e)
  BY DEF Paces
<1>2. Paces(e, StartPreferredRound(e))
  <2> DEFINE s == StartPreferredRound(e)
  <2>1. /\ s.activity = e.activity /\ s.probation = e.probation
        /\ s.round = IF e.enabled /\ e.round = Never THEN PreferredRound ELSE e.round
    BY StartClocks
  <2> HIDE DEF s
  <2> QED BY <2>1 DEF Paces, s
<1>3. Paces(e, [e EXCEPT !.attended_cutover = FALSE])
  BY DEF Paces, Controller
<1>4. Paces(e, [e EXCEPT !.probation = NoProbation])
  BY DEF Paces, Controller
<1>5. Paces(e, [e EXCEPT !.probation = NoProbation, !.attended_cutover = FALSE])
  BY DEF Paces, Controller
<1> QED BY <1>1, <1>2, <1>3, <1>4, <1>5

\* select, for a rollback that is due or asked for: with the right to it the client goes
\* back to the committed address.
LEMMA RollbackPaces ==
  ASSUME NEW e \in Controller, Fine(e)
  PROVE  LET g == SelectRollback(e) IN
         /\ Paces(e, g) /\ g.round = e.round
         /\ e.probation.rollback_authorized /\ e.probation.candidate # NoAddr =>
              g.current = e.committed_good
<1> DEFINE f == [e EXCEPT !.probation = NoProbation, !.attended_cutover = FALSE]
           g == SelectRollback(e)
<1>1. f \in Controller /\ f.round = e.round /\ Paces(e, f)
  <2>1. Less(e, f)
    BY UpdatesLess, Zenon
  <2>2. f.round = e.round
    BY DEF Controller
  <2> QED BY <2>1, <2>2, UpdatesPace, Zenon DEF Less
<1> HIDE DEF f
<1>2. CASE ~e.probation.rollback_authorized
  <2>1. g = e
    BY <1>2, Zenon DEF SelectRollback
  <2> HIDE DEF g
  <2> QED BY <1>2, <2>1, UpdatesPace, Zenon DEF g
<1>3. CASE e.probation.rollback_authorized
  <2> DEFINE a == e.probation.rollback
  <2>1. g = SwitchTo(f, a)
    BY <1>3, Zenon DEF SelectRollback, f
  <2>2. a \in Addr \cup {NoAddr}
    BY Fields
  <2>3. e.probation.candidate # NoAddr => a = e.committed_good /\ a # NoAddr
    BY Zenon DEF Fine
  <2> HIDE DEF a, g
  <2>4. Paces(e, g)
    BY <1>1, <2>1, SwitchPaces, Zenon
  <2>5. g.round = f.round
    BY <1>1, <2>1, SwitchClocks, Zenon
  <2>6. g.current = IF a = NoAddr THEN f.current ELSE a
    BY <1>1, <2>1, <2>2, SwitchKeeps, ZenonT(60)
  <2> QED BY <1>1, <2>3, <2>4, <2>5, <2>6, Zenon DEF g
<1> QED BY <1>2, <1>3, Zenon

\* select, for a forced refresh.
LEMMA ForcedPaces ==
  ASSUME NEW e \in Controller, NEW answered
  PROVE  Paces(e, SelectForced(e, answered)) /\ Closes(e, SelectForced(e, answered))
<1> DEFINE s == StartPreferredRound(e)
           h == [e EXCEPT !.round = Never]
           Stay(x) == [x EXCEPT !.attended_cutover = FALSE]
           g == SelectForced(e, answered)
<1>1. s \in Controller /\ h \in Controller
  BY StartKeeps, UpdatesLess, Zenon DEF Less
<1>2. \A x \in Controller : /\ Stay(x).activity = x.activity
                            /\ Stay(x).probation = x.probation
                            /\ Stay(x).round = x.round
  BY DEF Controller
<1>3. h.activity = e.activity /\ h.probation = e.probation /\ h.round = Never
  BY DEF Controller
<1>4. \/ e.round = 0 /\ g = Stay(h)
      \/ e.round # 0 /\ (g = Stay(e) \/ g = Stay(s) \/ g = SwitchTo(s, Preferred(e)))
  BY Zenon DEF SelectForced, RoundExpired
<1>5. Paces(e, e) /\ Paces(e, s)
  BY UpdatesPace, Zenon
<1> HIDE DEF s, h, g, Stay
<1>6. CASE e.round = 0 /\ g = Stay(h)
  <2>1. g.activity = e.activity /\ g.probation = e.probation /\ g.round = Never
    BY <1>1, <1>2, <1>3, <1>6, Zenon
  <2> QED BY <2>1, Constants DEF Paces, Closes, g
<1>7. ASSUME NEW x \in Controller, Paces(e, x), g = Stay(x) PROVE Paces(e, g)
  <2>1. g.activity = x.activity /\ g.probation = x.probation /\ g.round = x.round
    BY <1>2, <1>7, Zenon
  <2> QED BY <1>7, <2>1, Zenon DEF Paces
<1>8. CASE e.round # 0 /\ (g = Stay(e) \/ g = Stay(s) \/ g = SwitchTo(s, Preferred(e)))
  <2>1. Paces(e, g)
    BY <1>1, <1>5, <1>7, <1>8, SwitchPaces, Zenon
  <2> QED BY <1>8, <2>1, Zenon DEF Closes, g
<1> QED BY <1>4, <1>6, <1>8, Zenon

\* select after a failure of the committed address.
LEMMA AfterCommittedPaces ==
  ASSUME NEW e \in Controller
  PROVE  Paces(e, SelectAfterCommitted(e)) /\ Closes(e, SelectAfterCommitted(e))
<1> DEFINE s == StartPreferredRound(e)
           g == SelectAfterCommitted(e)
           h == [e EXCEPT !.round = Never, !.attempts = 0]
<1>1. s \in Controller /\ Paces(e, s)
  BY StartKeeps, UpdatesPace, Zenon
<1>2. h.activity = e.activity /\ h.probation = e.probation /\ h.round = Never
  BY DEF Controller
<1>3. \/ e.round = 0 /\ g = h
      \/ e.round # 0 /\ g = SwitchTo(s, NextCandidate(e))
  BY Zenon DEF SelectAfterCommitted, RoundExpired
<1> HIDE DEF s, h, g
<1>4. CASE e.round = 0 /\ g = h
  BY <1>2, <1>4, Constants DEF Paces, Closes, g
<1>5. CASE e.round # 0 /\ g = SwitchTo(s, NextCandidate(e))
  <2>1. Paces(e, g)
    BY <1>1, <1>5, SwitchPaces, Zenon
  <2> QED BY <1>5, <2>1, Zenon DEF Closes, g
<1> QED BY <1>3, <1>4, <1>5, Zenon

\* select after a failure of a candidate.
LEMMA AfterCandidatePaces ==
  ASSUME NEW e \in Controller, NEW grant
  PROVE  LET g == SelectAfterCandidate(e, grant) IN Paces(e, g.e) /\ Closes(e, g.e)
<1> DEFINE r == StartPreferredRound(e)
           n == Smaller(r.failures + 1, AfterFailures)
           m == Smaller(r.attempts + 1, MAX_ENDPOINT_CANDIDATES)
           s == [r EXCEPT !.failures = n, !.attempts = m]
           h == [s EXCEPT !.round = Never]
           k == [s EXCEPT !.round = Never, !.attempts = 0]
           g == SelectAfterCandidate(e, grant).e
<1>1. r \in Controller
  BY StartKeeps
<1>2. n \in 0 .. AfterFailures /\ m \in 0 .. MAX_ENDPOINT_CANDIDATES
  <2>1. r.failures \in 0 .. AfterFailures /\ r.attempts \in 0 .. MAX_ENDPOINT_CANDIDATES
    BY <1>1, Zenon DEF Controller
  <2> QED BY <2>1, Constants DEF Smaller, Positive
<1>3. \/ g = SwitchTo(h, CommittedFresh(s))
      \/ s.round # 0 /\ g = SwitchTo(s, NextCandidate(s))
      \/ g = k
  <2> DEFINE back == /\ \/ RoundExpired(s)
                        \/ /\ s.failures >= AfterFailures
                           /\ s.attempts >= Larger(Cardinality(s.candidates), 1)
                     /\ CommittedFresh(s) # NoAddr /\ grant
             x == SwitchTo(h, CommittedFresh(s))
             y == SwitchTo(s, NextCandidate(s))
  <2>1. SelectAfterCandidate(e, grant) =
          IF back THEN [e |-> x, charged |-> grant]
          ELSE IF ~RoundExpired(s) THEN Free(y) ELSE Free(k)
    BY Zenon DEF SelectAfterCandidate
  <2>2. RoundExpired(s) <=> s.round = 0
    BY Zenon DEF RoundExpired
  <2> HIDE DEF s, k, x, y, back
  <2>3. g = x \/ (s.round # 0 /\ g = y) \/ g = k
    BY <2>1, <2>2 DEF Free
  <2> QED BY <2>3, Zenon DEF x, y
<1> HIDE DEF n, m
<1>4. s \in Controller
  BY <1>1, <1>2, Zenon DEF Controller
<1>5. s.activity = r.activity /\ s.probation = r.probation /\ s.round = r.round
  BY <1>1 DEF Controller
<1>6. /\ r.activity = e.activity /\ r.probation = e.probation
      /\ r.round = IF e.enabled /\ e.round = Never THEN PreferredRound ELSE e.round
  BY StartClocks
<1> HIDE DEF r, s
<1>7. h \in Controller /\ k \in Controller
  BY <1>4, UpdatesLess, Zenon DEF Less
<1>8. /\ h.activity = s.activity /\ h.probation = s.probation /\ h.round = Never
      /\ k.activity = s.activity /\ k.probation = s.probation /\ k.round = Never
  BY <1>4 DEF Controller
<1> HIDE DEF h, k, g
<1>9. CASE g = k
  BY <1>5, <1>6, <1>8, <1>9, Constants DEF Paces, Closes, g
<1>10. CASE g = SwitchTo(h, CommittedFresh(s))
  <2>1. g.activity = h.activity /\ g.probation = h.probation /\ g.round = h.round
    BY <1>7, <1>10, SwitchClocks, Zenon
  <2> QED BY <1>5, <1>6, <1>8, <2>1, Constants DEF Paces, Closes, g
<1>11. CASE s.round # 0 /\ g = SwitchTo(s, NextCandidate(s))
  <2>1. g.activity = s.activity /\ g.probation = s.probation /\ g.round = s.round
    BY <1>4, <1>11, SwitchClocks, Zenon
  <2> QED BY <1>5, <1>6, <1>11, <2>1 DEF Paces, Closes, g
<1> QED BY <1>3, <1>9, <1>10, <1>11, Zenon

\* The return from probation, which ends at the committed address.
LEMMA ReturnPaces ==
  ASSUME NEW e \in Controller, Fine(e), NEW grant, MayReturn(e, grant)
  PROVE  LET g == ReturnFromProbation(e, grant) IN Paces(e, g.e) /\ Closes(e, g.e)
<1> DEFINE f == [e EXCEPT !.probation = NoProbation]
           a == e.committed_good
           g == ReturnFromProbation(e, grant).e
<1>1. f \in Controller /\ Paces(e, f)
  BY UpdatesLess, UpdatesPace, Zenon DEF Less
<1>2. e.probation.rollback = a /\ a # NoAddr
  BY Zenon DEF MayReturn, OnProbation, Fine
<1>3. g = SwitchTo(f, a)
  BY <1>2 DEF ReturnFromProbation
<1>4. a \in Addr \cup {NoAddr}
  BY Fields
<1> HIDE DEF f, g, a
<1>5. Paces(e, g)
  BY <1>1, <1>3, SwitchPaces, Zenon
<1>6. g.current = a
  BY <1>1, <1>2, <1>3, <1>4, SwitchKeeps, ZenonT(60)
<1> QED BY <1>5, <1>6, Zenon DEF Closes, g, a

\* select, after a failed attempt.
LEMMA AttemptFailedPaces ==
  ASSUME NEW e \in Controller, Fine(e), NEW grant
  PROVE  LET g == SelectAttemptFailed(e, grant) IN Paces(e, g.e) /\ Closes(e, g.e)
<1> DEFINE g == SelectAttemptFailed(e, grant)
           f == [e EXCEPT !.attended_cutover = FALSE]
           a == e.committed_good
<1>1. f \in Controller /\ Paces(e, f)
  BY UpdatesLess, UpdatesPace, Zenon DEF Less
<1>2. \/ MayReturn(e, grant) /\ g = ReturnFromProbation(e, grant)
      \/ a # NoAddr /\ g = Free(SwitchTo(f, a))
      \/ g = Free(SelectAfterCommitted(e)) \/ g = SelectAfterCandidate(e, grant)
  BY Zenon DEF SelectAttemptFailed
<1>3. a \in Addr \cup {NoAddr}
  BY Fields
<1>4. \A x : Free(x).e = x
  BY DEF Free
<1> HIDE DEF g, f, a
<1>5. ASSUME a # NoAddr, g = Free(SwitchTo(f, a)) PROVE Paces(e, g.e) /\ Closes(e, g.e)
  <2>1. g.e = SwitchTo(f, a)
    BY <1>4, <1>5, Zenon
  <2>2. Paces(e, g.e)
    BY <1>1, <2>1, SwitchPaces, Zenon
  <2>3. SwitchTo(f, a).current = a
    BY <1>1, <1>3, <1>5, SwitchKeeps
  <2> QED BY <2>1, <2>2, <2>3 DEF Closes, a
<1> QED BY <1>2, <1>4, <1>5, ReturnPaces, AfterCommittedPaces, AfterCandidatePaces, Zenon DEF g

\* select, after a session was lost.
LEMMA SessionLostPaces ==
  ASSUME NEW e \in Controller, Fine(e), NEW grant
  PROVE  Paces(e, SelectSessionLost(e, grant).e)
<1> DEFINE g == SelectSessionLost(e, grant)
           s == StartPreferredRound(e)
<1>1. s \in Controller /\ Paces(e, s) /\ Paces(e, e)
  BY StartKeeps, UpdatesPace, Zenon
<1>2. \/ MayReturn(e, grant) /\ g = ReturnFromProbation(e, grant)
      \/ g = Free(s) \/ g = Free(e) \/ g = Free(SwitchTo(s, Min(s.candidates)))
  BY Zenon DEF SelectSessionLost
<1>3. \A x : Free(x).e = x
  BY DEF Free
<1> HIDE DEF g, s
<1>4. Paces(e, SwitchTo(s, Min(s.candidates)))
  BY <1>1, SwitchPaces, Zenon
<1> QED BY <1>1, <1>2, <1>3, <1>4, ReturnPaces, Zenon DEF g

\* What select does to the clocks, reason by reason.
PacesFor(reason, e, f) ==
  /\ Paces(e, f)
  /\ reason \in {"Forced", "AttemptFailed"} => Closes(e, f)
  /\ reason \in {"ProbationExpired", "OperatorRollback"} =>
       /\ f.round = e.round
       /\ e.probation.rollback_authorized /\ e.probation.candidate # NoAddr =>
            f.current = e.committed_good

\* select
LEMMA SelectPaces ==
  ASSUME NEW e \in Controller, Fine(e), NEW reason \in CycleReason, NEW answered, NEW grant
  PROVE  PacesFor(reason, e, Select(e, reason, answered, grant).e)
<1>0. \A x : Free(x).e = x
  BY DEF Free
<1> DEFINE f == Select(e, reason, answered, grant).e
<1>1. CASE reason \in {"ProbationExpired", "OperatorRollback"}
  <2>1. f = SelectRollback(e)
    BY <1>0, <1>1 DEF Select
  <2> HIDE DEF f
  <2>2. reason \notin {"Forced", "AttemptFailed"}
    BY <1>1
  <2> QED BY <2>1, <2>2, RollbackPaces, Zenon DEF f, PacesFor
<1>2. CASE reason = "Forced"
  <2>1. f = SelectForced(e, answered)
    BY <1>0, <1>2 DEF Select
  <2> HIDE DEF f
  <2>2. reason \notin {"ProbationExpired", "OperatorRollback"}
    BY <1>2
  <2> QED BY <2>1, <2>2, ForcedPaces, Zenon DEF f, PacesFor
<1>3. CASE reason = "AttemptFailed"
  <2>1. f = SelectAttemptFailed(e, grant).e
    BY <1>3 DEF Select
  <2> HIDE DEF f
  <2>2. reason \notin {"ProbationExpired", "OperatorRollback"}
    BY <1>3
  <2> QED BY <2>1, <2>2, AttemptFailedPaces, Zenon DEF f, PacesFor
<1>4. CASE reason = "SessionLost"
  <2>1. f = SelectSessionLost(e, grant).e
    BY <1>4 DEF Select
  <2> HIDE DEF f
  <2>2. reason \notin {"ProbationExpired", "OperatorRollback", "Forced", "AttemptFailed"}
    BY <1>4
  <2> QED BY <2>1, <2>2, SessionLostPaces, Zenon DEF f, PacesFor
<1>5. CASE reason = "Startup"
  <2>1. f = e
    BY <1>0, <1>5 DEF Select
  <2> HIDE DEF f
  <2>2. reason \notin {"ProbationExpired", "OperatorRollback", "Forced", "AttemptFailed"}
    BY <1>5
  <2> QED BY <2>1, <2>2, UpdatesPace, Zenon DEF f, PacesFor
<1> QED BY <1>1, <1>2, <1>3, <1>4, <1>5, Zenon DEF CycleReason

\* The clocks that run down with time.
LEMMA ElapseClocks ==
  ASSUME NEW e \in Controller, NEW d \in Nat
  PROVE  LET f == Elapse(e, d) IN
         /\ f.activity = Left(e.activity, d) /\ f.round = Due(e.round, d)
         /\ f.probation.rollback_at = Due(e.probation.rollback_at, d)
<1> DEFINE p == [e.probation EXCEPT !.rollback_at = Due(@, d),
                   !.idle = IF e.probation.packets = 0 THEN 0
                            ELSE Smaller(@ + d, MaxGap + 1)]
           f == [e EXCEPT !.cache_fresh = Left(@, d), !.activity = Left(@, d),
                          !.backoff = Due(@, d), !.round = Due(@, d), !.probation = p]
<1>0. e.probation \in Probation
  BY Fields
<1>1. Elapse(e, d) = f
  BY <1>0, ZenonT(60) DEF Elapse, Controller, Probation
<1>2. p.rollback_at = Due(e.probation.rollback_at, d)
  BY <1>0 DEF Probation
<1> HIDE DEF p
<1>3. f.activity = Left(e.activity, d) /\ f.round = Due(e.round, d) /\ f.probation = p
  BY DEF Controller
<1> QED BY <1>1, <1>2, <1>3

\* An answer sets no clock of a round.
LEMMA QueryClocks ==
  ASSUME NEW e \in Controller, NEW answer, NEW delay
  PROVE  LET f == Query(e, answer, delay) IN
         f.activity = e.activity /\ f.round = e.round /\ f.probation = e.probation
<1>1. CASE answer = {}
  BY <1>1 DEF Query, Controller
<1>2. CASE answer # {}
  <2> DEFINE b == IF e.reconnect_refresh_pending THEN BackoffMin ELSE 0
             n == IF Canonical(answer) # e.candidates THEN 0 ELSE e.failures
             m == IF Canonical(answer) # e.candidates THEN 0 ELSE e.attempts
             f == [e EXCEPT !.backoff = b, !.candidates = Canonical(answer),
                            !.failures = n, !.attempts = m]
  <2>1. Query(e, answer, delay) = f
    BY <1>2, Zenon DEF Query, Controller
  <2> HIDE DEF b, n, m
  <2>2. f.activity = e.activity /\ f.round = e.round /\ f.probation = e.probation
    BY DEF Controller
  <2> QED BY <2>1, <2>2
<1> QED BY <1>1, <1>2

\* No time at all.
LEMMA NoTime ==
  ASSUME NEW n \in Nat, NEW t \in Within(n)
  PROVE  Left(t, 0) = t /\ Due(t, 0) = t
  BY DEF Within, Left, Due, Larger, Never

\* The reasons for which a cycle begins a round before its refresh.
Refreshing == {"Forced", "SessionLost", "AttemptFailed"}

\* u is what the refresh of a cycle leaves of e after a time d.
Refreshed(e, u, reason, d) ==
  /\ u.activity = Left(e.activity, d)
  /\ u.probation.rollback_at = Due(e.probation.rollback_at, d)
  /\ \/ /\ u.round = Due(e.round, d)
        /\ d # 0 /\ e.enabled /\ reason \in Refreshing => e.round # Never
     \/ e.enabled /\ e.round = Never /\ u.round = Due(PreferredRound, d)

\* on_cycle up to select: the refresh changes no right, leaves candidates if there were
\* any, and a round that it begins pays for it.
LEMMA CycleRefreshes ==
  ASSUME NEW e \in Controller, NEW reason, NEW w \in Answers
  PROVE  \E u \in Controller, answered \in BOOLEAN, d \in 0 .. PreferredRound :
           /\ OnCycle(e, reason, w) = Select(u, reason, answered, w.grant)
           /\ SameRights(e, u) /\ SameAddress(e, u)
           /\ e.candidates # {} \/ answered => u.candidates # {}
           /\ Refreshed(e, u, reason, d)
<1> DEFINE s == [e EXCEPT !.reconnect_refresh_pending = @ \/ reason = "SessionLost"]
           due0 == \/ s.force_refresh \/ s.reconnect_refresh_pending
                   \/ w.expired \/ s.candidates = {}
           t == IF due0 /\ reason \in Refreshing THEN StartPreferredRound(s) ELSE s
           v == [t EXCEPT !.force_refresh = FALSE]
           q == Query(v, w.answer, w.delay)
           query == due0 /\ t.backoff = 0
           u == IF query THEN Elapse(q, w.took) ELSE t
           answered == query /\ w.answer # {}
           d == IF query THEN w.took ELSE 0
<1>1. OnCycle(e, reason, w) = Select(u, reason, answered, w.grant)
  BY Zenon DEF OnCycle, Refreshing
<1>2. /\ w.answer \in SUBSET Addr /\ w.delay \in BackoffMin .. BackoffMax
      /\ w.took \in 0 .. PreferredRound /\ w.took \in Nat
  <2>1. w.answer \in SUBSET Addr /\ w.delay \in BackoffMin .. BackoffMax
        /\ w.took \in QueryTimes
    BY Zenon DEF Answers
  <2> QED BY <2>1, Policy, Constants, Zenon
<1>3. /\ s \in Controller /\ Kept(e, s) /\ s.activity = e.activity /\ s.round = e.round
      /\ s.probation = e.probation
  <2>1. (e.reconnect_refresh_pending \/ reason = "SessionLost") \in BOOLEAN
    BY Zenon
  <2>2. s \in Controller
    BY <2>1, Zenon DEF Controller
  <2>3. /\ Kept(e, s) /\ s.activity = e.activity /\ s.round = e.round
        /\ s.probation = e.probation
    BY DEF Controller, Kept, SameRights, SameAddress
  <2> QED BY <2>2, <2>3
<1> HIDE DEF s
<1>4. /\ t \in Controller /\ Kept(s, t) /\ t.activity = s.activity
      /\ t.probation = s.probation
      /\ \/ t.round = s.round /\ ~(due0 /\ reason \in Refreshing /\ s.enabled /\ s.round = Never)
         \/ s.enabled /\ s.round = Never /\ t.round = PreferredRound
  <2>1. CASE due0 /\ reason \in Refreshing
    <3>1. t = StartPreferredRound(s)
      BY <2>1
    <3> HIDE DEF t, due0
    <3>2. t \in Controller /\ Kept(s, t)
      BY <1>3, <3>1, StartKeeps, Zenon
    <3>3. /\ t.activity = s.activity /\ t.probation = s.probation
          /\ t.round = IF s.enabled /\ s.round = Never THEN PreferredRound ELSE s.round
      BY <1>3, <3>1, StartClocks, Zenon
    <3> QED BY <3>2, <3>3
  <2>2. CASE ~(due0 /\ reason \in Refreshing)
    <3>1. t = s
      BY <2>2
    <3>2. Kept(s, s)
      BY DEF Kept, SameRights, SameAddress
    <3> HIDE DEF t, due0
    <3> QED BY <1>3, <2>2, <3>1, <3>2, Zenon
  <2> QED BY <2>1, <2>2, Zenon
<1> HIDE DEF t
<1>5. /\ v \in Controller /\ Kept(t, v) /\ v.activity = t.activity /\ v.round = t.round
      /\ v.probation = t.probation
  <2>1. v \in Controller
    BY <1>4, Zenon DEF Controller
  <2>2. /\ Kept(t, v) /\ v.activity = t.activity /\ v.round = t.round
        /\ v.probation = t.probation
    BY <1>4 DEF Controller, Kept, SameRights, SameAddress
  <2> QED BY <2>1, <2>2
<1> HIDE DEF v
<1>6. /\ q \in Controller /\ SameRights(v, q) /\ SameAddress(v, q)
      /\ v.candidates # {} \/ w.answer # {} => q.candidates # {}
  BY <1>2, <1>5, QueryKeeps, Zenon
<1>7. q.activity = v.activity /\ q.round = v.round /\ q.probation = v.probation
  BY <1>5, QueryClocks
<1> HIDE DEF q
<1> DEFINE f == Elapse(q, w.took)
<1>8. f \in Controller /\ Kept(q, f)
  BY <1>2, <1>6, ElapseKeeps, Zenon
<1>9. /\ f.activity = Left(q.activity, w.took) /\ f.round = Due(q.round, w.took)
      /\ f.probation.rollback_at = Due(q.probation.rollback_at, w.took)
  BY <1>2, <1>6, ElapseClocks, Zenon
<1> HIDE DEF f
<1>10. /\ u \in Controller /\ SameRights(e, u) /\ SameAddress(e, u)
       /\ e.candidates # {} \/ answered => u.candidates # {}
       /\ Refreshed(e, u, reason, d) /\ d \in 0 .. PreferredRound
  <2>1. CASE query
    <3>1. u = f /\ d = w.took
      BY <2>1 DEF f
    <3>2. due0
      BY <2>1
    <3> HIDE DEF u, query, d, due0
    <3>3. Refreshed(e, u, reason, d)
      <4>1. /\ f.activity = Left(e.activity, d) /\ f.round = Due(t.round, d)
            /\ f.probation.rollback_at = Due(e.probation.rollback_at, d)
        BY <1>3, <1>4, <1>5, <1>7, <1>9, <3>1
      <4>2. \/ t.round = e.round /\ ~(reason \in Refreshing /\ e.enabled /\ e.round = Never)
            \/ e.enabled /\ e.round = Never /\ t.round = PreferredRound
        BY <1>3, <1>4, <3>2, Zenon DEF Kept, SameRights
      <4> QED BY <3>1, <4>1, <4>2, Zenon DEF Refreshed
    <3> QED BY <1>2, <1>3, <1>4, <1>5, <1>6, <1>8, <2>1, <3>1, <3>3
            DEF Kept, SameRights, SameAddress
  <2>2. CASE ~query
    <3>1. u = t /\ ~answered /\ d = 0
      BY <2>2
    <3> HIDE DEF u, query, answered, d, due0
    <3>2. /\ Left(e.activity, 0) = e.activity /\ Due(e.round, 0) = e.round
          /\ Due(e.probation.rollback_at, 0) = e.probation.rollback_at
          /\ Due(PreferredRound, 0) = PreferredRound
      <4>1. PreferredRound \in Within(PreferredRound)
        BY Constants DEF Within, Positive
      <4> QED BY <4>1, Constants, Fields, NoTime DEF Positive
    <3>3. Refreshed(e, u, reason, d)
      BY <1>3, <1>4, <3>1, <3>2, Zenon DEF Refreshed, Kept, SameRights
    <3>4. d \in 0 .. PreferredRound
      BY <3>1, Constants DEF Positive
    <3> QED BY <1>3, <1>4, <3>1, <3>3, <3>4 DEF Kept, SameRights, SameAddress
  <2> QED BY <2>1, <2>2
<1>11. answered \in BOOLEAN
  BY Zenon
<1> HIDE DEF u, answered, query, d
<1> QED BY <1>1, <1>10, <1>11, Zenon

-----------------------------------------------------------------------------
(* The first round ends in time.                                           *)

\* The rounds counted after a step from e to f (NoteRound).
RoundsAfter(n, e, f, attempt) ==
  IF f.round # Never THEN IF e.round = Never THEN Smaller(n + 1, 2) ELSE n
  ELSE IF attempt THEN 2 ELSE n

\* The time that is left to a candidate of the first round.
Ample(n, e) == n = 1 /\ e.round > 0 => e.activity >= e.round + Spare - 1

\* The rollback of the candidate on probation is scheduled.
Scheduled(n, e) ==
  n <= 1 /\ e.probation.candidate # NoAddr => e.probation.rollback_at # Never

\* What a cycle is for: a lost session had no round, and a rollback has its right.
Reasoned(n, e, reason) ==
  /\ reason = "SessionLost" => e.round = Never
  /\ reason \in {"ProbationExpired", "OperatorRollback"} =>
       e.probation.rollback_authorized /\ e.probation.candidate # NoAddr
  /\ reason = "Startup" => n = 2

\* What a cycle from e to f, after which m rounds are counted, leaves to a candidate.
Leaves(m, e, f) ==
  /\ m \in {1, 2} /\ Ample(m, f) /\ Scheduled(m, f)
  /\ m = 1 => f.round # Never
  /\ m = 1 /\ f.round = 0 /\ e.round # 0 /\ f.current # f.committed_good =>
       f.activity >= Spare - 1

\* on_cycle: the round it begins, or the one that goes on, leaves a candidate its time.
LEMMA CycleInTime ==
  ASSUME NEW e \in Controller, Fine(e), ~e.current_authenticated, NEW reason \in CycleReason,
         NEW w \in Answers, NEW n \in 0 .. 2, Reasoned(n, e, reason),
         Ample(n, e), Scheduled(n, e),
         n = 0 => e.round = Never /\ e.activity >= PreferredRound + Spare - 1
  PROVE  LET f == OnCycle(e, reason, w).e
         IN  Leaves(RoundsAfter(n, e, f, TRUE), e, f)
<1> DEFINE f == OnCycle(e, reason, w).e
           m == RoundsAfter(n, e, f, TRUE)
<1>1. PICK u \in Controller, answered \in BOOLEAN, d \in 0 .. PreferredRound :
           /\ OnCycle(e, reason, w) = Select(u, reason, answered, w.grant)
           /\ SameRights(e, u) /\ SameAddress(e, u)
           /\ e.candidates # {} \/ answered => u.candidates # {}
           /\ Refreshed(e, u, reason, d)
  BY CycleRefreshes, Zenon
<1>2. Fine(u)
  BY <1>1 DEF Fine, SameRights, SameAddress, OnProbation
<1>3. /\ Paces(u, f)
      /\ reason \in {"Forced", "AttemptFailed"} => Closes(u, f)
      /\ reason \in {"ProbationExpired", "OperatorRollback"} =>
           /\ f.round = u.round
           /\ u.probation.rollback_authorized /\ u.probation.candidate # NoAddr =>
                f.current = u.committed_good
  <2>1. PacesFor(reason, u, Select(u, reason, answered, w.grant).e)
    BY <1>2, SelectPaces, Zenon
  <2>2. f = Select(u, reason, answered, w.grant).e
    BY <1>1
  <2> HIDE DEF f
  <2> QED BY <2>1, <2>2, Zenon DEF PacesFor
<1>4. f \in Controller /\ f.committed_good = e.committed_good
  BY CycleChooses, Zenon DEF Chooses, Moves
<1>5. /\ u.committed_good = e.committed_good /\ u.enabled = e.enabled
      /\ u.probation.candidate = e.probation.candidate
      /\ u.probation.rollback_authorized = e.probation.rollback_authorized
  BY <1>1 DEF SameRights
<1> HIDE DEF f
<1>6. /\ e.round \in Within(PreferredRound) /\ e.activity \in Within(RollbackWindow)
      /\ e.probation.rollback_at \in Within(RollbackWindow)
      /\ u.round \in Within(PreferredRound) /\ f.round \in Within(PreferredRound)
  BY <1>1, <1>4, Fields
<1>7. /\ PreferredRound \in Nat /\ PreferredRound > 0 /\ Spare \in Nat /\ Never = 0 - 1
      /\ d \in Nat /\ d <= PreferredRound /\ RollbackWindow \in Nat
  BY <1>1, Constants, Policy DEF Positive
<1>8. Scheduled(m, f)
  <2>1. n <= 1 => Scheduled(n, f)
    <3>1. e.probation.rollback_at # Never => u.probation.rollback_at # Never
      BY <1>1, <1>6, <1>7 DEF Refreshed, Due, Larger, Within
    <3>2. f.probation \in {u.probation, NoProbation} /\ NoProbation.candidate = NoAddr
      BY <1>3 DEF Paces, NoProbation
    <3> QED BY <1>5, <3>1, <3>2, Zenon DEF Scheduled
  <2>2. m \in 0 .. 2 /\ (m <= 1 => n <= 1)
    BY DEF RoundsAfter, Smaller
  <2> HIDE DEF m
  <2> QED BY <2>1, <2>2 DEF Scheduled
<1>9. ASSUME n = 2 \/ (n = 1 /\ e.round = Never) PROVE Leaves(m, e, f)
  <2>1. m = 2
    BY <1>9 DEF RoundsAfter, Smaller
  <2> HIDE DEF m
  <2> QED BY <1>8, <2>1 DEF Ample, Leaves
<1>10. ASSUME n = 1 /\ e.round # Never PROVE Leaves(m, e, f)
  <2>1. u.round = Due(e.round, d) /\ u.activity = Left(e.activity, d)
    BY <1>1, <1>10 DEF Refreshed
  <2>2. u.round # Never
    BY <1>6, <1>7, <1>10, <2>1 DEF Due, Larger, Within
  <2>3. f.activity = u.activity /\ f.round \in {u.round, Never}
    BY <1>3, <2>2 DEF Paces
  <2>4. m = IF f.round # Never THEN 1 ELSE 2
    BY <1>10 DEF RoundsAfter
  <2>5. Ample(m, f)
    <3> SUFFICES ASSUME m = 1, f.round > 0 PROVE f.activity >= f.round + Spare - 1
      BY DEF Ample
    <3>1. f.round = e.round - d /\ e.round > 0
      BY <1>6, <1>7, <1>10, <2>1, <2>3 DEF Due, Larger, Within
    <3>2. e.activity >= e.round + Spare - 1
      BY <1>10, <3>1 DEF Ample
    <3>3. u.activity = e.activity - d
      BY <1>6, <1>7, <2>1, <3>1, <3>2 DEF Left, Within
    <3> QED BY <1>6, <1>7, <2>3, <3>1, <3>2, <3>3 DEF Within
  <2>6. f.round = 0 /\ e.round # 0 => f.current = e.committed_good
    <3> SUFFICES ASSUME f.round = 0, e.round # 0 PROVE f.current = e.committed_good
      OBVIOUS
    <3>1. u.round = 0
      BY <1>7, <2>3
    <3>2. CASE reason \in {"Forced", "AttemptFailed"}
      BY <1>3, <1>5, <3>1, <3>2, Zenon DEF Closes
    <3>3. CASE reason \in {"ProbationExpired", "OperatorRollback"}
      BY <1>3, <1>5, <3>3, Zenon DEF Reasoned
    <3>4. reason # "SessionLost" /\ reason # "Startup"
      BY <1>10 DEF Reasoned
    <3> QED BY <3>2, <3>3, <3>4, Zenon DEF CycleReason
  <2> HIDE DEF m
  <2>7. m \in {1, 2} /\ (m = 1 => f.round # Never)
    BY <2>4
  <2> QED BY <1>4, <1>8, <2>5, <2>6, <2>7, ZenonT(30) DEF Leaves
<1>11. ASSUME n = 0 PROVE Leaves(m, e, f)
  <2>1. e.round = Never /\ e.activity >= PreferredRound + Spare - 1
    BY <1>11
  <2>2. m = IF f.round # Never THEN 1 ELSE 2
    BY <1>11, <2>1 DEF RoundsAfter, Smaller
  <2>3. f.round # Never => f.round >= 0 /\ f.activity >= f.round + Spare - 1
    <3> SUFFICES ASSUME f.round # Never PROVE f.round >= 0 /\ f.activity >= f.round + Spare - 1
      OBVIOUS
    <3>1. f.activity = u.activity
      BY <1>3 DEF Paces
    <3>2. CASE u.round = Due(PreferredRound, d)
      <4>1. u.round = PreferredRound - d /\ u.round # Never
        BY <1>7, <3>2 DEF Due, Larger
      <4>2. f.round = u.round
        BY <1>3, <4>1 DEF Paces
      <4>3. u.activity = e.activity - d
        BY <1>1, <1>6, <1>7, <2>1 DEF Refreshed, Left, Within
      <4> QED BY <1>6, <1>7, <2>1, <3>1, <4>1, <4>2, <4>3 DEF Within
    <3>3. CASE /\ u.round = Due(e.round, d)
               /\ d # 0 /\ e.enabled /\ reason \in Refreshing => e.round # Never
      <4>1. u.round = Never
        BY <2>1, <3>3 DEF Due
      <4>2. f.round = PreferredRound /\ e.enabled
        BY <1>3, <1>5, <4>1 DEF Paces
      <4>3. reason \in Refreshing
        <5>1. reason \notin {"ProbationExpired", "OperatorRollback"}
          BY <1>3, <4>1
        <5>2. reason # "Startup"
          BY <1>11 DEF Reasoned
        <5> QED BY <5>1, <5>2 DEF Refreshing, CycleReason
      <4>4. d = 0
        BY <2>1, <3>3, <4>2, <4>3, Zenon
      <4>5. u.activity = e.activity
        BY <1>1, <1>6, <1>7, <4>4, NoTime DEF Refreshed
      <4> QED BY <1>7, <2>1, <3>1, <4>2, <4>5
    <3> QED BY <1>1, <3>2, <3>3, Zenon DEF Refreshed
  <2> HIDE DEF m
  <2>4. m \in {1, 2} /\ (m = 1 => f.round # Never)
    BY <2>2
  <2>5. Ample(m, f)
    BY <2>3, <2>4 DEF Ample
  <2>6. m = 1 /\ f.round = 0 => f.activity >= Spare - 1
    BY <1>7, <2>3, <2>4
  <2> QED BY <1>8, <2>4, <2>5, <2>6, Zenon DEF Leaves
<1>12. Leaves(m, e, f)
  <2> HIDE DEF m
  <2> QED BY <1>9, <1>10, <1>11
<1> QED BY <1>12, Zenon DEF f

\* Just after the timer one more interval may pass before it runs again.
Slack(d) == IF d THEN 2 ELSE 1

\* A session has no round, and the timer ends it when the heartbeats stop.
Lively(e, c, d) ==
  c.state = "Ready" => e.round = Never /\ (~d => c.hb <= CLIENT_CONN_TIMEOUT)

\* No round yet: the session with the committed address goes on, and its activity is as
\* recent as its heartbeat, or it has ended and the next cycle is about to run.
Fresh(n, e, c, d) ==
  n = 0 =>
    /\ e.round = Never /\ e.current = e.committed_good /\ c.state # "Handshake"
    /\ c.state = "Ready" => e.current_authenticated /\ e.activity + c.hb >= RollbackWindow
    /\ c.state = "Idle" =>
         ~c.selected /\ e.activity >= RollbackWindow - CLIENT_CONN_TIMEOUT - Slack(d)

\* A handshake of the first round is within the round, or the timer is about to end it.
Racing(n, e, c, d) ==
  n = 1 /\ c.state = "Handshake" =>
    /\ e.round # Never
    /\ e.round = 0 /\ e.current # e.committed_good => e.activity >= Spare - Slack(d)

\* The client of n rounds is in time; d: whether the timer is due.
InTime(n, e, c, d) ==
  /\ Lively(e, c, d) /\ Fresh(n, e, c, d) /\ Racing(n, e, c, d)
  /\ Ample(n, e) /\ Scheduled(n, e)
  /\ c.state = "Idle" /\ ~c.selected => Reasoned(n, e, c.cycle_reason)

\* on_session_ended sets no clock.
LEMMA EndedClocks ==
  ASSUME NEW e \in Controller
  PROVE  LET f == OnSessionEnded(e) IN
         /\ f.activity = e.activity /\ f.round = e.round /\ f.probation = e.probation
         /\ f.current = e.current /\ f.committed_good = e.committed_good
  BY DEF Controller, OnSessionEnded

\* go_idle
LEMMA IdleIs ==
  ASSUME NEW c \in Client, NEW reason
  PROVE  LET d == GoIdle(c, reason) IN
         d.state = "Idle" /\ d.cycle_reason = reason /\ d.selected = FALSE /\ d.hb = 0
  BY Zenon DEF GoIdle, Client

\* What is going on ends.
LEMMA IdleInTime ==
  ASSUME NEW f \in Controller, NEW c \in Client, NEW reason, NEW m, NEW b,
         Ample(m, f), Scheduled(m, f), Reasoned(m, f, reason),
         m = 0 => /\ f.round = Never /\ f.current = f.committed_good
                  /\ f.activity >= RollbackWindow - CLIENT_CONN_TIMEOUT - Slack(b)
  PROVE  InTime(m, OnSessionEnded(f), GoIdle(c, reason), b)
<1> DEFINE g == OnSessionEnded(f)
           d == GoIdle(c, reason)
<1>1. /\ g.activity = f.activity /\ g.round = f.round /\ g.probation = f.probation
      /\ g.current = f.current /\ g.committed_good = f.committed_good
  BY EndedClocks
<1>2. d.state = "Idle" /\ d.cycle_reason = reason /\ d.selected = FALSE /\ d.hb = 0
  BY IdleIs, Zenon
<1> HIDE DEF g, d
<1>3. Lively(g, d, b) /\ Racing(m, g, d, b)
  BY <1>2 DEF Lively, Racing
<1>4. Fresh(m, g, d, b)
  BY <1>1, <1>2 DEF Fresh
<1>5. Ample(m, g) /\ Scheduled(m, g) /\ Reasoned(m, g, reason)
  BY <1>1, Zenon DEF Ample, Scheduled, Reasoned
<1> QED BY <1>2, <1>3, <1>4, <1>5, Zenon DEF InTime, g, d

\* The timer ends what is going on.
LEMMA EndedInTime ==
  ASSUME NEW f \in Controller, NEW c \in Client, NEW reason, NEW m,
         Ample(m, f), Scheduled(m, f), Reasoned(m, f, reason),
         m = 0 => /\ f.round = Never /\ f.current = f.committed_good
                  /\ f.activity >= RollbackWindow - CLIENT_CONN_TIMEOUT - 1
  PROVE  InTime(m, OnSessionEnded(f), GoIdle(c, reason), FALSE)
<1>1. Slack(FALSE) = 1
  BY DEF Slack
<1> QED BY <1>1, IdleInTime, Zenon

\* authorize_rollback gives the right and sets no clock.
LEMMA AuthorizeClocks ==
  ASSUME NEW e \in Controller, NEW grant
  PROVE  LET f == AuthorizeRollback(e, grant).e IN
         /\ f.activity = e.activity /\ f.round = e.round
         /\ f.current = e.current /\ f.committed_good = e.committed_good
         /\ f.probation.candidate = e.probation.candidate
         /\ f.probation.rollback_at = e.probation.rollback_at
         /\ f.probation.rollback_authorized = TRUE
<1> DEFINE p == [e.probation EXCEPT !.rollback_authorized = TRUE]
           f == [e EXCEPT !.probation = p]
<1>0. e.probation \in Probation
  BY Fields
<1>1. AuthorizeRollback(e, grant).e = f
  BY <1>0 DEF AuthorizeRollback, Controller
<1>2. /\ p.candidate = e.probation.candidate /\ p.rollback_at = e.probation.rollback_at
      /\ p.rollback_authorized = TRUE
  BY <1>0 DEF Probation
<1> HIDE DEF p
<1>3. /\ f.activity = e.activity /\ f.round = e.round /\ f.probation = p
      /\ f.current = e.current /\ f.committed_good = e.committed_good
  BY DEF Controller
<1> QED BY <1>1, <1>2, <1>3

\* The timer with a session or a handshake going on (on_timer).
LEMMA BusyInTime ==
  ASSUME NEW e \in Controller, Fine(e), NEW c \in Client, ~c.disabled, c.state # "Idle",
         NEW w \in Answers, NEW x, NEW n \in 0 .. 2, InTime(n, e, c, TRUE)
  PROVE  LET r == OnTimer(e, c, w, x) IN InTime(RoundsAfter(n, e, r.e, FALSE), r.e, r.c, FALSE)
<1> DEFINE Ended(f, reason, b) ==
             [e |-> OnSessionEnded(f), c |-> GoIdle(c, reason), charged |-> b]
           auth == AuthorizeRollback(e, w.grant)
           r == OnTimer(e, c, w, x)
<1>1. \/ c.state = "Handshake" /\ r = Ended(e, "AttemptFailed", FALSE)
      \/ c.state = "Ready" /\ MayRollBack(e, w.grant) /\ r = Ended(auth.e, "ProbationExpired", auth.charged)
      \/ c.state = "Ready" /\ r = Ended(e, "SessionLost", FALSE)
      \/ /\ r = [e |-> e, c |-> c, charged |-> FALSE]
         /\ c.state = "Handshake" => e.round # 0
         /\ c.state = "Ready" => ~(c.hb > CLIENT_CONN_TIMEOUT)
  <2>1. Free(e).e = e /\ Free(e).charged = FALSE
    BY DEF Free
  <2> HIDE DEF auth
  <2> QED BY <2>1, ZenonT(60) DEF OnTimer, RollbackDue, RoundExpired, auth
<1>3. \A f : f.round = e.round => RoundsAfter(n, e, f, FALSE) = n
  BY DEF RoundsAfter
<1>4. /\ Lively(e, c, TRUE) /\ Fresh(n, e, c, TRUE) /\ Racing(n, e, c, TRUE)
      /\ Ample(n, e) /\ Scheduled(n, e)
  BY Zenon DEF InTime
<1>5. c.state \in {"Handshake", "Ready"} /\ c.hb \in 0 .. CLIENT_CONN_TIMEOUT + 1
  BY DEF Client
<1>6. CLIENT_CONN_TIMEOUT \in Nat /\ RollbackWindow \in Nat /\ e.activity \in Int
  BY Constants, Fields DEF Positive, Within
<1> HIDE DEF r
<1>7. ASSUME NEW f \in Controller, NEW reason, NEW b, r = Ended(f, reason, b),
             f.round = e.round, InTime(n, OnSessionEnded(f), GoIdle(c, reason), FALSE)
      PROVE  InTime(RoundsAfter(n, e, r.e, FALSE), r.e, r.c, FALSE)
  <2>1. r.e = OnSessionEnded(f) /\ r.c = GoIdle(c, reason)
    BY <1>7
  <2>2. OnSessionEnded(f).round = f.round
    BY EndedClocks
  <2>3. r.e.round = e.round
    BY <1>7, <2>1, <2>2, Zenon
  <2>4. RoundsAfter(n, e, r.e, FALSE) = n
    BY <1>3, <2>3, Zenon
  <2> QED BY <1>7, <2>1, <2>4, Zenon
<1>8. CASE c.state = "Handshake" /\ r = Ended(e, "AttemptFailed", FALSE)
  <2>1. n # 0
    BY <1>4, <1>8 DEF Fresh
  <2>2. Reasoned(n, e, "AttemptFailed")
    BY DEF Reasoned
  <2>3. InTime(n, OnSessionEnded(e), GoIdle(c, "AttemptFailed"), FALSE)
    BY <1>4, <2>1, <2>2, EndedInTime, Zenon
  <2> QED BY <1>7, <1>8, <2>3, Zenon DEF r
<1>9. CASE /\ c.state = "Ready" /\ MayRollBack(e, w.grant)
           /\ r = Ended(auth.e, "ProbationExpired", auth.charged)
  <2> DEFINE f == auth.e
             b == auth.charged
  <2>0. w.grant \in BOOLEAN
    BY Zenon DEF Answers
  <2>1. f \in Controller
    BY <1>9, <2>0, AuthorizeMoves, Zenon DEF Moves
  <2>2. /\ f.activity = e.activity /\ f.round = e.round
        /\ f.probation.candidate = e.probation.candidate
        /\ f.probation.rollback_at = e.probation.rollback_at
        /\ f.probation.rollback_authorized = TRUE
    BY AuthorizeClocks, ZenonT(60)
  <2>3. r = Ended(f, "ProbationExpired", b)
    BY <1>9
  <2> HIDE DEF f, b, auth
  <2>4. e.probation.candidate # NoAddr /\ e.current # e.committed_good
    BY <1>9, Zenon DEF MayRollBack, OnProbation, Fine
  <2>5. n # 0
    BY <1>4, <2>4, Zenon DEF Fresh
  <2>6. Reasoned(n, f, "ProbationExpired")
    BY <2>2, <2>4 DEF Reasoned
  <2>7. Ample(n, f) /\ Scheduled(n, f)
    BY <1>4, <2>2, Zenon DEF Ample, Scheduled
  <2>8. InTime(n, OnSessionEnded(f), GoIdle(c, "ProbationExpired"), FALSE)
    BY <2>1, <2>5, <2>6, <2>7, EndedInTime, Zenon
  <2> QED BY <1>7, <2>1, <2>2, <2>3, <2>8, Zenon DEF r
<1>10. CASE c.state = "Ready" /\ r = Ended(e, "SessionLost", FALSE)
  <2>1. e.round = Never
    BY <1>4, <1>10 DEF Lively
  <2>2. Reasoned(n, e, "SessionLost")
    BY <2>1 DEF Reasoned
  <2>3. n = 0 => /\ e.current = e.committed_good
                 /\ e.activity >= RollbackWindow - CLIENT_CONN_TIMEOUT - 1
    BY <1>4, <1>5, <1>6, <1>10 DEF Fresh
  <2>4. InTime(n, OnSessionEnded(e), GoIdle(c, "SessionLost"), FALSE)
    BY <1>4, <2>1, <2>2, <2>3, EndedInTime, Zenon
  <2> QED BY <1>7, <1>10, <2>4, Zenon DEF r
<1>11. CASE /\ r = [e |-> e, c |-> c, charged |-> FALSE]
            /\ c.state = "Handshake" => e.round # 0
            /\ c.state = "Ready" => ~(c.hb > CLIENT_CONN_TIMEOUT)
  <2>1. r.e = e /\ r.c = c
    BY <1>11
  <2>2. RoundsAfter(n, e, e, FALSE) = n
    BY <1>3, Zenon
  <2>3. Lively(e, c, FALSE)
    BY <1>4, <1>5, <1>6, <1>11 DEF Lively
  <2>4. Fresh(n, e, c, FALSE)
    BY <1>4, <1>5, Zenon DEF Fresh
  <2>5. Racing(n, e, c, FALSE)
    BY <1>4, <1>11, Zenon DEF Racing
  <2>6. InTime(n, e, c, FALSE)
    BY <1>4, <2>3, <2>4, <2>5, Zenon DEF InTime
  <2> QED BY <2>1, <2>2, <2>6, Zenon DEF r
<1> QED BY <1>1, <1>8, <1>9, <1>10, <1>11, Zenon DEF r

\* The cycle of a client that is Idle, or the choice made before.
Cycled(e, c, w) ==
  IF c.state = "Idle" /\ ~c.selected THEN OnCycle(e, c.cycle_reason, w) ELSE Free(e)

\* The client after the set-up of an attempt.
SetUp(c, x) ==
  [c EXCEPT !.cycle_reason = "AttemptFailed", !.disabled = FALSE, !.selected = ~x.setup,
            !.state = IF x.setup THEN "Handshake" ELSE "Idle"]

\* The cycle of an Idle client leaves a candidate its time.
LEMMA CycledInTime ==
  ASSUME NEW e \in Controller, Fine(e), ~e.current_authenticated, NEW c \in Client,
         c.state = "Idle", NEW w \in Answers, NEW n \in 0 .. 2, InTime(n, e, c, TRUE)
  PROVE  LET f == Cycled(e, c, w).e
         IN  f \in Controller /\ Leaves(RoundsAfter(n, e, f, TRUE), e, f)
<1>1. Fresh(n, e, c, TRUE) /\ Ample(n, e) /\ Scheduled(n, e)
  BY Zenon DEF InTime
<1> DEFINE z == Slack(TRUE)
<1>2. z = 2
  BY DEF Slack
<1>3. n = 0 => ~c.selected /\ e.round = Never /\ e.activity >= PreferredRound + Spare - 1
  <2> SUFFICES ASSUME n = 0 PROVE ~c.selected /\ e.round = Never /\ e.activity >= PreferredRound + Spare - 1
    OBVIOUS
  <2>1. /\ ~c.selected /\ e.round = Never
        /\ e.activity >= RollbackWindow - CLIENT_CONN_TIMEOUT - z
    BY <1>1, Zenon DEF Fresh
  <2> HIDE DEF z
  <2>2. /\ CLIENT_CONN_TIMEOUT \in Nat /\ RollbackWindow \in Nat /\ e.activity \in Int
        /\ PreferredRound \in Nat
    BY Constants, Fields DEF Positive, Within
  <2>3. e.activity >= RollbackWindow - CLIENT_CONN_TIMEOUT - 2
    BY <1>2, <2>1
  <2>4. e.activity >= PreferredRound + Spare - 1
    BY <2>2, <2>3, Policy
  <2> QED BY <2>1, <2>4, Zenon
<1>4. CASE ~c.selected
  <2>1. Cycled(e, c, w) = OnCycle(e, c.cycle_reason, w)
    BY <1>4, Zenon DEF Cycled
  <2>2. c.cycle_reason \in CycleReason
    BY DEF Client
  <2>3. Reasoned(n, e, c.cycle_reason)
    BY <1>4, Zenon DEF InTime
  <2> DEFINE f == OnCycle(e, c.cycle_reason, w).e
  <2>4. Leaves(RoundsAfter(n, e, f, TRUE), e, f)
    BY <1>1, <1>3, <2>2, <2>3, CycleInTime, Zenon
  <2>5. f \in Controller
    BY <2>2, CycleChooses, Zenon DEF Chooses, Moves
  <2> QED BY <2>1, <2>4, <2>5, Zenon
<1>5. CASE c.selected
  <2>1. Cycled(e, c, w).e = e
    BY <1>5 DEF Cycled, Free
  <2> DEFINE m == RoundsAfter(n, e, e, TRUE)
  <2>2. n # 0
    BY <1>3, <1>5, Zenon
  <2>3. m = IF e.round # Never THEN n ELSE 2
    BY DEF RoundsAfter
  <2> HIDE DEF m
  <2>4. m \in {1, 2} /\ (m = 1 => n = 1 /\ e.round # Never)
    BY <2>2, <2>3
  <2>5. Ample(m, e) /\ Scheduled(m, e)
    BY <1>1, <2>4 DEF Ample, Scheduled
  <2>6. Leaves(m, e, e)
    BY <2>4, <2>5, Zenon DEF Leaves
  <2> QED BY <2>1, <2>6, Zenon DEF m
<1> QED BY <1>4, <1>5, Zenon

\* The timer begins an attempt (on_timer of a client that is Idle).
LEMMA AttemptInTime ==
  ASSUME NEW e \in Controller, NEW f \in Controller, NEW c \in Client, c.state = "Idle",
         NEW x \in [setup: BOOLEAN, ended: BOOLEAN], NEW m, Leaves(m, e, f)
  PROVE  /\ InTime(m, OnSessionEnded(f), GoIdle(SetUp(c, x), "AttemptFailed"), FALSE)
         /\ ~(x.setup /\ e.round = 0 /\ f.round = 0) => InTime(m, f, SetUp(c, x), FALSE)
<1> DEFINE s == SetUp(c, x)
           sel == ~x.setup
           st == IF x.setup THEN "Handshake" ELSE "Idle"
           g == [c EXCEPT !.cycle_reason = "AttemptFailed", !.disabled = FALSE,
                          !.selected = sel, !.state = st]
<1>1. s = g
  BY Zenon DEF SetUp
<1>2. sel \in BOOLEAN /\ st \in {"Idle", "Handshake", "Ready"} /\ "AttemptFailed" \in CycleReason
  BY Zenon DEF CycleReason
<1>3. st = "Handshake" <=> x.setup
  BY Zenon
<1>4. (st = "Idle" => sel) /\ st # "Ready"
  BY Zenon
<1> HIDE DEF sel, st
<1>5. g \in Client
  BY <1>2, Zenon DEF Client
<1>6. g.selected = sel /\ g.state = st
  BY Zenon DEF Client
<1> HIDE DEF g, s
<1>7. m \in {1, 2} /\ Ample(m, f) /\ Scheduled(m, f)
  BY Zenon DEF Leaves
<1>8. m # 0
  BY <1>7
<1>9. Reasoned(m, f, "AttemptFailed")
  BY DEF Reasoned
<1>10. InTime(m, OnSessionEnded(f), GoIdle(s, "AttemptFailed"), FALSE)
  BY <1>1, <1>5, <1>7, <1>8, <1>9, EndedInTime, Zenon
<1>11. ASSUME ~(x.setup /\ e.round = 0 /\ f.round = 0) PROVE InTime(m, f, s, FALSE)
  <2>1. Lively(f, s, FALSE)
    BY <1>1, <1>4, <1>6, Zenon DEF Lively
  <2>2. Fresh(m, f, s, FALSE)
    BY <1>8, Zenon DEF Fresh
  <2>3. Slack(FALSE) = 1
    BY DEF Slack
  <2>4. Racing(m, f, s, FALSE)
    BY <1>1, <1>3, <1>6, <1>11, <2>3, Zenon DEF Racing, Leaves
  <2>5. s.state = "Idle" => s.selected
    BY <1>1, <1>4, <1>6, Zenon
  <2> QED BY <1>7, <2>1, <2>2, <2>4, <2>5, Zenon DEF InTime
<1> QED BY <1>10, <1>11, Zenon DEF s

\* How recent the committed address is when a session with it ends.
LEMMA EndsFresh ==
  ASSUME NEW e \in Controller, NEW c \in Client, NEW n \in 0 .. 2, NEW b \in BOOLEAN,
         InTime(n, e, c, b), n = 0
  PROVE  /\ e.round = Never /\ e.current = e.committed_good
         /\ e.activity >= RollbackWindow - CLIENT_CONN_TIMEOUT - Slack(b)
<1> DEFINE z == Slack(b)
<1>1. z \in {1, 2} /\ (~b <=> z = 1)
  BY DEF Slack
<1> HIDE DEF z
<1>2. /\ e.round = Never /\ e.current = e.committed_good /\ c.state # "Handshake"
      /\ c.state = "Ready" => e.activity + c.hb >= RollbackWindow
      /\ c.state = "Idle" => e.activity >= RollbackWindow - CLIENT_CONN_TIMEOUT - z
  BY Zenon DEF InTime, Fresh, z
<1>3. c.state = "Ready" /\ ~b => c.hb <= CLIENT_CONN_TIMEOUT
  BY Zenon DEF InTime, Lively
<1>4. c.state \in {"Idle", "Handshake", "Ready"} /\ c.hb \in 0 .. CLIENT_CONN_TIMEOUT + 1
  BY DEF Client
<1>5. CLIENT_CONN_TIMEOUT \in Nat /\ RollbackWindow \in Nat /\ e.activity \in Int
  BY Constants, Fields DEF Positive, Within
<1>6. e.activity >= RollbackWindow - CLIENT_CONN_TIMEOUT - z
  BY <1>1, <1>2, <1>3, <1>4, <1>5
<1> QED BY <1>2, <1>6, Zenon DEF z

\* RSTs disabled the transport: the client is Idle, and its cycle is about to run.
LEMMA DisabledInTime ==
  ASSUME NEW e \in Controller, NEW c \in Client, NEW n \in 0 .. 2, InTime(n, e, c, TRUE)
  PROVE  InTime(n, OnSessionEnded(e), GoIdle(c, DisabledReason(c)), TRUE)
<1>1. Lively(e, c, TRUE) /\ Ample(n, e) /\ Scheduled(n, e)
  BY Zenon DEF InTime
<1>2. Reasoned(n, e, DisabledReason(c))
  <2>1. c.state = "Ready" => e.round = Never
    BY <1>1, Zenon DEF Lively
  <2> QED BY <2>1 DEF Reasoned, DisabledReason
<1>3. TRUE \in BOOLEAN
  BY Zenon
<1> QED BY <1>1, <1>2, <1>3, EndsFresh, IdleInTime, Zenon

\* on_timer keeps the client in time.
LEMMA TimerInTime ==
  ASSUME NEW e \in Controller, Fine(e), NEW c \in Client,
         c.state # "Ready" => ~e.current_authenticated,
         NEW w \in Answers, NEW x \in [setup: BOOLEAN, ended: BOOLEAN],
         NEW n \in 0 .. 2, InTime(n, e, c, TRUE)
  PROVE  LET r == OnTimer(e, c, w, x)
         IN  InTime(RoundsAfter(n, e, r.e, c.state = "Idle" \/ c.disabled), r.e, r.c, FALSE)
<1> DEFINE r == OnTimer(e, c, w, x)
           b == c.state = "Idle" \/ c.disabled
<1>1. CASE ~b
  <2>1. ~c.disabled /\ c.state # "Idle"
    BY <1>1, Zenon
  <2>2. InTime(RoundsAfter(n, e, r.e, FALSE), r.e, r.c, FALSE)
    BY <2>1, BusyInTime, Zenon
  <2> HIDE DEF r, b
  <2>3. RoundsAfter(n, e, r.e, b) = RoundsAfter(n, e, r.e, FALSE)
    BY <1>1, Zenon DEF RoundsAfter
  <2> QED BY <2>2, <2>3, Zenon DEF r, b
<1>2. CASE b
  <2> DEFINE c1 == IF c.disabled THEN GoIdle(c, DisabledReason(c)) ELSE c
             e1 == IF c.disabled THEN OnSessionEnded(e) ELSE e
             cycle == Cycled(e1, c1, w)
             f == cycle.e
             s == SetUp(c1, x)
             m == RoundsAfter(n, e1, f, TRUE)
  <2>1. /\ c1 \in Client /\ c1.state = "Idle" /\ e1 \in Controller /\ Fine(e1)
        /\ ~e1.current_authenticated /\ e1.round = e.round
        /\ InTime(n, e1, c1, TRUE)
    <3>1. CASE c.disabled
      <4>1. c1 = GoIdle(c, DisabledReason(c)) /\ e1 = OnSessionEnded(e)
        BY <3>1, Zenon
      <4> HIDE DEF c1, e1
      <4>2. DisabledReason(c) \in CycleReason
        BY DEF DisabledReason, CycleReason
      <4>3. c1 \in Client /\ c1.state = "Idle"
        BY <4>1, <4>2, IdleTyped, Zenon
      <4>4. /\ e1 \in Controller /\ SameRights(e, e1) /\ e1.current = e.current
            /\ e1.candidates = e.candidates /\ ~e1.current_authenticated
        BY <4>1, SessionEndedKeeps, Zenon
      <4>5. Fine(e1)
        BY Zenon, <4>4 DEF Fine, SameRights
      <4>6. e1.round = e.round
        BY <4>1, EndedClocks, Zenon
      <4>7. InTime(n, e1, c1, TRUE)
        BY <4>1, DisabledInTime, Zenon
      <4> QED BY <4>3, <4>4, <4>5, <4>6, <4>7, Zenon
    <3>2. CASE ~c.disabled
      <4>1. c1 = c /\ e1 = e /\ c.state = "Idle"
        BY <1>2, <3>2, Zenon
      <4>2. ~e.current_authenticated
        BY <4>1
      <4> HIDE DEF c1, e1
      <4> QED BY <4>1, <4>2, Zenon
    <3> QED BY <3>1, <3>2, Zenon
  <2>2. \/ r = [e |-> OnSessionEnded(f), c |-> GoIdle(s, "AttemptFailed"), charged |-> cycle.charged]
        \/ /\ r = [e |-> f, c |-> s, charged |-> cycle.charged]
           /\ ~(x.setup /\ e1.round = 0 /\ f.round = 0)
    <3>1. s.state = IF x.setup THEN "Handshake" ELSE "Idle"
      <4> HIDE DEF c1
      <4> QED BY <2>1 DEF SetUp, Client
    <3>2. s.state # "Ready"
      BY <3>1
    <3>3. r = LET overdue == RoundExpired(e1) /\ RoundExpired(f)
                  ended(choice, reason) ==
                    [e |-> OnSessionEnded(choice.e), c |-> GoIdle(s, reason),
                     charged |-> choice.charged]
              IN  IF s.state = "Handshake" /\ (overdue \/ (x.ended /\ c1.state = "Handshake"))
                  THEN ended(cycle, "AttemptFailed")
                  ELSE IF s.state = "Ready" /\ RollbackDue(e1, w.grant)
                  THEN ended(AuthorizeRollback(e1, w.grant), "ProbationExpired")
                  ELSE IF s.state = "Ready" /\ (s.hb > CLIENT_CONN_TIMEOUT \/ x.ended)
                  THEN ended(cycle, "SessionLost")
                  ELSE [e |-> cycle.e, c |-> s, charged |-> cycle.charged]
      <4>1. c1.state = "Idle"
        BY <2>1, Zenon
      <4> QED BY <4>1, ZenonT(60) DEF OnTimer, Cycled, SetUp
    <3> HIDE DEF r, s, c1, e1, cycle
    <3> QED BY <3>1, <3>2, <3>3, Zenon DEF RoundExpired
  <2> HIDE DEF c1, e1
  <2>3. f \in Controller /\ Leaves(m, e1, f)
    BY <2>1, CycledInTime, Zenon
  <2> HIDE DEF cycle
  <2>4. /\ InTime(m, OnSessionEnded(f), GoIdle(s, "AttemptFailed"), FALSE)
        /\ ~(x.setup /\ e1.round = 0 /\ f.round = 0) => InTime(m, f, s, FALSE)
    <3> HIDE DEF f, m
    <3> QED BY <2>1, <2>3, AttemptInTime, Zenon
  <2>5. OnSessionEnded(f).round = f.round
    BY <2>3, EndedClocks, Zenon
  <2>6. \A g : g.round = f.round => RoundsAfter(n, e, g, b) = m
    BY <1>2, <2>1, Zenon DEF RoundsAfter
  <2> HIDE DEF f, s, m
  <2>7. \/ r.e = OnSessionEnded(f) /\ r.c = GoIdle(s, "AttemptFailed")
        \/ r.e = f /\ r.c = s /\ ~(x.setup /\ e1.round = 0 /\ f.round = 0)
    <3> HIDE DEF r
    <3> QED BY <2>2
  <2> HIDE DEF r, b
  <2> QED BY <2>4, <2>5, <2>6, <2>7, Zenon DEF r, b
<1> QED BY <1>1, <1>2, Zenon

\* A run of the timer's handler keeps the client in time.
LEMMA RunsInTime ==
  ASSUME NEW e \in Controller, Fine(e), NEW c \in Client,
         c.state # "Ready" => ~e.current_authenticated,
         NEW n \in 0 .. 2, InTime(n, e, c, TRUE),
         NEW outcomes, outcomes \subseteq Outcomes(c), NEW r \in TimerRuns(e, c, outcomes)
  PROVE  InTime(RoundsAfter(n, e, r.e, c.state = "Idle" \/ c.disabled), r.e, r.c, FALSE)
<1>1. PICK w \in Worlds(c), x \in outcomes : r = OnTimer(e, c, w, x)
  BY DEF TimerRuns
<1>2. w \in Answers
  BY WorldsIn, Zenon
<1>3. x \in [setup: BOOLEAN, ended: BOOLEAN]
  BY OutcomesIn, Zenon
<1> DEFINE o == OnTimer(e, c, w, x)
<1>4. InTime(RoundsAfter(n, e, o.e, c.state = "Idle" \/ c.disabled), o.e, o.c, FALSE)
  BY <1>2, <1>3, TimerInTime, Zenon
<1> HIDE DEF o
<1>5. r = o
  BY <1>1 DEF o
<1> QED BY <1>4, <1>5, Zenon

\* What is in time now is so until the timer is late.
LEMMA InTimeLater ==
  ASSUME NEW e \in Controller, NEW c \in Client, NEW n \in 0 .. 2, NEW b \in BOOLEAN,
         NEW d \in BOOLEAN, d => b, InTime(n, e, c, d)
  PROVE  InTime(n, e, c, b)
<1>1. Slack(d) \in Nat /\ Slack(b) \in Nat /\ Slack(d) <= Slack(b)
  BY DEF Slack
<1> DEFINE y == Slack(d)
           z == Slack(b)
<1>2. e.activity \in Int /\ RollbackWindow \in Nat /\ CLIENT_CONN_TIMEOUT \in Nat /\ Spare \in Nat
  BY Fields, Constants, Policy DEF Within, Positive
<1> HIDE DEF y, z
<1>3. y \in Nat /\ z \in Nat /\ y <= z
  BY <1>1 DEF y, z
<1>4. e.activity >= RollbackWindow - CLIENT_CONN_TIMEOUT - y
        => e.activity >= RollbackWindow - CLIENT_CONN_TIMEOUT - z
  BY <1>2, <1>3
<1>5. e.activity >= Spare - y => e.activity >= Spare - z
  BY <1>2, <1>3
<1>6. Lively(e, c, b)
  BY Zenon DEF InTime, Lively
<1>7. Fresh(n, e, c, b)
  BY <1>4, Zenon DEF InTime, Fresh, y, z
<1>8. Racing(n, e, c, b)
  BY <1>5, Zenon DEF InTime, Racing, y, z
<1> QED BY <1>6, <1>7, <1>8, Zenon DEF InTime

\* The RSTs disable the transport, and its time goes on.
LEMMA RstsInTime ==
  ASSUME NEW d \in Client, NEW c \in AfterRsts(d), NEW n, NEW e, NEW b, InTime(n, e, d, b)
  PROVE  InTime(n, e, c, b)
<1>1. CASE c = d
  BY <1>1
<1>2. CASE c = [d EXCEPT !.disabled = TRUE]
  <2>1. /\ c.state = d.state /\ c.hb = d.hb /\ c.selected = d.selected
        /\ c.cycle_reason = d.cycle_reason
    BY <1>2, Zenon DEF Client
  <2> QED BY <2>1, Zenon DEF InTime, Lively, Fresh, Racing
<1> QED BY <1>1, <1>2, Zenon DEF AfterRsts

\* on_authenticated_activity moves one clock of these, with the committed address.
LEMMA ActivityClocks ==
  ASSUME NEW e \in Controller, NEW isData \in BOOLEAN
  PROVE  LET f == OnActivity(e, isData) IN
         /\ f.round = e.round /\ f.probation.rollback_at = e.probation.rollback_at
         /\ f.activity = IF e.current_authenticated /\ e.committed_good = e.current
                         THEN RollbackWindow ELSE e.activity
<1> DEFINE s == IF e.current_authenticated /\ e.committed_good = e.current
                THEN [e EXCEPT !.activity = RollbackWindow] ELSE e
           afresh == e.probation.packets = 0 \/ e.probation.idle > MaxGap
           n == IF afresh THEN 1
                ELSE Smaller(s.probation.packets + 1, MIN_PROMOTION_DATA_PACKETS)
           t == IF afresh THEN 0
                ELSE Smaller(s.probation.span + e.probation.idle, ProbationTime)
           p == [s.probation EXCEPT !.idle = 0, !.packets = n, !.span = t]
           g == [s EXCEPT !.probation = p]
<1>1. RollbackWindow \in Within(RollbackWindow)
  BY Constants DEF Within, Positive
<1>2. s \in Controller
  BY <1>1, Zenon DEF Controller
<1>3. /\ s.round = e.round /\ s.probation = e.probation
      /\ s.activity = IF e.current_authenticated /\ e.committed_good = e.current
                      THEN RollbackWindow ELSE e.activity
  BY DEF Controller
<1> HIDE DEF s
<1>4. s.probation \in Probation
  BY <1>2, Fields
<1>5. OnActivity(e, isData) = IF ~isData \/ ~OnProbation(e) THEN s ELSE g
  BY <1>2, <1>4, ZenonT(60) DEF OnActivity, Controller, Probation, s
<1> HIDE DEF n, t
<1>6. p.rollback_at = s.probation.rollback_at
  BY <1>4 DEF Probation
<1> HIDE DEF p
<1>7. g.round = s.round /\ g.probation = p /\ g.activity = s.activity
  BY <1>2 DEF Controller
<1> HIDE DEF g
<1> QED BY <1>3, <1>5, <1>6, <1>7, Zenon

\* A heartbeat sets the session's clock and the activity's together; nothing else sets the
\* session's (on_safer_packet with hb_mode 1).
LEMMA PacketInTime ==
  ASSUME hb_mode = 1, NEW kind, NEW e \in Controller, NEW c \in Client,
         c.state # "Ready" => ~e.current_authenticated,
         NEW n \in 0 .. 2, NEW b \in BOOLEAN, InTime(n, e, c, b)
  PROVE  InTime(n, ShownBy(kind, e), HeardBy(kind, c), b)
<1> DEFINE f == ShownBy(kind, e)
           d == HeardBy(kind, c)
           z == Slack(b)
<1>1. f \in Controller /\ Kept(e, f)
  BY ShownKeeps
<1>2. /\ f.round = e.round /\ f.probation.rollback_at = e.probation.rollback_at
      /\ f.activity = IF kind # "unknown" /\ e.current_authenticated /\ e.committed_good = e.current
                      THEN RollbackWindow ELSE e.activity
  <2>1. (kind = "data") \in BOOLEAN
    BY Zenon
  <2>2. CASE kind = "unknown"
    BY <2>2, Zenon DEF ShownBy
  <2>3. CASE kind # "unknown"
    BY <2>1, <2>3, ActivityClocks, Zenon DEF ShownBy
  <2> QED BY <2>2, <2>3, Zenon
<1>3. /\ d.state = c.state /\ d.selected = c.selected /\ d.cycle_reason = c.cycle_reason
      /\ d.hb = IF kind = "heartbeat" THEN 0 ELSE c.hb
  BY DEF HeardBy, Client
<1>4. c.hb \in Nat /\ e.activity \in Within(RollbackWindow) /\ RollbackWindow \in Nat
      /\ CLIENT_CONN_TIMEOUT \in Nat /\ Spare \in Nat /\ z \in Nat /\ e.round \in Int
  BY Fields, Constants, Policy DEF Within, Positive, Client, Slack
<1> HIDE DEF f, d, z
<1>5. f.activity >= e.activity /\ f.activity \in Int /\ e.activity \in Int
  BY <1>2, <1>4 DEF Within
<1>6. /\ f.current = e.current /\ f.committed_good = e.committed_good
      /\ f.current_authenticated = e.current_authenticated
      /\ f.probation.candidate = e.probation.candidate
      /\ f.probation.rollback_authorized = e.probation.rollback_authorized
  BY <1>1, Zenon DEF Kept, SameRights, SameAddress
<1>7. /\ Lively(e, c, b) /\ Fresh(n, e, c, b) /\ Racing(n, e, c, b)
      /\ Ample(n, e) /\ Scheduled(n, e)
      /\ c.state = "Idle" /\ ~c.selected => Reasoned(n, e, c.cycle_reason)
  BY Zenon DEF InTime
<1>8. Lively(f, d, b)
  BY <1>2, <1>3, <1>4, <1>7 DEF Lively
<1>9. Fresh(n, f, d, b)
  <2> SUFFICES ASSUME n = 0 PROVE Fresh(n, f, d, b)
    BY DEF Fresh
  <2>1. /\ e.round = Never /\ e.current = e.committed_good /\ c.state # "Handshake"
        /\ c.state = "Ready" => e.current_authenticated /\ e.activity + c.hb >= RollbackWindow
        /\ c.state = "Idle" =>
             ~c.selected /\ e.activity >= RollbackWindow - CLIENT_CONN_TIMEOUT - z
    BY <1>7, Zenon DEF Fresh, z
  <2>2. c.state = "Ready" => f.activity + d.hb >= RollbackWindow
    <3>1. c.state = "Ready" /\ kind = "heartbeat" => f.activity = RollbackWindow /\ d.hb = 0
      BY <1>2, <1>3, <2>1
    <3>2. kind # "heartbeat" => d.hb = c.hb
      BY <1>3
    <3> QED BY <1>4, <1>5, <2>1, <3>1, <3>2
  <2>3. c.state = "Idle" => f.activity >= RollbackWindow - CLIENT_CONN_TIMEOUT - z
    BY <1>4, <1>5, <2>1
  <2> QED BY <1>2, <1>3, <1>6, <2>1, <2>2, <2>3, Zenon DEF Fresh, z
<1>10. Racing(n, f, d, b)
  <2>1. e.activity >= Spare - z => f.activity >= Spare - z
    BY <1>4, <1>5
  <2> QED BY <1>2, <1>3, <1>6, <1>7, <2>1, Zenon DEF Racing, z
<1>11. Ample(n, f)
  <2>1. e.activity >= e.round + Spare - 1 => f.activity >= e.round + Spare - 1
    BY <1>4, <1>5
  <2> QED BY <1>2, <1>7, <2>1, Zenon DEF Ample
<1>12. Scheduled(n, f)
  BY <1>2, <1>6, <1>7, Zenon DEF Scheduled
<1>13. d.state = "Idle" /\ ~d.selected => Reasoned(n, f, d.cycle_reason)
  BY <1>2, <1>3, <1>6, <1>7, Zenon DEF Reasoned
<1> QED BY <1>8, <1>9, <1>10, <1>11, <1>12, <1>13, Zenon DEF InTime, f, d

-----------------------------------------------------------------------------
(* The first round, step by step.                                          *)

\* The client is in time, from what the rounds count, the session's clock and the timer.
\* With hb_mode 1 this is inductive, together with EInv.
FInv == InTime(rounds, ep, cl, due)

\* A process that starts is past the first round (bootstrap).
LEMMA FreshInTime ==
  ASSUME NEW e, NEW b PROVE InTime(2, e, FreshClient, b)
<1>1. FreshClient.state = "Idle" /\ FreshClient.cycle_reason = "Startup"
  BY DEF FreshClient
<1> QED BY <1>1 DEF InTime, Lively, Fresh, Racing, Ample, Scheduled, Reasoned

\* The timer (on_timer).
LEMMA TimerFInv == ASSUME EInv, FInv, Timer PROVE FInv'
<1>0. EndpointTypeOK /\ Fine(ep) /\ (cl.state # "Ready" => ~ep.current_authenticated)
  BY DEF EInv
<1>1. ep \in Controller /\ cl \in Client /\ rounds \in 0 .. 2
  BY <1>0, Typed
<1>2. PICK c \in AfterRsts(cl) : \E r \in TimerRuns(ep, c, Outcomes(c)) :
        /\ ep' = r.e /\ cl' = r.c
        /\ NoteRound(rounds, ep, r.e, c.state = "Idle" \/ c.disabled)
  BY Zenon DEF Timer
<1>3. PICK r \in TimerRuns(ep, c, Outcomes(c)) :
        /\ ep' = r.e /\ cl' = r.c
        /\ NoteRound(rounds, ep, r.e, c.state = "Idle" \/ c.disabled)
  BY <1>2, Zenon
<1>4. c \in Client /\ c.state = cl.state
  BY <1>1, RstsKeep
<1>5. due = TRUE /\ due' = FALSE
  <2>1. due \in BOOLEAN
    BY <1>0, Typed
  <2> QED BY <2>1, Zenon DEF Timer
<1>6. InTime(rounds, ep, c, TRUE)
  BY <1>1, <1>5, RstsInTime, Zenon DEF FInv
<1>7. InTime(RoundsAfter(rounds, ep, r.e, c.state = "Idle" \/ c.disabled), r.e, r.c, FALSE)
  BY <1>0, <1>1, <1>4, <1>6, RunsInTime, Zenon
<1>8. rounds' = RoundsAfter(rounds, ep, r.e, c.state = "Idle" \/ c.disabled)
  BY <1>3, Zenon DEF NoteRound, RoundsAfter
<1> QED BY <1>3, <1>5, <1>7, <1>8, Zenon DEF FInv

\* An interval passes: the clocks run down together, and the timer is late by one.
LEMMA TickFInv == ASSUME EInv, FInv, Tick PROVE FInv'
<1>0. EndpointTypeOK
  BY DEF EInv
<1>1. ep \in Controller /\ cl \in Client /\ due \in BOOLEAN
  BY <1>0, Typed
<1>2. due = FALSE /\ due' = TRUE /\ rounds' = rounds /\ ep' = Elapse(ep, 1)
  BY <1>1, Zenon DEF Tick, history
<1> DEFINE n == IF cl.state = "Ready" THEN Smaller(cl.hb + 1, CLIENT_CONN_TIMEOUT + 1) ELSE 0
<1>3. cl' = [cl EXCEPT !.hb = n]
  BY <1>1, Zenon DEF Tick, Client
<1>4. cl.state = "Ready" /\ cl.hb <= CLIENT_CONN_TIMEOUT => n = cl.hb + 1
  BY <1>1, Constants DEF Client, Smaller
<1> HIDE DEF n
<1>5. /\ cl'.state = cl.state /\ cl'.hb = n /\ cl'.selected = cl.selected
      /\ cl'.cycle_reason = cl.cycle_reason
  BY <1>1, <1>3 DEF Client
<1>6. /\ ep'.activity = Left(ep.activity, 1) /\ ep'.round = Due(ep.round, 1)
      /\ ep'.probation.rollback_at = Due(ep.probation.rollback_at, 1)
      /\ Kept(ep, ep')
  <2>1. 1 \in Nat
    OBVIOUS
  <2> QED BY <1>1, <1>2, <2>1, ElapseClocks, ElapseKeeps, Zenon
<1>7. /\ ep.activity \in Int /\ ep.round \in Int /\ ep.round >= Never
      /\ ep.probation.rollback_at \in Int /\ cl.hb \in Nat
      /\ RollbackWindow \in Nat /\ CLIENT_CONN_TIMEOUT \in Nat /\ Spare \in Nat
  BY <1>1, Fields, Constants, Policy DEF Within, Positive, Client
<1>8. ep'.activity \in Int /\ ep'.activity >= ep.activity - 1
  BY <1>6, <1>7 DEF Left, Never
<1>9. /\ ep'.round \in Int /\ (ep'.round = Never <=> ep.round = Never)
      /\ ep'.round > 0 => ep.round = ep'.round + 1
      /\ ep'.round = 0 => ep.round \in {0, 1}
      /\ ep'.probation.rollback_at = Never => ep.probation.rollback_at = Never
  BY <1>6, <1>7 DEF Due, Larger, Never
<1>10. /\ ep'.current = ep.current /\ ep'.committed_good = ep.committed_good
       /\ ep'.current_authenticated = ep.current_authenticated
       /\ ep'.probation.candidate = ep.probation.candidate
       /\ ep'.probation.rollback_authorized = ep.probation.rollback_authorized
  BY <1>6, Zenon DEF Kept, SameRights, SameAddress
<1>11. /\ Lively(ep, cl, FALSE) /\ Fresh(rounds, ep, cl, FALSE)
       /\ Racing(rounds, ep, cl, FALSE) /\ Ample(rounds, ep) /\ Scheduled(rounds, ep)
       /\ cl.state = "Idle" /\ ~cl.selected => Reasoned(rounds, ep, cl.cycle_reason)
  BY <1>2, Zenon DEF FInv, InTime
<1>12. Slack(FALSE) = 1 /\ Slack(TRUE) = 2
  BY DEF Slack
<1>13. Lively(ep', cl', TRUE)
  BY <1>5, <1>9, <1>11, Zenon DEF Lively
<1>14. Fresh(rounds, ep', cl', TRUE)
  <2> SUFFICES ASSUME rounds = 0 PROVE Fresh(rounds, ep', cl', TRUE)
    BY Zenon DEF Fresh
  <2>1. /\ ep.round = Never /\ ep.current = ep.committed_good /\ cl.state # "Handshake"
        /\ cl.state = "Ready" =>
             ep.current_authenticated /\ ep.activity + cl.hb >= RollbackWindow
        /\ cl.state = "Idle" =>
             ~cl.selected /\ ep.activity >= RollbackWindow - CLIENT_CONN_TIMEOUT - 1
    BY <1>11, <1>12, Zenon DEF Fresh
  <2>2. cl.state = "Ready" => cl.hb <= CLIENT_CONN_TIMEOUT
    BY <1>11, Zenon DEF Lively
  <2>3. cl.state = "Ready" => ep'.activity + cl'.hb >= RollbackWindow
    <3>1. cl.state = "Ready" => cl'.hb = cl.hb + 1
      BY <1>4, <1>5, <2>2
    <3> QED BY <1>7, <1>8, <2>1, <3>1
  <2>4. cl.state = "Idle" => ep'.activity >= RollbackWindow - CLIENT_CONN_TIMEOUT - 2
    BY <1>7, <1>8, <2>1
  <2> QED BY <1>5, <1>9, <1>10, <1>12, <2>1, <2>3, <2>4, Zenon DEF Fresh
<1>15. Racing(rounds, ep', cl', TRUE)
  <2> SUFFICES ASSUME rounds = 1, cl.state = "Handshake" PROVE Racing(rounds, ep', cl', TRUE)
    BY <1>5, Zenon DEF Racing
  <2>1. /\ ep.round # Never
        /\ ep.round = 0 /\ ep.current # ep.committed_good => ep.activity >= Spare - 1
    BY <1>11, <1>12, Zenon DEF Racing
  <2>2. ep.round = 1 => ep.activity >= Spare
    BY <1>7, <1>11 DEF Ample
  <2>3. ep'.round = 0 /\ ep'.current # ep'.committed_good => ep'.activity >= Spare - 2
    <3>1. ep'.round = 0 /\ ep.current # ep.committed_good => ep.activity >= Spare - 1
      BY <1>7, <1>9, <2>1, <2>2
    <3> QED BY <1>7, <1>8, <1>10, <3>1
  <2> QED BY <1>9, <1>12, <2>1, <2>3, Zenon DEF Racing
<1>16. Ample(rounds, ep')
  BY <1>7, <1>8, <1>9, <1>11 DEF Ample
<1>17. Scheduled(rounds, ep')
  BY <1>9, <1>10, <1>11, Zenon DEF Scheduled
<1>18. cl'.state = "Idle" /\ ~cl'.selected => Reasoned(rounds, ep', cl'.cycle_reason)
  BY <1>5, <1>9, <1>10, <1>11, Zenon DEF Reasoned
<1> QED BY <1>2, <1>13, <1>14, <1>15, <1>16, <1>17, <1>18, Zenon DEF FInv, InTime

\* A packet of a session (on_safer_packet).
LEMMA PacketFInv == ASSUME hb_mode = 1, EInv, FInv, NEW kind, Packet(kind) PROVE FInv'
<1>0. EndpointTypeOK /\ (cl.state # "Ready" => ~ep.current_authenticated)
  BY DEF EInv
<1>1. ep \in Controller /\ cl \in Client /\ due \in BOOLEAN /\ rounds \in 0 .. 2
  BY <1>0, Typed
<1>2. /\ ep' = ShownBy(kind, ep) /\ cl' = HeardBy(kind, cl)
      /\ due' = due /\ rounds' = rounds
  BY Zenon DEF Packet
<1>3. InTime(rounds, ShownBy(kind, ep), HeardBy(kind, cl), due)
  BY <1>0, <1>1, PacketInTime, Zenon DEF FInv
<1> QED BY <1>2, <1>3, Zenon DEF FInv

\* A candidate of the first round authenticates while its probation still fits, and the
\* rollback is scheduled (on_authenticated).
LEMMA AuthenticatedInTime ==
  ASSUME NEW e \in Controller, Fine(e), NEW c \in Client, c.state = "Handshake",
         NEW n \in 0 .. 2, NEW b \in BOOLEAN, InTime(n, e, c, b),
         NEW d \in Client, d.state = "Ready", d.hb = 0
  PROVE  LET a == OnAuthenticated(e)
         IN  InTime(IF a.committed_good = a.current THEN 0 ELSE n, a, d, TRUE)
<1> DEFINE s == [e EXCEPT !.current_authenticated = TRUE,
                     !.reconnect_refresh_pending = FALSE, !.backoff = 0,
                     !.failures = 0, !.attempts = 0, !.round = Never]
           p == [NoProbation EXCEPT
                  !.candidate = e.current, !.rollback = e.committed_good,
                  !.direct_return = e.attended_cutover, !.rollback_at = RollbackAt(e)]
           g == [s EXCEPT !.attended_cutover = FALSE, !.probation = p]
           a == OnAuthenticated(e)
           m == IF a.committed_good = a.current THEN 0 ELSE n
<1>1. a = IF CommitsAtOnce(e) THEN Commit(s) ELSE g
  BY Zenon DEF OnAuthenticated
<1>2. /\ 0 \in 0 .. BackoffMax /\ 0 \in 0 .. AfterFailures
      /\ 0 \in 0 .. MAX_ENDPOINT_CANDIDATES /\ Never \in Within(PreferredRound)
  BY Constants DEF Within, Positive
<1>3. s \in Controller
  BY <1>2, ZenonT(60) DEF Controller
<1>4. /\ s.round = Never /\ s.current = e.current /\ s.committed_good = e.committed_good
      /\ s.current_authenticated = TRUE
  BY DEF Controller
<1> HIDE DEF s
<1>5. /\ Fresh(n, e, c, b) /\ Racing(n, e, c, b) /\ Ample(n, e)
  BY Zenon DEF InTime
<1>6. n # 0
  BY <1>5 DEF Fresh
<1>7. d.state # "Idle" /\ d.state # "Handshake"
  OBVIOUS
<1>8. CASE CommitsAtOnce(e)
  <2> DEFINE f == Commit(s)
  <2>1. a = f
    BY <1>1, <1>8, Zenon
  <2>2. /\ f.round = s.round /\ f.current = s.current /\ f.committed_good = s.current
        /\ f.current_authenticated = s.current_authenticated
        /\ f.activity = RollbackWindow /\ f.probation = NoProbation
    BY <1>3 DEF Commit, Controller
  <2>3. NoProbation.candidate = NoAddr
    BY DEF NoProbation
  <2> HIDE DEF f, a
  <2>4. m = 0
    BY <2>1, <2>2
  <2>5. Lively(f, d, TRUE)
    BY <1>4, <2>2, Zenon DEF Lively
  <2>6. Fresh(0, f, d, TRUE)
    <3>1. f.activity + d.hb >= RollbackWindow
      BY <2>2, Constants DEF Positive
    <3> QED BY <1>4, <1>7, <2>2, <3>1, Zenon DEF Fresh
  <2>7. Racing(0, f, d, TRUE) /\ Ample(0, f)
    BY DEF Racing, Ample
  <2>8. Scheduled(0, f)
    BY <2>2, <2>3, Zenon DEF Scheduled
  <2>9. InTime(0, f, d, TRUE)
    BY <1>7, <2>5, <2>6, <2>7, <2>8, Zenon DEF InTime
  <2> HIDE DEF m
  <2> QED BY <2>1, <2>4, <2>9, Zenon DEF m, a
<1>9. CASE ~CommitsAtOnce(e)
  <2>1. a = g
    BY <1>1, <1>9, Zenon
  <2>2. p.rollback_at = RollbackAt(e)
    BY Zenon DEF NoProbation
  <2> HIDE DEF p
  <2>3. /\ g.round = s.round /\ g.current = s.current /\ g.committed_good = s.committed_good
        /\ g.probation = p
    BY Zenon, <1>3 DEF Controller
  <2> HIDE DEF g, a
  <2>4. e.enabled /\ e.committed_good # NoAddr /\ e.committed_good # e.current
    BY <1>9 DEF CommitsAtOnce
  <2>5. m = n
    BY <1>4, <2>1, <2>3, <2>4
  <2>6. Lively(g, d, TRUE)
    BY <1>4, <2>3, Zenon DEF Lively
  <2>7. Fresh(n, g, d, TRUE) /\ Racing(n, g, d, TRUE)
    BY <1>6, <1>7, Zenon DEF Fresh, Racing
  <2>8. Ample(n, g)
    BY <1>4, <2>3 DEF Ample, Never
  <2>9. Scheduled(n, g)
    <3> SUFFICES ASSUME n = 1 PROVE p.rollback_at # Never
      <4>1. n <= 1 => n = 1
        BY <1>6
      <4> QED BY Zenon, <4>1, <2>3 DEF Scheduled
    <3>1. /\ e.activity \in Int /\ e.cache_fresh \in Int /\ e.round \in Int /\ e.round >= Never
          /\ RollbackWindow \in Nat /\ ProbationTime \in Nat
      BY Fields, Constants DEF Within, Positive
    <3> DEFINE z == Slack(b)
    <3>2. z \in {1, 2}
      BY DEF Slack
    <3>3. e.round # Never /\ (e.round = 0 => e.activity >= Spare - z)
      BY <1>5, <2>4, Zenon DEF Racing
    <3> HIDE DEF z
    <3>4. e.activity >= Spare - 2
      <4>1. e.round > 0 => e.activity >= e.round + Spare - 1
        BY <1>5, Zenon DEF Ample
      <4> QED BY <3>1, <3>2, <3>3, <4>1, Policy DEF Never
    <3>5. Health(e) \in Int /\ Health(e) >= ProbationTime + Grace
      BY <2>4, <3>1, <3>4, Policy DEF Health, Larger, Grace
    <3>6. ProbationTime + Grace < RollbackWindow
      BY <3>1, Policy, Constants DEF Positive, Grace
    <3> HIDE DEF Health
    <3> QED BY <2>2, <3>1, <3>5, <3>6 DEF RollbackAt, Smaller, Grace, Never
  <2>10. InTime(n, g, d, TRUE)
    BY <1>7, <2>6, <2>7, <2>8, <2>9, Zenon DEF InTime
  <2> HIDE DEF m
  <2> QED BY <2>1, <2>5, <2>10, Zenon DEF m, a
<1> QED BY <1>8, <1>9, Zenon

\* The first sealed packet (on_authenticated, and the timer's handler).
LEMMA FirstPacketFInv ==
  ASSUME hb_mode = 1, EInv, FInv, NEW kind, FirstPacket(kind) PROVE FInv'
<1>0. EndpointTypeOK /\ Fine(ep)
  BY DEF EInv
<1>1. ep \in Controller /\ cl \in Client /\ due \in BOOLEAN /\ rounds \in 0 .. 2
  BY <1>0, Typed
<1> DEFINE a == OnAuthenticated(ep)
           commits == a.committed_good = a.current
           d == [cl EXCEPT !.state = "Ready", !.hb = 0]
           n == IF commits THEN 0 ELSE rounds
           Chosen(c, r) ==
             /\ ep' = ShownBy(kind, r.e) /\ cl' = HeardBy(kind, r.c)
             /\ NoteRound(n, a, r.e, c.disabled)
<1>2. PICK c \in AfterRsts(d) :
        \E r \in TimerRuns(a, c, {x \in Outcomes(c) : ~x.ended}) : Chosen(c, r)
  BY Zenon DEF FirstPacket
<1>3. PICK r \in TimerRuns(a, c, {x \in Outcomes(c) : ~x.ended}) : Chosen(c, r)
  BY <1>2, Zenon
<1>4. cl.state = "Handshake" /\ due' = due
  BY Zenon DEF FirstPacket
<1>5. a \in Controller /\ Fine(a)
  BY <1>0, <1>1, AuthenticatedKeeps, Zenon
<1>6. d \in Client /\ d.state = "Ready" /\ d.hb = 0
  <2>1. 0 \in 0 .. CLIENT_CONN_TIMEOUT + 1
    BY Constants
  <2>2. d \in Client
    BY <1>1, <2>1, Zenon DEF Client
  <2> QED BY <1>1, <2>2 DEF Client
<1> HIDE DEF d
<1>7. InTime(n, a, d, TRUE)
  BY <1>0, <1>1, <1>4, <1>6, AuthenticatedInTime, Zenon DEF FInv
<1>8. n \in 0 .. 2
  BY <1>1
<1> HIDE DEF a, n
<1>9. c \in Client /\ c.state = "Ready"
  BY <1>6, RstsKeep
<1>10. InTime(n, a, c, TRUE)
  BY <1>6, <1>7, RstsInTime, Zenon
<1> DEFINE out == {x \in Outcomes(c) : ~x.ended}
<1>11. out \subseteq Outcomes(c) /\ r \in TimerRuns(a, c, out)
  BY Zenon
<1> HIDE DEF out
<1>12. c.state # "Ready" => ~a.current_authenticated
  BY <1>9
<1>13. /\ r.c \in Client /\ Moves(a, r.e, r.charged)
       /\ r.c.state # "Ready" => ~r.e.current_authenticated
  BY <1>5, <1>9, <1>11, <1>12, RunsMove, Zenon
<1>14. r.e \in Controller
  BY <1>13, Zenon DEF Moves
<1> DEFINE b == c.state = "Idle" \/ c.disabled
           m == RoundsAfter(n, a, r.e, b)
<1>15. InTime(m, r.e, r.c, FALSE)
  BY <1>5, <1>8, <1>9, <1>10, <1>11, <1>12, RunsInTime, Zenon
<1>16. rounds' = m
  <2>1. c.state # "Idle"
    BY <1>9
  <2> QED BY <1>3, <2>1, Zenon DEF NoteRound, RoundsAfter
<1>17. m \in 0 .. 2
  BY <1>8 DEF RoundsAfter, Smaller
<1> HIDE DEF m
<1>18. InTime(m, r.e, r.c, due)
  <2>1. FALSE \in BOOLEAN
    BY Zenon
  <2> QED BY <1>1, <1>13, <1>14, <1>15, <1>17, <2>1, InTimeLater, Zenon
<1>19. InTime(m, ShownBy(kind, r.e), HeardBy(kind, r.c), due)
  BY <1>1, <1>13, <1>14, <1>17, <1>18, PacketInTime, Zenon
<1> QED BY <1>3, <1>4, <1>16, <1>19, Zenon DEF FInv

\* The operator's reconnect (on_fifo, request_refresh).
LEMMA ReconnectFInv == ASSUME EInv, FInv, Reconnect PROVE FInv'
<1>0. EndpointTypeOK
  BY DEF EInv
<1>1. ep \in Controller /\ cl \in Client /\ due \in BOOLEAN /\ rounds \in 0 .. 2
  BY <1>0, Typed
<1> DEFINE f == RequestRefresh(ep)
<1>2. ep' = OnSessionEnded(f) /\ due' = due /\ rounds' = rounds
  BY Zenon DEF Reconnect
<1>3. PICK c \in AfterRsts(cl) : cl' = GoIdle(c, "Forced")
  BY Zenon DEF Reconnect
<1>4. c \in Client
  BY <1>1, RstsKeep
<1>5. /\ f \in Controller /\ SameAddress(ep, f) /\ f.committed_good = ep.committed_good
      /\ f.probation = ep.probation
  BY <1>1, RefreshKeeps, Zenon
<1>6. f.activity = ep.activity /\ f.round = ep.round
  BY <1>1 DEF RequestRefresh, Controller
<1> HIDE DEF f
<1>7. Ample(rounds, f) /\ Scheduled(rounds, f)
  BY <1>5, <1>6, Zenon DEF FInv, InTime, Ample, Scheduled
<1>8. Reasoned(rounds, f, "Forced")
  BY DEF Reasoned
<1>9. rounds = 0 => /\ f.round = Never /\ f.current = f.committed_good
                    /\ f.activity >= RollbackWindow - CLIENT_CONN_TIMEOUT - Slack(due)
  BY <1>1, <1>5, <1>6, EndsFresh, Zenon DEF FInv, SameAddress
<1>10. InTime(rounds, OnSessionEnded(f), GoIdle(c, "Forced"), due)
  BY <1>4, <1>5, <1>7, <1>8, <1>9, IdleInTime, Zenon
<1> QED BY <1>2, <1>3, <1>10, Zenon DEF FInv

\* The operator's promotion of a candidate (promote_candidate).
LEMMA PromoteFInv == ASSUME EInv, FInv, Promote PROVE FInv'
<1>0. EndpointTypeOK /\ (cl.state # "Ready" => ~ep.current_authenticated)
  BY DEF EInv
<1>1. ep \in Controller /\ cl \in Client
  BY <1>0, Typed
<1> DEFINE f == Commit(ep)
<1>2. ep' = f /\ rounds' = 0 /\ cl' = cl /\ due' = due
  BY Zenon DEF Promote
<1>3. ep.current_authenticated
  BY Zenon DEF Promote, MayPromote
<1>4. /\ f.current = ep.current /\ f.committed_good = ep.current /\ f.round = ep.round
      /\ f.activity = RollbackWindow /\ f.probation = NoProbation
      /\ f.current_authenticated = ep.current_authenticated
  BY <1>1 DEF Commit, Controller
<1> HIDE DEF f
<1>5. cl.state = "Ready" /\ NoProbation.candidate = NoAddr
  BY <1>0, <1>3 DEF NoProbation
<1>6. cl.state # "Idle" /\ cl.state # "Handshake"
  BY <1>5
<1>7. Lively(f, cl, due) /\ f.round = Never
  BY <1>4, <1>5, Zenon DEF FInv, InTime, Lively
<1>8. f.activity + cl.hb >= RollbackWindow
  BY <1>1, <1>4, Constants DEF Client, Positive
<1>9. Fresh(0, f, cl, due)
  BY <1>3, <1>4, <1>6, <1>7, <1>8, Zenon DEF Fresh
<1>10. Racing(0, f, cl, due) /\ Ample(0, f)
  BY DEF Racing, Ample
<1>11. Scheduled(0, f)
  BY <1>4, <1>5, Zenon DEF Scheduled
<1> QED BY <1>2, <1>6, <1>7, <1>9, <1>10, <1>11, Zenon DEF FInv, InTime

\* The operator's rollback (authorize_operator_rollback).
LEMMA RollbackFInv == ASSUME EInv, FInv, Rollback PROVE FInv'
<1>0. EndpointTypeOK /\ Fine(ep)
  BY DEF EInv
<1>1. ep \in Controller /\ cl \in Client /\ rounds \in 0 .. 2
  BY <1>0, Typed
<1>2. PICK grant \in BOOLEAN :
        MayRollBack(ep, grant) /\ ep' = OnSessionEnded(AuthorizeRollback(ep, grant).e)
  BY Zenon DEF Rollback
<1> DEFINE f == AuthorizeRollback(ep, grant).e
<1>3. due' = due /\ rounds' = rounds
  BY Zenon DEF Rollback
<1>4. PICK c \in AfterRsts(cl) : cl' = GoIdle(c, "OperatorRollback")
  BY Zenon DEF Rollback
<1>5. c \in Client
  BY <1>1, RstsKeep
<1>6. f \in Controller
  <2>1. Moves(ep, f, AuthorizeRollback(ep, grant).charged)
    BY <1>0, <1>1, <1>2, AuthorizeMoves, Zenon
  <2> QED BY <2>1, Zenon DEF Moves
<1>7. /\ f.activity = ep.activity /\ f.round = ep.round
      /\ f.probation.candidate = ep.probation.candidate
      /\ f.probation.rollback_at = ep.probation.rollback_at
      /\ f.probation.rollback_authorized = TRUE
  BY <1>1, AuthorizeClocks, ZenonT(60)
<1>8. ep' = OnSessionEnded(f)
  BY <1>2, Zenon
<1> HIDE DEF f
<1>9. ep.probation.candidate # NoAddr /\ ep.current # ep.committed_good
  BY <1>0, <1>2, Zenon DEF MayRollBack, OnProbation, Fine
<1>10. rounds # 0
  BY <1>9, Zenon DEF FInv, InTime, Fresh
<1>11. Ample(rounds, f) /\ Scheduled(rounds, f)
  BY <1>7, Zenon DEF FInv, InTime, Ample, Scheduled
<1>12. Reasoned(rounds, f, "OperatorRollback")
  BY <1>7, <1>9 DEF Reasoned
<1>13. InTime(rounds, OnSessionEnded(f), GoIdle(c, "OperatorRollback"), due)
  BY <1>5, <1>6, <1>10, <1>11, <1>12, IdleInTime, Zenon
<1> QED BY <1>3, <1>4, <1>8, <1>13, Zenon DEF FInv

\* Every step keeps the client in time.
LEMMA NextFInv == ASSUME hb_mode = 1 PROVE EInv /\ FInv /\ [Next]_vars => FInv'
<1> SUFFICES ASSUME EInv, FInv, [Next]_vars PROVE FInv'
  OBVIOUS
<1>1. ASSUME NEW kind, FirstPacket(kind) \/ Packet(kind) PROVE FInv'
  BY <1>1, FirstPacketFInv, PacketFInv, Zenon
<1>2. CASE Restart
  <2>1. cl' = FreshClient /\ rounds' = 2
    BY <1>2, Zenon DEF Restart
  <2> QED BY <2>1, FreshInTime, Zenon DEF FInv
<1>3. CASE UNCHANGED vars
  BY <1>3, Zenon DEF vars, history, FInv
<1> QED BY <1>1, <1>2, <1>3, TimerFInv, TickFInv, ReconnectFInv, PromoteFInv,
           RollbackFInv, Zenon DEF Next

\* With hb_mode 1, a candidate that authenticates in the first round after a session with
\* the committed address has its rollback scheduled, for every configuration config.rs
\* accepts (on_authenticated, on_timer, start_preferred_round).
THEOREM FirstRoundScheduled == ASSUME hb_mode = 1 PROVE Spec => []FirstRoundReturnable
<1>1. Init => FInv
  <2> SUFFICES ASSUME Init PROVE FInv
    OBVIOUS
  <2>1. cl = FreshClient /\ rounds = 2
    BY Zenon DEF Init
  <2> QED BY <2>1, FreshInTime, Zenon DEF FInv
<1>2. EInv /\ FInv /\ [Next]_vars => FInv'
  BY NextFInv, Zenon
<1>3. FInv => FirstRoundReturnable
  BY Zenon DEF FInv, InTime, Scheduled, FirstRoundReturnable
<1> QED BY <1>1, <1>2, <1>3, EndpointInvariant, PTL DEF Spec

=============================================================================
