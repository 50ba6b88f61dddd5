----------------------------- MODULE Endpoint -----------------------------
(***************************************************************************)
(* A client whose relay is a host name (src/client.rs with                 *)
(* src/endpoint.rs): sessions that come and go, the timer that ends them   *)
(* and chooses the next address, the operator's commands, and the process  *)
(* dying and starting again with what the cache file holds.                *)
(*                                                                         *)
(* Of an attempt only its outcome is here (module Session has the packets):*)
(* it may authenticate, and it may fail, at any time until the timer ends  *)
(* it.  The timer runs once per unit of time; packets and commands come in *)
(* between.                                                                *)
(***************************************************************************)
EXTENDS EndpointController

CONSTANTS
  bootstrap,            \* --bootstrap-addr, NoAddr if it is not given
  CacheAges,            \* ages a cache file may have at start
  hb_mode,
  TransportDisables,    \* max_rst_allowed is set: RSTs disable the transport
  MaxReconnects         \* bound on the operator's reconnects

ASSUME ClientAssumption ==
  /\ bootstrap \in Addr \cup {NoAddr}
  /\ CacheAges \subseteq Nat /\ CacheAges # {}
  /\ hb_mode \in {0, 1} /\ TransportDisables \in BOOLEAN
  /\ MaxReconnects \in Nat

VARIABLES
  ep,           \* the controller
  cl,           \* the client's session
  cache,        \* the address in the cache file, NoAddr if there is none
  due,          \* whether the timer is due
  reconnects,   \* the reconnect commands so far
  paid,         \* history: a charged probe is still to be made
  unpaid,       \* history: an old address was tried without any right to
  interrupted,  \* history: a reconnect ended the last session with the committed address
  rounds        \* history: preferred rounds since that session, up to 2

history == <<paid, unpaid, interrupted, rounds>>
vars == <<ep, cl, cache, due, reconnects, history>>

Client ==
  [state: {"Idle", "Handshake", "Ready"}, cycle_reason: CycleReason,
   selected: BOOLEAN,                  \* attempt_endpoint_selected
   disabled: BOOLEAN,                  \* raw.disabled
   hb: 0 .. CLIENT_CONN_TIMEOUT + 1]   \* since last_hb_recv_time

\* Every variable keeps its type: the controller's clocks, counters and addresses
\* stay in range through all of the timer, the packets and the commands.
EndpointTypeOK ==
  /\ ep \in Controller /\ cl \in Client
  /\ cache \in Addr \cup {NoAddr}
  /\ {due, paid, unpaid, interrupted} \subseteq BOOLEAN
  /\ reconnects \in 0 .. MaxReconnects
  /\ rounds \in 0 .. 2

-----------------------------------------------------------------------------
(* History.                                                                *)

\* The controller becomes e, with or without a charge; p: one is still unused.  An
\* old address is one that is not among the candidates.
NoteSwitch(e, charged, p) ==
  LET switched == e.current # ep.current
      old == switched /\ e.current \notin e.candidates
  IN  /\ unpaid' = (old /\ ~charged /\ ~p /\ ~interrupted)
      /\ paid' = IF charged THEN ~switched \/ p ELSE p /\ ~old

\* The controller goes from e to f after n rounds: one begins, or an attempt does
\* without one, and what comes then counts as later.
NoteRound(n, e, f, attempt) ==
  rounds' = IF f.round # Never THEN IF e.round = Never THEN Smaller(n + 1, 2) ELSE n
            ELSE IF attempt THEN 2 ELSE n

-----------------------------------------------------------------------------
(* The timer.                                                              *)

\* parse_recv: the RSTs since the last step may be one more than is allowed.  An
\* Idle client looks at no packet.
AfterRsts(c) ==
  IF TransportDisables /\ c.state # "Idle"
  THEN {c, [c EXCEPT !.disabled = TRUE]} ELSE {c}

\* go_idle, on the client's side
GoIdle(c, reason) ==
  [c EXCEPT !.state = "Idle", !.cycle_reason = reason, !.selected = FALSE, !.hb = 0]

\* raw_disabled_cycle_reason
DisabledReason(c) == IF c.state = "Ready" THEN "SessionLost" ELSE "AttemptFailed"

\* on_timer.  x: whether the set-up of the attempt succeeds, and whether a time-out
\* of the handshake or of the uplink ends what is going on.  The round is held
\* against the time at the start of the timer, before any refresh.
OnTimer(e, c, w, x) ==
  LET c1 == IF c.disabled THEN GoIdle(c, DisabledReason(c)) ELSE c
      e1 == IF c.disabled THEN OnSessionEnded(e) ELSE e
      cycle == IF c1.state = "Idle" /\ ~c1.selected
               THEN OnCycle(e1, c1.cycle_reason, w) ELSE Free(e1)
      c2 == IF c1.state # "Idle" THEN c1
            ELSE [c1 EXCEPT !.cycle_reason = "AttemptFailed", !.disabled = FALSE,
                            !.selected = ~x.setup,
                            !.state = IF x.setup THEN "Handshake" ELSE "Idle"]
      overdue == RoundExpired(e1) /\ RoundExpired(cycle.e)
      ended(choice, reason) ==
        [e |-> OnSessionEnded(choice.e), c |-> GoIdle(c2, reason),
         charged |-> choice.charged]
  IN  IF c2.state = "Handshake" /\ (overdue \/ (x.ended /\ c1.state = "Handshake"))
      THEN ended(cycle, "AttemptFailed")
      ELSE IF c2.state = "Ready" /\ RollbackDue(e1, w.grant)
      THEN ended(AuthorizeRollback(e1, w.grant), "ProbationExpired")
      ELSE IF c2.state = "Ready" /\ (c2.hb > CLIENT_CONN_TIMEOUT \/ x.ended)
      THEN ended(cycle, "SessionLost")
      ELSE [e |-> cycle.e, c |-> c2, charged |-> cycle.charged]

\* The answers and outcomes that matter: a client with a session asks only for
\* a probe, and what it has may end; one without starts an attempt.
Worlds(c) ==
  IF c.disabled \/ c.state = "Idle" THEN Answers
  ELSE LET w == CHOOSE w \in Answers : TRUE
       IN  {[w EXCEPT !.grant = g] : g \in BOOLEAN}

Outcomes(c) ==
  IF c.disabled \/ c.state = "Idle" THEN [setup: BOOLEAN, ended: {FALSE}]
  ELSE [setup: {TRUE}, ended: BOOLEAN]

TimerRuns(e, c, outcomes) ==
  {OnTimer(e, c, w, x) : w \in Worlds(c), x \in outcomes}

Timer ==
  /\ due
  /\ \E c \in AfterRsts(cl) : \E r \in TimerRuns(ep, c, Outcomes(c)) :
       /\ ep' = r.e /\ cl' = r.c
       /\ NoteSwitch(r.e, r.charged, paid)
       /\ NoteRound(rounds, ep, r.e, c.state = "Idle" \/ c.disabled)
  /\ due' = FALSE
  /\ UNCHANGED <<cache, reconnects, interrupted>>

Tick ==
  /\ ~due
  /\ ep' = Elapse(ep, 1)
  /\ cl' = [cl EXCEPT !.hb = IF cl.state = "Ready"
                             THEN Smaller(@ + 1, CLIENT_CONN_TIMEOUT + 1) ELSE 0]
  /\ due' = TRUE
  /\ UNCHANGED <<cache, reconnects, history>>

-----------------------------------------------------------------------------
(* Packets.                                                                *)

\* on_safer_packet, after the state of the session: what the packet itself shows.
ShownBy(kind, e) == IF kind = "unknown" THEN e ELSE OnActivity(e, kind = "data")
HeardBy(kind, c) ==
  [c EXCEPT !.hb = IF kind = "heartbeat" \/ hb_mode = 0 THEN 0 ELSE @]

Packet(kind) ==
  /\ cl.state = "Ready"
  /\ ep' = ShownBy(kind, ep) /\ cl' = HeardBy(kind, cl)
  /\ UNCHANGED <<cache, due, reconnects, paid, unpaid, interrupted, rounds>>

\* persist_committed: what the cache holds after it; that it could not be written is
\* logged only.
Persisted(commits) == IF commits THEN {cache, ep.current} ELSE {cache}

\* The first sealed packet authenticates the address, and runs the timer's handler
\* before the packet itself is looked at.
FirstPacket(kind) ==
  LET a == OnAuthenticated(ep)
      commits == a.committed_good = a.current
  IN
  /\ cl.state = "Handshake"
  /\ \E c \in AfterRsts([cl EXCEPT !.state = "Ready", !.hb = 0]) :
     \E r \in TimerRuns(a, c, {x \in Outcomes(c) : ~x.ended}) :
       /\ ep' = ShownBy(kind, r.e) /\ cl' = HeardBy(kind, r.c)
       /\ NoteSwitch(r.e, r.charged, FALSE)
       /\ NoteRound(IF commits THEN 0 ELSE rounds, a, r.e, c.disabled)
  /\ cache' \in Persisted(commits)
  /\ interrupted' = (interrupted /\ ~commits)
  /\ UNCHANGED <<due, reconnects>>

-----------------------------------------------------------------------------
(* The operator (on_fifo).                                                 *)

Reconnect ==
  /\ reconnects < MaxReconnects
  /\ ep' = OnSessionEnded(RequestRefresh(ep))
  /\ \E c \in AfterRsts(cl) : cl' = GoIdle(c, "Forced")
  /\ reconnects' = reconnects + 1
  /\ interrupted' = (interrupted \/ (ep.current_authenticated
                                       /\ ep.committed_good = ep.current))
  /\ UNCHANGED <<cache, due, paid, unpaid, rounds>>

\* Mutant: the candidate is promoted although the cache could not be written.
PromoteUnsaved ==
  /\ MayPromote(ep, ep.current)
  /\ ep' = Commit(ep)
  /\ cache' \in {cache, ep.current}
  /\ interrupted' = FALSE /\ rounds' = 0
  /\ UNCHANGED <<cl, due, reconnects, paid, unpaid>>

\* promote_candidate.  The write of the cache comes first: if it fails nothing is promoted.
Promote ==
  /\ MayPromote(ep, ep.current)
  /\ ep' = Commit(ep)
  /\ cache' = ep.current
  /\ interrupted' = FALSE /\ rounds' = 0
  /\ UNCHANGED <<cl, due, reconnects, paid, unpaid>>

Rollback ==
  /\ \E grant \in BOOLEAN :
       LET r == AuthorizeRollback(ep, grant) IN
       /\ MayRollBack(ep, grant)
       /\ ep' = OnSessionEnded(r.e)
       /\ paid' = (paid \/ r.charged)
  /\ \E c \in AfterRsts(cl) : cl' = GoIdle(c, "OperatorRollback")
  /\ UNCHANGED <<cache, due, reconnects, unpaid, interrupted, rounds>>

-----------------------------------------------------------------------------
(* The process.                                                            *)

FreshClient ==
  [state |-> "Idle", cycle_reason |-> "Startup", selected |-> FALSE,
   disabled |-> FALSE, hb |-> 0]

\* load_cache_entry: the address on file and the age of the entry; one without a time
\* that can be trusted is as old as one past MaxAge.  For a file that cannot be read, or
\* that save_cache would not have written, c is NoAddr.
CacheEntry(c) == {[addr |-> c, age |-> age] : age \in CacheAges}

\* The controllers a process may start with.
Started ==
  [enabled \in BOOLEAN |-> [c \in Addr \cup {NoAddr} |->
     {e \in {Elapse(Bootstrap(enabled, entry.addr, entry.age, bootstrap, w), w.took) :
               entry \in CacheEntry(c), w \in Answers} : e.current # NoAddr}]]

Init ==
  /\ cache = NoAddr
  /\ \E enabled \in BOOLEAN : ep \in Started[enabled][cache]
  /\ cl = FreshClient
  /\ due = FALSE /\ reconnects = 0
  /\ paid = FALSE /\ unpaid = FALSE /\ interrupted = FALSE
  /\ rounds = 2

\* The process dies, and one with the same configuration takes its place.  The file may
\* have become unreadable, which is as good as none until the next save replaces it.
Restart ==
  /\ cache' \in {cache, NoAddr}
  /\ ep' \in Started[ep.enabled][cache']
  /\ cl' = FreshClient
  /\ paid' = FALSE /\ unpaid' = FALSE /\ interrupted' = FALSE
  /\ rounds' = 2
  /\ UNCHANGED <<due, reconnects>>

Next ==
  \/ Timer \/ Tick
  \/ \E kind \in {"heartbeat", "data", "unknown"} : FirstPacket(kind) \/ Packet(kind)
  \/ Reconnect \/ Promote \/ Rollback
  \/ Restart

\* Time passes and the event loop runs its timer: due is what Tick sets and what
\* only Timer clears, and one of the two is always enabled.
Fairness == WF_due(~due /\ due' = TRUE) /\ WF_due(due /\ due' = FALSE)

Spec == Init /\ [][Next]_vars /\ Fairness

-----------------------------------------------------------------------------

\* Who is authenticated and not committed is on probation with the committed
\* address to return to, and the committed address is never its own candidate
\* (on_authenticated, promote_candidate, select).
ProbationSound ==
  /\ ep.probation.candidate # NoAddr =>
       /\ ep.probation.rollback = ep.committed_good
       /\ ep.probation.candidate # ep.committed_good
  /\ ep.current_authenticated /\ ep.current # ep.committed_good => OnProbation(ep)

\* With the fallback policy on, a process that starts again finds the committed
\* address in the cache, or, if it never could be written, nothing: never an
\* address that was only on probation.
RestartFindsCommitted == ep.enabled => cache \in {NoAddr, ep.committed_good}

\* The client never goes back to an address that the name no longer resolves to
\* unless a probe was charged for it, or unless a reconnect of the operator is
\* what ended the last session with that address.  When a probe can be charged there
\* are candidates to charge it to: load_fallback_state refuses a file with an entry
\* that has none.
ProbesPrecharged ==
  /\ ~unpaid
  /\ ep.committed_good \notin {NoAddr, ep.current} => ep.candidates # {}

\* A candidate that authenticates in the first round after a session with the
\* committed address always has its rollback scheduled: what config.rs checks on
\* the options is enough for the timeouts, the round and the refresh in between.
\* This is for hb_mode 1, where a heartbeat alone keeps a session alive and counts as
\* activity of the address.  With hb_mode 0 data of an unknown conversation does the
\* first and not the second (client.rs on_safer_packet), so a session may outlive the
\* activity, and the window may be too short for a candidate after it.
FirstRoundReturnable ==
  ep.probation.candidate # NoAddr /\ rounds <= 1 => ep.probation.rollback_at # Never

\* A candidate reached by an attended cutover does not stay in between: unless the
\* operator reconnects again it is promoted, or the client returns.
DirectReturn ==
  (ep.probation.direct_return /\ ep.probation.rollback_at # Never
     /\ reconnects = MaxReconnects)
    ~> (ep.probation = NoProbation \/ ep.current = ep.committed_good)

\* README.md:219-221: "`rollback <candidate-ip>` is accepted only for that active
\* probationary address while its preserved committed endpoint is still eligible", and
\* PLAN.md:134 and 180 say that a matching one "returns" and that an "already-authorized
\* rollback" is not erased.  So the timer of the Idle client after on_fifo has accepted the
\* command makes the committed address the one in use.
AuthorizedRollbackHonoured ==
  [][ep.probation.rollback_authorized /\ cl.state = "Idle" /\ due /\ ~due'
       => ep'.current = ep.probation.rollback]_vars

=============================================================================
