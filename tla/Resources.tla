----------------------------- MODULE Resources -----------------------------
(***************************************************************************)
(* The kernel state the client keeps for the addresses it talks to         *)
(* (src/client.rs, EndpointResources, over src/net/route.rs and            *)
(* src/iptables.rs): a host route and a DROP rule for the relay in use and *)
(* for the committed one, installed before the first packet and removed    *)
(* when an address is no longer retained.                                  *)
(*                                                                         *)
(* Requests to the kernel may fail, and an answer may be lost after the    *)
(* request took effect.  Another client has routes to the same addresses.  *)
(* The keep thread works on the rules command by command, beside the I/O   *)
(* thread, and something may flush the whole firewall under it.            *)
(*                                                                         *)
(* Which address is in use and which is committed is the choice of the     *)
(* controller (module EndpointController); here it may choose any.         *)
(***************************************************************************)
EXTENDS Iptables

CONSTANTS
  Bootstrap,       \* the address the client starts with
  NoRecord,        \* an address without an entry in installed, or no address
  Metric,          \* the owned half of the metrics has this many
  PROBES,          \* ROUTE_METRIC_COLLISION_PROBES
  FINAL_RETRIES,   \* FINAL_CLEANUP_RETRIES
  MaxFaults,       \* bound on the requests that fail
  MaxSwitches      \* bound on the changes of the relay

\* What the client has on record of an address.
Resource ==
  [route : {"Missing", "Present", "Removing"}, rule : {"Missing", "Present", "Removing"},
   releasing : BOOLEAN, metric : 0 .. Metric - 1]

\* Where the keep thread is, when it is not at an address.
Step == {"asleep", "flush", "drop", "delete"}

ASSUME ResourcesAssumption ==
  /\ Metric \in Nat \ {0} /\ PROBES \in Nat \ {0} /\ FINAL_RETRIES \in Nat
  /\ MaxFaults \in Nat /\ MaxSwitches \in Nat
  /\ NoRecord \notin Addr \cup Resource /\ Step \cap Addr = {}
  /\ Bootstrap \in Addr

VARIABLES
  k,           \* [installed, routes, fw, faults, leaked]: records and kernel
  phase,       \* "boot", "run", "exit" (release_all is done), "cleared"
  remote,      \* the relay in use
  good,        \* committed_good
  sending,     \* an attempt has begun: state is not Idle
  lower,       \* the address whose next hop is in use, NoRecord if ~lower_level_ready
  keeper,      \* the keep thread: [step, left]
  doubtful,    \* history: a command of the keep thread failed and no round since
               \* was without failure
  switches, retries

vars == <<k, phase, remote, good, sending, lower, keeper, doubtful, switches, retries>>

Kernel ==
  [installed : [Addr -> Resource \cup {NoRecord}],
   routes : [Addr -> [0 .. Metric - 1 -> {"none", "ours", "peer"}]],
   fw : Firewall, faults : Nat, leaked : SUBSET (Addr \X (0 .. Metric - 1))]

-----------------------------------------------------------------------------
(* EndpointResources                                                       *)

NewResources ==
  [route |-> "Missing", rule |-> "Missing", releasing |-> FALSE, metric |-> 0]

begin_release(r) ==
  [r EXCEPT !.releasing = TRUE,
            !.route = IF @ = "Present" THEN "Removing" ELSE @,
            !.rule = IF @ = "Present" THEN "Removing" ELSE @]

\* A resource whose deletion was not confirmed stays uncertain.
cancel_release(r) == [r EXCEPT !.releasing = FALSE]

cleanup_complete(r) == r.releasing /\ r.route = "Missing" /\ r.rule = "Missing"

ready(r) == ~r.releasing /\ r.route = "Present" /\ r.rule = "Present"

endpoint_resources_ready(s, a) == s.installed[a] # NoRecord /\ ready(s.installed[a])

-----------------------------------------------------------------------------
(* The routes: for each address and metric nobody's, ours or the peer's.   *)

\* next_owned_metric, n times.
Advanced(m, n) == (m + n) % Metric

\* Netlink::request: the kernel does what was asked and says so, or the socket, the
\* request or the kernel fails, or it was done and the answer is lost.
Request(s, done, known) ==
  {known} \cup {[t EXCEPT !.faults = @ + 1] : t \in {s, done}}

\* Where the search for a free metric may stop: the number of metrics passed over.
Passed(s, a, m) ==
  {n \in 0 .. PROBES - 1 : \A i \in 0 .. n - 1 : s.routes[a][Advanced(m, i)] # "none"}

\* create_host_route at the present metric, which another route never yields (EEXIST); a
\* route stays unknown to the client until the kernel says that it is made.
CreateRoute(s, a) ==
  LET m == s.installed[a].metric
      made == [s EXCEPT !.routes[a][m] = "ours"]
  IN  IF s.routes[a][m] # "none" THEN {[s EXCEPT !.faults = @ + 1]}
      ELSE Request(s, [made EXCEPT !.leaked = @ \cup {<<a, m>>}],
                   [made EXCEPT !.installed[a].route = "Present"])

\* install_owned_route: the first free metric.
InstallRoute(s, a) ==
  LET m == s.installed[a].metric
      Moved(n) == [s EXCEPT !.installed[a].metric = Advanced(m, n)]
      taken == \A n \in 0 .. PROBES - 1 : s.routes[a][Advanced(m, n)] # "none"
  IN  (UNION {CreateRoute(Moved(n), a) : n \in Passed(s, a, m)})
        \cup (IF taken THEN {Moved(PROBES)} ELSE {})

\* delete_host_route; a route that is not there counts as deleted.
DeleteRoute(s, a) ==
  LET gone == [s EXCEPT !.routes[a][s.installed[a].metric] = "none"]
  IN  Request(s, gone, [gone EXCEPT !.installed[a].route = "Missing"])

\* owned_host_route_exists
ReconcileRoute(s, a) ==
  LET there == s.routes[a][s.installed[a].metric] # "none"
  IN  Request(s, s, [s EXCEPT !.installed[a].route = IF there THEN "Present" ELSE "Missing"])

\* An outcome of an operation on the rules, and what it makes of the rule.
WithRule(s, a, o, rule) ==
  [s EXCEPT !.fw = o.fw, !.faults = @ + o.failed, !.installed[a].rule = rule]

ReconcileRule(s, a) ==
  {WithRule(s, a, o, CASE o.answer = "Present" -> "Present" [] o.answer = "Absent" -> "Missing"
                       [] o.answer = "Unknown" -> "Removing") : o \in reconcile_pattern(s.fw, a)}

AddRule(s, a) ==
  {WithRule(s, a, o, IF o.answer THEN "Present" ELSE "Missing") : o \in add_pattern(s.fw, a)}

DeleteRule(s, a) ==
  {WithRule(s, a, o, IF o.answer THEN "Missing" ELSE "Removing") : o \in del_pattern(s.fw, a)}

-----------------------------------------------------------------------------
(* Sets of states: what an operation may come to, within the faults.       *)

Within(S) == {s \in S : s.faults <= MaxFaults}

\* The steps of ensure_installed and of retry_cleanup_addr, each where it is due.
Recorded(S, a) ==
  {[s EXCEPT !.installed[a] = cancel_release(IF @ = NoRecord THEN NewResources ELSE @)] : s \in S}

RouteReconciled(S, a) ==
  Within(UNION {IF s.installed[a].route = "Removing" THEN ReconcileRoute(s, a) ELSE {s} : s \in S})

RuleReconciled(S, a) ==
  Within(UNION {IF s.installed[a].rule = "Removing" THEN ReconcileRule(s, a) ELSE {s} : s \in S})

RouteInstalled(S, a) ==
  Within(UNION {IF s.installed[a].route = "Missing" THEN InstallRoute(s, a) ELSE {s} : s \in S})

RuleAdded(S, a) ==
  Within(UNION {IF s.installed[a].rule = "Missing" THEN AddRule(s, a) ELSE {s} : s \in S})

Busy(s, a) == s.installed[a] # NoRecord /\ s.installed[a].releasing

RouteDeleted(S, a) ==
  Within(UNION {IF Busy(s, a) /\ s.installed[a].route = "Removing"
                THEN DeleteRoute(s, a) ELSE {s} : s \in S})

RuleDeleted(S, a) ==
  Within(UNION {IF Busy(s, a) /\ s.installed[a].rule = "Removing"
                THEN DeleteRule(s, a) ELSE {s} : s \in S})

\* Mutant: an uncertain resource is neither reconciled nor installed.
EnsureMissing(S, a) == RuleAdded(RouteInstalled(Recorded(S, a), a), a)

\* ensure_installed: the four callbacks, each whatever became of the others.
ensure_installed(S, a) ==
  RuleAdded(RouteInstalled(RuleReconciled(RouteReconciled(Recorded(S, a), a), a), a), a)

retry_cleanup_addr(S, a) ==
  {IF Busy(s, a) /\ cleanup_complete(s.installed[a])
   THEN [s EXCEPT !.installed[a] = NoRecord] ELSE s : s \in RuleDeleted(RouteDeleted(S, a), a)}

release(S, a) ==
  retry_cleanup_addr(
    {[s EXCEPT !.installed[a] = IF @ = NoRecord THEN @ ELSE begin_release(@)] : s \in S}, a)

\* One address after another; the order is not material, for no operation reads what
\* another address has.
One(addresses) == CHOOSE a \in addresses : TRUE

EnsureAll(S, addresses) ==
  LET Upto[A \in SUBSET addresses] ==
        IF A = {} THEN S ELSE ensure_installed(Upto[A \ {One(A)}], One(A))
  IN  Upto[addresses]

ReleaseAll(S, addresses) ==
  LET Upto[A \in SUBSET addresses] ==
        IF A = {} THEN S ELSE release(Upto[A \ {One(A)}], One(A))
  IN  Upto[addresses]

retry_cleanup(S) ==
  LET Upto[A \in SUBSET Addr] ==
        IF A = {} THEN S ELSE retry_cleanup_addr(Upto[A \ {One(A)}], One(A))
  IN  Upto[Addr]

release_except(S, keep) == ReleaseAll(EnsureAll(S, keep), Addr \ keep)

has_pending_cleanup(s) == \E a \in Addr : s.installed[a] # NoRecord /\ s.installed[a].releasing

-----------------------------------------------------------------------------
(* The client's I/O thread.  An operation on the rules waits for the mutex that *)
(* the keep thread holds during a round.                                       *)

Retained == {remote, good} \ {NoRecord}

\* Mutant: the mutex is not taken.
RunningUnlocked == phase = "run"

Running == phase = "run" /\ keeper.step = "asleep"

\* Iptables::init in main, then record_initial_endpoint; a failure ends the program.
Boot ==
  /\ phase = "boot"
  /\ \E o \in init(k.fw.keep, remote) :
       LET started == [k EXCEPT !.fw = o.fw, !.faults = o.failed,
                                !.installed[remote] = [NewResources EXCEPT !.rule = "Present"]]
       IN  /\ o.failed <= MaxFaults
           /\ IF o.answer
              THEN k' \in ensure_installed({started}, remote) /\ phase' = "run"
              ELSE k' = [k EXCEPT !.fw = o.fw, !.faults = o.failed] /\ phase' = "cleared"
  /\ UNCHANGED <<remote, good, sending, lower, keeper, doubtful, switches, retries>>

\* Mutant: lower_level_ready is not reset.
SwitchSameHop(to) ==
  /\ Running /\ ~sending /\ to # remote /\ switches < MaxSwitches
  /\ k' \in ensure_installed(release_except({k}, {to, good} \ {NoRecord}), to)
  /\ remote' = to /\ lower' = lower /\ switches' = switches + 1
  /\ UNCHANGED <<phase, good, sending, keeper, doubtful, retries>>

\* apply_switch, at the start of an attempt: the next hop is to be found again.
Switch(to) ==
  /\ Running /\ ~sending /\ to # remote /\ switches < MaxSwitches
  /\ k' \in ensure_installed(release_except({k}, {to, good} \ {NoRecord}), to)
  /\ remote' = to /\ lower' = NoRecord /\ switches' = switches + 1
  /\ UNCHANGED <<phase, good, sending, keeper, doubtful, retries>>

\* With lower_level = Auto, the next hop that is in use after a call that returns true:
\* the one known before, if lower_level_ready, else the one found for the relay.
refresh_lower_level_for_current == IF lower = NoRecord THEN remote ELSE lower

\* on_timer in Idle: the first packet goes when the route and the rule are there and the
\* next hop is known; if one is missing, or looking for it fails, the client stays Idle.
Attempt ==
  /\ phase = "run" /\ ~sending /\ endpoint_resources_ready(k, remote)
  /\ lower' = refresh_lower_level_for_current /\ sending' = TRUE
  /\ UNCHANGED <<k, phase, remote, good, keeper, doubtful, switches, retries>>

\* go_idle
GoIdle ==
  /\ phase = "run" /\ sending
  /\ sending' = FALSE
  /\ UNCHANGED <<k, phase, remote, good, lower, keeper, doubtful, switches, retries>>

\* on_endpoint_authenticated: the controller commits the address at once or has it on
\* probation.
Authenticated ==
  /\ Running /\ sending
  /\ good' \in {good, remote}
  /\ k' \in release_except({k}, {remote, good'} \ {NoRecord})
  /\ UNCHANGED <<phase, remote, sending, lower, keeper, doubtful, switches, retries>>

\* on_fifo, promote: the committed address may go.
Promote ==
  /\ Running /\ good # remote
  /\ good' = remote
  /\ k' \in release_except({k}, {remote})
  /\ UNCHANGED <<phase, remote, sending, lower, keeper, doubtful, switches, retries>>

\* on_timer, every KERNEL_RESOURCE_RETRY_MS.
Retry ==
  /\ Running
  /\ k' \in retry_cleanup(EnsureAll({k}, Retained))
  /\ UNCHANGED <<phase, remote, good, sending, lower, keeper, doubtful, switches, retries>>

\* run, after the event loop: release_all, the final retries, and clear in main.
Exit ==
  /\ Running
  /\ k' \in release_except({k}, {})
  /\ phase' = "exit" /\ sending' = FALSE
  /\ UNCHANGED <<remote, good, lower, keeper, doubtful, switches, retries>>

FinalRetry ==
  /\ phase = "exit" /\ keeper.step = "asleep"
  /\ has_pending_cleanup(k) /\ retries < FINAL_RETRIES
  /\ k' \in retry_cleanup({k}) /\ retries' = retries + 1
  /\ UNCHANGED <<phase, remote, good, sending, lower, keeper, doubtful, switches>>

Clear ==
  /\ phase = "exit" /\ keeper.step = "asleep"
  /\ ~has_pending_cleanup(k) \/ retries = FINAL_RETRIES
  /\ k' \in Within({[k EXCEPT !.fw = o.fw, !.faults = @ + o.failed] : o \in clear(k.fw)})
  /\ phase' = "cleared"
  /\ UNCHANGED <<remote, good, sending, lower, keeper, doubtful, switches, retries>>

-----------------------------------------------------------------------------
(* The keep thread, which nothing stops, and the firewall's other users.   *)

Asleep == [step |-> "asleep", left |-> {}, clean |-> TRUE]

\* One command of a round: it goes on whatever the command answered.
Command(step, next, outcomes, matters) ==
  /\ keeper.step = step
  /\ \E o \in outcomes :
       /\ k.faults + o.failed <= MaxFaults
       /\ k' = [k EXCEPT !.fw = o.fw, !.faults = @ + o.failed]
       /\ LET failed == matters /\ ~o.answer IN
          /\ keeper' = [next EXCEPT !.clean = keeper.clean /\ ~failed]
          /\ doubtful' = (doubtful \/ failed)
  /\ UNCHANGED <<phase, remote, good, sending, lower, switches, retries>>

\* The other chain than the last time.
KeepBegin ==
  /\ k.fw.keep /\ phase # "boot" /\ keeper.step = "asleep"
  /\ k' = [k EXCEPT !.fw.keep_index = 1 - @]
  /\ keeper' = [step |-> "flush", left |-> k.fw.patterns, clean |-> TRUE]
  /\ UNCHANGED <<phase, remote, good, sending, lower, doubtful, switches, retries>>

KeepFlush ==
  Command("flush", [keeper EXCEPT !.step = "drop"], Flush(k.fw, k.fw.keep_index), TRUE)

KeepDrop ==
  Command("drop", [keeper EXCEPT !.step = "delete"], InsertDrop(k.fw, k.fw.keep_index), TRUE)

\* For each pattern two deletions and an insertion.
KeepDelete ==
  \E a \in keeper.left :
    Command("delete", [keeper EXCEPT !.step = a], Delete(k.fw, k.fw.keep_index, a, 2), FALSE)

KeepInsert(a) ==
  Command(a, [keeper EXCEPT !.step = "delete", !.left = @ \ {a}],
          Insert(k.fw, k.fw.keep_index, a), TRUE)

KeepEnd ==
  /\ keeper.step = "delete" /\ keeper.left = {}
  /\ keeper' = Asleep
  /\ doubtful' = ~keeper.clean
  /\ UNCHANGED <<k, phase, remote, good, sending, lower, switches, retries>>

\* Something reloads the firewall: all rules and chains of the process are gone.
Reload ==
  /\ k.fw.keep /\ phase = "run" /\ k.faults < MaxFaults
  /\ k' = [k EXCEPT !.fw = [@ EXCEPT !.jumps = NoJumps, !.chains = [c \in Chain |-> "none"]],
                    !.faults = @ + 1]
  /\ doubtful' = TRUE /\ keeper' = [keeper EXCEPT !.clean = FALSE]
  /\ UNCHANGED <<phase, remote, good, sending, lower, switches, retries>>

Init ==
  /\ \E keep \in BOOLEAN, peer \in SUBSET Addr :
       k = [installed |-> [a \in Addr |-> NoRecord],
            routes |-> [a \in Addr |-> [m \in 0 .. Metric - 1 |->
                          IF m = 0 /\ a \in peer THEN "peer" ELSE "none"]],
            fw |-> NoFirewall(keep), faults |-> 0, leaked |-> {}]
  /\ phase = "boot" /\ remote = Bootstrap /\ good \in Addr \cup {NoRecord}
  /\ sending = FALSE /\ lower = remote /\ keeper = Asleep /\ doubtful = FALSE
  /\ switches = 0 /\ retries = 0

Keeping ==
  KeepBegin \/ KeepFlush \/ KeepDrop \/ KeepDelete \/ (\E a \in Addr : KeepInsert(a)) \/ KeepEnd

Next ==
  \/ Boot \/ (\E to \in Addr : Switch(to)) \/ Attempt \/ GoIdle \/ Authenticated
  \/ Promote \/ Retry \/ Exit \/ FinalRetry \/ Clear
  \/ KeepBegin \/ KeepFlush \/ KeepDrop \/ KeepDelete \/ (\E a \in Addr : KeepInsert(a))
  \/ KeepEnd \/ Reload

\* The timer runs while the client does, and the keep thread wakes every 20 seconds.
\* The mutex of the patterns is not fair: the timer may find it taken, but not for
\* ever, for the keep thread sleeps without it.
Fairness == SF_vars(Retry) /\ WF_vars(Keeping)

Spec == Init /\ [][Next]_vars /\ Fairness

-----------------------------------------------------------------------------

\* Every variable keeps its type, and the keep thread, which holds the mutex of the
\* patterns while it walks them, is never left with one that is no longer managed.
ResourcesTypeOK ==
  /\ k \in Kernel
  /\ phase \in {"boot", "run", "exit", "cleared"}
  /\ remote \in Addr /\ good \in Addr \cup {NoRecord} /\ lower \in Addr \cup {NoRecord}
  /\ sending \in BOOLEAN /\ doubtful \in BOOLEAN
  /\ keeper \in [step : Addr \cup Step, left : SUBSET k.fw.patterns, clean : BOOLEAN]

\* No packet leaves without its protection: while an attempt or a session goes on, the
\* frames go to the next hop of the relay in use, the host route of the relay is in the
\* table, and the kernel drops what comes from the relay, at every command of the keep
\* thread too, unless commands of that thread fail.
SendingProtected ==
  phase = "run" /\ sending =>
    /\ lower = remote
    /\ k.routes[remote][k.installed[remote].metric] = "ours"
    /\ doubtful \/ Covered(k.fw, remote)

\* Nothing is forgotten and nothing of others is taken: a route of ours is on record
\* unless the kernel never said that it made it, a rule is on record when there is one
\* chain, and what is on record, and so may be deleted, is no route of the other client.
Owned ==
  /\ \A a \in Addr, m \in 0 .. Metric - 1 : k.routes[a][m] = "ours" =>
       \/ <<a, m>> \in k.leaked
       \/ /\ k.installed[a] # NoRecord /\ k.installed[a].metric = m
          /\ k.installed[a].route \in {"Present", "Removing"}
  /\ \A a \in Addr : k.installed[a] # NoRecord /\ k.installed[a].route # "Missing" =>
       k.routes[a][k.installed[a].metric] # "peer"
  /\ ~k.fw.keep => \A a \in Addr : HasJump(k.fw, 0, a) => a \in k.fw.patterns

\* Whatever fails, in the end the retained addresses have their route and rule and no
\* other address has a record.
Settles ==
  <>[](phase = "run" => \A a \in Addr :
         IF a \in Retained
         THEN endpoint_resources_ready(k, a) /\ Covered(k.fw, a)
         ELSE k.installed[a] = NoRecord)

=============================================================================
