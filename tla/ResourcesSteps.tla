--------------------------- MODULE ResourcesSteps ---------------------------
(***************************************************************************)
(* Lemmas about module Resources, and so about the operations of Iptables. *)
(*                                                                         *)
(* The inductive invariant; for each operation at one address that every   *)
(* outcome of it is sound and leaves the other addresses alone; and the    *)
(* actions of the keep thread.  Module ResourcesProofs has the operations  *)
(* over all addresses, the actions of the client and the theorems.         *)
(***************************************************************************)
EXTENDS Resources, TLAPS

USE SMTT(30)

-----------------------------------------------------------------------------
(* The inductive invariant.                                                *)

Metrics == 0 .. Metric - 1

\* The routes of one address: Owned, and a route on record as present is there.
RouteAt(s, a) ==
  LET r == s.installed[a] IN
  /\ \A m \in Metrics : s.routes[a][m] = "ours" =>
       \/ <<a, m>> \in s.leaked
       \/ r # NoRecord /\ r.metric = m /\ r.route # "Missing"
  /\ r # NoRecord /\ r.route # "Missing" => s.routes[a][r.metric] # "peer"
  /\ r # NoRecord /\ r.route = "Present" => s.routes[a][r.metric] = "ours"

\* The rule of an address is managed as long as the client has it on record.
RuleAt(s, a) ==
  a \in s.fw.patterns <=> s.installed[a] # NoRecord /\ s.installed[a].rule # "Missing"

\* With one chain no jump is forgotten.
JumpAt(fw, a) == ~fw.keep /\ HasJump(fw, 0, a) => a \in fw.patterns

\* The chain drops what comes from the addresses whose rule is on record as present.
Shield(s, c) ==
  /\ s.fw.chains[c] = "drop"
  /\ \A a \in Addr : s.installed[a] # NoRecord /\ s.installed[a].rule = "Present" =>
       HasJump(s.fw, c, a)

Routed == \A a \in Addr : RouteAt(k, a)

Ruled ==
  /\ \A a \in Addr : JumpAt(k.fw, a)
  /\ phase # "cleared" => \A a \in Addr : RuleAt(k, a)

\* Before Boot there is nothing.
Booting ==
  phase = "boot" =>
    /\ k.installed = [a \in Addr |-> NoRecord]
    /\ keeper = Asleep /\ ~doubtful /\ ~sending

\* The keep thread has the chain that it does not work on to fall back on, and
\* what it has done of the chain it works on is done if no command failed.
Kept ==
  /\ keeper.step = "asleep" => keeper.left = {}
  /\ keeper.step # "asleep" => k.fw.keep
  /\ keeper.step \in {"flush", "drop"} => keeper.left = k.fw.patterns
  /\ phase = "run" /\ ~doubtful =>
       Shield(k, IF keeper.step = "asleep" THEN active_chain(k.fw) ELSE 1 - k.fw.keep_index)
  /\ phase = "run" /\ keeper.clean /\ keeper.step \in Addr \cup {"delete"} =>
       /\ k.fw.chains[k.fw.keep_index] = "drop"
       /\ \A a \in k.fw.patterns \ keeper.left : HasJump(k.fw, k.fw.keep_index, a)

\* An attempt began with everything in place, and nothing has let go of it.
Sending ==
  phase = "run" /\ sending => lower = remote /\ endpoint_resources_ready(k, remote)

\* The next hop in use is the relay's, or it is to be found: what an attempt relies on
\* that does not look for it.
NextHop == lower \in {remote, NoRecord}

RInv == ResourcesTypeOK /\ Routed /\ Ruled /\ Booting /\ Kept /\ Sending

\* The place of the keep thread between two rounds.
LEMMA AsleepIs == Asleep.step = "asleep" /\ Asleep.left = {} /\ Asleep.clean = TRUE
  BY DEF Asleep

\* Failures are counted.
LEMMA CountNat == \A i, j \in Nat : i + j \in Nat
  OBVIOUS

\* The steps of the keep thread are apart from each other and from the addresses.
LEMMA StepsApart ==
  /\ \A a \in Addr : a # "asleep" /\ a # "flush" /\ a # "drop" /\ a # "delete"
  /\ "flush" # "asleep" /\ "drop" # "asleep" /\ "delete" # "asleep"
  /\ "delete" # "flush" /\ "delete" # "drop"
<1>1. \A a \in Addr : a \notin {"asleep", "flush", "drop", "delete"}
  BY ResourcesAssumption, Zenon DEF Step
<1> QED BY <1>1
-----------------------------------------------------------------------------
(* A step at one address.                                                  *)

\* The states an operation of the client may come from and lead to: sound at every
\* address; if so asked, with the shield of the chain in use; and with the record r of
\* the address b, unless it is NoRecord.
Sound(shielded, b, r) ==
  {s \in Kernel :
     /\ \A a \in Addr : RouteAt(s, a) /\ RuleAt(s, a) /\ JumpAt(s.fw, a)
     /\ shielded => Shield(s, active_chain(s.fw))
     /\ r # NoRecord => s.installed[b] = r}

\* A step that concerns the route of an address.
RouteStep(s, t, a) ==
  /\ t \in Kernel /\ t.fw = s.fw
  /\ \A c \in Addr : c # a => t.installed[c] = s.installed[c] /\ t.routes[c] = s.routes[c]
  /\ s.leaked \subseteq t.leaked
  /\ t.installed[a] \in Resource /\ t.installed[a].rule = s.installed[a].rule
  /\ t.installed[a].releasing = s.installed[a].releasing
  /\ RouteAt(t, a)

\* A step that concerns its rule.
RuleStep(s, t, a) ==
  /\ t \in Kernel /\ t.routes = s.routes /\ t.leaked = s.leaked
  /\ t.fw.keep = s.fw.keep /\ t.fw.keep_index = s.fw.keep_index /\ t.fw.chains = s.fw.chains
  /\ \A c \in Addr : c # a => /\ t.installed[c] = s.installed[c] /\ t.fw.jumps[c] = s.fw.jumps[c]
                              /\ c \in t.fw.patterns <=> c \in s.fw.patterns
  /\ t.installed[a] \in Resource /\ t.installed[a].route = s.installed[a].route
  /\ t.installed[a].metric = s.installed[a].metric
  /\ t.installed[a].releasing = s.installed[a].releasing
  /\ RuleAt(t, a) /\ JumpAt(t.fw, a)
  /\ t.installed[a].rule = "Present" => HasJump(t.fw, active_chain(t.fw), a)

\* A step at another address than b leaves a sound state sound.
LEMMA RouteStepSound ==
  ASSUME NEW sh \in BOOLEAN, NEW a \in Addr, NEW b \in Addr, NEW r, NEW s \in Sound(sh, b, r),
         s.installed[a] \in Resource, NEW t, RouteStep(s, t, a), a # b \/ r = NoRecord
  PROVE  t \in Sound(sh, b, r) /\ t.installed[a] \in Resource
<1>1. t \in Kernel /\ s \in Kernel /\ s.installed[a] # NoRecord /\ t.installed[a] # NoRecord
  BY ResourcesAssumption DEF RouteStep, Sound
<1>2. ASSUME NEW c \in Addr PROVE RouteAt(t, c) /\ RuleAt(t, c) /\ JumpAt(t.fw, c)
  <2>1. CASE c = a
    BY <1>1, <2>1 DEF RouteStep, Sound, RuleAt
  <2>2. CASE c # a
    <3>1. c # a /\ RouteAt(s, c) /\ RuleAt(s, c) /\ JumpAt(s.fw, c)
      BY <2>2 DEF Sound
    <3>2. t.installed[c] = s.installed[c] /\ t.routes[c] = s.routes[c] /\ s.leaked \subseteq t.leaked
          /\ t.fw = s.fw
      BY <3>1 DEF RouteStep
    <3> QED BY <3>1, <3>2 DEF RouteAt, RuleAt
  <2> QED BY <2>1, <2>2
<1>3. sh => Shield(t, active_chain(t.fw))
  BY <1>1 DEF Sound, RouteStep, Shield
<1>4. r # NoRecord => t.installed[b] = r
  BY DEF Sound, RouteStep
<1> QED BY <1>1, <1>2, <1>3, <1>4 DEF Sound, RouteStep

\* A step that concerns the rule of one address keeps a state sound.
LEMMA RuleStepSound ==
  ASSUME NEW sh \in BOOLEAN, NEW a \in Addr, NEW b \in Addr, NEW r, NEW s \in Sound(sh, b, r),
         s.installed[a] \in Resource, NEW t, RuleStep(s, t, a), a # b \/ r = NoRecord
  PROVE  t \in Sound(sh, b, r) /\ t.installed[a] \in Resource
<1>1. t \in Kernel /\ s \in Kernel /\ s.installed[a] # NoRecord /\ t.installed[a] # NoRecord
  BY ResourcesAssumption DEF RuleStep, Sound
<1>2. ASSUME NEW c \in Addr PROVE RouteAt(t, c) /\ RuleAt(t, c) /\ JumpAt(t.fw, c)
  <2>1. CASE c = a
    BY <1>1, <2>1 DEF RuleStep, Sound, RouteAt
  <2>2. CASE c # a
    <3>1. c # a /\ RouteAt(s, c) /\ RuleAt(s, c) /\ JumpAt(s.fw, c)
      BY <2>2 DEF Sound
    <3>2. /\ t.installed[c] = s.installed[c] /\ t.routes[c] = s.routes[c] /\ s.leaked = t.leaked
          /\ t.fw.keep = s.fw.keep /\ t.fw.jumps[c] = s.fw.jumps[c]
          /\ c \in t.fw.patterns <=> c \in s.fw.patterns
      BY <3>1 DEF RuleStep
    <3>3. RouteAt(t, c)
      BY <3>1, <3>2 DEF RouteAt
    <3>4. RuleAt(t, c)
      BY <3>1, <3>2 DEF RuleAt
    <3>5. JumpAt(t.fw, c)
      BY <3>1, <3>2 DEF JumpAt, HasJump
    <3> QED BY <3>3, <3>4, <3>5
  <2> QED BY <2>1, <2>2
<1>3. ASSUME sh PROVE Shield(t, active_chain(t.fw))
  <2>1. /\ Shield(s, active_chain(s.fw)) /\ active_chain(t.fw) = active_chain(s.fw)
        /\ t.fw.chains = s.fw.chains
    BY <1>3 DEF Sound, RuleStep, active_chain
  <2>2. ASSUME NEW c \in Addr, t.installed[c] # NoRecord, t.installed[c].rule = "Present"
        PROVE  HasJump(t.fw, active_chain(t.fw), c)
    <3>1. CASE c = a
      BY <2>2, <3>1 DEF RuleStep
    <3>2. CASE c # a
      BY <2>1, <2>2, <3>2 DEF RuleStep, Shield, HasJump
    <3> QED BY <3>1, <3>2
  <2> QED BY <2>1, <2>2 DEF Shield
<1>4. r # NoRecord => t.installed[b] = r
  BY DEF Sound, RuleStep
<1> QED BY <1>1, <1>2, <1>3, <1>4 DEF Sound, RuleStep

\* A request that fails changes nothing but the count of faults.
LEMMA FaultSteps ==
  ASSUME NEW s \in Kernel, NEW a \in Addr, s.installed[a] \in Resource, RouteAt(s, a)
  PROVE  RouteStep(s, [s EXCEPT !.faults = @ + 1], a)
<1> DEFINE t == [s EXCEPT !.faults = @ + 1]
<1>1. /\ t \in Kernel /\ t.fw = s.fw /\ t.installed = s.installed /\ t.routes = s.routes
      /\ t.leaked = s.leaked
  BY DEF Kernel
<1> HIDE DEF t
<1>2. RouteAt(t, a)
  BY <1>1 DEF RouteAt
<1>3. RouteStep(s, t, a)
  BY <1>1, <1>2 DEF RouteStep
<1> QED BY <1>3 DEF t

\* The parts of a state, by their types.
LEMMA Parts ==
  ASSUME NEW s \in Kernel, NEW a \in Addr
  PROVE  /\ s.installed[a] \in Resource \cup {NoRecord}
         /\ s.installed[a] \in Resource <=> s.installed[a] # NoRecord
         /\ s.routes[a] \in [Metrics -> {"none", "ours", "peer"}]
         /\ s.fw \in Firewall /\ s.faults \in Nat
         /\ s.leaked \in SUBSET (Addr \X Metrics)
  BY ResourcesAssumption DEF Kernel, Metrics

\* The parts of a record.
LEMMA PartsOfResource ==
  ASSUME NEW r \in Resource
  PROVE  /\ r.route \in {"Missing", "Present", "Removing"}
         /\ r.rule \in {"Missing", "Present", "Removing"}
         /\ r.releasing \in BOOLEAN /\ r.metric \in Metrics /\ r # NoRecord
         /\ r \in Resource \cup {NoRecord}
  BY ResourcesAssumption DEF Resource, Metrics

\* A record that says something else of the route, or of the rule.
RouteAs(r, x) == [r EXCEPT !.route = x]
RuleAs(r, x) == [r EXCEPT !.rule = x]

\* EndpointResources::route is set: the other fields stay.
LEMMA RouteField ==
  ASSUME NEW r \in Resource, NEW x \in {"Missing", "Present", "Removing"}
  PROVE  /\ RouteAs(r, x) \in Resource /\ RouteAs(r, x).route = x
         /\ RouteAs(r, x).rule = r.rule /\ RouteAs(r, x).releasing = r.releasing
         /\ RouteAs(r, x).metric = r.metric
  BY DEF Resource, RouteAs

\* EndpointResources::rule is set: the other fields stay.
LEMMA RuleField ==
  ASSUME NEW r \in Resource, NEW x \in {"Missing", "Present", "Removing"}
  PROVE  /\ RuleAs(r, x) \in Resource /\ RuleAs(r, x).rule = x
         /\ RuleAs(r, x).route = r.route /\ RuleAs(r, x).releasing = r.releasing
         /\ RuleAs(r, x).metric = r.metric
  BY DEF Resource, RuleAs

\* Another record of an address.
With(s, a, q) == [s EXCEPT !.installed[a] = q]

\* t is s with the record q of the address a.
OnRecord(s, a, q, t) ==
  /\ t \in Kernel /\ t.fw = s.fw /\ t.routes = s.routes /\ t.leaked = s.leaked
  /\ t.faults = s.faults
  /\ \A c \in Addr : c # a => t.installed[c] = s.installed[c]
  /\ t.installed[a] = q

\* A record is replaced in the map of installed resources: nothing else changes.
LEMMA WithIs ==
  ASSUME NEW s \in Kernel, NEW a \in Addr, NEW q \in Resource \cup {NoRecord}
  PROVE  OnRecord(s, a, q, With(s, a, q))
<1> DEFINE f == [s.installed EXCEPT ![a] = q]
           t == With(s, a, q)
<1>1. s.installed \in [Addr -> Resource \cup {NoRecord}]
  BY DEF Kernel
<1>2. /\ f \in [Addr -> Resource \cup {NoRecord}]
      /\ f[a] = q /\ \A c \in Addr : c # a => f[c] = s.installed[c]
  BY <1>1
<1>3. t = [s EXCEPT !.installed = f]
  BY DEF With
<1> HIDE DEF f, t
<1>4. /\ t \in Kernel /\ t.fw = s.fw /\ t.routes = s.routes /\ t.leaked = s.leaked
      /\ t.installed = f /\ t.faults = s.faults
  BY <1>2, <1>3 DEF Kernel
<1>5. /\ t \in Kernel /\ t.fw = s.fw /\ t.routes = s.routes /\ t.leaked = s.leaked
      /\ t.faults = s.faults
      /\ \A c \in Addr : c # a => t.installed[c] = s.installed[c]
      /\ t.installed[a] = q
  BY <1>2, <1>4
<1> QED BY <1>5, Zenon DEF t, OnRecord

\* The record of the route says something else.
LEMMA RouteSet ==
  ASSUME NEW s \in Kernel, NEW a \in Addr, s.installed[a] \in Resource, NEW x
  PROVE  [s EXCEPT !.installed[a].route = x] = With(s, a, RouteAs(s.installed[a], x))
  BY DEF With, RouteAs

\* A record of the route that agrees with the table.
LEMMA RouteSetSteps ==
  ASSUME NEW s \in Kernel, NEW a \in Addr, s.installed[a] \in Resource, RouteAt(s, a),
         NEW x \in {"Missing", "Present", "Removing"},
         x = "Present" => s.routes[a][s.installed[a].metric] = "ours",
         x = "Removing" => s.routes[a][s.installed[a].metric] # "peer",
         x = "Missing" => s.routes[a][s.installed[a].metric] # "ours"
  PROVE  RouteStep(s, [s EXCEPT !.installed[a].route = x], a)
<1> DEFINE q == RouteAs(s.installed[a], x)
           t == With(s, a, q)
<1>1. /\ q \in Resource /\ q.route = x /\ q.rule = s.installed[a].rule
      /\ q.releasing = s.installed[a].releasing /\ q.metric = s.installed[a].metric
  BY RouteField, Zenon
<1>2. [s EXCEPT !.installed[a].route = x] = t
  BY RouteSet, Zenon
<1> HIDE DEF q
<1>4. q # NoRecord /\ q.metric \in Metrics /\ q \in Resource \cup {NoRecord}
  BY <1>1, PartsOfResource, Zenon
<1>3. /\ t \in Kernel /\ t.fw = s.fw /\ t.routes = s.routes /\ t.leaked = s.leaked
      /\ \A c \in Addr : c # a => t.installed[c] = s.installed[c]
      /\ t.installed[a] = q
  <2>1. OnRecord(s, a, q, t)
    BY <1>4, WithIs, Zenon
  <2> HIDE DEF t
  <2> QED BY <2>1, Zenon DEF OnRecord
<1> HIDE DEF t
<1>5. RouteAt(t, a)
  BY <1>1, <1>3, <1>4 DEF RouteAt
<1>6. RouteStep(s, t, a)
  BY <1>1, <1>3, <1>5 DEF RouteStep
<1> QED BY <1>2, <1>6, Zenon

\* owned_host_route_exists: the record says what the table says.
LEMMA ReconcileRouteSteps ==
  ASSUME NEW s \in Kernel, NEW a \in Addr, s.installed[a] \in Resource, RouteAt(s, a),
         s.installed[a].route = "Removing", NEW t \in ReconcileRoute(s, a)
  PROVE  RouteStep(s, t, a)
<1> DEFINE m == s.installed[a].metric
           x == IF s.routes[a][m] # "none" THEN "Present" ELSE "Missing"
<1>1. t = [s EXCEPT !.installed[a].route = x] \/ t = [s EXCEPT !.faults = @ + 1]
  BY Zenon DEF ReconcileRoute, Request
<1>2. CASE t = [s EXCEPT !.faults = @ + 1]
  BY <1>2, FaultSteps, Zenon
<1>3. CASE t = [s EXCEPT !.installed[a].route = x]
  <2>1. s.installed[a] # NoRecord /\ m \in Metrics
    BY PartsOfResource, Zenon
  <2>2. s.routes[a][m] \in {"none", "ours", "peer"}
    BY <2>1, Parts
  <2>3. /\ x \in {"Missing", "Present", "Removing"}
        /\ x = "Present" => s.routes[a][m] = "ours"
        /\ x = "Removing" => s.routes[a][m] # "peer"
        /\ x = "Missing" => s.routes[a][m] # "ours"
    BY Zenon, <2>1, <2>2 DEF RouteAt
  <2> HIDE DEF x
  <2>4. RouteStep(s, [s EXCEPT !.installed[a].route = x], a)
    BY <2>3, RouteSetSteps, Zenon
  <2> QED BY <1>3, <2>4, Zenon
<1> QED BY <1>1, <1>2, <1>3, Zenon

\* Another route of an address in the table.
Table(s, a, m, x) == [s EXCEPT !.routes[a][m] = x]

\* One entry of the routing table changes.
LEMMA TableIs ==
  ASSUME NEW s \in Kernel, NEW a \in Addr, NEW m \in Metrics, NEW x \in {"none", "ours", "peer"}
  PROVE  /\ Table(s, a, m, x) \in Kernel
         /\ Table(s, a, m, x).fw = s.fw /\ Table(s, a, m, x).installed = s.installed
         /\ Table(s, a, m, x).leaked = s.leaked /\ Table(s, a, m, x).faults = s.faults
         /\ \A c \in Addr : c # a => Table(s, a, m, x).routes[c] = s.routes[c]
         /\ Table(s, a, m, x).routes[a][m] = x
         /\ \A i \in Metrics : i # m => Table(s, a, m, x).routes[a][i] = s.routes[a][i]
<1> DEFINE g == [s.routes[a] EXCEPT ![m] = x]
           f == [s.routes EXCEPT ![a] = g]
           t == Table(s, a, m, x)
<1>1. s.routes \in [Addr -> [Metrics -> {"none", "ours", "peer"}]]
  BY DEF Kernel, Metrics
<1>2. /\ g \in [Metrics -> {"none", "ours", "peer"}] /\ g[m] = x
      /\ \A i \in Metrics : i # m => g[i] = s.routes[a][i]
  BY <1>1
<1>3. t = [s EXCEPT !.routes = f]
  BY DEF Table
<1> HIDE DEF g
<1>4. /\ f \in [Addr -> [Metrics -> {"none", "ours", "peer"}]]
      /\ f[a] = g /\ \A c \in Addr : c # a => f[c] = s.routes[c]
  BY <1>1, <1>2
<1> HIDE DEF f, t
<1>5. /\ t \in Kernel /\ t.fw = s.fw /\ t.installed = s.installed /\ t.leaked = s.leaked
      /\ t.routes = f /\ t.faults = s.faults
  BY <1>3, <1>4 DEF Kernel, Metrics
<1>6. /\ t \in Kernel /\ t.fw = s.fw /\ t.installed = s.installed /\ t.leaked = s.leaked
      /\ t.faults = s.faults
      /\ \A c \in Addr : c # a => t.routes[c] = s.routes[c]
      /\ t.routes[a][m] = x
      /\ \A i \in Metrics : i # m => t.routes[a][i] = s.routes[a][i]
  BY <1>2, <1>4, <1>5
<1> QED BY <1>6, Zenon DEF t

\* Another count of faults.
LEMMA FaultIs ==
  ASSUME NEW s \in Kernel
  PROVE  LET t == [s EXCEPT !.faults = @ + 1] IN
         /\ t \in Kernel /\ t.fw = s.fw /\ t.installed = s.installed /\ t.routes = s.routes
         /\ t.leaked = s.leaked
  BY DEF Kernel

\* Steps one after another.
LEMMA RouteStepThen ==
  ASSUME NEW s \in Kernel, NEW a \in Addr, NEW t, RouteStep(s, t, a), NEW u, RouteStep(t, u, a)
  PROVE  RouteStep(s, u, a)
  BY DEF RouteStep

\* delete_host_route, done, failed, or done without an answer.
LEMMA DeleteRouteSteps ==
  ASSUME NEW s \in Kernel, NEW a \in Addr, s.installed[a] \in Resource, RouteAt(s, a),
         s.installed[a].route = "Removing", NEW t \in DeleteRoute(s, a)
  PROVE  RouteStep(s, t, a)
<1> DEFINE m == s.installed[a].metric
           gone == Table(s, a, m, "none")
<1>1. \/ t = [gone EXCEPT !.installed[a].route = "Missing"]
      \/ t = [s EXCEPT !.faults = @ + 1] \/ t = [gone EXCEPT !.faults = @ + 1]
  BY Zenon DEF DeleteRoute, Request, Table
<1>2. m \in Metrics /\ s.installed[a] # NoRecord
  BY PartsOfResource, Zenon
<1> HIDE DEF m
<1>3. /\ gone \in Kernel
      /\ gone.fw = s.fw /\ gone.installed = s.installed /\ gone.leaked = s.leaked
      /\ \A c \in Addr : c # a => gone.routes[c] = s.routes[c]
      /\ gone.routes[a][m] = "none"
      /\ \A i \in Metrics : i # m => gone.routes[a][i] = s.routes[a][i]
  BY <1>2, TableIs
<1> HIDE DEF gone
<1>4. RouteAt(gone, a)
  BY <1>2, <1>3 DEF RouteAt, m
<1>5. RouteStep(s, gone, a)
  BY <1>3, <1>4 DEF RouteStep
<1>6. gone.installed[a] \in Resource
  BY <1>3
<1>7. RouteStep(gone, [gone EXCEPT !.faults = @ + 1], a)
  BY <1>3, <1>4, <1>6, FaultSteps, Zenon
<1>8. RouteStep(gone, [gone EXCEPT !.installed[a].route = "Missing"], a)
  <2>1. gone.routes[a][gone.installed[a].metric] # "ours"
    BY <1>3 DEF m
  <2>2. /\ "Missing" \in {"Missing", "Present", "Removing"}
        /\ "Missing" # "Present" /\ "Missing" # "Removing"
    OBVIOUS
  <2> QED BY <1>3, <1>4, <1>6, <2>1, <2>2, RouteSetSteps, Zenon
<1>9. RouteStep(s, [s EXCEPT !.faults = @ + 1], a)
  BY FaultSteps, Zenon
<1>10. \A u : RouteStep(gone, u, a) => RouteStep(s, u, a)
  BY <1>5, RouteStepThen, Zenon
<1> QED BY <1>1, <1>7, <1>8, <1>9, <1>10, Zenon

\* create_host_route: a route that the kernel made is on record, or its answer was lost.
LEMMA CreateRouteSteps ==
  ASSUME NEW s \in Kernel, NEW a \in Addr, s.installed[a] \in Resource, RouteAt(s, a),
         s.installed[a].route = "Missing", NEW t \in CreateRoute(s, a)
  PROVE  RouteStep(s, t, a)
<1> DEFINE m == s.installed[a].metric
           made == Table(s, a, m, "ours")
           q == RouteAs(s.installed[a], "Present")
           lost == [made EXCEPT !.leaked = @ \cup {<<a, m>>}]
<1>1. m \in Metrics /\ s.installed[a] # NoRecord
  BY PartsOfResource, Zenon
<1>2. /\ made \in Kernel
      /\ made.fw = s.fw /\ made.installed = s.installed /\ made.leaked = s.leaked
      /\ \A c \in Addr : c # a => made.routes[c] = s.routes[c]
      /\ made.routes[a][m] = "ours"
      /\ \A i \in Metrics : i # m => made.routes[a][i] = s.routes[a][i]
  <2> HIDE DEF m
  <2> QED BY <1>1, TableIs
<1>3. \/ s.routes[a][m] # "none" /\ t = [s EXCEPT !.faults = @ + 1]
      \/ s.routes[a][m] = "none" /\ t = [made EXCEPT !.installed[a].route = "Present"]
      \/ t = [s EXCEPT !.faults = @ + 1]
      \/ s.routes[a][m] = "none" /\ t = [lost EXCEPT !.faults = @ + 1]
  <2>1. CASE s.routes[a][m] # "none"
    BY <2>1, Zenon DEF CreateRoute
  <2>2. CASE s.routes[a][m] = "none"
    <3>1. t \in Request(s, lost, [made EXCEPT !.installed[a].route = "Present"])
      BY <2>2, Zenon DEF CreateRoute, Table
    <3> HIDE DEF lost, made
    <3> QED BY <2>2, <3>1, Zenon DEF Request
  <2> QED BY <2>1, <2>2, Zenon
<1>4. RouteStep(s, [s EXCEPT !.faults = @ + 1], a)
  BY FaultSteps, Zenon
<1>5. /\ q \in Resource /\ q.route = "Present" /\ q.rule = s.installed[a].rule
      /\ q.releasing = s.installed[a].releasing /\ q.metric = m
      /\ q \in Resource \cup {NoRecord} /\ q # NoRecord
  <2>1. "Present" \in {"Missing", "Present", "Removing"}
    OBVIOUS
  <2>2. /\ q \in Resource /\ q.route = "Present" /\ q.rule = s.installed[a].rule
        /\ q.releasing = s.installed[a].releasing /\ q.metric = m
    BY <2>1, RouteField, Zenon
  <2> HIDE DEF q
  <2> QED BY <2>2, PartsOfResource, Zenon
<1>6. RouteStep(s, [made EXCEPT !.installed[a].route = "Present"], a)
  <2> DEFINE u == With(made, a, q)
  <2>1. [made EXCEPT !.installed[a].route = "Present"] = u
    <3> HIDE DEF made, m
    <3>1. made.installed[a] \in Resource
      BY <1>2
    <3>2. [made EXCEPT !.installed[a].route = "Present"]
            = With(made, a, RouteAs(made.installed[a], "Present"))
      BY <1>2, <3>1, RouteSet, ZenonT(60)
    <3> QED BY <1>2, <3>2, Zenon
  <2> HIDE DEF made, m, q
  <2>2. /\ u \in Kernel /\ u.fw = s.fw /\ u.routes = made.routes /\ u.leaked = s.leaked
        /\ \A c \in Addr : c # a => u.installed[c] = s.installed[c]
        /\ u.installed[a] = q
    <3>1. OnRecord(made, a, q, u)
      BY <1>2, <1>5, WithIs, Zenon
    <3> HIDE DEF u
    <3> QED BY <3>1, <1>2, Zenon DEF OnRecord
  <2> HIDE DEF u
  <2>3. RouteAt(u, a)
    BY <1>1, <1>2, <1>5, <2>2 DEF RouteAt
  <2>4. RouteStep(s, u, a)
    BY <1>2, <1>5, <2>2, <2>3 DEF RouteStep
  <2> QED BY <2>1, <2>4, Zenon
<1>7. RouteStep(s, [lost EXCEPT !.faults = @ + 1], a)
  <2>1. /\ lost \in Kernel /\ lost.fw = s.fw /\ lost.installed = s.installed
        /\ lost.routes = made.routes /\ lost.leaked = s.leaked \cup {<<a, m>>}
    <3> HIDE DEF made, m
    <3> QED BY <1>1, <1>2 DEF Kernel, Metrics
  <2> HIDE DEF lost, made, m
  <2>2. RouteAt(lost, a)
    BY <1>1, <1>2, <2>1 DEF RouteAt
  <2>3. RouteStep(s, lost, a)
    BY <1>2, <2>1, <2>2 DEF RouteStep
  <2>4. RouteStep(lost, [lost EXCEPT !.faults = @ + 1], a)
    <3>1. lost.installed[a] \in Resource
      BY <2>1
    <3> QED BY <2>1, <2>2, <3>1, FaultSteps, Zenon
  <2> QED BY <2>3, <2>4, RouteStepThen, Zenon
<1> HIDE DEF made, lost, m
<1> QED BY <1>3, <1>4, <1>6, <1>7, Zenon

\* next_owned_metric stays among the owned metrics.
LEMMA AdvancedIs ==
  ASSUME NEW m \in Metrics, NEW n \in Nat
  PROVE  Advanced(m, n) \in Metrics
<1>1. m \in Nat /\ Metric \in Nat /\ Metric > 0
  BY ResourcesAssumption DEF Metrics
<1>2. (m + n) % Metric \in 0 .. Metric - 1
  BY <1>1
<1> QED BY <1>2 DEF Advanced, Metrics

\* install_owned_route.
LEMMA InstallRouteSteps ==
  ASSUME NEW s \in Kernel, NEW a \in Addr, s.installed[a] \in Resource, RouteAt(s, a),
         s.installed[a].route = "Missing", NEW t \in InstallRoute(s, a)
  PROVE  RouteStep(s, t, a)
<1> DEFINE m == s.installed[a].metric
           Moved(n) == [s EXCEPT !.installed[a].metric = Advanced(m, n)]
<1>1. PICK n \in Nat : t = Moved(n) \/ t \in CreateRoute(Moved(n), a)
  <2>1. \/ t \in UNION {CreateRoute(Moved(n), a) : n \in Passed(s, a, m)}
        \/ t = Moved(PROBES)
    <3> DEFINE taken == \A i \in 0 .. PROBES - 1 : s.routes[a][Advanced(m, i)] # "none"
               U == UNION {CreateRoute(Moved(i), a) : i \in Passed(s, a, m)}
               I == IF taken THEN {Moved(PROBES)} ELSE {}
    <3>1. InstallRoute(s, a) = U \cup I
      BY Zenon DEF InstallRoute
    <3>2. t \in I => t = Moved(PROBES)
      <4> HIDE DEF taken, Moved, U
      <4> QED OBVIOUS
    <3> HIDE DEF I, U, Moved
    <3>3. t \in U \/ t = Moved(PROBES)
      BY <3>1, <3>2
    <3> QED BY <3>3, Zenon DEF U
  <2>2. Passed(s, a, m) \subseteq Nat /\ PROBES \in Nat
    BY ResourcesAssumption DEF Passed
  <2> HIDE DEF m, Moved
  <2> QED BY <2>1, <2>2
<1> DEFINE q == [s.installed[a] EXCEPT !.metric = Advanced(m, n)]
           u == With(s, a, q)
<1>2. Advanced(m, n) \in Metrics
  <2>1. m \in Metrics
    BY PartsOfResource, Zenon
  <2> QED BY <2>1, AdvancedIs, Zenon
<1>3. /\ q \in Resource /\ q.route = "Missing" /\ q.rule = s.installed[a].rule
      /\ q.releasing = s.installed[a].releasing
  <2> DEFINE x == Advanced(m, n)
             r == s.installed[a]
  <2>1. x \in Metrics /\ r \in Resource /\ r.route = "Missing"
    BY <1>2, Zenon
  <2> HIDE DEF x, r
  <2>2. LET p == [r EXCEPT !.metric = x] IN
        p \in Resource /\ p.route = "Missing" /\ p.rule = r.rule /\ p.releasing = r.releasing
    BY <2>1 DEF Resource, Metrics
  <2> QED BY <2>2, Zenon DEF x, r
<1>4. Moved(n) = u
  BY DEF With
<1> HIDE DEF m, q, Moved
<1>5. q # NoRecord /\ q \in Resource \cup {NoRecord}
  BY <1>3, PartsOfResource, Zenon
<1>6. /\ u \in Kernel /\ u.fw = s.fw /\ u.routes = s.routes /\ u.leaked = s.leaked
      /\ \A c \in Addr : c # a => u.installed[c] = s.installed[c]
      /\ u.installed[a] = q
  <2>1. OnRecord(s, a, q, u)
    BY <1>5, WithIs, Zenon
  <2> HIDE DEF u
  <2> QED BY <2>1, Zenon DEF OnRecord
<1> HIDE DEF u
<1>7. RouteAt(u, a)
  BY <1>3, <1>5, <1>6 DEF RouteAt
<1>8. RouteStep(s, u, a)
  BY <1>3, <1>6, <1>7 DEF RouteStep
<1>9. u.installed[a] \in Resource /\ u.installed[a].route = "Missing"
  BY <1>3, <1>6
<1>10. ASSUME t \in CreateRoute(u, a) PROVE RouteStep(s, t, a)
  <2>1. RouteStep(u, t, a)
    BY <1>6, <1>7, <1>9, <1>10, CreateRouteSteps, Zenon
  <2> QED BY <1>8, <2>1, RouteStepThen, Zenon
<1> QED BY <1>1, <1>4, <1>8, <1>10, Zenon

-----------------------------------------------------------------------------
(* The commands and operations of the rules.                               *)

\* Another number of jumps for an address, and other patterns.
Jumps(f, a, c, n) == [f EXCEPT !.jumps[a][c] = n]
Patterned(f, P) == [f EXCEPT !.patterns = P]

\* t is f with n jumps of the address a into the chain c.
Jumped(f, a, c, n, t) ==
  /\ t \in Firewall /\ t.keep = f.keep /\ t.keep_index = f.keep_index
  /\ t.patterns = f.patterns /\ t.chains = f.chains
  /\ \A e \in Addr : e # a => t.jumps[e] = f.jumps[e]
  /\ t.jumps[a][c] = n
  /\ \A d \in Chain : d # c => t.jumps[a][d] = f.jumps[a][d]

\* The jumps of one address into one chain change.
LEMMA JumpsIs ==
  ASSUME NEW f \in Firewall, NEW a \in Addr, NEW c \in Chain, NEW n \in Nat
  PROVE  Jumped(f, a, c, n, Jumps(f, a, c, n))
<1> DEFINE g == [f.jumps[a] EXCEPT ![c] = n]
           h == [f.jumps EXCEPT ![a] = g]
           t == Jumps(f, a, c, n)
<1>1. f.jumps \in [Addr -> [Chain -> Nat]]
  BY DEF Firewall
<1>2. g \in [Chain -> Nat] /\ g[c] = n /\ \A d \in Chain : d # c => g[d] = f.jumps[a][d]
  <2> HIDE DEF Chain
  <2> QED BY <1>1
<1>3. t = [f EXCEPT !.jumps = h]
  BY DEF Jumps
<1> HIDE DEF g
<1>4. h \in [Addr -> [Chain -> Nat]] /\ h[a] = g /\ \A e \in Addr : e # a => h[e] = f.jumps[e]
  BY <1>1, <1>2
<1> HIDE DEF h, t
<1>5. /\ t \in Firewall /\ t.keep = f.keep /\ t.keep_index = f.keep_index
      /\ t.patterns = f.patterns /\ t.chains = f.chains /\ t.jumps = h
  <2> DEFINE J == [Addr -> [Chain -> Nat]]
             D == [Chain -> {"none", "empty", "drop"}]
             P == SUBSET Addr
  <2>1. h \in J
    BY <1>4, Zenon
  <2>2. Firewall = [keep : BOOLEAN, keep_index : Chain, patterns : P, jumps : J, chains : D]
    BY Zenon DEF Firewall
  <2> HIDE DEF J, D, P
  <2> QED BY <1>3, <2>1, <2>2
<1>6. /\ t \in Firewall /\ t.keep = f.keep /\ t.keep_index = f.keep_index
      /\ t.patterns = f.patterns /\ t.chains = f.chains
      /\ \A e \in Addr : e # a => t.jumps[e] = f.jumps[e]
      /\ t.jumps[a][c] = n
      /\ \A d \in Chain : d # c => t.jumps[a][d] = f.jumps[a][d]
  BY <1>2, <1>4, <1>5
<1> QED BY <1>6, Zenon DEF t, Jumped

\* The patterns on record change, and nothing of the kernel.
LEMMA PatternedIs ==
  ASSUME NEW f \in Firewall, NEW P \in SUBSET Addr
  PROVE  /\ Patterned(f, P) \in Firewall /\ Patterned(f, P).keep = f.keep
         /\ Patterned(f, P).keep_index = f.keep_index /\ Patterned(f, P).jumps = f.jumps
         /\ Patterned(f, P).patterns = P /\ Patterned(f, P).chains = f.chains
  BY DEF Firewall, Patterned

\* What commands about one address leave of a firewall.
RuleOnly(f, g, a) ==
  /\ g \in Firewall /\ g.keep = f.keep /\ g.keep_index = f.keep_index /\ g.chains = f.chains
  /\ \A c \in Addr : c # a => g.jumps[c] = f.jumps[c] /\ (c \in g.patterns <=> c \in f.patterns)

\* The parts of a firewall, by their types.
LEMMA PartsOfFirewall ==
  ASSUME NEW f \in Firewall, NEW a \in Addr
  PROVE  /\ f.keep \in BOOLEAN /\ f.keep_index \in Chain /\ f.patterns \in SUBSET Addr
         /\ \A c \in Chain : f.jumps[a][c] \in Nat
         /\ active_chain(f) \in Chain /\ RuleOnly(f, f, a)
  BY DEF Firewall, active_chain, RuleOnly, Chain

\* Two commands on the rule of one address, one after the other.
LEMMA RuleOnlyThen ==
  ASSUME NEW f, NEW g, NEW h, NEW a \in Addr, RuleOnly(f, g, a), RuleOnly(g, h, a)
  PROVE  RuleOnly(f, h, a)
  BY DEF RuleOnly

\* -I INPUT.
Insertion(f, c, a, o) ==
  /\ o = Outcome(o.fw, o.answer, o.failed) /\ o.failed \in Nat /\ o.answer \in BOOLEAN
  /\ RuleOnly(f, o.fw, a) /\ o.fw.patterns = f.patterns
  /\ \A d \in Chain : d # c => o.fw.jumps[a][d] = f.jumps[a][d]
  /\ (o.answer => HasJump(o.fw, c, a)) /\ (~o.answer => o.fw = f)

\* -I INPUT: after a success the jump is there, after a failure nothing has changed.
LEMMA InsertSteps ==
  ASSUME NEW f \in Firewall, NEW c \in Chain, NEW a \in Addr, NEW o \in Insert(f, c, a)
  PROVE  Insertion(f, c, a, o)
<1> DEFINE g == Jumps(f, a, c, f.jumps[a][c] + 1)
<1>1. o = Outcome(f, FALSE, 0) \/ o = Outcome(f, FALSE, 1) \/ o = Outcome(g, TRUE, 0)
  <2>1. CASE f.chains[c] = "none"
    BY <2>1, Zenon DEF Insert
  <2>2. CASE f.chains[c] # "none"
    BY <2>2, Zenon DEF Insert, Jumps
  <2> QED BY <2>1, <2>2, Zenon
<1>2. f.jumps[a][c] \in Nat /\ RuleOnly(f, f, a)
  BY PartsOfFirewall, Zenon
<1>3. f.jumps[a][c] + 1 \in Nat /\ f.jumps[a][c] + 1 > 0 /\ 0 \in Nat /\ 1 \in Nat
  BY <1>2
<1>4. /\ g \in Firewall /\ g.keep = f.keep /\ g.keep_index = f.keep_index
      /\ g.patterns = f.patterns /\ g.chains = f.chains
      /\ \A e \in Addr : e # a => g.jumps[e] = f.jumps[e]
      /\ g.jumps[a][c] = f.jumps[a][c] + 1
      /\ \A d \in Chain : d # c => g.jumps[a][d] = f.jumps[a][d]
  <2>1. Jumped(f, a, c, f.jumps[a][c] + 1, g)
    BY <1>3, JumpsIs, Zenon
  <2> HIDE DEF g
  <2> QED BY <2>1, Zenon DEF Jumped
<1> HIDE DEF g
<1>5. RuleOnly(f, g, a) /\ HasJump(g, c, a)
  BY <1>3, <1>4 DEF RuleOnly, HasJump
<1>6. ASSUME NEW n \in {0, 1}, o = Outcome(f, FALSE, n)
      PROVE  o.fw = f /\ o.answer = FALSE /\ o.failed = n
  BY <1>6 DEF Outcome
<1>7. ASSUME o = Outcome(g, TRUE, 0) PROVE o.fw = g /\ o.answer = TRUE /\ o.failed = 0
  BY <1>7 DEF Outcome
<1>8. CASE o = Outcome(g, TRUE, 0)
  BY <1>3, <1>4, <1>5, <1>7, <1>8, ZenonT(60) DEF Insertion
<1>9. ASSUME NEW n \in {0, 1}, o = Outcome(f, FALSE, n)
      PROVE  /\ o = Outcome(o.fw, o.answer, o.failed) /\ o.failed \in Nat
             /\ o.fw = f /\ ~o.answer /\ o.answer \in BOOLEAN
  <2>1. o.fw = f /\ o.answer = FALSE /\ o.failed = n
    BY <1>6, <1>9, Zenon
  <2> QED BY <1>3, <1>9, <2>1, Zenon
<1>10. 0 \in {0, 1} /\ 1 \in {0, 1}
  OBVIOUS
<1> QED BY <1>1, <1>2, <1>8, <1>9, <1>10, Zenon DEF Insertion

\* As many deletions as there are jumps, at most.
LEMMA MinIs ==
  ASSUME NEW x \in Nat, NEW y \in Nat
  PROVE  Min({x, y}) \in Nat /\ Min({x, y}) <= x
<1>1. \E z \in {x, y} : \A w \in {x, y} : z <= w
  <2>1. CASE x <= y
    BY <2>1
  <2>2. CASE ~(x <= y)
    BY <2>2
  <2> QED BY <2>1, <2>2
<1>2. Min({x, y}) \in {x, y} /\ \A w \in {x, y} : Min({x, y}) <= w
  BY <1>1, Zenon DEF Min
<1> QED BY <1>2

\* An outcome of deletions.
Deletion(f, a, o) ==
  /\ o = Outcome(o.fw, o.answer, o.failed) /\ o.failed \in Nat
  /\ RuleOnly(f, o.fw, a) /\ o.fw.patterns = f.patterns

\* -D INPUT.
LEMMA DeleteSteps ==
  ASSUME NEW f \in Firewall, NEW c \in Chain, NEW a \in Addr, NEW times \in Nat,
         NEW o \in Delete(f, c, a, times)
  PROVE  /\ Deletion(f, a, o)
         /\ \A d \in Chain : d # c => o.fw.jumps[a][d] = f.jumps[a][d]
<1> DEFINE m == Min({f.jumps[a][c], times})
           g(d) == Jumps(f, a, c, f.jumps[a][c] - d)
<1>1. PICK d \in 0 .. m : o = Outcome(g(d), TRUE, IF d < m THEN 1 ELSE 0)
  BY Zenon DEF Delete, Jumps
<1>2. f.jumps[a][c] \in Nat
  BY PartsOfFirewall, Zenon
<1>3. m \in Nat /\ m <= f.jumps[a][c]
  <2> HIDE DEF m
  <2>1. Min({f.jumps[a][c], times}) \in Nat /\ Min({f.jumps[a][c], times}) <= f.jumps[a][c]
    BY <1>2, MinIs, Zenon
  <2> QED BY <2>1, Zenon DEF m
<1> HIDE DEF m
<1>4. f.jumps[a][c] - d \in Nat /\ (IF d < m THEN 1 ELSE 0) \in Nat
  BY <1>1, <1>2, <1>3
<1>5. /\ g(d) \in Firewall /\ g(d).keep = f.keep /\ g(d).keep_index = f.keep_index
      /\ g(d).patterns = f.patterns /\ g(d).chains = f.chains
      /\ \A e \in Addr : e # a => g(d).jumps[e] = f.jumps[e]
      /\ \A e \in Chain : e # c => g(d).jumps[a][e] = f.jumps[a][e]
  <2>1. Jumped(f, a, c, f.jumps[a][c] - d, g(d))
    BY <1>4, JumpsIs, Zenon
  <2> HIDE DEF g
  <2> QED BY <2>1, Zenon DEF Jumped
<1> HIDE DEF g
<1>6. RuleOnly(f, g(d), a)
  BY <1>5, Zenon DEF RuleOnly
<1>7. o.fw = g(d) /\ o.failed = (IF d < m THEN 1 ELSE 0) /\ o.answer = TRUE
  BY <1>1 DEF Outcome
<1>8. o = Outcome(o.fw, o.answer, o.failed) /\ o.failed \in Nat
  BY <1>1, <1>4, <1>7, Zenon
<1> QED BY <1>5, <1>6, <1>7, <1>8, ZenonT(60) DEF Deletion

\* The deletions from every chain.
LEMMA DeleteAllSteps ==
  ASSUME NEW f \in Firewall, NEW a \in Addr, NEW o \in DeleteAll(f, a)
  PROVE  Deletion(f, a, o)
<1>1. DelAttempts \in Nat /\ 0 \in Chain /\ 1 \in Chain
  BY IptablesAssumption DEF Chain
<1>2. CASE ~f.keep
  <2>1. o \in Delete(f, 0, a, DelAttempts)
    BY <1>2, Zenon DEF DeleteAll
  <2> QED BY <1>1, <2>1, DeleteSteps, Zenon
<1>3. CASE f.keep
  <2>1. PICK p \in Delete(f, 0, a, DelAttempts) : o \in And(p, Delete(p.fw, 1, a, DelAttempts))
    BY <1>3, Zenon DEF DeleteAll
  <2>2. Deletion(f, a, p)
    BY <1>1, DeleteSteps, Zenon
  <2>3. PICK q \in Delete(p.fw, 1, a, DelAttempts) : o = [q EXCEPT !.failed = @ + p.failed]
    BY <2>1, Zenon DEF And
  <2>4. p.fw \in Firewall
    BY <2>2, Zenon DEF RuleOnly, Deletion
  <2>5. Deletion(p.fw, a, q)
    BY <1>1, <2>4, DeleteSteps, Zenon
  <2> DEFINE y == q.answer
             n == q.failed
             i == p.failed
  <2>6. q = Outcome(q.fw, y, n) /\ n \in Nat /\ i \in Nat
    BY <2>2, <2>5, Zenon DEF Deletion
  <2> HIDE DEF y, n, i
  <2>7. o = Outcome(q.fw, y, n + i) /\ n + i \in Nat
    <3>1. o = [q EXCEPT !.failed = @ + i]
      BY <2>3, Zenon DEF i
    <3>2. [Outcome(q.fw, y, n) EXCEPT !.failed = @ + i] = Outcome(q.fw, y, n + i) /\ n + i \in Nat
      BY <2>6 DEF Outcome
    <3> QED BY <2>6, <3>1, <3>2, Zenon
  <2>8. o.fw = q.fw /\ o.failed = n + i /\ o.answer = y
    BY <2>7 DEF Outcome
  <2>9. RuleOnly(f, q.fw, a)
    BY <2>2, <2>5, RuleOnlyThen, Zenon DEF Deletion
  <2>10. o = Outcome(o.fw, o.answer, o.failed)
    BY <2>7, <2>8, Zenon
  <2> QED BY <2>2, <2>5, <2>7, <2>8, <2>9, <2>10, Zenon DEF Deletion
<1> QED BY <1>2, <1>3, Zenon

\* Another firewall, and another number of faults.
Fired(s, g, j) == [s EXCEPT !.fw = g, !.faults = j]

\* A command on the firewall leaves the records and the routes alone.
LEMMA FiredIs ==
  ASSUME NEW s \in Kernel, NEW g \in Firewall, NEW j \in Nat
  PROVE  /\ Fired(s, g, j) \in Kernel /\ Fired(s, g, j).fw = g
         /\ Fired(s, g, j).installed = s.installed /\ Fired(s, g, j).routes = s.routes
         /\ Fired(s, g, j).leaked = s.leaked
<1> DEFINE I == [Addr -> Resource \cup {NoRecord}]
           R == [Addr -> [0 .. Metric - 1 -> {"none", "ours", "peer"}]]
           L == SUBSET (Addr \X (0 .. Metric - 1))
           w == [s EXCEPT !.fw = g]
           v == Fired(s, g, j)
<1>1. Kernel = [installed : I, routes : R, fw : Firewall, faults : Nat, leaked : L]
  BY Zenon DEF Kernel
<1> HIDE DEF I, R, L
<1>2. v = [w EXCEPT !.faults = j]
  BY DEF Fired
<1> HIDE DEF v
<1>3. /\ w \in Kernel /\ w.fw = g /\ w.installed = s.installed /\ w.routes = s.routes
      /\ w.leaked = s.leaked
  BY <1>1
<1> HIDE DEF w
<1>4. /\ v \in Kernel /\ v.fw = g /\ v.installed = s.installed /\ v.routes = s.routes
      /\ v.leaked = s.leaked
  BY <1>1, <1>2, <1>3
<1> QED BY <1>4, Zenon DEF v

\* What an operation on the rules makes of the record of the address.
LEMMA WithRuleSteps ==
  ASSUME NEW s \in Kernel, NEW a \in Addr, s.installed[a] \in Resource,
         NEW g, NEW y, NEW n \in Nat, NEW x \in {"Missing", "Present", "Removing"},
         RuleOnly(s.fw, g, a), a \in g.patterns <=> x # "Missing", JumpAt(g, a),
         x = "Present" => HasJump(g, active_chain(g), a)
  PROVE  RuleStep(s, WithRule(s, a, Outcome(g, y, n), x), a)
<1> DEFINE v == Fired(s, g, s.faults + n)
           q == RuleAs(s.installed[a], x)
           u == With(v, a, q)
           t == WithRule(s, a, Outcome(g, y, n), x)
<1>1. /\ q \in Resource /\ q.rule = x /\ q.route = s.installed[a].route
      /\ q.releasing = s.installed[a].releasing /\ q.metric = s.installed[a].metric
  BY RuleField, Zenon
<1>2. g \in Firewall /\ s.faults + n \in Nat
  BY Parts DEF RuleOnly
<1>3. /\ v \in Kernel /\ v.fw = g /\ v.installed = s.installed /\ v.routes = s.routes
      /\ v.leaked = s.leaked
  BY <1>2, FiredIs, ZenonT(60)
<1>4. t = u
  <2> DEFINE o == Outcome(g, y, n)
  <2>1. o.fw = g /\ o.failed = n
    BY DEF Outcome
  <2> HIDE DEF o
  <2>2. WithRule(s, a, o, x) = [v EXCEPT !.installed[a].rule = x]
    BY <1>3, <2>1 DEF WithRule, Fired
  <2>3. [v EXCEPT !.installed[a].rule = x] = With(v, a, RuleAs(v.installed[a], x))
    BY DEF With, RuleAs
  <2> HIDE DEF v
  <2> QED BY <1>3, <2>2, <2>3, Zenon DEF o
<1> HIDE DEF q, v, t
<1>5. q # NoRecord /\ q \in Resource \cup {NoRecord}
  BY <1>1, PartsOfResource, Zenon
<1>6. /\ u \in Kernel /\ u.fw = g /\ u.routes = s.routes /\ u.leaked = s.leaked
      /\ \A c \in Addr : c # a => u.installed[c] = s.installed[c]
      /\ u.installed[a] = q
  <2>1. OnRecord(v, a, q, u)
    BY <1>3, <1>5, WithIs, Zenon
  <2> HIDE DEF u
  <2> QED BY <2>1, <1>3, Zenon DEF OnRecord
<1> HIDE DEF u
<1>7. RuleAt(u, a)
  BY <1>1, <1>5, <1>6 DEF RuleAt
<1>8. RuleStep(s, u, a)
  BY <1>1, <1>6, <1>7 DEF RuleStep, RuleOnly
<1> QED BY <1>4, <1>8, Zenon DEF t

\* An address that is put on record or taken off it.
Adding(f, a) == Patterned(f, f.patterns \cup {a})
Dropping(f, a) == Patterned(f, f.patterns \ {a})

\* The outcome of a command, with other patterns on record.
Managing(o, P) == [o EXCEPT !.fw.patterns = P]

\* It has another firewall and the same answer.
LEMMA OutcomePatterned ==
  ASSUME NEW f, NEW x, NEW n, NEW P
  PROVE  Managing(Outcome(f, x, n), P) = Outcome(Patterned(f, P), x, n)
  BY DEF Outcome, Patterned, Managing

\* add_pattern and reconcile_pattern put the pattern on record.
LEMMA AddingSteps ==
  ASSUME NEW f, NEW g, NEW a \in Addr, RuleOnly(f, g, a)
  PROVE  /\ RuleOnly(f, Adding(g, a), a) /\ a \in Adding(g, a).patterns
         /\ Adding(g, a).keep = g.keep /\ Adding(g, a).jumps = g.jumps
         /\ active_chain(Adding(g, a)) = active_chain(g)
<1> DEFINE P == g.patterns \cup {a}
           h == Adding(g, a)
<1>1. g \in Firewall
  BY Zenon DEF RuleOnly
<1>2. g.patterns \in SUBSET Addr
  BY <1>1, PartsOfFirewall, Zenon
<1>3. P \in SUBSET Addr /\ a \in P /\ \A c \in Addr : c # a => (c \in P <=> c \in g.patterns)
  BY <1>2
<1>4. h = Patterned(g, P)
  BY Zenon DEF Adding
<1> HIDE DEF h, P
<1>5. /\ h \in Firewall /\ h.keep = g.keep /\ h.keep_index = g.keep_index /\ h.jumps = g.jumps
      /\ h.patterns = P /\ h.chains = g.chains
  BY <1>1, <1>3, <1>4, PatternedIs, Zenon
<1>6. RuleOnly(f, h, a)
  BY <1>3, <1>5, Zenon DEF RuleOnly
<1>7. active_chain(h) = active_chain(g)
  BY <1>5, Zenon DEF active_chain
<1> QED BY <1>3, <1>5, <1>6, <1>7, Zenon DEF h

\* del_pattern and reconcile_pattern take the pattern off record.
LEMMA DroppingSteps ==
  ASSUME NEW f, NEW g, NEW a \in Addr, RuleOnly(f, g, a)
  PROVE  /\ RuleOnly(f, Dropping(g, a), a) /\ a \notin Dropping(g, a).patterns
         /\ Dropping(g, a).keep = g.keep /\ Dropping(g, a).jumps = g.jumps
<1> DEFINE P == g.patterns \ {a}
           h == Dropping(g, a)
<1>1. g \in Firewall
  BY Zenon DEF RuleOnly
<1>2. g.patterns \in SUBSET Addr
  BY <1>1, PartsOfFirewall, Zenon
<1>3. P \in SUBSET Addr /\ a \notin P /\ \A c \in Addr : c # a => (c \in P <=> c \in g.patterns)
  BY <1>2
<1>4. h = Patterned(g, P)
  BY Zenon DEF Dropping
<1> HIDE DEF h, P
<1>5. /\ h \in Firewall /\ h.keep = g.keep /\ h.keep_index = g.keep_index /\ h.jumps = g.jumps
      /\ h.patterns = P /\ h.chains = g.chains
  BY <1>1, <1>3, <1>4, PatternedIs, Zenon
<1>6. RuleOnly(f, h, a)
  BY <1>3, <1>5, Zenon DEF RuleOnly
<1> QED BY <1>3, <1>5, <1>6, Zenon DEF h

\* reconcile_pattern, of a rule that the record is not sure of.
LEMMA ReconcileRuleSteps ==
  ASSUME NEW s \in Kernel, NEW a \in Addr, s.installed[a] \in Resource, RuleAt(s, a), JumpAt(s.fw, a),
         s.installed[a].rule = "Removing", NEW t \in ReconcileRule(s, a)
  PROVE  RuleStep(s, t, a)
<1> DEFINE f == s.fw
           Rule(y) == CASE y = "Present" -> "Present" [] y = "Absent" -> "Missing"
                        [] y = "Unknown" -> "Removing"
<1>1. PICK o \in reconcile_pattern(f, a) : t = WithRule(s, a, o, Rule(o.answer))
  BY Zenon DEF ReconcileRule
<1>2. Rule("Present") = "Present" /\ Rule("Absent") = "Missing" /\ Rule("Unknown") = "Removing"
  OBVIOUS
<1> HIDE DEF Rule
<1>3. f \in Firewall /\ active_chain(f) \in Chain /\ RuleOnly(f, f, a)
  BY Parts, PartsOfFirewall, Zenon
<1>4. a \in f.patterns
  <2>1. s.installed[a] # NoRecord
    BY PartsOfResource, Zenon
  <2> QED BY <2>1 DEF RuleAt
<1>5. CASE HasJump(f, active_chain(f), a) /\ o = Outcome(Adding(f, a), "Present", 0)
  <2> DEFINE g == Adding(f, a)
  <2>1. /\ RuleOnly(f, g, a) /\ a \in g.patterns /\ g.keep = f.keep /\ g.jumps = f.jumps
        /\ active_chain(g) = active_chain(f)
    BY <1>3, AddingSteps, ZenonT(60)
  <2> HIDE DEF g
  <2>2. HasJump(g, active_chain(g), a) /\ a \in g.patterns
    BY <1>5, <2>1 DEF HasJump
  <2>3. o.answer = "Present"
    BY <1>5 DEF Outcome
  <2>4. RuleStep(s, WithRule(s, a, Outcome(g, "Present", 0), "Present"), a)
    <3>1. /\ 0 \in Nat /\ "Present" \in {"Missing", "Present", "Removing"}
          /\ RuleOnly(s.fw, g, a) /\ (a \in g.patterns <=> "Present" # "Missing") /\ JumpAt(g, a)
          /\ "Present" = "Present" => HasJump(g, active_chain(g), a)
      BY <2>1, <2>2 DEF JumpAt
    <3> QED BY <3>1, WithRuleSteps, Zenon
  <2> QED BY <1>1, <1>2, <1>5, <2>3, <2>4, Zenon DEF g
<1>6. CASE ~HasJump(f, active_chain(f), a) /\ o = Outcome(Dropping(f, a), "Absent", 0)
  <2> DEFINE g == Dropping(f, a)
  <2>1. /\ RuleOnly(f, g, a) /\ a \notin g.patterns /\ g.keep = f.keep /\ g.jumps = f.jumps
    BY <1>3, DroppingSteps, ZenonT(60)
  <2> HIDE DEF g
  <2>2. JumpAt(g, a)
    BY <1>6, <2>1 DEF HasJump, JumpAt, active_chain
  <2>3. o.answer = "Absent"
    BY <1>6 DEF Outcome
  <2>4. RuleStep(s, WithRule(s, a, Outcome(g, "Absent", 0), "Missing"), a)
    <3>1. /\ 0 \in Nat /\ "Missing" \in {"Missing", "Present", "Removing"}
          /\ RuleOnly(s.fw, g, a) /\ (a \in g.patterns <=> "Missing" # "Missing") /\ JumpAt(g, a)
          /\ "Missing" = "Present" => HasJump(g, active_chain(g), a)
      BY <2>1, <2>2
    <3> QED BY <3>1, WithRuleSteps, Zenon
  <2> QED BY <1>1, <1>2, <1>6, <2>3, <2>4, Zenon DEF g
<1>7. ASSUME NEW p \in Insert(f, active_chain(f), a), p.answer,
             o = Outcome(Adding(p.fw, a), "Present", 1)
      PROVE  RuleStep(s, t, a)
  <2> DEFINE g == Adding(p.fw, a)
  <2>1. RuleOnly(f, p.fw, a) /\ p.fw.patterns = f.patterns /\ HasJump(p.fw, active_chain(f), a)
    <3>1. Insertion(f, active_chain(f), a, p)
      BY <1>3, InsertSteps, Zenon
    <3> QED BY <1>7, <3>1 DEF Insertion
  <2>2. o = Outcome(g, "Present", 1)
    BY <1>7, Zenon
  <2>3. /\ RuleOnly(f, g, a) /\ a \in g.patterns /\ g.keep = p.fw.keep /\ g.jumps = p.fw.jumps
        /\ active_chain(g) = active_chain(p.fw)
    BY <2>1, AddingSteps, ZenonT(60)
  <2>4. active_chain(p.fw) = active_chain(f)
    BY <2>1, Zenon DEF RuleOnly, active_chain
  <2> HIDE DEF g
  <2>5. HasJump(g, active_chain(g), a) /\ a \in g.patterns
    BY <2>1, <2>3, <2>4 DEF HasJump
  <2>6. o.answer = "Present"
    BY <2>2 DEF Outcome
  <2>7. RuleStep(s, WithRule(s, a, Outcome(g, "Present", 1), "Present"), a)
    <3>1. /\ 1 \in Nat /\ "Present" \in {"Missing", "Present", "Removing"}
          /\ RuleOnly(s.fw, g, a) /\ (a \in g.patterns <=> "Present" # "Missing") /\ JumpAt(g, a)
          /\ "Present" = "Present" => HasJump(g, active_chain(g), a)
      BY <2>3, <2>5 DEF JumpAt
    <3> QED BY <3>1, WithRuleSteps, Zenon
  <2> QED BY <1>1, <1>2, <2>2, <2>6, <2>7, Zenon
<1>8. ASSUME NEW p \in Insert(f, active_chain(f), a), ~p.answer,
             o = Outcome(p.fw, "Unknown", 1 + p.failed)
      PROVE  RuleStep(s, t, a)
  <2>1. p.fw = f /\ p.failed \in Nat
    <3>1. Insertion(f, active_chain(f), a, p)
      BY <1>3, InsertSteps, Zenon
    <3> QED BY Zenon, <1>8, <3>1 DEF Insertion
  <2>2. 1 + p.failed \in Nat
    BY <2>1
  <2>3. o.answer = "Unknown"
    BY <1>8 DEF Outcome
  <2>4. RuleStep(s, WithRule(s, a, Outcome(f, "Unknown", 1 + p.failed), "Removing"), a)
    <3>1. /\ 1 + p.failed \in Nat /\ "Removing" \in {"Missing", "Present", "Removing"}
          /\ RuleOnly(s.fw, f, a) /\ (a \in f.patterns <=> "Removing" # "Missing") /\ JumpAt(f, a)
          /\ "Removing" = "Present" => HasJump(f, active_chain(f), a)
      BY <1>3, <1>4, <2>2
    <3> QED BY <3>1, WithRuleSteps, Zenon
  <2> QED BY <1>1, <1>2, <1>8, <2>1, <2>3, <2>4, Zenon
<1>9. \/ HasJump(f, active_chain(f), a) /\ o = Outcome(Adding(f, a), "Present", 0)
      \/ ~HasJump(f, active_chain(f), a) /\ o = Outcome(Dropping(f, a), "Absent", 0)
      \/ \E p \in Insert(f, active_chain(f), a) :
           \/ p.answer /\ o = Outcome(Adding(p.fw, a), "Present", 1)
           \/ ~p.answer /\ o = Outcome(p.fw, "Unknown", 1 + p.failed)
  <2> DEFINE A == IF HasJump(f, active_chain(f), a) THEN Outcome(Adding(f, a), "Present", 0)
                  ELSE Outcome(Dropping(f, a), "Absent", 0)
             B(p) == IF p.answer THEN Outcome(Adding(p.fw, a), "Present", 1)
                     ELSE Outcome(p.fw, "Unknown", 1 + p.failed)
  <2>1. o \in {A} \cup {B(p) : p \in Insert(f, active_chain(f), a)}
    BY Zenon DEF reconcile_pattern, Patterned, Adding, Dropping
  <2>2. o = A \/ \E p \in Insert(f, active_chain(f), a) : o = B(p)
    <3> HIDE DEF A, B
    <3> QED BY <2>1
  <2> QED BY <2>2, Zenon
<1> QED BY <1>5, <1>6, <1>7, <1>8, <1>9, Zenon

\* add_pattern, of an address without a rule on record.
LEMMA AddRuleSteps ==
  ASSUME NEW s \in Kernel, NEW a \in Addr, s.installed[a] \in Resource, RuleAt(s, a), JumpAt(s.fw, a),
         s.installed[a].rule = "Missing", NEW t \in AddRule(s, a)
  PROVE  RuleStep(s, t, a)
<1> DEFINE f == s.fw
           c == active_chain(f)
           Rule(y) == IF y THEN "Present" ELSE "Missing"
<1>1. PICK o \in add_pattern(f, a) : t = WithRule(s, a, o, Rule(o.answer))
  BY Zenon DEF AddRule
<1>2. f \in Firewall /\ c \in Chain /\ RuleOnly(f, f, a)
  BY Parts, PartsOfFirewall, Zenon
<1>3. a \notin f.patterns
  BY DEF RuleAt
<1>4. PICK p \in Insert(f, c, a) : o = [p EXCEPT !.fw.patterns = IF p.answer THEN @ \cup {a} ELSE @]
  BY <1>3, Zenon DEF add_pattern
<1>5. Insertion(f, c, a, p)
  BY <1>2, InsertSteps, Zenon
<1> DEFINE g == p.fw
           y == p.answer
           n == p.failed
<1>6. p = Outcome(g, y, n) /\ n \in Nat /\ RuleOnly(f, g, a) /\ g.patterns = f.patterns
  BY <1>5, Zenon DEF Insertion
<1>7. CASE y
  <2> DEFINE h == Adding(g, a)
  <2>1. HasJump(g, c, a)
    BY <1>5, <1>7 DEF Insertion
  <2>2. /\ RuleOnly(f, h, a) /\ a \in h.patterns /\ h.keep = g.keep /\ h.jumps = g.jumps
        /\ active_chain(h) = active_chain(g)
    BY <1>6, AddingSteps, ZenonT(60)
  <2>3. active_chain(g) = c
    BY <1>6, Zenon DEF RuleOnly, active_chain
  <2>4. o = Outcome(h, y, n)
    <3>1. o = Managing(p, g.patterns \cup {a})
      BY <1>4, <1>7 DEF Managing
    <3> HIDE DEF y, n, g
    <3>2. Managing(Outcome(g, y, n), g.patterns \cup {a}) = Outcome(h, y, n)
      BY OutcomePatterned, Zenon DEF Adding
    <3> QED BY <1>6, <3>1, <3>2, Zenon
  <2>5. Rule(o.answer) = "Present"
    <3>1. o.answer = y
      <4> HIDE DEF y, n, g, h
      <4> QED BY <2>4 DEF Outcome
    <3> QED BY <1>7, <3>1
  <2> HIDE DEF h, y, n, g, c
  <2>6. HasJump(h, active_chain(h), a)
    BY <2>1, <2>2, <2>3 DEF HasJump
  <2>7. /\ "Present" \in {"Missing", "Present", "Removing"}
        /\ RuleOnly(s.fw, h, a) /\ (a \in h.patterns <=> "Present" # "Missing") /\ JumpAt(h, a)
        /\ "Present" = "Present" => HasJump(h, active_chain(h), a)
    BY Zenon, <2>2, <2>6 DEF JumpAt
  <2>8. RuleStep(s, WithRule(s, a, Outcome(h, y, n), "Present"), a)
    BY <1>6, <2>7, WithRuleSteps, Zenon
  <2> QED BY <1>1, <2>4, <2>5, <2>8, Zenon
<1>8. CASE ~y
  <2>1. g = f
    BY Zenon, <1>5, <1>8 DEF Insertion
  <2>2. o = Outcome(g, y, n)
    <3>1. o = [p EXCEPT !.fw.patterns = g.patterns]
      BY <1>4, <1>8
    <3>2. g \in Firewall
      BY <1>2, <2>1, Zenon
    <3> HIDE DEF y, n, g
    <3>3. [g EXCEPT !.patterns = g.patterns] = g
      BY <3>2 DEF Firewall
    <3>4. [Outcome(g, y, n) EXCEPT !.fw.patterns = g.patterns]
            = Outcome([g EXCEPT !.patterns = g.patterns], y, n)
      BY DEF Outcome
    <3> QED BY <1>6, <3>1, <3>3, <3>4, Zenon
  <2>3. Rule(o.answer) = "Missing"
    <3>1. o.answer = y
      <4> HIDE DEF y, n, g
      <4> QED BY <2>2 DEF Outcome
    <3> QED BY <1>8, <3>1
  <2> HIDE DEF y, n, g, c
  <2>4. /\ "Missing" \in {"Missing", "Present", "Removing"}
        /\ RuleOnly(s.fw, g, a) /\ (a \in g.patterns <=> "Missing" # "Missing") /\ JumpAt(g, a)
        /\ "Missing" = "Present" => HasJump(g, active_chain(g), a)
    BY Zenon, <1>3, <1>6, <2>1
  <2>5. RuleStep(s, WithRule(s, a, Outcome(g, y, n), "Missing"), a)
    BY <1>6, <2>4, WithRuleSteps, Zenon
  <2> QED BY <1>1, <2>2, <2>3, <2>5, Zenon
<1> QED BY <1>7, <1>8, Zenon

\* del_pattern, of a rule that is to go.
LEMMA DeleteRuleSteps ==
  ASSUME NEW s \in Kernel, NEW a \in Addr, s.installed[a] \in Resource, RuleAt(s, a), JumpAt(s.fw, a),
         s.installed[a].rule = "Removing", NEW t \in DeleteRule(s, a)
  PROVE  RuleStep(s, t, a)
<1> DEFINE f == s.fw
           Rule(y) == IF y THEN "Missing" ELSE "Removing"
<1>1. PICK o \in del_pattern(f, a) : t = WithRule(s, a, o, Rule(o.answer))
  BY Zenon DEF DeleteRule
<1>2. f \in Firewall
  BY Parts, Zenon
<1>3. a \in f.patterns
  <2>1. s.installed[a] # NoRecord
    BY PartsOfResource, Zenon
  <2> QED BY <2>1 DEF RuleAt
<1>4. PICK p \in DeleteAll(f, a) :
        \/ o = Outcome(p.fw, FALSE, p.failed)
        \/ o = Outcome(p.fw, FALSE, p.failed + 1)
        \/ /\ o = Outcome(Dropping(p.fw, a), TRUE, p.failed)
           /\ ~\E c \in Managed(f) : HasJump(p.fw, c, a)
  <2> DEFINE A(p) == IF \E c \in Managed(f) : HasJump(p.fw, c, a)
                     THEN Outcome(p.fw, FALSE, p.failed)
                     ELSE Outcome(Dropping(p.fw, a), TRUE, p.failed)
             B(p) == Outcome(p.fw, FALSE, p.failed + 1)
  <2>1. o \in UNION {{A(p), B(p)} : p \in DeleteAll(f, a)}
    BY <1>3, Zenon DEF del_pattern, Patterned, Dropping
  <2>2. PICK p \in DeleteAll(f, a) : o = A(p) \/ o = B(p)
    <3> HIDE DEF A, B
    <3> QED BY <2>1
  <2> QED BY <2>2, Zenon
<1>5. Deletion(f, a, p)
  BY <1>2, DeleteAllSteps, Zenon
<1> DEFINE g == p.fw
           n == p.failed
<1>6. n \in Nat /\ n + 1 \in Nat /\ RuleOnly(f, g, a) /\ g.patterns = f.patterns
  BY <1>5 DEF Deletion
<1>7. ASSUME NEW i \in Nat, o = Outcome(g, FALSE, i) PROVE RuleStep(s, t, a)
  <2>1. Rule(o.answer) = "Removing"
    <3>1. o.answer = FALSE
      BY <1>7 DEF Outcome
    <3> QED BY <3>1
  <2> HIDE DEF g, n, Rule
  <2>2. /\ "Removing" \in {"Missing", "Present", "Removing"}
        /\ RuleOnly(s.fw, g, a) /\ (a \in g.patterns <=> "Removing" # "Missing") /\ JumpAt(g, a)
        /\ "Removing" = "Present" => HasJump(g, active_chain(g), a)
    BY <1>3, <1>6 DEF JumpAt
  <2>3. \A y : RuleStep(s, WithRule(s, a, Outcome(g, y, i), "Removing"), a)
    BY <2>2, WithRuleSteps, Zenon
  <2>4. o = Outcome(g, o.answer, i)
    BY Zenon, <1>7 DEF Outcome
  <2>5. RuleStep(s, WithRule(s, a, Outcome(g, o.answer, i), "Removing"), a)
    BY <2>3, Zenon
  <2> QED BY <1>1, <2>1, <2>4, <2>5, Zenon
<1>8. CASE o = Outcome(Dropping(g, a), TRUE, n) /\ ~\E c \in Managed(f) : HasJump(g, c, a)
  <2> DEFINE h == Dropping(g, a)
  <2>1. /\ RuleOnly(f, h, a) /\ a \notin h.patterns /\ h.keep = g.keep /\ h.jumps = g.jumps
    <3> HIDE DEF g, n
    <3> QED BY <1>6, DroppingSteps, ZenonT(60)
  <2>2. Rule(o.answer) = "Missing"
    <3>1. o.answer = TRUE
      BY <1>8 DEF Outcome
    <3> QED BY <3>1
  <2> HIDE DEF g, n, Rule, h
  <2>3. JumpAt(h, a)
    <3>1. CASE ~f.keep
      <4>1. 0 \in Managed(f)
        BY <3>1 DEF Managed
      <4>2. ~HasJump(g, 0, a)
        BY <1>8, <4>1, Zenon
      <4> QED BY Zenon, <2>1, <4>2 DEF JumpAt, HasJump
    <3>2. CASE f.keep
      BY Zenon, <1>6, <2>1, <3>2 DEF RuleOnly, JumpAt
    <3> QED BY <3>1, <3>2, Zenon
  <2>4. /\ "Missing" \in {"Missing", "Present", "Removing"}
        /\ RuleOnly(s.fw, h, a) /\ (a \in h.patterns <=> "Missing" # "Missing")
        /\ "Missing" = "Present" => HasJump(h, active_chain(h), a)
    BY <2>1
  <2>5. \A y : RuleStep(s, WithRule(s, a, Outcome(h, y, n), "Missing"), a)
    BY <1>6, <2>3, <2>4, WithRuleSteps, Zenon
  <2>6. o = Outcome(h, o.answer, n)
    <3>1. o = Outcome(h, TRUE, n)
      BY <1>8, Zenon DEF h, g, n
    <3> QED BY <3>1 DEF Outcome
  <2>7. RuleStep(s, WithRule(s, a, Outcome(h, o.answer, n), "Missing"), a)
    BY <2>5, Zenon
  <2> QED BY <1>1, <2>2, <2>6, <2>7, Zenon
<1> QED BY <1>4, <1>6, <1>7, <1>8, Zenon

-----------------------------------------------------------------------------
(* The steps of ensure_installed and retry_cleanup_addr, on sets of states. *)

\* The sound states in which an address is on record.
At(sh, b, r, a) == {s \in Sound(sh, b, r) : s.installed[a] \in Resource}

\* An operation may treat the address a and leave the record r of b as it is.
Free(a, b, r) == a # b \/ r = NoRecord \/ (r \in Resource /\ ready(r))

\* attempt_reconcile_for_retain, the route: sound states stay sound.
LEMMA RouteReconciledKeeps ==
  ASSUME NEW sh \in BOOLEAN, NEW a \in Addr, NEW b \in Addr, NEW r, Free(a, b, r),
         NEW Q \in SUBSET At(sh, b, r, a)
  PROVE  RouteReconciled(Q, a) \in SUBSET At(sh, b, r, a)
<1> SUFFICES ASSUME NEW t \in RouteReconciled(Q, a) PROVE t \in At(sh, b, r, a)
  OBVIOUS
<1> DEFINE B(s) == IF s.installed[a].route = "Removing" THEN ReconcileRoute(s, a) ELSE {s}
<1>1. t \in UNION {B(s) : s \in Q}
  BY Zenon DEF RouteReconciled, Within
<1>2. PICK s \in Q : t \in B(s)
  <2> HIDE DEF B
  <2> QED BY <1>1
<1>3. CASE ~(s.installed[a].route = "Removing")
  <2>1. t = s
    BY <1>2, <1>3
  <2> QED BY <2>1
<1>4. CASE s.installed[a].route = "Removing"
  <2>1. t \in ReconcileRoute(s, a)
    BY <1>2, <1>4, Zenon
  <2>2. s \in Sound(sh, b, r)
    BY Zenon DEF At
  <2>3. /\ s \in Kernel /\ RouteAt(s, a) /\ RuleAt(s, a) /\ JumpAt(s.fw, a)
        /\ r # NoRecord => s.installed[b] = r
    BY <2>2, Zenon DEF Sound
  <2>4. s.installed[a] \in Resource
    BY Zenon DEF At
  <2>5. a # b \/ r = NoRecord
    BY <1>4, <2>3 DEF Free, ready
  <2>6. RouteStep(s, t, a)
    BY <1>4, <2>1, <2>3, <2>4, ReconcileRouteSteps, Zenon
  <2>7. t \in Sound(sh, b, r) /\ t.installed[a] \in Resource
    BY <2>2, <2>4, <2>5, <2>6, RouteStepSound, Zenon
  <2> QED BY <2>7, Zenon DEF At
<1> QED BY <1>3, <1>4, Zenon

\* attempt_reconcile_for_retain, the rule: sound states stay sound.
LEMMA RuleReconciledKeeps ==
  ASSUME NEW sh \in BOOLEAN, NEW a \in Addr, NEW b \in Addr, NEW r, Free(a, b, r),
         NEW Q \in SUBSET At(sh, b, r, a)
  PROVE  RuleReconciled(Q, a) \in SUBSET At(sh, b, r, a)
<1> SUFFICES ASSUME NEW t \in RuleReconciled(Q, a) PROVE t \in At(sh, b, r, a)
  OBVIOUS
<1> DEFINE B(s) == IF s.installed[a].rule = "Removing" THEN ReconcileRule(s, a) ELSE {s}
<1>1. t \in UNION {B(s) : s \in Q}
  BY Zenon DEF RuleReconciled, Within
<1>2. PICK s \in Q : t \in B(s)
  <2> HIDE DEF B
  <2> QED BY <1>1
<1>3. CASE ~(s.installed[a].rule = "Removing")
  <2>1. t = s
    BY <1>2, <1>3
  <2> QED BY <2>1
<1>4. CASE s.installed[a].rule = "Removing"
  <2>1. t \in ReconcileRule(s, a)
    BY <1>2, <1>4, Zenon
  <2>2. s \in Sound(sh, b, r)
    BY Zenon DEF At
  <2>3. /\ s \in Kernel /\ RouteAt(s, a) /\ RuleAt(s, a) /\ JumpAt(s.fw, a)
        /\ r # NoRecord => s.installed[b] = r
    BY <2>2, Zenon DEF Sound
  <2>4. s.installed[a] \in Resource
    BY Zenon DEF At
  <2>5. a # b \/ r = NoRecord
    BY <1>4, <2>3 DEF Free, ready
  <2>6. RuleStep(s, t, a)
    BY <1>4, <2>1, <2>3, <2>4, ReconcileRuleSteps, Zenon
  <2>7. t \in Sound(sh, b, r) /\ t.installed[a] \in Resource
    BY <2>2, <2>4, <2>5, <2>6, RuleStepSound, Zenon
  <2> QED BY <2>7, Zenon DEF At
<1> QED BY <1>3, <1>4, Zenon

\* attempt_adds, the route: sound states stay sound.
LEMMA RouteInstalledKeeps ==
  ASSUME NEW sh \in BOOLEAN, NEW a \in Addr, NEW b \in Addr, NEW r, Free(a, b, r),
         NEW Q \in SUBSET At(sh, b, r, a)
  PROVE  RouteInstalled(Q, a) \in SUBSET At(sh, b, r, a)
<1> SUFFICES ASSUME NEW t \in RouteInstalled(Q, a) PROVE t \in At(sh, b, r, a)
  OBVIOUS
<1> DEFINE B(s) == IF s.installed[a].route = "Missing" THEN InstallRoute(s, a) ELSE {s}
<1>1. t \in UNION {B(s) : s \in Q}
  BY Zenon DEF RouteInstalled, Within
<1>2. PICK s \in Q : t \in B(s)
  <2> HIDE DEF B
  <2> QED BY <1>1
<1>3. CASE ~(s.installed[a].route = "Missing")
  <2>1. t = s
    BY <1>2, <1>3
  <2> QED BY <2>1
<1>4. CASE s.installed[a].route = "Missing"
  <2>1. t \in InstallRoute(s, a)
    BY <1>2, <1>4, Zenon
  <2>2. s \in Sound(sh, b, r)
    BY Zenon DEF At
  <2>3. /\ s \in Kernel /\ RouteAt(s, a) /\ RuleAt(s, a) /\ JumpAt(s.fw, a)
        /\ r # NoRecord => s.installed[b] = r
    BY <2>2, Zenon DEF Sound
  <2>4. s.installed[a] \in Resource
    BY Zenon DEF At
  <2>5. a # b \/ r = NoRecord
    BY <1>4, <2>3 DEF Free, ready
  <2>6. RouteStep(s, t, a)
    BY <1>4, <2>1, <2>3, <2>4, InstallRouteSteps, Zenon
  <2>7. t \in Sound(sh, b, r) /\ t.installed[a] \in Resource
    BY <2>2, <2>4, <2>5, <2>6, RouteStepSound, Zenon
  <2> QED BY <2>7, Zenon DEF At
<1> QED BY <1>3, <1>4, Zenon

\* attempt_adds, the rule: sound states stay sound.
LEMMA RuleAddedKeeps ==
  ASSUME NEW sh \in BOOLEAN, NEW a \in Addr, NEW b \in Addr, NEW r, Free(a, b, r),
         NEW Q \in SUBSET At(sh, b, r, a)
  PROVE  RuleAdded(Q, a) \in SUBSET At(sh, b, r, a)
<1> SUFFICES ASSUME NEW t \in RuleAdded(Q, a) PROVE t \in At(sh, b, r, a)
  OBVIOUS
<1> DEFINE B(s) == IF s.installed[a].rule = "Missing" THEN AddRule(s, a) ELSE {s}
<1>1. t \in UNION {B(s) : s \in Q}
  BY Zenon DEF RuleAdded, Within
<1>2. PICK s \in Q : t \in B(s)
  <2> HIDE DEF B
  <2> QED BY <1>1
<1>3. CASE ~(s.installed[a].rule = "Missing")
  <2>1. t = s
    BY <1>2, <1>3
  <2> QED BY <2>1
<1>4. CASE s.installed[a].rule = "Missing"
  <2>1. t \in AddRule(s, a)
    BY <1>2, <1>4, Zenon
  <2>2. s \in Sound(sh, b, r)
    BY Zenon DEF At
  <2>3. /\ s \in Kernel /\ RouteAt(s, a) /\ RuleAt(s, a) /\ JumpAt(s.fw, a)
        /\ r # NoRecord => s.installed[b] = r
    BY <2>2, Zenon DEF Sound
  <2>4. s.installed[a] \in Resource
    BY Zenon DEF At
  <2>5. a # b \/ r = NoRecord
    BY <1>4, <2>3 DEF Free, ready
  <2>6. RuleStep(s, t, a)
    BY <1>4, <2>1, <2>3, <2>4, AddRuleSteps, Zenon
  <2>7. t \in Sound(sh, b, r) /\ t.installed[a] \in Resource
    BY <2>2, <2>4, <2>5, <2>6, RuleStepSound, Zenon
  <2> QED BY <2>7, Zenon DEF At
<1> QED BY <1>3, <1>4, Zenon

\* attempt_cleanup, the route: sound states stay sound.
LEMMA RouteDeletedKeeps ==
  ASSUME NEW sh \in BOOLEAN, NEW a \in Addr, NEW b \in Addr, NEW r, Free(a, b, r),
         NEW Q \in SUBSET Sound(sh, b, r)
  PROVE  RouteDeleted(Q, a) \in SUBSET Sound(sh, b, r)
<1> SUFFICES ASSUME NEW t \in RouteDeleted(Q, a) PROVE t \in Sound(sh, b, r)
  OBVIOUS
<1> DEFINE B(s) == IF Busy(s, a) /\ s.installed[a].route = "Removing" THEN DeleteRoute(s, a) ELSE {s}
<1>1. t \in UNION {B(s) : s \in Q}
  BY Zenon DEF RouteDeleted, Within
<1>2. PICK s \in Q : t \in B(s)
  <2> HIDE DEF B
  <2> QED BY <1>1
<1>3. CASE ~(Busy(s, a) /\ s.installed[a].route = "Removing")
  <2>1. t = s
    BY <1>2, <1>3
  <2> QED BY <2>1
<1>4. CASE Busy(s, a) /\ s.installed[a].route = "Removing"
  <2>1. t \in DeleteRoute(s, a)
    BY <1>2, <1>4, Zenon
  <2>2. s \in Sound(sh, b, r)
    BY Zenon DEF At
  <2>3. /\ s \in Kernel /\ RouteAt(s, a) /\ RuleAt(s, a) /\ JumpAt(s.fw, a)
        /\ r # NoRecord => s.installed[b] = r
    BY <2>2, Zenon DEF Sound
  <2>4. s.installed[a] \in Resource
    BY Zenon, <1>4, <2>3, Parts DEF Busy
  <2>5. a # b \/ r = NoRecord
    BY <1>4, <2>3 DEF Free, ready, Busy
  <2>6. RouteStep(s, t, a)
    BY <1>4, <2>1, <2>3, <2>4, DeleteRouteSteps, Zenon
  <2>7. t \in Sound(sh, b, r) /\ t.installed[a] \in Resource
    BY <2>2, <2>4, <2>5, <2>6, RouteStepSound, Zenon
  <2> QED BY <2>7
<1> QED BY <1>3, <1>4, Zenon

\* attempt_cleanup, the rule: sound states stay sound.
LEMMA RuleDeletedKeeps ==
  ASSUME NEW sh \in BOOLEAN, NEW a \in Addr, NEW b \in Addr, NEW r, Free(a, b, r),
         NEW Q \in SUBSET Sound(sh, b, r)
  PROVE  RuleDeleted(Q, a) \in SUBSET Sound(sh, b, r)
<1> SUFFICES ASSUME NEW t \in RuleDeleted(Q, a) PROVE t \in Sound(sh, b, r)
  OBVIOUS
<1> DEFINE B(s) == IF Busy(s, a) /\ s.installed[a].rule = "Removing" THEN DeleteRule(s, a) ELSE {s}
<1>1. t \in UNION {B(s) : s \in Q}
  BY Zenon DEF RuleDeleted, Within
<1>2. PICK s \in Q : t \in B(s)
  <2> HIDE DEF B
  <2> QED BY <1>1
<1>3. CASE ~(Busy(s, a) /\ s.installed[a].rule = "Removing")
  <2>1. t = s
    BY <1>2, <1>3
  <2> QED BY <2>1
<1>4. CASE Busy(s, a) /\ s.installed[a].rule = "Removing"
  <2>1. t \in DeleteRule(s, a)
    BY <1>2, <1>4, Zenon
  <2>2. s \in Sound(sh, b, r)
    BY Zenon DEF At
  <2>3. /\ s \in Kernel /\ RouteAt(s, a) /\ RuleAt(s, a) /\ JumpAt(s.fw, a)
        /\ r # NoRecord => s.installed[b] = r
    BY <2>2, Zenon DEF Sound
  <2>4. s.installed[a] \in Resource
    BY Zenon, <1>4, <2>3, Parts DEF Busy
  <2>5. a # b \/ r = NoRecord
    BY <1>4, <2>3 DEF Free, ready, Busy
  <2>6. RuleStep(s, t, a)
    BY <1>4, <2>1, <2>3, <2>4, DeleteRuleSteps, Zenon
  <2>7. t \in Sound(sh, b, r) /\ t.installed[a] \in Resource
    BY <2>2, <2>4, <2>5, <2>6, RuleStepSound, Zenon
  <2> QED BY <2>7
<1> QED BY <1>3, <1>4, Zenon

\* Another record of one address, which claims no more than the one before.
LEMMA WithSound ==
  ASSUME NEW sh \in BOOLEAN, NEW a \in Addr, NEW b \in Addr, NEW r, NEW s \in Sound(sh, b, r),
         NEW q \in Resource \cup {NoRecord},
         a # b \/ r = NoRecord \/ q = r,
         RouteAt(With(s, a, q), a), RuleAt(With(s, a, q), a),
         q # NoRecord /\ q.rule = "Present" =>
           s.installed[a] # NoRecord /\ s.installed[a].rule = "Present"
  PROVE  With(s, a, q) \in Sound(sh, b, r)
<1> DEFINE t == With(s, a, q)
<1>1. s \in Kernel
  BY Zenon DEF Sound
<1>2. /\ t \in Kernel /\ t.fw = s.fw /\ t.routes = s.routes /\ t.leaked = s.leaked
      /\ \A c \in Addr : c # a => t.installed[c] = s.installed[c]
      /\ t.installed[a] = q
  <2>1. OnRecord(s, a, q, t)
    BY <1>1, WithIs, Zenon
  <2> HIDE DEF t
  <2> QED BY <2>1, Zenon DEF OnRecord
<1> HIDE DEF t
<1>3. ASSUME NEW c \in Addr PROVE RouteAt(t, c) /\ RuleAt(t, c) /\ JumpAt(t.fw, c)
  <2>1. RouteAt(s, c) /\ RuleAt(s, c) /\ JumpAt(s.fw, c)
    BY Zenon DEF Sound
  <2>2. CASE c = a
    BY <1>2, <2>1, <2>2, Zenon DEF t
  <2>3. CASE c # a
    <3>1. t.installed[c] = s.installed[c] /\ t.fw = s.fw /\ t.routes = s.routes /\ t.leaked = s.leaked
      BY <1>2, <2>3, Zenon
    <3>2. RouteAt(t, c)
      BY <2>1, <3>1, Zenon DEF RouteAt
    <3>3. RuleAt(t, c)
      BY Zenon, <2>1, <3>1 DEF RuleAt
    <3> QED BY <2>1, <3>1, <3>2, <3>3, Zenon
  <2> QED BY <2>2, <2>3, Zenon
<1>4. sh => Shield(t, active_chain(t.fw))
  BY Zenon, <1>2 DEF Sound, Shield
<1>5. r # NoRecord => t.installed[b] = r
  <2>1. r # NoRecord => s.installed[b] = r
    BY Zenon DEF Sound
  <2> QED BY <1>2, <2>1
<1>6. t \in Sound(sh, b, r)
  BY <1>2, <1>3, <1>4, <1>5, Zenon DEF Sound
<1> QED BY <1>6, Zenon DEF t

\* entry().or_default() and cancel_release.
LEMMA RecordedKeeps ==
  ASSUME NEW sh \in BOOLEAN, NEW a \in Addr, NEW b \in Addr, NEW r, Free(a, b, r),
         NEW Q \in SUBSET Sound(sh, b, r)
  PROVE  Recorded(Q, a) \in SUBSET At(sh, b, r, a)
<1> DEFINE F(s) == With(s, a, cancel_release(IF s.installed[a] = NoRecord THEN NewResources
                                             ELSE s.installed[a]))
<1>0. Recorded(Q, a) = {F(s) : s \in Q}
  BY Zenon DEF Recorded, With
<1> SUFFICES ASSUME NEW s \in Q PROVE F(s) \in At(sh, b, r, a)
  <2> HIDE DEF F
  <2> QED BY <1>0
<1> DEFINE o == s.installed[a]
           p == IF o = NoRecord THEN NewResources ELSE o
           q == cancel_release(p)
           t == With(s, a, q)
<1>1. s \in Sound(sh, b, r)
  OBVIOUS
<1>2. /\ s \in Kernel /\ RouteAt(s, a) /\ RuleAt(s, a)
      /\ r # NoRecord => s.installed[b] = r
  BY <1>1, Zenon DEF Sound
<1>3. o \in Resource \cup {NoRecord} /\ (o \in Resource <=> o # NoRecord)
  BY <1>2, Parts
<1>4. NewResources \in Resource
  BY ResourcesAssumption DEF NewResources, Resource
<1>5. p \in Resource /\ (o # NoRecord => p = o)
      /\ (o = NoRecord => p.route = "Missing" /\ p.rule = "Missing")
  <2>1. NewResources.route = "Missing" /\ NewResources.rule = "Missing"
    BY DEF NewResources
  <2> HIDE DEF o
  <2> QED BY <1>3, <1>4, <2>1
<1> HIDE DEF p, o
<1>6. /\ q \in Resource /\ q.route = p.route /\ q.rule = p.rule /\ q.metric = p.metric
  <2> DEFINE x == FALSE
  <2>1. x \in BOOLEAN /\ q = [p EXCEPT !.releasing = x]
    BY DEF cancel_release
  <2> HIDE DEF x, q
  <2> QED BY <1>5, <2>1 DEF Resource
<1>7. r \in Resource /\ ready(r) /\ o = r => q = r
  <2> HAVE r \in Resource /\ ready(r) /\ o = r
  <2>1. r # NoRecord
    BY PartsOfResource, Zenon
  <2>2. p = r
    BY <1>5, <2>1
  <2> QED BY <2>2 DEF cancel_release, Resource, ready
<1> HIDE DEF q
<1>8. q # NoRecord /\ q \in Resource \cup {NoRecord} /\ q.metric \in Metrics
  BY <1>6, PartsOfResource, Zenon
<1>9. /\ t.fw = s.fw /\ t.routes = s.routes /\ t.leaked = s.leaked /\ t.installed[a] = q
  <2>1. OnRecord(s, a, q, t)
    BY <1>2, <1>8, WithIs, Zenon
  <2> HIDE DEF t
  <2> QED BY <2>1, Zenon DEF OnRecord
<1>10. RouteAt(t, a)
  <2> HIDE DEF t
  <2> QED BY ZenonT(60), <1>2, <1>5, <1>6, <1>8, <1>9 DEF RouteAt, o
<1>11. RuleAt(t, a)
  <2> HIDE DEF t
  <2> QED BY <1>2, <1>5, <1>6, <1>8, <1>9 DEF RuleAt, o
<1>12. a # b \/ r = NoRecord \/ q = r
  BY <1>2, <1>7, PartsOfResource DEF Free, o
<1>13. q # NoRecord /\ q.rule = "Present" => s.installed[a] # NoRecord /\ s.installed[a].rule = "Present"
  <2>1. q.rule = "Present" => o # NoRecord /\ o.rule = "Present"
    <3>1. CASE o = NoRecord
      <4>1. q.rule = "Missing"
        BY <1>5, <1>6, <3>1, Zenon
      <4> QED BY <4>1
    <3>2. CASE o # NoRecord
      BY <1>5, <1>6, <3>2, Zenon
    <3> QED BY <3>1, <3>2, Zenon
  <2> QED BY <2>1, Zenon DEF o
<1>14. t \in Sound(sh, b, r)
  BY <1>1, <1>8, <1>10, <1>11, <1>12, <1>13, WithSound, Zenon
<1>15. t \in At(sh, b, r, a)
  BY <1>6, <1>9, <1>14, Zenon DEF At
<1> QED BY <1>15, Zenon DEF q, p, o

\* ensure_installed leaves a sound state sound.
LEMMA EnsureKeeps ==
  ASSUME NEW sh \in BOOLEAN, NEW a \in Addr, NEW b \in Addr, NEW r, Free(a, b, r),
         NEW Q \in SUBSET Sound(sh, b, r)
  PROVE  ensure_installed(Q, a) \in SUBSET Sound(sh, b, r)
<1>1. Recorded(Q, a) \in SUBSET At(sh, b, r, a)
  BY RecordedKeeps, Zenon
<1>2. RouteReconciled(Recorded(Q, a), a) \in SUBSET At(sh, b, r, a)
  BY <1>1, RouteReconciledKeeps, Zenon
<1>3. RuleReconciled(RouteReconciled(Recorded(Q, a), a), a) \in SUBSET At(sh, b, r, a)
  BY <1>2, RuleReconciledKeeps, Zenon
<1>4. RouteInstalled(RuleReconciled(RouteReconciled(Recorded(Q, a), a), a), a)
        \in SUBSET At(sh, b, r, a)
  BY <1>3, RouteInstalledKeeps, Zenon
<1>5. ensure_installed(Q, a) \in SUBSET At(sh, b, r, a)
  BY <1>4, RuleAddedKeeps, Zenon DEF ensure_installed
<1>6. At(sh, b, r, a) \subseteq Sound(sh, b, r)
  BY Zenon DEF At
<1> QED BY <1>5, <1>6

\* begin_release: what was present is to go, and stays on record until it is gone.
Begun(S, a) ==
  {[s EXCEPT !.installed[a] = IF @ = NoRecord THEN @ ELSE begin_release(@)] : s \in S}

\* begin_release of a record that is not the one in use: sound states stay sound.
LEMMA BegunKeeps ==
  ASSUME NEW sh \in BOOLEAN, NEW a \in Addr, NEW b \in Addr, NEW r, a # b \/ r = NoRecord,
         NEW Q \in SUBSET Sound(sh, b, r)
  PROVE  Begun(Q, a) \in SUBSET Sound(sh, b, r)
<1> DEFINE F(s) == With(s, a, IF s.installed[a] = NoRecord THEN s.installed[a]
                              ELSE begin_release(s.installed[a]))
<1>0. Begun(Q, a) = {F(s) : s \in Q}
  BY Zenon DEF Begun, With
<1> SUFFICES ASSUME NEW s \in Q PROVE F(s) \in Sound(sh, b, r)
  <2> HIDE DEF F
  <2> QED BY <1>0
<1> DEFINE o == s.installed[a]
           q == IF o = NoRecord THEN o ELSE begin_release(o)
           t == With(s, a, q)
<1>1. s \in Sound(sh, b, r)
  OBVIOUS
<1>2. s \in Kernel /\ RouteAt(s, a) /\ RuleAt(s, a)
  BY <1>1, Zenon DEF Sound
<1>3. o \in Resource \cup {NoRecord} /\ (o \in Resource <=> o # NoRecord)
  BY <1>2, Parts
<1> HIDE DEF o
<1>4. ASSUME o # NoRecord
      PROVE  LET p == begin_release(o) IN
             /\ p \in Resource /\ p # NoRecord /\ p.metric = o.metric
             /\ p.route = (IF o.route = "Present" THEN "Removing" ELSE o.route)
             /\ p.rule = (IF o.rule = "Present" THEN "Removing" ELSE o.rule)
  <2> DEFINE x == TRUE
             y == IF o.route = "Present" THEN "Removing" ELSE o.route
             z == IF o.rule = "Present" THEN "Removing" ELSE o.rule
  <2>1. o \in Resource /\ x \in BOOLEAN
    BY <1>3, <1>4
  <2>2. /\ o.route \in {"Missing", "Present", "Removing"}
        /\ o.rule \in {"Missing", "Present", "Removing"} /\ o.metric \in 0 .. Metric - 1
    BY <2>1, PartsOfResource, Zenon DEF Metrics
  <2>3. y \in {"Missing", "Present", "Removing"} /\ z \in {"Missing", "Present", "Removing"}
    BY <2>2
  <2>4. begin_release(o) = [[[o EXCEPT !.releasing = x] EXCEPT !.route = y] EXCEPT !.rule = z]
    <3> DEFINE w == [o EXCEPT !.releasing = x]
    <3>1. w.route = o.route /\ w.rule = o.rule
      <4> HIDE DEF x
      <4> QED BY <2>1 DEF Resource
    <3>2. begin_release(o)
            = [[w EXCEPT !.route = IF w.route = "Present" THEN "Removing" ELSE w.route]
                 EXCEPT !.rule = IF o.rule = "Present" THEN "Removing" ELSE o.rule]
      <4>1. [w EXCEPT !.route = y].rule = o.rule
        <5> HIDE DEF x, y
        <5> QED BY <2>1 DEF Resource
      <4> QED BY <3>1, <4>1 DEF begin_release
    <3> QED BY <3>1, <3>2
  <2> HIDE DEF x, y, z
  <2> DEFINE w == [o EXCEPT !.releasing = x]
             v == RouteAs(w, y)
             p == RuleAs(v, z)
  <2>5. w \in Resource /\ w.metric = o.metric
    BY <2>1 DEF Resource
  <2>6. begin_release(o) = p
    BY <2>4, Zenon DEF RouteAs, RuleAs
  <2> HIDE DEF w
  <2>7. v \in Resource /\ v.route = y /\ v.metric = w.metric
    BY <2>3, <2>5, RouteField, Zenon
  <2> HIDE DEF v
  <2>8. p \in Resource /\ p.route = v.route /\ p.rule = z /\ p.metric = v.metric
    BY <2>3, <2>7, RuleField, Zenon
  <2> HIDE DEF p
  <2>9. p # NoRecord
    BY <2>8, PartsOfResource, Zenon
  <2>10. /\ p \in Resource /\ p # NoRecord /\ p.metric = o.metric /\ p.route = y /\ p.rule = z
    BY <2>5, <2>7, <2>8, <2>9, Zenon
  <2> QED BY <2>6, <2>10, Zenon DEF y, z
<1>5. q \in Resource \cup {NoRecord} /\ (q # NoRecord <=> o # NoRecord)
  BY <1>3, <1>4
<1>6. ASSUME o # NoRecord
      PROVE  /\ q.metric = o.metric /\ q.route = (IF o.route = "Present" THEN "Removing" ELSE o.route)
             /\ q.rule = (IF o.rule = "Present" THEN "Removing" ELSE o.rule)
  BY <1>4, <1>6
<1> HIDE DEF q
<1>7. /\ t.fw = s.fw /\ t.routes = s.routes /\ t.leaked = s.leaked /\ t.installed[a] = q
  <2>1. OnRecord(s, a, q, t)
    BY <1>2, <1>5, WithIs, Zenon
  <2> HIDE DEF t
  <2> QED BY <2>1, Zenon DEF OnRecord
<1>8. RouteAt(t, a)
  <2> HIDE DEF t
  <2> QED BY Zenon, <1>2, <1>5, <1>6, <1>7 DEF RouteAt, o
<1>9. RuleAt(t, a)
  <2> HIDE DEF t
  <2> QED BY <1>2, <1>5, <1>6, <1>7 DEF RuleAt, o
<1>10. q # NoRecord => q.rule # "Present"
  BY <1>5, <1>6
<1>11. t \in Sound(sh, b, r)
  BY <1>1, <1>5, <1>8, <1>9, <1>10, WithSound, Zenon
<1> QED BY <1>11, Zenon DEF q, o

\* retry_cleanup_addr.
LEMMA RetryKeeps ==
  ASSUME NEW sh \in BOOLEAN, NEW a \in Addr, NEW b \in Addr, NEW r, Free(a, b, r),
         NEW Q \in SUBSET Sound(sh, b, r)
  PROVE  retry_cleanup_addr(Q, a) \in SUBSET Sound(sh, b, r)
<1> DEFINE D == RuleDeleted(RouteDeleted(Q, a), a)
           F(s) == IF Busy(s, a) /\ cleanup_complete(s.installed[a])
                   THEN With(s, a, NoRecord) ELSE s
<1>1. RouteDeleted(Q, a) \in SUBSET Sound(sh, b, r)
  BY RouteDeletedKeeps, Zenon
<1>2. D \in SUBSET Sound(sh, b, r)
  BY <1>1, RuleDeletedKeeps, Zenon
<1>3. retry_cleanup_addr(Q, a) = {F(s) : s \in D}
  BY Zenon DEF retry_cleanup_addr, With
<1> HIDE DEF D
<1> SUFFICES ASSUME NEW s \in D PROVE F(s) \in Sound(sh, b, r)
  <2> HIDE DEF F
  <2> QED BY <1>3
<1>4. s \in Sound(sh, b, r)
  BY <1>2
<1>5. CASE ~(Busy(s, a) /\ cleanup_complete(s.installed[a]))
  BY <1>4, <1>5
<1>6. CASE Busy(s, a) /\ cleanup_complete(s.installed[a])
  <2> DEFINE t == With(s, a, NoRecord)
  <2>1. /\ s \in Kernel /\ RouteAt(s, a) /\ RuleAt(s, a)
        /\ r # NoRecord => s.installed[b] = r
    BY <1>4, Zenon DEF Sound
  <2>2. a # b \/ r = NoRecord
    BY <1>6, <2>1 DEF Free, ready, Busy
  <2>3. NoRecord \in Resource \cup {NoRecord}
    OBVIOUS
  <2>4. /\ t.fw = s.fw /\ t.routes = s.routes /\ t.leaked = s.leaked /\ t.installed[a] = NoRecord
    <3>1. OnRecord(s, a, NoRecord, t)
      BY <2>1, <2>3, WithIs, Zenon
    <3> HIDE DEF t
    <3> QED BY <3>1, Zenon DEF OnRecord
  <2>5. /\ s.installed[a].route = "Missing" /\ s.installed[a].rule = "Missing"
    BY <1>6, Zenon DEF cleanup_complete
  <2>6. RouteAt(t, a)
    <3> HIDE DEF t
    <3> QED BY Zenon, <2>1, <2>4, <2>5 DEF RouteAt
  <2>7. RuleAt(t, a)
    <3> HIDE DEF t
    <3> QED BY Zenon, <2>1, <2>4, <2>5 DEF RuleAt
  <2>8. t \in Sound(sh, b, r)
    BY <1>4, <2>2, <2>3, <2>6, <2>7, WithSound, Zenon
  <2> QED BY <1>6, <2>8, Zenon
<1> QED BY <1>5, <1>6, Zenon

\* release, of an address whose record may change.
LEMMA ReleaseKeeps ==
  ASSUME NEW sh \in BOOLEAN, NEW a \in Addr, NEW b \in Addr, NEW r, a # b \/ r = NoRecord,
         NEW Q \in SUBSET Sound(sh, b, r)
  PROVE  release(Q, a) \in SUBSET Sound(sh, b, r)
<1>1. Begun(Q, a) \in SUBSET Sound(sh, b, r)
  BY BegunKeeps, Zenon
<1>2. release(Q, a) = retry_cleanup_addr(Begun(Q, a), a)
  BY Zenon DEF release, Begun
<1>3. Free(a, b, r)
  BY Zenon DEF Free
<1>4. retry_cleanup_addr(Begun(Q, a), a) \in SUBSET Sound(sh, b, r)
  BY <1>1, <1>3, RetryKeeps, Zenon
<1> QED BY <1>2, <1>4, Zenon

-----------------------------------------------------------------------------
(* From sound states to the invariant.                                      *)

\* A state of the invariant is sound.
LEMMA SoundNow ==
  ASSUME RInv, phase # "cleared", NEW sh \in BOOLEAN, NEW b \in Addr, NEW r,
         sh => Shield(k, active_chain(k.fw)), r = NoRecord \/ k.installed[b] = r
  PROVE  {k} \in SUBSET Sound(sh, b, r)
<1>1. k \in Kernel
  BY Zenon DEF RInv, ResourcesTypeOK
<1>2. \A a \in Addr : RouteAt(k, a) /\ RuleAt(k, a) /\ JumpAt(k.fw, a)
  BY Zenon DEF RInv, Routed, Ruled
<1>3. k \in Sound(sh, b, r)
  BY <1>1, <1>2, Zenon DEF Sound
<1> QED BY <1>3

\* A keep thread that sleeps has nothing left.
Sleeps(x) == x.step = "asleep" /\ x.left = {} /\ x.clean \in BOOLEAN
             /\ x = [step |-> x.step, left |-> x.left, clean |-> x.clean]

\* Between two rounds the keep thread has nothing left to do.
LEMMA KeeperSleeps ==
  ASSUME RInv, keeper.step = "asleep"
  PROVE  Sleeps(keeper)
<1>1. keeper \in [step : Addr \cup Step, left : SUBSET k.fw.patterns, clean : BOOLEAN]
  BY Zenon DEF RInv, ResourcesTypeOK
<1>2. keeper.left = {}
  BY Zenon DEF RInv, Kept
<1> QED BY <1>1, <1>2 DEF Sleeps

\* A step of the client to a sound state, while the keep thread sleeps.
LEMMA Settled ==
  ASSUME NEW sh \in BOOLEAN, NEW r, k' \in Sound(sh, remote', r), phase' \in {"run", "exit"},
         remote' \in Addr, good' \in Addr \cup {NoRecord}, lower' \in Addr \cup {NoRecord},
         sending' \in BOOLEAN, doubtful' \in BOOLEAN, Sleeps(keeper'),
         phase' = "run" /\ ~doubtful' => sh,
         phase' = "run" /\ sending' => lower' = remote' /\ r \in Resource /\ ready(r)
  PROVE  RInv'
<1>1. k' \in Kernel /\ k'.fw \in Firewall
  BY Zenon, Parts DEF Sound
<1>2. ResourcesTypeOK'
  <2>1. keeper' \in [step : Addr \cup Step, left : SUBSET k'.fw.patterns, clean : BOOLEAN]
    BY DEF Sleeps, Step
  <2> QED BY Zenon, <1>1, <2>1 DEF ResourcesTypeOK
<1>3. Routed' /\ Ruled'
  <2>1. \A a \in Addr : RouteAt(k', a) /\ RuleAt(k', a) /\ JumpAt(k'.fw, a)
    BY Zenon DEF Sound
  <2> QED BY <2>1, Zenon DEF Routed, Ruled
<1>4. Booting'
  BY DEF Booting
<1>5. Kept'
  <2>1. keeper'.step = "asleep" /\ keeper'.left = {} /\ "asleep" \notin Addr \cup {"delete"}
    BY ResourcesAssumption DEF Sleeps, Step
  <2>2. phase' = "run" /\ ~doubtful' => Shield(k', active_chain(k'.fw))
    BY Zenon DEF Sound
  <2> QED BY Zenon, <2>1, <2>2 DEF Kept
<1>6. Sending'
  <2>1. r # NoRecord => k'.installed[remote'] = r
    BY Zenon DEF Sound
  <2>2. r \in Resource => r # NoRecord
    BY PartsOfResource, Zenon
  <2> QED BY <2>1, <2>2, Zenon DEF Sending, endpoint_resources_ready
<1> QED BY <1>2, <1>3, <1>4, <1>5, <1>6, Zenon DEF RInv

\* The first packet goes when all is in place; go_idle.
LEMMA AttemptSteps ==
  ASSUME RInv, NextHop, Attempt \/ GoIdle
  PROVE  RInv'
<1>1. /\ phase = "run" /\ phase' = phase /\ k' = k /\ remote' = remote /\ good' = good
      /\ keeper' = keeper /\ doubtful' = doubtful
  BY DEF Attempt, GoIdle
<1>2. sending' \in BOOLEAN /\ lower' \in Addr \cup {NoRecord}
  <2>1. remote \in Addr \cup {NoRecord} /\ lower \in Addr \cup {NoRecord}
    BY DEF RInv, ResourcesTypeOK
  <2>2. CASE Attempt
    BY <2>1, <2>2, Zenon DEF Attempt, refresh_lower_level_for_current
  <2>3. CASE GoIdle
    BY <2>1, <2>3, Zenon DEF GoIdle
  <2> QED BY <2>2, <2>3, Zenon
<1>3. ResourcesTypeOK'
  BY <1>1, <1>2 DEF RInv, ResourcesTypeOK
<1>4. Routed' /\ Ruled' /\ Kept'
  BY <1>1, Zenon DEF RInv, Routed, Ruled, Kept
<1>5. Booting'
  BY <1>1 DEF Booting
<1>6. Sending'
  <2>1. CASE Attempt
    <3>1. lower' = remote
      BY <2>1 DEF Attempt, NextHop, refresh_lower_level_for_current
    <3> QED BY <1>1, <2>1, <3>1, Zenon DEF Attempt, Sending
  <2>2. CASE GoIdle
    BY <2>2 DEF GoIdle, Sending
  <2> QED BY <2>1, <2>2, Zenon
<1> QED BY <1>3, <1>4, <1>5, <1>6, Zenon DEF RInv

\* apply_switch forgets the next hop, and only refresh_lower_level_for_current sets it.
LEMMA NextHopStep == NextHop /\ [Next]_vars => NextHop'
<1> SUFFICES ASSUME NextHop, [Next]_vars PROVE NextHop'
  OBVIOUS
<1>1. CASE UNCHANGED <<remote, lower>>
  BY <1>1 DEF NextHop
<1>2. ASSUME NEW to \in Addr, Switch(to) PROVE NextHop'
  BY <1>2 DEF Switch, NextHop
<1>3. CASE Attempt
  BY <1>3 DEF Attempt, refresh_lower_level_for_current, NextHop
<1>4. CASE Boot \/ GoIdle \/ Authenticated \/ Promote \/ Retry \/ Exit \/ FinalRetry \/ Clear
  BY <1>1, <1>4, Zenon
     DEF Boot, GoIdle, Authenticated, Promote, Retry, Exit, FinalRetry, Clear
<1>5. CASE KeepBegin \/ KeepEnd \/ Reload
  BY <1>1, <1>5, Zenon DEF KeepBegin, KeepEnd, Reload
<1>6. ASSUME KeepFlush \/ KeepDrop \/ KeepDelete \/ \E a \in Addr : KeepInsert(a)
      PROVE  NextHop'
  BY <1>1, <1>6, Zenon DEF KeepFlush, KeepDrop, KeepDelete, KeepInsert, Command
<1>7. CASE UNCHANGED vars
  BY <1>1, <1>7 DEF vars
<1> QED BY <1>2, <1>3, <1>4, <1>5, <1>6, <1>7, Zenon DEF Next

-----------------------------------------------------------------------------
(* Commands on the firewall.                                               *)

\* The fields of an outcome, and their types.
IsOutcome(o) ==
  o = Outcome(o.fw, o.answer, o.failed) /\ o.fw \in Firewall /\ o.failed \in Nat
  /\ o.answer \in BOOLEAN

\* What is done to the firewall leaves the routes as they are.
LEMMA RoutedStill ==
  ASSUME Routed, k'.installed = k.installed, k'.routes = k.routes, k'.leaked = k.leaked
  PROVE  Routed'
<1>1. ASSUME NEW a \in Addr PROVE RouteAt(k', a)
  <2>1. RouteAt(k, a)
    BY Zenon DEF Routed
  <2> QED BY Zenon, <2>1 DEF RouteAt
<1> QED BY <1>1 DEF Routed

\* -N and -F, and -I of the DROP rule: a command on one chain.
ChainStep(f, c, o) ==
  /\ IsOutcome(o) /\ o.fw.keep = f.keep /\ o.fw.keep_index = f.keep_index
  /\ o.fw.patterns = f.patterns /\ o.fw.jumps = f.jumps
  /\ \A d \in Chain : d # c => o.fw.chains[d] = f.chains[d]

\* Another content of a chain.
Filled(f, c, x) == [f EXCEPT !.chains[c] = x]

\* t is f with x in the chain c.
HasFilled(f, c, x, t) ==
  /\ t \in Firewall /\ t.keep = f.keep /\ t.keep_index = f.keep_index
  /\ t.patterns = f.patterns /\ t.jumps = f.jumps /\ t.chains[c] = x
  /\ \A d \in Chain : d # c => t.chains[d] = f.chains[d]

\* The content of one chain changes.
LEMMA FilledIs ==
  ASSUME NEW f \in Firewall, NEW c \in Chain, NEW x \in {"empty", "drop"}
  PROVE  HasFilled(f, c, x, Filled(f, c, x))
<1> DEFINE D == [Chain -> {"none", "empty", "drop"}]
           h == [f.chains EXCEPT ![c] = x]
           t == Filled(f, c, x)
<1>1. f.chains \in D
  BY DEF Firewall
<1>2. h \in D /\ h[c] = x /\ \A d \in Chain : d # c => h[d] = f.chains[d]
  <2> HIDE DEF Chain
  <2> QED BY <1>1
<1>3. t = [f EXCEPT !.chains = h]
  BY DEF Filled
<1> DEFINE JJ == [Addr -> [Chain -> Nat]]
           P == SUBSET Addr
<1>4. Firewall = [keep : BOOLEAN, keep_index : Chain, patterns : P, jumps : JJ, chains : D]
  BY Zenon DEF Firewall
<1> HIDE DEF D, h, t, JJ, P
<1>5. /\ t \in Firewall /\ t.keep = f.keep /\ t.keep_index = f.keep_index
      /\ t.patterns = f.patterns /\ t.jumps = f.jumps /\ t.chains = h
  BY <1>2, <1>3, <1>4
<1>6. /\ t \in Firewall /\ t.keep = f.keep /\ t.keep_index = f.keep_index
      /\ t.patterns = f.patterns /\ t.jumps = f.jumps /\ t.chains[c] = x
      /\ \A d \in Chain : d # c => t.chains[d] = f.chains[d]
  BY <1>2, <1>5, Zenon
<1> QED BY <1>6, Zenon DEF t, HasFilled

\* A command that fails.
LEMMA FailureIs ==
  ASSUME NEW f \in Firewall, NEW n \in {0, 1}, NEW o, o = Outcome(f, FALSE, n)
  PROVE  IsOutcome(o) /\ ~o.answer /\ o.fw = f
<1>1. o.fw = f /\ o.answer = FALSE /\ o.failed = n
  BY DEF Outcome
<1>2. n \in Nat
  OBVIOUS
<1>3. o = Outcome(o.fw, o.answer, o.failed) /\ o.answer \in BOOLEAN /\ o.failed \in Nat
  BY <1>1, <1>2, Zenon
<1> QED BY <1>1, <1>3, Zenon DEF IsOutcome

\* A command that succeeds.
LEMMA SuccessIs ==
  ASSUME NEW f \in Firewall, NEW o, o = Outcome(f, TRUE, 0)
  PROVE  IsOutcome(o) /\ o.answer /\ o.fw = f
<1>1. o.fw = f /\ o.answer = TRUE /\ o.failed = 0
  BY DEF Outcome
<1>2. 0 \in Nat
  OBVIOUS
<1>3. o = Outcome(o.fw, o.answer, o.failed) /\ o.answer \in BOOLEAN /\ o.failed \in Nat
  BY <1>1, <1>2, Zenon
<1> QED BY <1>1, <1>3, Zenon DEF IsOutcome

\* -N and -F concern one chain.
LEMMA FlushSteps ==
  ASSUME NEW f \in Firewall, NEW c \in Chain, NEW o \in Flush(f, c)
  PROVE  ChainStep(f, c, o)
<1> DEFINE g == Filled(f, c, "empty")
<1>1. o = Outcome(g, TRUE, 0) \/ o = Outcome(f, FALSE, 1)
  BY Zenon DEF Flush, Filled
<1>2. "empty" \in {"empty", "drop"} /\ 1 \in {0, 1}
  OBVIOUS
<1>3. /\ g \in Firewall /\ g.keep = f.keep /\ g.keep_index = f.keep_index
      /\ g.patterns = f.patterns /\ g.jumps = f.jumps
      /\ \A d \in Chain : d # c => g.chains[d] = f.chains[d]
  <2>1. HasFilled(f, c, "empty", g)
    BY <1>2, FilledIs, Zenon
  <2> HIDE DEF g
  <2> QED BY <2>1, Zenon DEF HasFilled
<1> HIDE DEF g
<1>4. CASE o = Outcome(g, TRUE, 0)
  <2>1. IsOutcome(o) /\ o.fw = g
    BY <1>3, <1>4, SuccessIs, Zenon
  <2> QED BY <1>3, <2>1, Zenon DEF ChainStep
<1>5. CASE o = Outcome(f, FALSE, 1)
  <2>1. IsOutcome(o) /\ o.fw = f
    BY <1>2, <1>5, FailureIs, Zenon
  <2> QED BY <2>1, Zenon DEF ChainStep
<1> QED BY <1>1, <1>4, <1>5, Zenon

\* -I of the DROP rule concerns one chain, and after a success the chain drops.
LEMMA InsertDropSteps ==
  ASSUME NEW f \in Firewall, NEW c \in Chain, NEW o \in InsertDrop(f, c)
  PROVE  ChainStep(f, c, o) /\ (o.answer => o.fw.chains[c] = "drop")
<1> DEFINE g == Filled(f, c, "drop")
<1>1. o = Outcome(g, TRUE, 0) \/ o = Outcome(f, FALSE, 0) \/ o = Outcome(f, FALSE, 1)
  <2>1. CASE f.chains[c] = "none"
    BY <2>1, Zenon DEF InsertDrop
  <2>2. CASE f.chains[c] # "none"
    BY <2>2, Zenon DEF InsertDrop, Filled
  <2> QED BY <2>1, <2>2, Zenon
<1>2. "drop" \in {"empty", "drop"} /\ 1 \in {0, 1} /\ 0 \in {0, 1}
  OBVIOUS
<1>3. /\ g \in Firewall /\ g.keep = f.keep /\ g.keep_index = f.keep_index
      /\ g.patterns = f.patterns /\ g.jumps = f.jumps /\ g.chains[c] = "drop"
      /\ \A d \in Chain : d # c => g.chains[d] = f.chains[d]
  <2>1. HasFilled(f, c, "drop", g)
    BY <1>2, FilledIs, Zenon
  <2> HIDE DEF g
  <2> QED BY <2>1, Zenon DEF HasFilled
<1> HIDE DEF g
<1>4. CASE o = Outcome(g, TRUE, 0)
  <2>1. IsOutcome(o) /\ o.fw = g
    BY <1>3, <1>4, SuccessIs, Zenon
  <2> QED BY <1>3, <2>1, Zenon DEF ChainStep
<1>5. ASSUME NEW n \in {0, 1}, o = Outcome(f, FALSE, n)
      PROVE  ChainStep(f, c, o) /\ (o.answer => o.fw.chains[c] = "drop")
  <2>1. IsOutcome(o) /\ o.fw = f /\ ~o.answer
    BY <1>5, FailureIs, Zenon
  <2> QED BY <2>1, Zenon DEF ChainStep
<1> QED BY <1>1, <1>2, <1>4, <1>5, Zenon

-----------------------------------------------------------------------------
(* The keep thread.                                                        *)

\* Its place in a round: where it is, what is left, and whether all went well so far.
Place == [step : Addr \cup Step, left : SUBSET k.fw.patterns, clean : BOOLEAN]

Stepped(x, st, c) == [[x EXCEPT !.step = st] EXCEPT !.clean = c]
Moved(x, st, l, c) == [[x EXCEPT !.step = st, !.left = l] EXCEPT !.clean = c]

\* y is the place of a keep thread at st with the patterns l left.
Poised(st, l, c, y) == y \in Place /\ y.step = st /\ y.left = l /\ y.clean = c

\* The next place, after a command on a chain.
LEMMA SteppedIs ==
  ASSUME NEW x \in Place, NEW st \in Addr \cup Step, NEW c \in BOOLEAN
  PROVE  Poised(st, x.left, c, Stepped(x, st, c))
<1> DEFINE S == Addr \cup Step
           L == SUBSET k.fw.patterns
           y == [x EXCEPT !.step = st]
           z == Stepped(x, st, c)
<1>1. Place = [step : S, left : L, clean : BOOLEAN]
  BY Zenon DEF Place
<1> HIDE DEF S, L
<1>2. st \in S /\ x \in [step : S, left : L, clean : BOOLEAN] /\ z = [y EXCEPT !.clean = c]
  BY <1>1, Zenon DEF S, Stepped
<1> HIDE DEF z
<1>3. y \in [step : S, left : L, clean : BOOLEAN] /\ y.step = st /\ y.left = x.left
  BY <1>2
<1> HIDE DEF y
<1>4. z \in [step : S, left : L, clean : BOOLEAN] /\ z.step = st /\ z.left = x.left /\ z.clean = c
  BY <1>2, <1>3
<1> QED BY <1>1, <1>4, Zenon DEF z, Poised

\* The next place, after the insertion of a jump.
LEMMA MovedIs ==
  ASSUME NEW x \in Place, NEW st \in Addr \cup Step, NEW l \in SUBSET k.fw.patterns,
         NEW c \in BOOLEAN
  PROVE  Poised(st, l, c, Moved(x, st, l, c))
<1> DEFINE S == Addr \cup Step
           L == SUBSET k.fw.patterns
           w == [x EXCEPT !.step = st]
           y == [x EXCEPT !.step = st, !.left = l]
           z == Moved(x, st, l, c)
<1>1. Place = [step : S, left : L, clean : BOOLEAN]
  BY Zenon DEF Place
<1>2. /\ st \in S /\ l \in L /\ x \in [step : S, left : L, clean : BOOLEAN]
      /\ z = [y EXCEPT !.clean = c]
  BY <1>1, Zenon DEF S, L, Moved
<1> HIDE DEF S, L, z
<1>3. y \in [step : S, left : L, clean : BOOLEAN] /\ y.step = st /\ y.left = l
  <2>1. y = [w EXCEPT !.left = l]
    OBVIOUS
  <2>2. w \in [step : S, left : L, clean : BOOLEAN] /\ w.step = st
    BY <1>2
  <2> HIDE DEF w, y
  <2> QED BY <1>2, <2>1, <2>2
<1> HIDE DEF y
<1>4. z \in [step : S, left : L, clean : BOOLEAN] /\ z.step = st /\ z.left = l /\ z.clean = c
  BY <1>2, <1>3
<1> QED BY <1>1, <1>4, Zenon DEF z, Poised

\* A command of a round leaves the other chain as it is.
Walks(f, g) ==
  /\ g \in Firewall /\ g.keep = f.keep /\ g.keep_index = f.keep_index /\ g.patterns = f.patterns
  /\ \A d \in Chain : d # f.keep_index =>
       g.chains[d] = f.chains[d] /\ \A a \in Addr : g.jumps[a][d] = f.jumps[a][d]

\* The chain drops, and the patterns that are done have their jump.
Filling(g, l) ==
  /\ g.chains[g.keep_index] = "drop"
  /\ \A a \in g.patterns \ l : HasJump(g, g.keep_index, a)

\* One command of a round of the keep thread, whichever it is.
LEMMA Walked ==
  ASSUME RInv, NEW g, NEW j \in Nat, Walks(k.fw, g), k' = Fired(k, g, j),
         keeper.step # "asleep",
         NEW y \in Place, keeper' = y, y.step # "asleep",
         doubtful' \in BOOLEAN, ~doubtful' => ~doubtful,
         UNCHANGED <<phase, remote, good, sending, lower>>,
         y.step \in {"flush", "drop"} => y.left = k.fw.patterns,
         phase = "run" /\ y.clean /\ y.step \in Addr \cup {"delete"} => Filling(g, y.left)
  PROVE  RInv'
<1>1. k \in Kernel /\ g \in Firewall
  BY Zenon DEF RInv, ResourcesTypeOK, Walks
<1>2. /\ k' \in Kernel /\ k'.fw = g /\ k'.installed = k.installed /\ k'.routes = k.routes
      /\ k'.leaked = k.leaked
  BY <1>1, FiredIs, ZenonT(60)
<1>3. /\ g.keep = k.fw.keep /\ g.keep_index = k.fw.keep_index /\ g.patterns = k.fw.patterns
      /\ \A d \in Chain : d # k.fw.keep_index =>
           g.chains[d] = k.fw.chains[d] /\ \A a \in Addr : g.jumps[a][d] = k.fw.jumps[a][d]
  BY Zenon DEF Walks
<1>4. k.fw.keep /\ phase # "boot"
  <2>1. keeper # Asleep
    BY AsleepIs, Zenon
  <2> QED BY <2>1, Zenon DEF RInv, Kept, Booting
<1>5. ResourcesTypeOK'
  <2>1. keeper' \in [step : Addr \cup Step, left : SUBSET k'.fw.patterns, clean : BOOLEAN]
    BY Zenon, <1>2, <1>3 DEF Place
  <2> QED BY Zenon, <1>2, <2>1 DEF RInv, ResourcesTypeOK
<1>6. Routed'
  BY <1>2, RoutedStill, Zenon DEF RInv
<1>7. Ruled'
  <2>1. ASSUME NEW a \in Addr PROVE JumpAt(k'.fw, a)
    BY <1>2, <1>3, <1>4, Zenon DEF JumpAt
  <2>2. ASSUME NEW a \in Addr, phase # "cleared" PROVE RuleAt(k', a)
    <3>1. RuleAt(k, a)
      BY <2>2, Zenon DEF RInv, Ruled
    <3> QED BY Zenon, <1>2, <1>3, <3>1 DEF RuleAt
  <2> QED BY Zenon, <2>1, <2>2 DEF Ruled
<1>8. Booting' /\ Sending'
  BY Zenon, <1>2, <1>4 DEF RInv, Booting, Sending, endpoint_resources_ready
<1>9. Kept'
  <2>1. ASSUME phase = "run", ~doubtful PROVE Shield(k', 1 - k.fw.keep_index)
    <3>1. Shield(k, 1 - k.fw.keep_index)
      BY <2>1, Zenon DEF RInv, Kept
    <3>2. 1 - k.fw.keep_index \in Chain /\ 1 - k.fw.keep_index # k.fw.keep_index
      BY <1>1, Parts DEF Firewall, Chain, Kernel
    <3>3. k'.fw.chains[1 - k.fw.keep_index] = "drop"
      BY <1>2, <1>3, <3>1, <3>2, Zenon DEF Shield
    <3>4. ASSUME NEW a \in Addr, k.installed[a] # NoRecord, k.installed[a].rule = "Present"
          PROVE  HasJump(k'.fw, 1 - k.fw.keep_index, a)
      <4>1. HasJump(k.fw, 1 - k.fw.keep_index, a)
        BY <3>1, <3>4, Zenon DEF Shield
      <4> QED BY <1>2, <1>3, <3>2, <4>1, ZenonT(60) DEF HasJump
    <3> QED BY Zenon, <1>2, <3>3, <3>4 DEF Shield
  <2>2. phase = "run" /\ y.clean /\ y.step \in Addr \cup {"delete"} =>
          /\ k'.fw.chains[k'.fw.keep_index] = "drop"
          /\ \A a \in k'.fw.patterns \ y.left : HasJump(k'.fw, k'.fw.keep_index, a)
    BY Zenon, <1>2 DEF Filling
  <2>3. keeper'.step # "asleep" /\ k'.fw.keep
    BY Zenon, <1>2, <1>3, <1>4
  <2>4. keeper'.step \in {"flush", "drop"} => keeper'.left = k'.fw.patterns
    BY Zenon, <1>2, <1>3
  <2>5. phase' = "run" /\ ~doubtful' =>
       Shield(k', IF keeper'.step = "asleep" THEN active_chain(k'.fw) ELSE 1 - k'.fw.keep_index)
    BY Zenon, <1>2, <1>3, <2>1, <2>3
  <2> QED BY Zenon, <2>2, <2>3, <2>4, <2>5 DEF Kept
<1> QED BY <1>5, <1>6, <1>7, <1>8, <1>9, Zenon DEF RInv

\* The parts of the firewall and of the keep thread's place that its commands use.
LEMMA KeeperIs ==
  ASSUME RInv
  PROVE  /\ k \in Kernel /\ k.fw \in Firewall /\ k.faults \in Nat /\ k.fw.keep_index \in Chain
         /\ keeper \in Place /\ keeper.clean \in BOOLEAN /\ doubtful \in BOOLEAN
         /\ keeper.left \in SUBSET k.fw.patterns /\ k.fw.patterns \in SUBSET Addr
<1>1. k \in Kernel /\ keeper \in Place /\ doubtful \in BOOLEAN /\ remote \in Addr
  BY Zenon DEF RInv, ResourcesTypeOK, Place
<1>2. k.fw \in Firewall /\ k.faults \in Nat
  BY <1>1, Parts
<1>3. k.fw.keep_index \in Chain /\ k.fw.patterns \in SUBSET Addr
  BY <1>1, <1>2, PartsOfFirewall
<1>4. keeper.clean \in BOOLEAN /\ keeper.left \in SUBSET k.fw.patterns
  BY <1>1 DEF Place
<1> QED BY <1>1, <1>2, <1>3, <1>4, Zenon

\* A command on the chain of the round leaves the other chain as it is.
LEMMA ChainWalks ==
  ASSUME NEW f, NEW o, ChainStep(f, f.keep_index, o)
  PROVE  Walks(f, o.fw) /\ o.failed \in Nat /\ o.answer \in BOOLEAN
<1>1. o.fw \in Firewall /\ o.failed \in Nat /\ o.answer \in BOOLEAN
  BY Zenon DEF ChainStep, IsOutcome
<1> QED BY <1>1, Zenon DEF ChainStep, Walks

\* keep: -N and -F of the chain.
LEMMA KeepFlushStep ==
  ASSUME RInv, KeepFlush
  PROVE  RInv'
<1>1. PICK o \in Flush(k.fw, k.fw.keep_index) :
        /\ k' = Fired(k, o.fw, k.faults + o.failed)
        /\ keeper' = Stepped(keeper, "drop", keeper.clean /\ ~(TRUE /\ ~o.answer))
        /\ doubtful' = (doubtful \/ (TRUE /\ ~o.answer))
  BY Zenon DEF KeepFlush, Command, Fired, Stepped
<1>2. keeper.step = "flush" /\ UNCHANGED <<phase, remote, good, sending, lower>>
  BY DEF KeepFlush, Command
<1> DEFINE c == keeper.clean /\ ~(TRUE /\ ~o.answer)
           y == Stepped(keeper, "drop", c)
<1>3. ChainStep(k.fw, k.fw.keep_index, o)
  BY KeeperIs, FlushSteps, Zenon
<1>4. Walks(k.fw, o.fw) /\ o.failed \in Nat /\ o.answer \in BOOLEAN
  BY <1>3, ChainWalks, Zenon
<1>5. c \in BOOLEAN /\ doubtful' \in BOOLEAN /\ (~doubtful' => ~doubtful)
  BY <1>1, Zenon
<1> HIDE DEF c
<1>6. "drop" \in Addr \cup Step
  BY DEF Step
<1>7. y \in Place /\ y.step = "drop" /\ y.left = keeper.left
  <2>1. Poised("drop", keeper.left, c, y)
    BY <1>5, <1>6, KeeperIs, SteppedIs, Zenon
  <2> HIDE DEF y
  <2> QED BY <2>1, Zenon DEF Poised
<1>8. keeper' = y
  BY <1>1, Zenon DEF c
<1>9. keeper.left = k.fw.patterns
  BY Zenon, <1>2 DEF RInv, Kept
<1> HIDE DEF y
<1>10. /\ k.faults + o.failed \in Nat /\ keeper.step # "asleep" /\ y.step # "asleep"
       /\ y.step \in {"flush", "drop"} => y.left = k.fw.patterns
       /\ y.step \notin Addr \cup {"delete"}
  <2>1. k.faults + o.failed \in Nat
    BY <1>4, KeeperIs, CountNat, Zenon
  <2>2. keeper.step # "asleep" /\ y.step # "asleep" /\ y.step \notin Addr \cup {"delete"}
    BY <1>2, <1>7, StepsApart, Zenon
  <2> QED BY <1>7, <1>9, <2>1, <2>2, Zenon
<1> QED BY <1>1, <1>2, <1>4, <1>5, <1>7, <1>8, <1>10, Walked, Zenon

\* keep: the DROP rule of the chain.
LEMMA KeepDropStep ==
  ASSUME RInv, KeepDrop
  PROVE  RInv'
<1>1. PICK o \in InsertDrop(k.fw, k.fw.keep_index) :
        /\ k' = Fired(k, o.fw, k.faults + o.failed)
        /\ keeper' = Stepped(keeper, "delete", keeper.clean /\ ~(TRUE /\ ~o.answer))
        /\ doubtful' = (doubtful \/ (TRUE /\ ~o.answer))
  BY Zenon DEF KeepDrop, Command, Fired, Stepped
<1>2. keeper.step = "drop" /\ UNCHANGED <<phase, remote, good, sending, lower>>
  BY DEF KeepDrop, Command
<1> DEFINE c == keeper.clean /\ ~(TRUE /\ ~o.answer)
           y == Stepped(keeper, "delete", c)
<1>3. /\ ChainStep(k.fw, k.fw.keep_index, o)
      /\ o.answer => o.fw.chains[k.fw.keep_index] = "drop"
  BY KeeperIs, InsertDropSteps, Zenon
<1>4. Walks(k.fw, o.fw) /\ o.failed \in Nat /\ o.answer \in BOOLEAN
  BY <1>3, ChainWalks, Zenon
<1>5. c \in BOOLEAN /\ doubtful' \in BOOLEAN /\ (~doubtful' => ~doubtful) /\ (c => o.answer)
  BY <1>1, Zenon
<1> HIDE DEF c
<1>6. "delete" \in Addr \cup Step
  BY DEF Step
<1>7. y \in Place /\ y.step = "delete" /\ y.left = keeper.left /\ y.clean = c
  <2>1. Poised("delete", keeper.left, c, y)
    BY <1>5, <1>6, KeeperIs, SteppedIs, Zenon
  <2> HIDE DEF y
  <2> QED BY <2>1, Zenon DEF Poised
<1>8. keeper' = y
  BY <1>1, Zenon DEF c
<1>9. keeper.left = k.fw.patterns
  BY Zenon, <1>2 DEF RInv, Kept
<1> HIDE DEF y
<1>10. y.clean => Filling(o.fw, y.left)
  <2>1. o.fw.patterns \ y.left = {} /\ o.fw.keep_index = k.fw.keep_index
    BY Zenon, <1>4, <1>7, <1>9 DEF Walks
  <2> QED BY Zenon, <1>3, <1>5, <1>7, <2>1 DEF Filling
<1>11. /\ k.faults + o.failed \in Nat /\ keeper.step # "asleep" /\ y.step # "asleep"
       /\ y.step \notin {"flush", "drop"}
  <2>1. k.faults + o.failed \in Nat
    BY <1>4, KeeperIs, CountNat, Zenon
  <2>2. /\ keeper.step # "asleep" /\ y.step # "asleep"
        /\ y.step # "flush" /\ y.step # "drop"
    BY <1>2, <1>7, StepsApart, Zenon
  <2> QED BY <2>1, <2>2, Zenon
<1> QED BY <1>1, <1>2, <1>4, <1>5, <1>7, <1>8, <1>10, <1>11, Walked, Zenon

\* keep: two deletions of the jump of a pattern.
LEMMA KeepDeleteStep ==
  ASSUME RInv, KeepDelete
  PROVE  RInv'
<1>1. PICK a \in keeper.left :
        Command("delete", [keeper EXCEPT !.step = a], Delete(k.fw, k.fw.keep_index, a, 2), FALSE)
  BY Zenon DEF KeepDelete
<1>2. PICK o \in Delete(k.fw, k.fw.keep_index, a, 2) :
        /\ k' = Fired(k, o.fw, k.faults + o.failed)
        /\ keeper' = Stepped(keeper, a, keeper.clean /\ ~(FALSE /\ ~o.answer))
        /\ doubtful' = (doubtful \/ (FALSE /\ ~o.answer))
  BY <1>1, Zenon DEF Command, Fired, Stepped
<1>3. keeper.step = "delete" /\ UNCHANGED <<phase, remote, good, sending, lower>>
  BY <1>1 DEF Command
<1> DEFINE c == keeper.clean /\ ~(FALSE /\ ~o.answer)
           y == Stepped(keeper, a, c)
<1>4. a \in Addr /\ a \in Addr \cup Step /\ 2 \in Nat
  BY Zenon, KeeperIs
<1>5. /\ Deletion(k.fw, a, o)
      /\ \A d \in Chain : d # k.fw.keep_index => o.fw.jumps[a][d] = k.fw.jumps[a][d]
  BY <1>4, KeeperIs, DeleteSteps, ZenonT(60)
<1>6. /\ Walks(k.fw, o.fw) /\ o.failed \in Nat /\ o.fw.chains = k.fw.chains
      /\ \A e \in Addr : e # a => o.fw.jumps[e] = k.fw.jumps[e]
  <2>1. /\ o.fw \in Firewall /\ o.fw.keep = k.fw.keep /\ o.fw.keep_index = k.fw.keep_index
        /\ o.fw.chains = k.fw.chains /\ o.failed \in Nat /\ o.fw.patterns = k.fw.patterns
        /\ \A e \in Addr : e # a => o.fw.jumps[e] = k.fw.jumps[e]
    BY <1>5, Zenon DEF Deletion, RuleOnly
  <2>2. \A d \in Chain, e \in Addr : d # k.fw.keep_index => o.fw.jumps[e][d] = k.fw.jumps[e][d]
    BY <1>5, <2>1, Zenon
  <2> QED BY <2>1, <2>2, Zenon DEF Walks
<1>7. c \in BOOLEAN /\ doubtful' \in BOOLEAN /\ (~doubtful' => ~doubtful) /\ (c => keeper.clean)
  BY <1>2, Zenon
<1> HIDE DEF c
<1>8. y \in Place /\ y.step = a /\ y.left = keeper.left /\ y.clean = c
  <2>1. Poised(a, keeper.left, c, y)
    BY <1>4, <1>7, KeeperIs, SteppedIs, Zenon
  <2> HIDE DEF y
  <2> QED BY <2>1, Zenon DEF Poised
<1>9. keeper' = y
  BY <1>2, Zenon DEF c
<1> HIDE DEF y
<1>10. phase = "run" /\ y.clean => Filling(o.fw, y.left)
  <2>1. SUFFICES ASSUME phase = "run", y.clean PROVE Filling(o.fw, y.left)
    BY Zenon
  <2>2. keeper.clean /\ keeper.step \in Addr \cup {"delete"}
    BY <1>3, <1>7, <1>8, <2>1
  <2>3. /\ k.fw.chains[k.fw.keep_index] = "drop"
        /\ \A e \in k.fw.patterns \ keeper.left : HasJump(k.fw, k.fw.keep_index, e)
    BY <2>1, <2>2, Zenon DEF RInv, Kept
  <2>4. o.fw.keep_index = k.fw.keep_index /\ o.fw.patterns = k.fw.patterns
    BY <1>6, Zenon DEF Walks
  <2>5. ASSUME NEW e \in k.fw.patterns \ keeper.left PROVE HasJump(o.fw, k.fw.keep_index, e)
    <3>1. e # a /\ e \in Addr
      BY KeeperIs
    <3> QED BY <1>6, <2>3, <3>1, Zenon DEF HasJump
  <2> QED BY <1>6, <1>8, <2>3, <2>4, <2>5, Zenon DEF Filling
<1>11. /\ k.faults + o.failed \in Nat /\ keeper.step # "asleep" /\ y.step # "asleep"
       /\ y.step \notin {"flush", "drop"}
  <2>1. k.faults + o.failed \in Nat
    BY <1>6, KeeperIs, CountNat, Zenon
  <2>2. /\ keeper.step # "asleep" /\ y.step # "asleep"
        /\ y.step # "flush" /\ y.step # "drop"
    BY <1>3, <1>4, <1>8, StepsApart, Zenon
  <2> QED BY <2>1, <2>2, Zenon
<1> QED BY <1>2, <1>3, <1>6, <1>7, <1>8, <1>9, <1>10, <1>11, Walked, Zenon

\* keep: the jump of a pattern.
LEMMA KeepInsertStep ==
  ASSUME RInv, NEW a \in Addr, KeepInsert(a)
  PROVE  RInv'
<1> DEFINE l == keeper.left \ {a}
<1>1. PICK o \in Insert(k.fw, k.fw.keep_index, a) :
        /\ k' = Fired(k, o.fw, k.faults + o.failed)
        /\ keeper' = Moved(keeper, "delete", l, keeper.clean /\ ~(TRUE /\ ~o.answer))
        /\ doubtful' = (doubtful \/ (TRUE /\ ~o.answer))
  BY Zenon DEF KeepInsert, Command, Fired, Moved
<1>2. keeper.step = a /\ UNCHANGED <<phase, remote, good, sending, lower>>
  BY DEF KeepInsert, Command
<1> DEFINE c == keeper.clean /\ ~(TRUE /\ ~o.answer)
           y == Moved(keeper, "delete", l, c)
<1>3. "delete" \in Addr \cup Step /\ l \in SUBSET k.fw.patterns
  BY KeeperIs DEF Step
<1>4. Insertion(k.fw, k.fw.keep_index, a, o)
  BY KeeperIs, InsertSteps, Zenon
<1>5. /\ Walks(k.fw, o.fw) /\ o.failed \in Nat /\ o.fw.chains = k.fw.chains
      /\ \A e \in Addr : e # a => o.fw.jumps[e] = k.fw.jumps[e]
      /\ o.answer => HasJump(o.fw, k.fw.keep_index, a)
  <2>1. /\ o.fw \in Firewall /\ o.fw.keep = k.fw.keep /\ o.fw.keep_index = k.fw.keep_index
        /\ o.fw.chains = k.fw.chains /\ o.failed \in Nat /\ o.fw.patterns = k.fw.patterns
        /\ \A e \in Addr : e # a => o.fw.jumps[e] = k.fw.jumps[e]
        /\ o.answer => HasJump(o.fw, k.fw.keep_index, a)
    BY <1>4, Zenon DEF Insertion, RuleOnly
  <2>2. \A d \in Chain, e \in Addr : d # k.fw.keep_index => o.fw.jumps[e][d] = k.fw.jumps[e][d]
    BY <1>4, <2>1, Zenon DEF Insertion
  <2> QED BY <2>1, <2>2, Zenon DEF Walks
<1>6. /\ c \in BOOLEAN /\ doubtful' \in BOOLEAN /\ (~doubtful' => ~doubtful)
      /\ c => keeper.clean /\ o.answer
  BY <1>1, Zenon
<1> HIDE DEF c, l
<1>7. y \in Place /\ y.step = "delete" /\ y.left = l /\ y.clean = c
  <2>1. Poised("delete", l, c, y)
    BY <1>3, <1>6, KeeperIs, MovedIs, Zenon
  <2> HIDE DEF y
  <2> QED BY <2>1, Zenon DEF Poised
<1>8. keeper' = y
  BY <1>1, Zenon DEF c
<1> HIDE DEF y
<1>9. phase = "run" /\ y.clean => Filling(o.fw, y.left)
  <2>1. SUFFICES ASSUME phase = "run", y.clean PROVE Filling(o.fw, y.left)
    BY Zenon
  <2>2. keeper.clean /\ o.answer /\ keeper.step \in Addr \cup {"delete"}
    BY <1>2, <1>6, <1>7, <2>1
  <2>3. /\ k.fw.chains[k.fw.keep_index] = "drop"
        /\ \A e \in k.fw.patterns \ keeper.left : HasJump(k.fw, k.fw.keep_index, e)
    BY <2>1, <2>2, Zenon DEF RInv, Kept
  <2>4. o.fw.keep_index = k.fw.keep_index /\ o.fw.patterns = k.fw.patterns
    BY <1>5, Zenon DEF Walks
  <2>5. ASSUME NEW e \in k.fw.patterns \ l PROVE HasJump(o.fw, k.fw.keep_index, e)
    <3>1. e \in Addr /\ (e = a \/ e \in k.fw.patterns \ keeper.left)
      BY Zenon, KeeperIs DEF l
    <3> QED BY <1>5, <2>2, <2>3, <3>1, Zenon DEF HasJump
  <2> QED BY <1>5, <1>7, <2>3, <2>4, <2>5, Zenon DEF Filling
<1>10. /\ k.faults + o.failed \in Nat /\ keeper.step # "asleep" /\ y.step # "asleep"
       /\ y.step \notin {"flush", "drop"}
  <2>1. k.faults + o.failed \in Nat
    BY <1>5, KeeperIs, CountNat, Zenon
  <2>2. /\ keeper.step # "asleep" /\ y.step # "asleep"
        /\ y.step # "flush" /\ y.step # "drop"
    BY <1>2, <1>7, StepsApart, Zenon
  <2> QED BY <2>1, <2>2, Zenon
<1> QED BY <1>1, <1>2, <1>5, <1>6, <1>7, <1>8, <1>9, <1>10, Walked, Zenon

\* keep: the round begins with the other chain than the last time.
LEMMA KeepBeginStep ==
  ASSUME RInv, KeepBegin
  PROVE  RInv'
<1> DEFINE g == [k.fw EXCEPT !.keep_index = 1 - @]
           i == k.fw.keep_index
<1>1. /\ k.fw.keep /\ phase # "boot" /\ keeper.step = "asleep"
      /\ k' = [k EXCEPT !.fw = g]
      /\ keeper' = [step |-> "flush", left |-> k.fw.patterns, clean |-> TRUE]
      /\ UNCHANGED <<phase, remote, good, sending, lower, doubtful>>
  BY DEF KeepBegin
<1>2. /\ g \in Firewall /\ g.keep = k.fw.keep /\ g.keep_index = 1 - i
      /\ g.patterns = k.fw.patterns /\ g.jumps = k.fw.jumps /\ g.chains = k.fw.chains
  <2>1. k.fw \in Firewall /\ 1 - i \in Chain
    BY KeeperIs DEF Chain
  <2> DEFINE D == [Chain -> {"none", "empty", "drop"}]
             JJ == [Addr -> [Chain -> Nat]]
             P == SUBSET Addr
  <2>2. Firewall = [keep : BOOLEAN, keep_index : Chain, patterns : P, jumps : JJ, chains : D]
    BY Zenon DEF Firewall
  <2> HIDE DEF D, JJ, P
  <2> QED BY <2>1, <2>2
<1> HIDE DEF g
<1>3. /\ k' \in Kernel /\ k'.fw = g /\ k'.installed = k.installed /\ k'.routes = k.routes
      /\ k'.leaked = k.leaked
  <2>1. k \in Kernel
    BY KeeperIs, Zenon
  <2> DEFINE I == [Addr -> Resource \cup {NoRecord}]
             R == [Addr -> [0 .. Metric - 1 -> {"none", "ours", "peer"}]]
             L == SUBSET (Addr \X (0 .. Metric - 1))
  <2>2. Kernel = [installed : I, routes : R, fw : Firewall, faults : Nat, leaked : L]
    BY Zenon DEF Kernel
  <2> HIDE DEF I, R, L
  <2> QED BY <1>1, <1>2, <2>1, <2>2
<1>4. ResourcesTypeOK'
  <2>1. keeper' \in [step : Addr \cup Step, left : SUBSET k'.fw.patterns, clean : BOOLEAN]
    BY <1>1, <1>2, <1>3 DEF Step
  <2> QED BY <1>1, <1>3, <2>1 DEF RInv, ResourcesTypeOK
<1>5. Routed'
  BY <1>3, RoutedStill, Zenon DEF RInv
<1>6. Ruled'
  <2>1. ASSUME NEW a \in Addr PROVE JumpAt(k'.fw, a)
    BY <1>1, <1>2, <1>3, Zenon DEF JumpAt
  <2>2. ASSUME NEW a \in Addr, phase # "cleared" PROVE RuleAt(k', a)
    <3>1. RuleAt(k, a)
      BY <2>2, Zenon DEF RInv, Ruled
    <3> QED BY Zenon, <1>2, <1>3, <3>1 DEF RuleAt
  <2> QED BY <1>1, <2>1, <2>2 DEF Ruled
<1>7. Booting' /\ Sending'
  BY <1>1, <1>3 DEF RInv, Booting, Sending, endpoint_resources_ready
<1>8. Kept'
  <2>1. /\ keeper'.step = "flush" /\ keeper'.left = k'.fw.patterns
        /\ keeper'.step \notin Addr \cup {"delete"}
    BY <1>1, <1>2, <1>3, ResourcesAssumption DEF Step
  <2>2. ASSUME phase = "run", ~doubtful PROVE Shield(k', 1 - k'.fw.keep_index)
    <3>1. Shield(k, i)
      BY <1>1, <2>2 DEF RInv, Kept, active_chain
    <3>2. 1 - k'.fw.keep_index = i
      BY <1>2, <1>3, KeeperIs DEF Chain
    <3>3. Shield(k', i)
      BY Zenon, <1>2, <1>3, <3>1 DEF Shield, HasJump
    <3> QED BY Zenon, <3>2, <3>3
  <2>3. keeper'.step # "asleep" /\ k'.fw.keep
    BY <1>1, <1>2, <1>3, <2>1, Zenon
  <2>4. phase' = "run" /\ ~doubtful' =>
       Shield(k', IF keeper'.step = "asleep" THEN active_chain(k'.fw) ELSE 1 - k'.fw.keep_index)
    <3>1. phase' = phase /\ doubtful' = doubtful
      BY <1>1
    <3> QED BY <2>2, <2>3, <3>1, Zenon
  <2> QED BY <2>1, <2>3, <2>4, Zenon DEF Kept
<1> QED BY <1>4, <1>5, <1>6, <1>7, <1>8, Zenon DEF RInv

\* keep: the round is over, and its chain is the one in use.
LEMMA KeepEndStep ==
  ASSUME RInv, KeepEnd
  PROVE  RInv'
<1>1. /\ keeper.step = "delete" /\ keeper.left = {} /\ keeper' = Asleep
      /\ doubtful' = ~keeper.clean /\ UNCHANGED <<k, phase, remote, good, sending, lower>>
  BY DEF KeepEnd
<1>2. k.fw.keep /\ phase # "boot"
  <2>1. keeper # Asleep
    BY <1>1 DEF Asleep
  <2> QED BY Zenon, <1>1, <2>1 DEF RInv, Kept, Booting
<1>3. keeper'.step = "asleep" /\ keeper'.left = {}
  BY Zenon, <1>1 DEF Asleep
<1>4. ResourcesTypeOK'
  <2>1. keeper' \in [step : Addr \cup Step, left : SUBSET k'.fw.patterns, clean : BOOLEAN]
    BY Zenon, <1>1 DEF Asleep, Step
  <2>2. doubtful' \in BOOLEAN
    BY <1>1, Zenon
  <2> QED BY Zenon, <1>1, <2>1, <2>2 DEF RInv, ResourcesTypeOK
<1>5. Routed' /\ Ruled' /\ Booting' /\ Sending'
  BY Zenon, <1>1, <1>2 DEF RInv, Routed, Ruled, Booting, Sending
<1>6. Kept'
  <2>1. ASSUME phase = "run", ~doubtful' PROVE Shield(k, active_chain(k.fw))
    <3>1. keeper.clean /\ keeper.step \in Addr \cup {"delete"}
      BY <1>1, <2>1, Zenon
    <3>2. /\ k.fw.chains[k.fw.keep_index] = "drop"
          /\ \A a \in k.fw.patterns \ keeper.left : HasJump(k.fw, k.fw.keep_index, a)
      BY <2>1, <3>1, Zenon DEF RInv, Kept
    <3>3. \A a \in Addr : RuleAt(k, a)
      BY <2>1 DEF RInv, Ruled
    <3>4. ASSUME NEW a \in Addr, k.installed[a] # NoRecord, k.installed[a].rule = "Present"
          PROVE  HasJump(k.fw, k.fw.keep_index, a)
      <4>1. a \in k.fw.patterns \ keeper.left
        BY <1>1, <3>3, <3>4 DEF RuleAt
      <4> QED BY <3>2, <4>1, Zenon
    <3>5. active_chain(k.fw) = k.fw.keep_index
      BY <1>2, Zenon DEF active_chain
    <3> QED BY <3>2, <3>4, <3>5, Zenon DEF Shield
  <2>2. keeper'.step \notin Addr \cup {"delete"}
    BY <1>3, ResourcesAssumption DEF Step
  <2> QED BY Zenon, <1>1, <1>3, <2>1, <2>2 DEF Kept
<1> QED BY <1>4, <1>5, <1>6, Zenon DEF RInv

\* Something reloads the firewall: the doubt covers what is lost.
LEMMA ReloadStep ==
  ASSUME RInv, Reload
  PROVE  RInv'
<1> DEFINE none == [c \in Chain |-> "none"]
           g == [k.fw EXCEPT !.jumps = NoJumps, !.chains = none]
           w == [k.fw EXCEPT !.jumps = NoJumps]
<1>1. /\ k.fw.keep /\ phase = "run" /\ doubtful' = TRUE
      /\ keeper' = [keeper EXCEPT !.clean = FALSE]
      /\ UNCHANGED <<phase, remote, good, sending, lower>>
  BY DEF Reload
<1>2. k' = Fired(k, g, k.faults + 1)
  BY DEF Reload, Fired
<1>3. g \in Firewall /\ g.keep = k.fw.keep /\ g.patterns = k.fw.patterns
  <2>1. k.fw \in Firewall
    BY KeeperIs, Zenon
  <2> DEFINE D == [Chain -> {"none", "empty", "drop"}]
             JJ == [Addr -> [Chain -> Nat]]
             P == SUBSET Addr
  <2>2. none \in D /\ NoJumps \in JJ
    BY DEF NoJumps
  <2>3. Firewall = [keep : BOOLEAN, keep_index : Chain, patterns : P, jumps : JJ, chains : D]
    BY Zenon DEF Firewall
  <2>4. g = [w EXCEPT !.chains = none]
    OBVIOUS
  <2> HIDE DEF D, JJ, P, none, g
  <2>5. w \in Firewall /\ w.keep = k.fw.keep /\ w.patterns = k.fw.patterns
    BY <2>1, <2>2, <2>3
  <2> HIDE DEF w
  <2> QED BY <2>2, <2>3, <2>4, <2>5
<1> HIDE DEF g
<1>4. k.faults + 1 \in Nat /\ k \in Kernel
  BY KeeperIs
<1>5. /\ k' \in Kernel /\ k'.fw = g /\ k'.installed = k.installed /\ k'.routes = k.routes
      /\ k'.leaked = k.leaked
  BY <1>2, <1>3, <1>4, FiredIs, ZenonT(60)
<1>6. /\ keeper' \in Place /\ keeper'.step = keeper.step /\ keeper'.left = keeper.left
      /\ ~keeper'.clean
  <2> DEFINE S == Addr \cup Step
             L == SUBSET k.fw.patterns
             c == FALSE
  <2>1. Place = [step : S, left : L, clean : BOOLEAN] /\ keeper \in Place
    BY KeeperIs, Zenon DEF Place
  <2>2. c \in BOOLEAN /\ ~c /\ keeper' = [keeper EXCEPT !.clean = c]
    BY <1>1, Zenon
  <2> HIDE DEF S, L, c
  <2>3. /\ keeper' \in [step : S, left : L, clean : BOOLEAN] /\ keeper'.step = keeper.step
        /\ keeper'.left = keeper.left /\ keeper'.clean = c
    BY <2>1, <2>2
  <2> QED BY <2>1, <2>2, <2>3, Zenon
<1>7. ResourcesTypeOK'
  <2>1. keeper' \in [step : Addr \cup Step, left : SUBSET k'.fw.patterns, clean : BOOLEAN]
    BY <1>3, <1>5, <1>6, Zenon DEF Place
  <2>2. doubtful' \in BOOLEAN
    BY <1>1, Zenon
  <2> QED BY <1>1, <1>5, <2>1, <2>2 DEF RInv, ResourcesTypeOK
<1>8. Routed'
  BY <1>5, RoutedStill, Zenon DEF RInv
<1>9. Ruled'
  <2>1. ASSUME NEW a \in Addr PROVE JumpAt(k'.fw, a)
    BY <1>1, <1>3, <1>5, Zenon DEF JumpAt
  <2>2. ASSUME NEW a \in Addr PROVE RuleAt(k', a)
    <3>1. RuleAt(k, a)
      BY <1>1 DEF RInv, Ruled
    <3> QED BY <1>3, <1>5, <3>1 DEF RuleAt
  <2> QED BY <2>1, <2>2 DEF Ruled
<1>10. Booting' /\ Sending'
  BY <1>1, <1>5 DEF RInv, Booting, Sending, endpoint_resources_ready
<1>11. Kept'
  <2>1. doubtful' /\ k'.fw.keep
    BY <1>1, <1>3, <1>5, Zenon
  <2>2. keeper'.step = "asleep" => keeper'.left = {}
    BY <1>6, Zenon DEF RInv, Kept
  <2>3. keeper'.step \in {"flush", "drop"} => keeper'.left = k'.fw.patterns
    BY <1>3, <1>5, <1>6, Zenon DEF RInv, Kept
  <2> QED BY <1>6, <2>1, <2>2, <2>3, Zenon DEF Kept
<1> QED BY <1>7, <1>8, <1>9, <1>10, <1>11, Zenon DEF RInv

\* The process starts with no record and no rule, beside the routes of the other client.
LEMMA InitInvariant == Init => RInv
<1> SUFFICES ASSUME Init PROVE RInv
  OBVIOUS
<1>1. /\ phase = "boot" /\ remote = Bootstrap /\ good \in Addr \cup {NoRecord}
      /\ sending = FALSE /\ lower = remote /\ keeper = Asleep /\ doubtful = FALSE
  BY Zenon DEF Init
<1> DEFINE none == [a \in Addr |-> NoRecord]
           table(peer) == [a \in Addr |-> [m \in 0 .. Metric - 1 |->
                             IF m = 0 /\ a \in peer THEN "peer" ELSE "none"]]
<1>2. PICK keep \in BOOLEAN, peer \in SUBSET Addr :
        k = [installed |-> none, routes |-> table(peer), fw |-> NoFirewall(keep),
             faults |-> 0, leaked |-> {}]
  BY Zenon DEF Init
<1>3. none \in [Addr -> Resource \cup {NoRecord}]
  OBVIOUS
<1>4. /\ table(peer) \in [Addr -> [0 .. Metric - 1 -> {"none", "ours", "peer"}]]
      /\ \A a \in Addr, m \in Metrics : table(peer)[a][m] # "ours"
  BY DEF Metrics
<1>5. /\ NoFirewall(keep) \in Firewall
      /\ \A a \in Addr : NoFirewall(keep).jumps[a][0] = 0 /\ a \notin NoFirewall(keep).patterns
  BY Zenon DEF NoFirewall, Firewall, NoJumps, Chain
<1> HIDE DEF none, table
<1>6. /\ k \in Kernel /\ k.installed = none /\ k.routes = table(peer) /\ k.fw = NoFirewall(keep)
  BY Zenon, <1>2, <1>3, <1>4, <1>5 DEF Kernel
<1>7. keeper.step = "asleep" /\ keeper.left = {} /\ ~sending /\ ~doubtful
  BY <1>1 DEF Asleep
<1>8. \A a \in Addr : k.installed[a] = NoRecord
  BY <1>6 DEF none
<1>9. ResourcesTypeOK
  <2>1. keeper \in [step : Addr \cup Step, left : SUBSET k.fw.patterns, clean : BOOLEAN]
    BY Zenon, <1>1 DEF Asleep, Step
  <2>2. remote \in Addr /\ lower \in Addr \cup {NoRecord}
    BY <1>1, ResourcesAssumption
  <2>3. sending \in BOOLEAN /\ doubtful \in BOOLEAN
    BY <1>1, Zenon
  <2> QED BY <1>1, <1>6, <2>1, <2>2, <2>3, Zenon DEF ResourcesTypeOK
<1>10. Routed
  BY Zenon, <1>4, <1>6, <1>8 DEF Routed, RouteAt
<1>11. Ruled
  BY <1>5, <1>6, <1>8 DEF Ruled, RuleAt, JumpAt, HasJump
<1>12. Booting
  BY <1>1, <1>6, <1>7, Zenon DEF Booting, none
<1>13. Kept /\ Sending
  BY Zenon, <1>1, <1>7, ResourcesAssumption DEF Kept, Sending, Step
<1> QED BY <1>9, <1>10, <1>11, <1>12, <1>13, Zenon DEF RInv

=============================================================================
