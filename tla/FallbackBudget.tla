-------------------------- MODULE FallbackBudget --------------------------
(***************************************************************************)
(* The durable budget of old-address probes (src/endpoint.rs,              *)
(* charge_fallback) and the owner-only state file it lives in              *)
(* (src/secure_file.rs), shared by processes that take the file's lock,    *)
(* read the file, charge a probe to it and replace it.                     *)
(*                                                                         *)
(* What a process has written is visible to the others at once and durable *)
(* only when it, or the kernel of its own accord, has written it back: a   *)
(* process may die at any step, and the machine may lose its power.  The   *)
(* wall clock may be set back.  A process takes the time before it waits   *)
(* for the lock.                                                           *)
(*                                                                         *)
(* The checks on owner, mode, links and inodes are here by their outcome:  *)
(* any step may fail.                                                      *)
(***************************************************************************)
EXTENDS Integers, FiniteSets

CONSTANTS
  Process,
  Key,                  \* pairs of an old address and a set of candidates
  NoKey,                \* what a start charges
  Capacity,             \* global_capacity
  RefillTime,           \* global_refill_ms, in seconds, rounded up
  Cooldown,             \* cooldown_ms, in seconds, rounded up
  MaxAttempts,          \* max_attempts
  MAX_BUDGET_ENTRIES,
  MAX_PERSISTED_COOLDOWN,
  FutureSlack,          \* how far ahead a stored time may be
  MaxTime,              \* bound on the wall clock
  MaxInode              \* bound on the lock files ever created

ASSUME BudgetAssumption ==
  /\ IsFiniteSet(Key)
  /\ Capacity \in Nat \ {0} /\ MaxAttempts \in Nat \ {0} /\ MAX_BUDGET_ENTRIES \in Nat
  /\ RefillTime \in Nat \ {0} /\ FutureSlack \in Nat
  /\ MAX_PERSISTED_COOLDOWN \in Nat /\ Cooldown \in 0 .. MAX_PERSISTED_COOLDOWN
  /\ MaxTime \in Nat /\ MaxInode \in Nat

VARIABLES
  proc,         \* the processes
  now,          \* the wall clock
  lock,         \* the inode of the lock file, NoInode if there is none
  inodes,       \* inodes created
  file,         \* the state file: what is seen, and what of it is stored
  disk,         \* the state file that a loss of power would leave
  origin,       \* history: the time the budget began
  granted,      \* history: key -> probes granted, and the time of the last
  probes        \* history: probes granted in all

vars == <<proc, now, lock, inodes, file, disk, origin, granted, probes>>

NoInode == 0

-----------------------------------------------------------------------------
(* The state of the budget.                                                *)

NoEntry == [charged |-> 0, not_before |-> 0, last_used |-> 0]

Entry ==
  [charged: 0 .. MaxAttempts, not_before: 0 .. MaxTime + Cooldown,
   last_used: 0 .. MaxTime]

\* A state file: missing, a budget, or torn.
Missing == [kind |-> "missing"]
Torn == [kind |-> "torn"]
Budgets ==
  [kind: {"budget"}, tokens: 0 .. Capacity, updated: 0 .. MaxTime,
   entries: [Key -> Entry]]

\* A file whose contents are all on the disk, and one whose contents are not.
Whole(f) == [seen |-> f, stored |-> f]
Unsynced(f) == [seen |-> f, stored |-> Torn]

NewBudget(wall) ==
  [kind |-> "budget", tokens |-> Capacity, updated |-> wall,
   entries |-> [k \in Key |-> NoEntry]]

Used(b) == {k \in Key : b.entries[k].charged > 0}

\* load_fallback_state: whether what is stored is accepted at a time.
Loads(f, wall) ==
  f.kind = "budget" =>
    /\ f.tokens <= Capacity
    /\ f.updated <= wall + FutureSlack
    /\ Cardinality(Used(f)) <= MAX_BUDGET_ENTRIES
    /\ \A k \in Used(f) :
         LET e == f.entries[k] IN
         /\ e.last_used <= wall + FutureSlack
         /\ e.last_used <= e.not_before
         /\ e.not_before - e.last_used <= MAX_PERSISTED_COOLDOWN

\* What a process works on: a new budget when there is no file.
Loaded(f, wall) == IF f = Missing THEN NewBudget(wall) ELSE f

Smaller(m, n) == IF m <= n THEN m ELSE n

\* The refill: every interval that is over is used up, also by a full bucket.
Refilled(b, wall) ==
  LET intervals == IF wall >= b.updated THEN (wall - b.updated) \div RefillTime ELSE 0
  IN  [b EXCEPT !.tokens = Smaller(@ + intervals, Capacity),
                !.updated = @ + intervals * RefillTime]

\* Mutant: an empty bucket pays.
MayChargeBroke(b, wall, k) ==
  IF k \in Used(b)
  THEN b.entries[k].charged < MaxAttempts /\ wall >= b.entries[k].not_before
  ELSE Cardinality(Used(b)) < MAX_BUDGET_ENTRIES

\* Mutant: the attempts are not limited.
MayChargeAgain(b, wall, k) ==
  /\ Refilled(b, wall).tokens > 0
  /\ IF k \in Used(b) THEN wall >= b.entries[k].not_before
     ELSE Cardinality(Used(b)) < MAX_BUDGET_ENTRIES

\* Mutant: no cool-down.
MayChargeAtOnce(b, wall, k) ==
  /\ Refilled(b, wall).tokens > 0
  /\ IF k \in Used(b) THEN b.entries[k].charged < MaxAttempts
     ELSE Cardinality(Used(b)) < MAX_BUDGET_ENTRIES

\* Whether a probe may be charged to k.
MayCharge(b, wall, k) ==
  /\ Refilled(b, wall).tokens > 0
  /\ IF k \in Used(b)
     THEN b.entries[k].charged < MaxAttempts /\ wall >= b.entries[k].not_before
     ELSE Cardinality(Used(b)) < MAX_BUDGET_ENTRIES

\* precharge_fallback_state
Precharged(b, wall, k) ==
  [Refilled(b, wall) EXCEPT
     !.tokens = @ - 1,
     !.entries[k] = [charged |-> b.entries[k].charged + 1,
                     not_before |-> wall + Cooldown, last_used |-> wall]]

-----------------------------------------------------------------------------
(* A process: what it does with the lock, and how far it is.               *)

Phase == {"dead", "idle", "open", "lock", "check", "load", "write", "sync",
          "rename", "syncdir"}

IdleProcess(usable) ==
  [phase |-> "idle", boot |-> FALSE, usable |-> usable, key |-> NoKey,
   wall |-> 0, inode |-> NoInode, temp |-> Whole(Missing)]

DeadProcess == [IdleProcess(FALSE) EXCEPT !.phase = "dead"]

Step(p, phase, next) ==
  /\ proc[p].phase = phase
  /\ proc' = [proc EXCEPT ![p].phase = next]

\* The locks are those of the processes between lock_exclusive and the end of
\* with_owner_only_lock, where the descriptor is closed.
Holds(p) == proc[p].phase \in {"check", "load", "write", "sync", "rename", "syncdir"}

Leave(p, process) == proc' = [proc EXCEPT ![p] = process]

Begin(p, boot, k) ==
  proc' = [proc EXCEPT ![p] = [IdleProcess(TRUE) EXCEPT
             !.phase = "open", !.boot = boot, !.key = k, !.wall = now]]

\* bootstrap: the first thing is to load the file, under the lock.
Start(p) ==
  /\ proc[p].phase = "dead"
  /\ Begin(p, TRUE, NoKey)
  /\ UNCHANGED <<now, lock, inodes, file, disk, origin, granted, probes>>

\* charge_fallback, for an old address given the candidates of the moment.
Charge(p, k) ==
  /\ proc[p].phase = "idle" /\ proc[p].usable
  /\ Begin(p, FALSE, k)
  /\ UNCHANGED <<now, lock, inodes, file, disk, origin, granted, probes>>

\* open_or_create_lock
OpenLock(p) ==
  /\ proc[p].phase = "open"
  /\ lock # NoInode \/ inodes < MaxInode
  /\ lock' = IF lock = NoInode THEN inodes + 1 ELSE lock
  /\ inodes' = IF lock = NoInode THEN inodes + 1 ELSE inodes
  /\ proc' = [proc EXCEPT ![p].phase = "lock", ![p].inode = lock']
  /\ UNCHANGED <<now, file, disk, origin, granted, probes>>

\* lock_exclusive
TakeLock(p) ==
  /\ Step(p, "lock", "check")
  /\ \A q \in Process : Holds(q) => proc[q].inode # proc[p].inode
  /\ UNCHANGED <<now, lock, inodes, file, disk, origin, granted, probes>>

\* Mutant: the locked file is not compared with the one at the path.
CheckLockNot(p) ==
  /\ Step(p, "check", "load")
  /\ UNCHANGED <<now, lock, inodes, file, disk, origin, granted, probes>>

\* validate_lock_path: the lock that is held is the one at the path.
CheckLock(p) ==
  /\ Step(p, "check", "load")
  /\ proc[p].inode = lock
  /\ UNCHANGED <<now, lock, inodes, file, disk, origin, granted, probes>>

\* load_fallback_state.  A start ends here; a charge ends here when it is denied.
Load(p) ==
  LET b == Loaded(file.seen, proc[p].wall) IN
  /\ proc[p].phase = "load"
  /\ file.seen # Torn /\ Loads(file.seen, proc[p].wall)
  /\ IF proc[p].boot \/ ~MayCharge(b, proc[p].wall, proc[p].key)
     THEN Leave(p, IdleProcess(TRUE))
     ELSE proc' = [proc EXCEPT ![p].phase = "write",
             ![p].temp = Whole(Precharged(b, proc[p].wall, proc[p].key))]
  /\ UNCHANGED <<now, lock, inodes, file, disk, origin, granted, probes>>

\* create_temp_with and write_all: a new file, under a name of its own.
Write(p) ==
  /\ proc[p].phase = "write"
  /\ proc' = [proc EXCEPT ![p].phase = "sync", ![p].temp = Unsynced(@.seen)]
  /\ UNCHANGED <<now, lock, inodes, file, disk, origin, granted, probes>>

\* Mutant: the temporary file is not synced.
SyncNot(p) ==
  /\ Step(p, "sync", "rename")
  /\ UNCHANGED <<now, lock, inodes, file, disk, origin, granted, probes>>

\* sync_all
Sync(p) ==
  /\ proc[p].phase = "sync"
  /\ proc' = [proc EXCEPT ![p].phase = "rename", ![p].temp = Whole(@.seen)]
  /\ UNCHANGED <<now, lock, inodes, file, disk, origin, granted, probes>>

\* rename over the destination.
Rename(p) ==
  /\ Step(p, "rename", "syncdir")
  /\ file' = proc[p].temp
  /\ origin' = IF file.seen = Missing THEN proc[p].temp.seen.updated ELSE origin
  /\ UNCHANGED <<now, lock, inodes, disk, granted, probes>>

\* Mutant: the charge is granted with the directory not synced.
GrantUnsynced(p) ==
  /\ proc[p].phase = "syncdir"
  /\ granted' = [granted EXCEPT ![proc[p].key] =
                    [count |-> @.count + 1, last |-> proc[p].wall]]
  /\ probes' = probes + 1
  /\ Leave(p, IdleProcess(TRUE))
  /\ UNCHANGED <<now, lock, inodes, file, disk, origin>>

\* The directory is synced, and only now the charge is granted.
SyncDirectory(p) ==
  /\ proc[p].phase = "syncdir"
  /\ disk' = file.stored
  /\ granted' = [granted EXCEPT ![proc[p].key] =
                    [count |-> @.count + 1, last |-> proc[p].wall]]
  /\ probes' = probes + 1
  /\ Leave(p, IdleProcess(TRUE))
  /\ UNCHANGED <<now, lock, inodes, file, origin>>

\* The steps before which the directory is checked to be the trusted one that was
\* opened (TrustedDirectory::for_path, revalidate), and those that check the owner,
\* the mode and the links of the file they open (validate_metadata).
DirectoryChecks == {"open", "check", "load", "write", "sync", "rename", "syncdir"}
FileChecks == {"open", "check", "load", "write", "sync", "rename"}

\* A check, or the call itself, may fail at any step: the process gives up and charges
\* no more in its life.
Fail(p) ==
  /\ proc[p].phase \in DirectoryChecks \cup FileChecks \cup {"lock"}
  /\ Leave(p, IdleProcess(FALSE))
  /\ UNCHANGED <<now, lock, inodes, file, disk, origin, granted, probes>>

-----------------------------------------------------------------------------
(* The world.                                                              *)

\* A process dies.
Crash(p) ==
  /\ proc[p].phase # "dead"
  /\ Leave(p, DeadProcess)
  /\ UNCHANGED <<now, lock, inodes, file, disk, origin, granted, probes>>

\* The kernel writes the directory back.
WriteBack ==
  /\ disk # file.stored
  /\ disk' = file.stored
  /\ UNCHANGED <<proc, now, lock, inodes, file, origin, granted, probes>>

\* The power goes: what was not written back is lost.
PowerLoss ==
  /\ proc' = [p \in Process |-> DeadProcess]
  /\ file' = Whole(disk)
  /\ lock' \in {lock, NoInode}
  /\ UNCHANGED <<now, inodes, disk, origin, granted, probes>>

\* The lock file is removed while nobody works under it.
RemoveLock ==
  /\ lock # NoInode
  /\ \A p \in Process : proc[p].phase \in {"dead", "idle", "open", "lock", "check"}
  /\ lock' = NoInode
  /\ UNCHANGED <<proc, now, inodes, file, disk, origin, granted, probes>>

\* Time passes, or the clock is set back.
Clock ==
  /\ now' \in {t \in 0 .. MaxTime : t < now \/ t = now + 1}
  /\ UNCHANGED <<proc, lock, inodes, file, disk, origin, granted, probes>>

Init ==
  /\ proc = [p \in Process |-> DeadProcess]
  /\ now \in 0 .. MaxTime
  /\ lock = NoInode /\ inodes = 0
  /\ file = Whole(Missing) /\ disk = Missing
  /\ origin = 0
  /\ granted = [k \in Key |-> [count |-> 0, last |-> 0]] /\ probes = 0

Next ==
  \/ \E p \in Process :
       \/ Start(p) \/ \E k \in Key : Charge(p, k)
       \/ OpenLock(p) \/ TakeLock(p) \/ CheckLock(p) \/ Load(p)
       \/ Write(p) \/ Sync(p) \/ Rename(p) \/ SyncDirectory(p)
       \/ Fail(p) \/ Crash(p)
  \/ WriteBack \/ PowerLoss \/ RemoveLock \/ Clock

Spec == Init /\ [][Next]_vars

-----------------------------------------------------------------------------

Files == Budgets \cup {Missing, Torn}

\* Every variable keeps its type.
BudgetTypeOK ==
  /\ \A p \in Process :
       /\ proc[p].phase \in Phase /\ proc[p].key \in Key \cup {NoKey}
       /\ proc[p].wall \in 0 .. MaxTime /\ proc[p].inode \in 0 .. MaxInode
       /\ proc[p].temp.seen \in Files
  /\ now \in 0 .. MaxTime /\ lock \in 0 .. MaxInode
  /\ file.seen \in Files /\ disk \in Files
  /\ granted \in [Key -> [count: 0 .. MaxAttempts, last: 0 .. MaxTime]]
  /\ probes \in Nat

\* No probe without its token: whatever crashes, and however the clock is set,
\* the probes granted are paid by the tokens that are gone from the disk, the
\* refills up to the time stored there included.
TokensConserved ==
  /\ disk.kind = "budget" =>
       probes + disk.tokens <= Capacity + (disk.updated - origin) \div RefillTime
  /\ disk.kind = "missing" => probes = 0

\* The disk knows of every probe granted to a key, a pair of an old address and the
\* candidates of the moment (charge_fallback).
AttemptsBounded ==
  disk.kind = "budget" => \A k \in Key : granted[k].count <= disk.entries[k].charged

\* Two probes granted to one key are a cool-down apart.  The same old address has another
\* key when the name resolves to other addresses, and no cool-down then.
ProbesSpaced ==
  [][\A k \in Key : granted[k].count > 0 /\ granted'[k] # granted[k] =>
       granted'[k].last >= granted[k].last + Cooldown]_vars

\* The program always reads back what it wrote: a start after a crash or a loss of
\* power never finds a state file that disables the probes, once the clock has
\* passed what it holds.
AlwaysLoadable ==
  \A f \in {file.seen, disk} : f # Torn /\ Loads(f, MaxTime)

=============================================================================
