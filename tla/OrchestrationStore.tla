------------------------- MODULE OrchestrationStore -------------------------
(***************************************************************************)
(* The transactional task store shared by every Lilith process             *)
(* (lilith_tools/orchestration_sqlite.py, SQLiteOrchestrationBackend).     *)
(*                                                                         *)
(* Every mutation of the source runs in one BEGIN IMMEDIATE transaction,   *)
(* so one operation is one atomic action here.  What is NOT inside the     *)
(* transaction is the caller's timestamp: claim_task, renew_lease and      *)
(* resume_expired read time.time() and only then wait for the write lock   *)
(* (up to busy_timeout), so they act with a reading of the clock that may  *)
(* be up to LockWait old when the transaction runs.                        *)
(*                                                                         *)
(* The operations leave the clock and the variables of other modules to    *)
(* their callers; StoreNext closes them for a store on its own.            *)
(***************************************************************************)
EXTENDS Naturals

CONSTANTS
    TaskIds,        \* identifiers a task row may get
    Keys,           \* idempotency keys
    NoKey,          \* a task added without an idempotency key
    Owners,         \* lease owners: daemons, routers, interactive sessions
    NoOwner,        \* lease_owner is None
    NoTask,         \* no row with that id in table tasks
    NoLease,        \* no row for that task in table task_leases
    LeaseTimes,     \* the lease_seconds callers pass, already max(1, .)
    LockWait,       \* busy_timeout: how old `now' may be inside a transaction
    MaxTime,        \* bound: the clock stops there
    MaxAttempts,    \* bound: attempts stops there
    Labels,         \* labels of checkpoints
    Snapshots       \* legacy JSON states the first open may import

VARIABLES
    tasks,          \* table tasks: id -> payload, or NoTask
    leases,         \* table task_leases: id -> row, or NoLease
    checkpoints,    \* table task_checkpoints: id -> labels recorded
    clock           \* time.time(), the same for every process

storeVars == <<tasks, leases, checkpoints>>

Terminal == {"completada", "fallida", "cancelada"}
Open     == {"pendiente", "delegada", "bloqueada", "en_revision"}
Statuses == Open \cup Terminal

\* VALID_TRANSITIONS: the targets of each status.
Targets(s) ==
    CASE s = "pendiente"   -> Statuses \ {"pendiente"}
      [] s = "delegada"    -> Statuses \ {"delegada"}
      [] s = "bloqueada"   -> Statuses \ {"bloqueada", "en_revision"}
      [] s = "en_revision" -> Statuses \ {"en_revision"}
      [] s = "completada"  -> {}
      [] s = "fallida"     -> {"pendiente", "delegada"}
      [] s = "cancelada"   -> {"pendiente"}

MayMove(from, to) == to = from \/ to \in Targets(from)

Task  == [status        : Statuses,
          key           : Keys \cup {NoKey},
          attempts      : Nat,
          lease_owner   : Owners \cup {NoOwner},
          lease_expires : Nat]
Lease == [owner : Owners, expires : Nat]

\* A snapshot satisfies what the schema imposes: idempotency_key is UNIQUE.
KeysUnique(t) ==
    \A a, b \in TaskIds :
        (a # b /\ t[a] # NoTask /\ t[b] # NoTask /\ t[a].key # NoKey)
            => t[a].key # t[b].key

ASSUME StoreConstants ==
    /\ NoKey \notin Keys
    /\ NoOwner \notin Owners
    /\ NoTask \notin Task
    /\ NoLease \notin Lease
    /\ LeaseTimes \subseteq Nat \ {0}
    /\ LockWait \in Nat
    /\ MaxTime \in Nat
    /\ MaxAttempts \in Nat
    /\ Snapshots \subseteq [TaskIds -> Task \cup {NoTask}]
    /\ \A s \in Snapshots : KeysUnique(s)

Exists(t)   == tasks[t] # NoTask
Leased(t)   == leases[t] # NoLease
Live(t)     == Leased(t) /\ leases[t].expires > clock

\* The values time.time() may have had when the caller read it.
Stamps == {n \in 0..clock : n + LockWait >= clock}

Unowned(row) == [row EXCEPT !.lease_owner = NoOwner, !.lease_expires = 0]
DropLease(t) == [leases EXCEPT ![t] = NoLease]

-----------------------------------------------------------------------------
(* The first open of the store imports a legacy JSON snapshot, at most     *)
(* once and only into a store without tasks and events: every state before *)
(* it is the empty one, so an import is a choice of the initial tasks.     *)
StoreInit ==
    /\ tasks \in Snapshots \cup {[t \in TaskIds |-> NoTask]}
    /\ leases = [t \in TaskIds |-> NoLease]
    /\ checkpoints = [t \in TaskIds |-> {}]
    /\ clock = 0

\* Mutant: the key is looked up only when the id is known too.
AddTaskBlindToKeys(t, key, status) ==
    /\ ~Exists(t)
    /\ tasks' = [tasks EXCEPT ![t] =
            [status |-> status, key |-> key, attempts |-> 0,
             lease_owner |-> NoOwner, lease_expires |-> 0]]
    /\ UNCHANGED <<leases, checkpoints>>

\* add_task: a known idempotency key returns the task that has it and a
\* known id raises; both leave the store alone.
AddTask(t, key, status) ==
    /\ ~Exists(t)
    /\ key # NoKey => \A u \in TaskIds : Exists(u) => tasks[u].key # key
    /\ tasks' = [tasks EXCEPT ![t] =
            [status |-> status, key |-> key, attempts |-> 0,
             lease_owner |-> NoOwner, lease_expires |-> 0]]
    /\ UNCHANGED <<leases, checkpoints>>

\* Mutant: the lease of a finished task is left to expire.
UpdateTaskKeepsLease(t, status, attempts) ==
    /\ Exists(t)
    /\ MayMove(tasks[t].status, status)
    /\ tasks' = [tasks EXCEPT ![t].status = status, ![t].attempts = attempts]
    /\ UNCHANGED <<leases, checkpoints>>

\* update_task with a status: no owner is asked for.  A terminal status ends
\* the lease, any other status leaves the lease row as it is.  Its metadata may
\* name an owner for the payload of an open task, without a row: only the calls
\* of the JSON backend do, which has no rows, so that this is left out.
UpdateTask(t, status, attempts) ==
    /\ Exists(t)
    /\ MayMove(tasks[t].status, status)
    /\ LET row == [tasks[t] EXCEPT !.status = status, !.attempts = attempts]
       IN  IF status \in Terminal
             THEN tasks' = [tasks EXCEPT ![t] = Unowned(row)] /\ leases' = DropLease(t)
             ELSE tasks' = [tasks EXCEPT ![t] = row] /\ UNCHANGED leases
    /\ UNCHANGED checkpoints

\* update_task without a status, and without the metadata of a lease.
SetAttempts(t, attempts) ==
    /\ Exists(t)
    /\ tasks' = [tasks EXCEPT ![t].attempts = attempts]
    /\ UNCHANGED <<leases, checkpoints>>

SetStatus(t, status) == Exists(t) /\ UpdateTask(t, status, tasks[t].attempts)

CancelTask(t) == SetStatus(t, "cancelada")

\* claim_task by o with the clock it read: a terminal task and a lease of
\* another owner that has not expired at `now' are refused.
TakeLease(t, o, now, seconds) ==
    /\ leases' = [leases EXCEPT ![t] = [owner |-> o, expires |-> now + seconds]]
    /\ tasks' = [tasks EXCEPT ![t].status = "delegada",
                              ![t].lease_owner = o,
                              ![t].lease_expires = now + seconds]
    /\ UNCHANGED checkpoints

HeldByOther(t, o, now) ==
    Leased(t) /\ leases[t].expires > now /\ leases[t].owner # o

\* Mutant: a task that is pending counts as free, whatever lease it has.
ClaimTaskByStatus(t, o, now, seconds) ==
    /\ Exists(t)
    /\ tasks[t].status \notin Terminal
    /\ tasks[t].status = "pendiente" \/ ~HeldByOther(t, o, now)
    /\ TakeLease(t, o, now, seconds)

\* Mutant: finished tasks are claimable.
ClaimTaskAnyStatus(t, o, now, seconds) ==
    /\ Exists(t)
    /\ ~HeldByOther(t, o, now)
    /\ TakeLease(t, o, now, seconds)

\* Mutant: the lease is not looked at.
ClaimTaskUnguarded(t, o, now, seconds) ==
    /\ Exists(t)
    /\ tasks[t].status \notin Terminal
    /\ TakeLease(t, o, now, seconds)

ClaimTask(t, o, now, seconds) ==
    /\ Exists(t)
    /\ tasks[t].status \notin Terminal
    /\ ~HeldByOther(t, o, now)
    /\ TakeLease(t, o, now, seconds)

CanRenew(t, o, now) ==
    Leased(t) /\ leases[t].owner = o /\ leases[t].expires > now

\* Mutant: the heartbeat renews the row and forgets the payload.
RenewLeaseRowOnly(t, o, now, seconds) ==
    /\ CanRenew(t, o, now)
    /\ leases' = [leases EXCEPT ![t].expires = now + seconds]
    /\ UNCHANGED <<tasks, checkpoints>>

RenewLease(t, o, now, seconds) ==
    /\ CanRenew(t, o, now)
    /\ leases' = [leases EXCEPT ![t].expires = now + seconds]
    /\ tasks' = [tasks EXCEPT ![t].lease_expires = now + seconds]
    /\ UNCHANGED checkpoints

\* Mutant: anybody may release.
CanReleaseAnyLease(t, o, status) == Exists(t) /\ MayMove(tasks[t].status, status)

\* release_task: refused only when the lease row is somebody else's.
CanRelease(t, o, status) ==
    /\ ~(Leased(t) /\ leases[t].owner # o)
    /\ Exists(t)
    /\ MayMove(tasks[t].status, status)

ReleaseTask(t, o, status) ==
    /\ CanRelease(t, o, status)
    /\ leases' = DropLease(t)
    /\ tasks' = [tasks EXCEPT ![t] = Unowned([@ EXCEPT !.status = status])]
    /\ UNCHANGED checkpoints

CheckpointTask(t, label) ==
    /\ Exists(t)
    /\ checkpoints' = [checkpoints EXCEPT ![t] = @ \cup {label}]
    /\ UNCHANGED <<tasks, leases>>

\* Mutant: the expiry is not compared.
ExpiredAtOnce(now) == {t \in TaskIds : Leased(t)}

ExpiredAt(now) == {t \in TaskIds : Leased(t) /\ leases[t].expires <= now}

\* Mutant: only the status is restored.
ResumedKeepsOwner(row) ==
    [row EXCEPT !.status = IF @ = "delegada" THEN "pendiente" ELSE @]

\* Mutant: only the owner is cleared.
ResumedKeepsStatus(row) == Unowned(row)

\* Mutant: the status is written in the wrong vocabulary.
ResumedAsPending(row) ==
    Unowned([row EXCEPT !.status = IF @ = "delegada" THEN "pending" ELSE @])

Resumed(row) ==
    Unowned([row EXCEPT !.status = IF @ = "delegada" THEN "pendiente" ELSE @])

\* resume_expired: a step that finds no expired lease changes nothing.
ResumeExpired(now) ==
    /\ tasks' = [t \in TaskIds |->
            IF t \in ExpiredAt(now) THEN Resumed(tasks[t]) ELSE tasks[t]]
    /\ leases' = [t \in TaskIds |->
            IF t \in ExpiredAt(now) THEN NoLease ELSE leases[t]]
    /\ UNCHANGED checkpoints

ClearStore ==
    /\ tasks' = [t \in TaskIds |-> NoTask]
    /\ leases' = [t \in TaskIds |-> NoLease]
    /\ checkpoints' = [t \in TaskIds |-> {}]

Tick ==
    /\ clock < MaxTime
    /\ clock' = clock + 1

-----------------------------------------------------------------------------
(* Any process may call any operation of the store at any time: the        *)
(* orchestration_state tool exposes each of them to the model.             *)
StoreAdd     == \E t \in TaskIds, k \in Keys \cup {NoKey}, s \in Statuses :
                    AddTask(t, k, s)
StoreUpdate  == \E t \in TaskIds, s \in Statuses : SetStatus(t, s)
StoreCount   == \E t \in TaskIds :
                    /\ Exists(t)
                    /\ tasks[t].attempts < MaxAttempts
                    /\ SetAttempts(t, tasks[t].attempts + 1)
StoreCancel  == \E t \in TaskIds : CancelTask(t)
StoreClaim   == \E t \in TaskIds, o \in Owners, n \in Stamps, d \in LeaseTimes :
                    ClaimTask(t, o, n, d)
StoreRenew   == \E t \in TaskIds, o \in Owners, n \in Stamps, d \in LeaseTimes :
                    RenewLease(t, o, n, d)
StoreRelease == \E t \in TaskIds, o \in Owners, s \in Statuses :
                    ReleaseTask(t, o, s)
StoreCheckpoint == \E t \in TaskIds, l \in Labels : CheckpointTask(t, l)
StoreResume  == \E n \in Stamps : ResumeExpired(n)

StoreOperation ==
    \/ StoreAdd
    \/ StoreUpdate
    \/ StoreCount
    \/ StoreCancel
    \/ StoreClaim
    \/ StoreRenew
    \/ StoreRelease
    \/ StoreCheckpoint
    \/ StoreResume
    \/ ClearStore

StoreNext ==
    \/ StoreOperation /\ UNCHANGED clock
    \/ Tick /\ UNCHANGED storeVars

StoreSpec == StoreInit /\ [][StoreNext]_<<storeVars, clock>>

-----------------------------------------------------------------------------
\* Every table holds rows of its own shape: ids map to payloads, leases to an
\* owner and an expiry, checkpoints to labels.
StoreTypeOK ==
    /\ tasks \in [TaskIds -> Task \cup {NoTask}]
    /\ leases \in [TaskIds -> Lease \cup {NoLease}]
    /\ checkpoints \in [TaskIds -> SUBSET Labels]
    /\ clock \in 0..MaxTime

\* The lease is stored twice, as a row of task_leases and inside the payload
\* (lease_owner, lease_expires_at), by five operations that each write their
\* own part: a lease row belongs to a task whose payload says the same.
LeaseMirrored ==
    \A t \in TaskIds : Leased(t) =>
        /\ Exists(t)
        /\ tasks[t].lease_owner = leases[t].owner
        /\ tasks[t].lease_expires = leases[t].expires

\* A finished task holds no lease, whichever of update, release, cancel or
\* resume finished it: no daemon can still be renewing a closed mission.
TerminalUnleased ==
    \A t \in TaskIds :
        (Exists(t) /\ tasks[t].status \in Terminal) => ~Leased(t)

\* The three places that say who works on a task agree: the row of
\* task_leases, the payload's copy of it, and the payload's status.
LeaseConsistent == LeaseMirrored /\ TerminalUnleased

\* An idempotency key names at most one task, however adds interleave with
\* the import of a legacy snapshot and with clear.
KeyIdentifiesTask == KeysUnique(tasks)

\* No operation takes a lease that has not expired away from its owner and
\* gives it to another, although every caller judges expiry with a reading
\* of the clock that is older than its transaction.
LiveLeaseKeepsOwner ==
    [][\A t \in TaskIds : (Live(t) /\ Leased(t)')
            => leases'[t].owner = leases[t].owner]_<<storeVars, clock>>

\* The status of a task moves along VALID_TRANSITIONS in every operation, the
\* ones that do not consult the table (claim_task, resume_expired) included.
StatusMovesAllowed ==
    [][\A t \in TaskIds : (Exists(t) /\ Exists(t)')
            => MayMove(tasks[t].status, tasks'[t].status)]_<<storeVars, clock>>

\* A payload never comes to name an owner whose lease row is gone: such a
\* task would be delegada for ever, since resume_expired goes by the rows.
\* (A legacy snapshot may bring such a payload in; no operation makes one.)
Orphan(t) == Exists(t) /\ ~Leased(t) /\ tasks[t].lease_owner # NoOwner
NoNewOrphan ==
    [][\A t \in TaskIds : Orphan(t)' => Orphan(t)]_<<storeVars, clock>>
=============================================================================
