---------------------- MODULE OrchestrationStoreProofs ----------------------
(* Type correctness and the safety of leases, keys and status transitions   *)
(* of the task store, for every set of tasks, owners and keys, every lease  *)
(* duration and every age of the clock reading an operation works with.     *)
EXTENDS OrchestrationStore, TLAPS

svars == <<storeVars, clock>>

\* What the invariants need together: LeaseMirrored and TerminalUnleased
\* read each other's tables, and all of them need the shape of the rows.
StoreInv ==
    /\ StoreTypeOK
    /\ LeaseMirrored
    /\ TerminalUnleased
    /\ KeyIdentifiesTask

\* The targets of a transition are statuses.
LEMMA TargetsAreStatuses ==
    ASSUME NEW s \in Statuses
    PROVE  Targets(s) \subseteq Statuses
  BY DEF Targets, Statuses, Open, Terminal

\* A clock reading is a natural number, whatever its age.
LEMMA StampsAreNaturals ==
    ASSUME StoreTypeOK, NEW n \in Stamps
    PROVE  n \in Nat
  BY StoreConstants DEF Stamps, StoreTypeOK

\* Clearing the owner of a row, and resuming it, yield rows.
LEMMA UnownedIsTask ==
    ASSUME NEW row \in Task
    PROVE  Unowned(row) \in Task
  BY DEF Unowned, Task

LEMMA ResumedIsTask ==
    ASSUME NEW row \in Task
    PROVE  Resumed(row) \in Task
  BY DEF Resumed, Unowned, Task, Statuses, Open

-----------------------------------------------------------------------------
\* The store starts empty or with a legacy snapshot: either satisfies StoreInv.
LEMMA InitSatisfiesInv == StoreInit => StoreInv
  <1> SUFFICES ASSUME StoreInit PROVE StoreInv
    OBVIOUS
  <1>1. StoreTypeOK
    BY StoreConstants DEF StoreInit, StoreTypeOK
  <1>2. \A t \in TaskIds : ~Leased(t)
    BY DEF StoreInit, Leased
  <1>3. KeyIdentifiesTask
    BY StoreConstants DEF StoreInit, KeyIdentifiesTask, KeysUnique
  <1> QED
    BY <1>1, <1>2, <1>3 DEF StoreInv, LeaseMirrored, TerminalUnleased

-----------------------------------------------------------------------------
(* One lemma per operation: it keeps StoreInv (with the clock unchanged).   *)

\* add_task inserts a row without a lease and with an unused key.
LEMMA AddKeepsInv ==
    ASSUME StoreInv, NEW t \in TaskIds, NEW k \in Keys \cup {NoKey},
           NEW s \in Statuses, AddTask(t, k, s), UNCHANGED clock
    PROVE  StoreInv'
  <1> DEFINE row == [status |-> s, key |-> k, attempts |-> 0,
                     lease_owner |-> NoOwner, lease_expires |-> 0]
  <1>0. row \in Task
    BY DEF Task
  <1>1. tasks' = [tasks EXCEPT ![t] = row] /\ leases' = leases /\ checkpoints' = checkpoints
    BY DEF AddTask
  <1> HIDE DEF row
  <1>2. StoreTypeOK'
    BY <1>0, <1>1 DEF StoreInv, StoreTypeOK
  <1>3. ~Leased(t)
    BY DEF StoreInv, LeaseMirrored, AddTask
  <1>4. LeaseMirrored' /\ TerminalUnleased'
    BY <1>1, <1>3 DEF StoreInv, StoreTypeOK, LeaseMirrored, TerminalUnleased, Leased, Exists
  <1>5. KeyIdentifiesTask'
    BY <1>1 DEF StoreInv, StoreTypeOK, KeyIdentifiesTask, KeysUnique, AddTask, Exists, row
  <1> QED
    BY <1>2, <1>4, <1>5 DEF StoreInv

\* A status written by update_task takes the lease away when it is terminal.
LEMMA UpdateKeepsInv ==
    ASSUME StoreInv, NEW t \in TaskIds, NEW s \in Statuses, NEW n \in Nat,
           UpdateTask(t, s, n), UNCHANGED clock
    PROVE  StoreInv'
  <1> DEFINE row == [tasks[t] EXCEPT !.status = s, !.attempts = n]
  <1>0. tasks[t] \in Task
    BY DEF UpdateTask, Exists, StoreInv, StoreTypeOK
  <1>1. row \in Task /\ Unowned(row) \in Task
    BY <1>0 DEF Task, Unowned
  <1>2. CASE s \in Terminal
    <2>1. tasks' = [tasks EXCEPT ![t] = Unowned(row)] /\ leases' = DropLease(t)
          /\ checkpoints' = checkpoints
      BY <1>2 DEF UpdateTask
    <2>2. Unowned(row).key = tasks[t].key
      BY <1>0 DEF Unowned, Task
    <2> HIDE DEF row
    <2>3. StoreTypeOK'
      BY <1>1, <2>1 DEF StoreInv, StoreTypeOK, DropLease
    <2>4. LeaseMirrored' /\ TerminalUnleased'
      BY <1>1, <2>1 DEF StoreInv, StoreTypeOK, LeaseMirrored, TerminalUnleased, Leased, Exists, DropLease
    <2>5. KeyIdentifiesTask'
      BY <1>0, <2>1, <2>2, StoreConstants DEF StoreInv, StoreTypeOK, KeyIdentifiesTask, KeysUnique
    <2> QED
      BY <2>3, <2>4, <2>5 DEF StoreInv
  <1>3. CASE s \notin Terminal
    <2>1. tasks' = [tasks EXCEPT ![t] = row] /\ leases' = leases
          /\ checkpoints' = checkpoints
      BY <1>3 DEF UpdateTask
    <2>2. row.key = tasks[t].key /\ row.lease_owner = tasks[t].lease_owner
          /\ row.lease_expires = tasks[t].lease_expires /\ row.status = s
      BY <1>0 DEF Task
    <2> HIDE DEF row
    <2>3. StoreTypeOK'
      BY <1>1, <2>1 DEF StoreInv, StoreTypeOK
    <2>4. LeaseMirrored' /\ TerminalUnleased'
      BY <1>0, <1>1, <1>3, <2>1, <2>2, StoreConstants
      DEF StoreInv, StoreTypeOK, LeaseMirrored, TerminalUnleased, Leased, Exists
    <2>5. KeyIdentifiesTask'
      BY <1>0, <2>1, <2>2, StoreConstants DEF StoreInv, StoreTypeOK, KeyIdentifiesTask, KeysUnique
    <2> QED
      BY <2>3, <2>4, <2>5 DEF StoreInv
  <1> QED
    BY <1>2, <1>3

\* Counting an attempt disturbs neither the lease nor the key of the row.
LEMMA CountKeepsInv ==
    ASSUME StoreInv, NEW t \in TaskIds, NEW n \in Nat,
           SetAttempts(t, n), UNCHANGED clock
    PROVE  StoreInv'
  <1> DEFINE row == [tasks[t] EXCEPT !.attempts = n]
  <1>0. tasks[t] \in Task
    BY DEF SetAttempts, Exists, StoreInv, StoreTypeOK
  <1>1. row \in Task /\ row.key = tasks[t].key /\ row.status = tasks[t].status
        /\ row.lease_owner = tasks[t].lease_owner /\ row.lease_expires = tasks[t].lease_expires
    BY <1>0 DEF Task
  <1>2. tasks' = [tasks EXCEPT ![t] = row] /\ leases' = leases /\ checkpoints' = checkpoints
    BY DEF SetAttempts
  <1> HIDE DEF row
  <1>3. StoreTypeOK'
    BY <1>1, <1>2 DEF StoreInv, StoreTypeOK
  <1>4. LeaseMirrored' /\ TerminalUnleased'
    BY <1>0, <1>1, <1>2, StoreConstants
    DEF StoreInv, StoreTypeOK, LeaseMirrored, TerminalUnleased, Leased, Exists
  <1>5. KeyIdentifiesTask'
    BY <1>0, <1>1, <1>2, StoreConstants DEF StoreInv, StoreTypeOK, KeyIdentifiesTask, KeysUnique
  <1> QED
    BY <1>3, <1>4, <1>5 DEF StoreInv

\* claim_task writes the row and the payload alike, and only when not terminal.
LEMMA ClaimKeepsInv ==
    ASSUME StoreInv, NEW t \in TaskIds, NEW o \in Owners, NEW n \in Nat,
           NEW d \in Nat, ClaimTask(t, o, n, d), UNCHANGED clock
    PROVE  StoreInv'
  <1> DEFINE row == [tasks[t] EXCEPT !.status = "delegada", !.lease_owner = o,
                                     !.lease_expires = n + d]
             lease == [owner |-> o, expires |-> n + d]
  <1>0. tasks[t] \in Task
    BY DEF ClaimTask, Exists, StoreInv, StoreTypeOK
  <1>a. "delegada" \in Statuses /\ n + d \in Nat
    BY DEF Statuses, Open
  <1>b. \A e \in Nat : [tasks[t] EXCEPT !.status = "delegada", !.lease_owner = o,
                                         !.lease_expires = e] \in Task
    BY <1>0, <1>a DEF Task
  <1>1. row \in Task /\ row.key = tasks[t].key /\ row.status = "delegada"
        /\ row.lease_owner = o /\ row.lease_expires = n + d
    BY <1>0, <1>a, <1>b DEF Task
  <1>2. tasks' = [tasks EXCEPT ![t] = row] /\ leases' = [leases EXCEPT ![t] = lease]
        /\ checkpoints' = checkpoints
    BY DEF ClaimTask, TakeLease
  <1>3. lease \in Lease /\ lease.owner = o /\ lease.expires = n + d
    BY DEF Lease
  <1> HIDE DEF row, lease
  <1>4. StoreTypeOK'
    BY <1>1, <1>2, <1>3 DEF StoreInv, StoreTypeOK
  <1>5. LeaseMirrored'
    BY <1>1, <1>2, <1>3, StoreConstants DEF StoreInv, StoreTypeOK, LeaseMirrored, Leased, Exists
  <1>6. TerminalUnleased'
    BY <1>1, <1>2 DEF StoreInv, StoreTypeOK, TerminalUnleased, Leased, Exists, Terminal
  <1>7. KeyIdentifiesTask'
    BY <1>0, <1>1, <1>2, StoreConstants DEF StoreInv, StoreTypeOK, KeyIdentifiesTask, KeysUnique
  <1> QED
    BY <1>4, <1>5, <1>6, <1>7 DEF StoreInv

\* renew_lease moves the expiry of the row and of the payload together.
LEMMA RenewKeepsInv ==
    ASSUME StoreInv, NEW t \in TaskIds, NEW o \in Owners, NEW n \in Nat,
           NEW d \in Nat, RenewLease(t, o, n, d), UNCHANGED clock
    PROVE  StoreInv'
  <1> DEFINE row == [tasks[t] EXCEPT !.lease_expires = n + d]
             lease == [leases[t] EXCEPT !.expires = n + d]
  <1>0. tasks[t] \in Task /\ leases[t] \in Lease /\ Exists(t) /\ Leased(t)
    BY DEF RenewLease, CanRenew, Leased, Exists, StoreInv, StoreTypeOK, LeaseMirrored
  <1>1. row \in Task /\ row.key = tasks[t].key /\ row.status = tasks[t].status
        /\ row.lease_owner = tasks[t].lease_owner /\ row.lease_expires = n + d
    BY <1>0 DEF Task
  <1>2. tasks' = [tasks EXCEPT ![t] = row] /\ leases' = [leases EXCEPT ![t] = lease]
        /\ checkpoints' = checkpoints
    BY DEF RenewLease
  <1>3. lease \in Lease /\ lease.owner = leases[t].owner /\ lease.expires = n + d
    BY <1>0 DEF Lease
  <1> HIDE DEF row, lease
  <1>4. StoreTypeOK'
    BY <1>1, <1>2, <1>3 DEF StoreInv, StoreTypeOK
  <1>5. LeaseMirrored'
    BY <1>0, <1>1, <1>2, <1>3, StoreConstants DEF StoreInv, StoreTypeOK, LeaseMirrored, Leased, Exists
  <1>6. TerminalUnleased'
    BY <1>0, <1>1, <1>2 DEF StoreInv, StoreTypeOK, TerminalUnleased, Leased, Exists
  <1>7. KeyIdentifiesTask'
    BY <1>0, <1>1, <1>2, StoreConstants DEF StoreInv, StoreTypeOK, KeyIdentifiesTask, KeysUnique
  <1> QED
    BY <1>4, <1>5, <1>6, <1>7 DEF StoreInv

\* release_task leaves a row that names no owner and no lease.
LEMMA ReleaseKeepsInv ==
    ASSUME StoreInv, NEW t \in TaskIds, NEW o \in Owners, NEW s \in Statuses,
           ReleaseTask(t, o, s), UNCHANGED clock
    PROVE  StoreInv'
  <1> DEFINE row == Unowned([tasks[t] EXCEPT !.status = s])
  <1>0. tasks[t] \in Task
    BY DEF ReleaseTask, CanRelease, Exists, StoreInv, StoreTypeOK
  <1>1. row \in Task /\ row.key = tasks[t].key
    BY <1>0 DEF Task, Unowned
  <1>2. tasks' = [tasks EXCEPT ![t] = row] /\ leases' = DropLease(t)
        /\ checkpoints' = checkpoints
    BY DEF ReleaseTask
  <1> HIDE DEF row
  <1>3. StoreTypeOK'
    BY <1>1, <1>2 DEF StoreInv, StoreTypeOK, DropLease
  <1>4. LeaseMirrored' /\ TerminalUnleased'
    BY <1>1, <1>2 DEF StoreInv, StoreTypeOK, LeaseMirrored, TerminalUnleased, Leased, Exists, DropLease
  <1>5. KeyIdentifiesTask'
    BY <1>0, <1>1, <1>2, StoreConstants DEF StoreInv, StoreTypeOK, KeyIdentifiesTask, KeysUnique
  <1> QED
    BY <1>3, <1>4, <1>5 DEF StoreInv

\* resume_expired drops the rows of the expired leases with their payloads.
LEMMA ResumeKeepsInv ==
    ASSUME StoreInv, NEW n \in Nat, ResumeExpired(n), UNCHANGED clock
    PROVE  StoreInv'
  <1>0. \A t \in ExpiredAt(n) : tasks[t] \in Task /\ Exists(t)
    BY DEF ExpiredAt, StoreInv, StoreTypeOK, LeaseMirrored, Exists
  <1>1. \A t \in ExpiredAt(n) : Resumed(tasks[t]) \in Task /\ Resumed(tasks[t]).key = tasks[t].key
    BY <1>0, ResumedIsTask DEF Resumed, Unowned, Task
  <1>2. StoreTypeOK'
    BY <1>1 DEF ResumeExpired, StoreInv, StoreTypeOK
  <1>3. LeaseMirrored' /\ TerminalUnleased'
    BY <1>1 DEF ResumeExpired, StoreInv, StoreTypeOK, LeaseMirrored, TerminalUnleased, Leased, Exists
  <1>4. KeyIdentifiesTask'
    <2> SUFFICES ASSUME NEW a \in TaskIds, NEW b \in TaskIds, a # b,
                        tasks'[a] # NoTask, tasks'[b] # NoTask, tasks'[a].key # NoKey
                 PROVE  tasks'[a].key # tasks'[b].key
      BY DEF KeyIdentifiesTask, KeysUnique
    <2>1. \A t \in {a, b} : tasks[t] # NoTask /\ tasks'[t].key = tasks[t].key
      BY <1>0, <1>1 DEF ResumeExpired, Exists
    <2> QED
      BY <2>1 DEF StoreInv, KeyIdentifiesTask, KeysUnique
  <1> QED
    BY <1>2, <1>3, <1>4 DEF StoreInv

-----------------------------------------------------------------------------
\* Every step of the store keeps StoreInv.
LEMMA StepKeepsInv == StoreInv /\ [StoreNext]_svars => StoreInv'
  <1> SUFFICES ASSUME StoreInv, [StoreNext]_svars PROVE StoreInv'
    OBVIOUS
  <1>0. StoreTypeOK
    BY DEF StoreInv
  <1>1. ASSUME StoreAdd, UNCHANGED clock PROVE StoreInv'
    BY <1>1, AddKeepsInv DEF StoreAdd
  <1>2. ASSUME StoreUpdate, UNCHANGED clock PROVE StoreInv'
    <2>1. PICK t \in TaskIds, s \in Statuses : SetStatus(t, s)
      BY <1>2 DEF StoreUpdate
    <2>2. tasks[t].attempts \in Nat
      BY <1>0, <2>1 DEF SetStatus, Exists, StoreTypeOK, Task
    <2> QED
      BY <1>2, <2>1, <2>2, UpdateKeepsInv DEF SetStatus
  <1>3. ASSUME StoreCount, UNCHANGED clock PROVE StoreInv'
    <2>1. PICK t \in TaskIds : Exists(t) /\ SetAttempts(t, tasks[t].attempts + 1)
      BY <1>3 DEF StoreCount
    <2>2. tasks[t].attempts + 1 \in Nat
      BY <1>0, <2>1 DEF Exists, StoreTypeOK, Task
    <2> QED
      BY <1>3, <2>1, <2>2, CountKeepsInv
  <1>4. ASSUME StoreCancel, UNCHANGED clock PROVE StoreInv'
    <2>1. PICK t \in TaskIds : SetStatus(t, "cancelada")
      BY <1>4 DEF StoreCancel, CancelTask
    <2>2. tasks[t].attempts \in Nat /\ "cancelada" \in Statuses
      BY <1>0, <2>1 DEF SetStatus, Exists, StoreTypeOK, Task, Statuses, Terminal
    <2> QED
      BY <1>4, <2>1, <2>2, UpdateKeepsInv DEF SetStatus
  <1>5. ASSUME StoreClaim, UNCHANGED clock PROVE StoreInv'
    <2>1. PICK t \in TaskIds, o \in Owners, n \in Stamps, d \in LeaseTimes : ClaimTask(t, o, n, d)
      BY <1>5 DEF StoreClaim
    <2>2. n \in Nat /\ d \in Nat
      BY <1>0, StampsAreNaturals, StoreConstants
    <2> QED
      BY <1>5, <2>1, <2>2, ClaimKeepsInv
  <1>6. ASSUME StoreRenew, UNCHANGED clock PROVE StoreInv'
    <2>1. PICK t \in TaskIds, o \in Owners, n \in Stamps, d \in LeaseTimes : RenewLease(t, o, n, d)
      BY <1>6 DEF StoreRenew
    <2>2. n \in Nat /\ d \in Nat
      BY <1>0, StampsAreNaturals, StoreConstants
    <2> QED
      BY <1>6, <2>1, <2>2, RenewKeepsInv
  <1>7. ASSUME StoreRelease, UNCHANGED clock PROVE StoreInv'
    BY <1>7, ReleaseKeepsInv DEF StoreRelease
  <1>8. ASSUME StoreCheckpoint, UNCHANGED clock PROVE StoreInv'
    BY <1>8 DEF StoreCheckpoint, CheckpointTask, StoreInv, StoreTypeOK, LeaseMirrored,
                TerminalUnleased, KeyIdentifiesTask, KeysUnique, Leased, Exists
  <1>9. ASSUME StoreResume, UNCHANGED clock PROVE StoreInv'
    BY <1>0, <1>9, StampsAreNaturals, ResumeKeepsInv DEF StoreResume
  <1>10. ASSUME ClearStore, UNCHANGED clock PROVE StoreInv'
    BY <1>10 DEF ClearStore, StoreInv, StoreTypeOK, LeaseMirrored, TerminalUnleased,
                 KeyIdentifiesTask, KeysUnique, Leased, Exists
  <1>11. ASSUME Tick, UNCHANGED storeVars PROVE StoreInv'
    BY <1>11, StoreConstants DEF Tick, storeVars, StoreInv, StoreTypeOK, LeaseMirrored,
                 TerminalUnleased, KeyIdentifiesTask, KeysUnique, Leased, Exists
  <1>12. ASSUME UNCHANGED svars PROVE StoreInv'
    BY <1>12 DEF svars, storeVars, StoreInv, StoreTypeOK, LeaseMirrored,
                 TerminalUnleased, KeyIdentifiesTask, KeysUnique, Leased, Exists
  <1> QED
    BY <1>1, <1>2, <1>3, <1>4, <1>5, <1>6, <1>7, <1>8, <1>9, <1>10, <1>11, <1>12
    DEF StoreNext, StoreOperation

-----------------------------------------------------------------------------
\* The inductive invariant of the store.
THEOREM StoreInvariant == StoreSpec => []StoreInv
  BY InitSatisfiesInv, StepKeepsInv, PTL DEF StoreSpec, svars

\* Rows, leases and checkpoints keep their shape.
THEOREM StoreTypeCorrect == StoreSpec => []StoreTypeOK
  BY StoreInvariant, PTL DEF StoreInv

\* The two copies of a lease agree, and no finished task holds one.
THEOREM StoreLeaseSafety == StoreSpec => []LeaseConsistent
  BY StoreInvariant, PTL DEF StoreInv, LeaseConsistent

\* An idempotency key never names two tasks.
THEOREM StoreKeySafety == StoreSpec => []KeyIdentifiesTask
  BY StoreInvariant, PTL DEF StoreInv

-----------------------------------------------------------------------------
(* The action properties.  Each names what one operation does to one task.  *)

\* A lease that has not expired by the clock keeps its owner: a claim reads a
\* clock that is not ahead, so it sees the lease as unexpired and is refused.
LEMMA StepKeepsLiveOwner ==
    ASSUME StoreInv, [StoreNext]_svars, NEW t \in TaskIds, Live(t), Leased(t)'
    PROVE  leases'[t].owner = leases[t].owner
  <1>0. /\ StoreTypeOK /\ Leased(t) /\ leases[t].expires > clock
        /\ leases[t] \in Lease /\ leases'[t] # NoLease
    BY DEF Live, Leased, StoreInv, StoreTypeOK
  <1>1. CASE StoreAdd \/ StoreCount \/ StoreCheckpoint
    BY <1>1 DEF StoreAdd, AddTask, StoreCount, SetAttempts, StoreCheckpoint, CheckpointTask
  <1>2. CASE StoreUpdate \/ StoreCancel
    BY <1>0, <1>2 DEF StoreUpdate, StoreCancel, CancelTask, SetStatus, UpdateTask, DropLease, StoreTypeOK
  <1>3. CASE StoreClaim
    <2>1. PICK u \in TaskIds, o \in Owners, n \in Stamps, d \in LeaseTimes : ClaimTask(u, o, n, d)
      BY <1>3 DEF StoreClaim
    <2>2. n \in Nat /\ clock \in Nat /\ leases[t].expires \in Nat /\ n <= clock
      BY <1>0, StoreConstants DEF Stamps, StoreTypeOK, Lease
    <2>3. CASE u = t
      <3>1. leases[t].owner = o
        BY <1>0, <2>1, <2>2, <2>3 DEF ClaimTask, HeldByOther
      <3>2. leases'[t].owner = o
        BY <1>0, <2>1, <2>3 DEF ClaimTask, TakeLease, StoreTypeOK
      <3> QED
        BY <3>1, <3>2
    <2>4. CASE u # t
      BY <1>0, <2>1, <2>4 DEF ClaimTask, TakeLease, StoreTypeOK
    <2> QED
      BY <2>3, <2>4
  <1>4. CASE StoreRenew
    BY <1>0, <1>4 DEF StoreRenew, RenewLease, StoreTypeOK, Lease
  <1>5. CASE StoreRelease
    BY <1>0, <1>5 DEF StoreRelease, ReleaseTask, DropLease, StoreTypeOK
  <1>6. CASE StoreResume
    BY <1>0, <1>6 DEF StoreResume, ResumeExpired
  <1>7. CASE ClearStore
    BY <1>0, <1>7 DEF ClearStore
  <1>8. CASE UNCHANGED storeVars
    BY <1>8 DEF storeVars
  <1> QED
    BY <1>1, <1>2, <1>3, <1>4, <1>5, <1>6, <1>7, <1>8
    DEF StoreNext, StoreOperation, svars

\* A live lease is never handed to another owner.
THEOREM StoreLeaseStability == StoreSpec => LiveLeaseKeepsOwner
  <1>1. StoreInv /\ [StoreNext]_svars =>
            [\A t \in TaskIds : (Live(t) /\ Leased(t)')
                => leases'[t].owner = leases[t].owner]_svars
    BY StepKeepsLiveOwner
  <1> QED
    BY <1>1, StoreInvariant, PTL DEF StoreSpec, LiveLeaseKeepsOwner, svars

\* Each operation moves a status along VALID_TRANSITIONS: claim_task because
\* every open status may become delegada, resume_expired because it only
\* turns delegada into pendiente.
LEMMA StepMovesAlongTargets ==
    ASSUME StoreInv, [StoreNext]_svars, NEW t \in TaskIds, Exists(t), Exists(t)'
    PROVE  MayMove(tasks[t].status, tasks'[t].status)
  <1>0. StoreTypeOK /\ tasks[t] \in Task /\ tasks'[t] # NoTask
    BY DEF Exists, StoreInv, StoreTypeOK
  <1>1. CASE StoreAdd
    BY <1>0, <1>1 DEF StoreAdd, AddTask, Exists, MayMove, StoreTypeOK
  <1>2. ASSUME NEW u \in TaskIds, NEW s \in Statuses, SetStatus(u, s)
        PROVE  MayMove(tasks[t].status, tasks'[t].status)
    <2>1. CASE u = t
      <3>1. tasks'[t].status = s
        BY <1>0, <1>2, <2>1 DEF SetStatus, UpdateTask, Unowned, StoreTypeOK, Task
      <3> QED
        BY <1>2, <2>1, <3>1 DEF SetStatus, UpdateTask
    <2>2. CASE u # t
      BY <1>0, <1>2, <2>2 DEF SetStatus, UpdateTask, StoreTypeOK, MayMove
    <2> QED
      BY <2>1, <2>2
  <1>3. CASE StoreUpdate
    BY <1>2, <1>3 DEF StoreUpdate
  <1>4. CASE StoreCancel
    <2>1. "cancelada" \in Statuses
      BY DEF Statuses, Terminal
    <2> QED
      BY <1>2, <1>4, <2>1 DEF StoreCancel, CancelTask
  <1>5. CASE StoreCount
    BY <1>0, <1>5 DEF StoreCount, SetAttempts, MayMove, StoreTypeOK, Task
  <1>6. CASE StoreClaim
    <2>1. PICK u \in TaskIds, o \in Owners, n \in Stamps, d \in LeaseTimes : ClaimTask(u, o, n, d)
      BY <1>6 DEF StoreClaim
    <2>2. CASE u = t
      <3>1. tasks'[t].status = "delegada" /\ tasks[t].status \in Open
        BY <1>0, <2>1, <2>2 DEF ClaimTask, TakeLease, StoreTypeOK, Task, Statuses
      <3>2. \A s \in Open : MayMove(s, "delegada")
        BY DEF MayMove, Targets, Open, Statuses
      <3> QED
        BY <3>1, <3>2
    <2>3. CASE u # t
      BY <1>0, <2>1, <2>3 DEF ClaimTask, TakeLease, StoreTypeOK, MayMove
    <2> QED
      BY <2>2, <2>3
  <1>7. CASE StoreRenew
    BY <1>0, <1>7 DEF StoreRenew, RenewLease, MayMove, StoreTypeOK, Task
  <1>8. CASE StoreRelease
    <2>1. PICK u \in TaskIds, o \in Owners, s \in Statuses : ReleaseTask(u, o, s)
      BY <1>8 DEF StoreRelease
    <2>2. CASE u = t
      <3>1. tasks'[t].status = s
        BY <1>0, <2>1, <2>2 DEF ReleaseTask, Unowned, StoreTypeOK, Task
      <3> QED
        BY <2>1, <2>2, <3>1 DEF ReleaseTask, CanRelease
    <2>3. CASE u # t
      BY <1>0, <2>1, <2>3 DEF ReleaseTask, StoreTypeOK, MayMove
    <2> QED
      BY <2>2, <2>3
  <1>9. CASE StoreCheckpoint \/ UNCHANGED storeVars
    BY <1>9 DEF StoreCheckpoint, CheckpointTask, storeVars, MayMove
  <1>10. CASE StoreResume
    <2>1. PICK n \in Stamps : ResumeExpired(n)
      BY <1>10 DEF StoreResume
    <2>2. CASE t \in ExpiredAt(n)
      <3>1. tasks'[t].status = IF tasks[t].status = "delegada" THEN "pendiente" ELSE tasks[t].status
        BY <1>0, <2>1, <2>2 DEF ResumeExpired, Resumed, Unowned, Task
      <3>2. "pendiente" \in Targets("delegada")
        BY DEF Targets, Statuses, Open
      <3> QED
        BY <3>1, <3>2 DEF MayMove
    <2>3. CASE t \notin ExpiredAt(n)
      BY <2>1, <2>3 DEF ResumeExpired, MayMove
    <2> QED
      BY <2>2, <2>3
  <1>11. CASE ClearStore
    BY <1>0, <1>11 DEF ClearStore
  <1> QED
    BY <1>1, <1>3, <1>4, <1>5, <1>6, <1>7, <1>8, <1>9, <1>10, <1>11
    DEF StoreNext, StoreOperation, svars

\* No operation moves a task outside the table of transitions; in particular
\* a task that is completada stays so.
THEOREM StoreStatusSafety == StoreSpec => StatusMovesAllowed
  <1>1. StoreInv /\ [StoreNext]_svars =>
            [\A t \in TaskIds : (Exists(t) /\ Exists(t)')
                => MayMove(tasks[t].status, tasks'[t].status)]_svars
    BY StepMovesAlongTargets
  <1> QED
    BY <1>1, StoreInvariant, PTL DEF StoreSpec, StatusMovesAllowed, svars

\* No step makes an orphan: what gives a payload an owner writes the lease row
\* too, and what takes the row away clears the owner.
LEMMA StepMakesNoOrphan ==
    ASSUME StoreInv, [StoreNext]_svars, NEW t \in TaskIds, Orphan(t)'
    PROVE  Orphan(t)
  <1>0. StoreTypeOK /\ LeaseMirrored
    BY DEF StoreInv
  <1>a. tasks'[t] # NoTask /\ leases'[t] = NoLease /\ tasks'[t].lease_owner # NoOwner
    BY DEF Orphan, Exists, Leased
  <1>1. CASE StoreAdd
    <2>1. PICK u \in TaskIds, k \in Keys \cup {NoKey}, s \in Statuses : AddTask(u, k, s)
      BY <1>1 DEF StoreAdd
    <2>2. leases' = leases /\ u # t
      BY <1>0, <1>a, <2>1 DEF AddTask, StoreTypeOK
    <2> QED
      BY <1>0, <1>a, <2>1, <2>2 DEF AddTask, StoreTypeOK, Orphan, Exists, Leased
  <1>2. ASSUME NEW u \in TaskIds, NEW s \in Statuses, SetStatus(u, s)
        PROVE  Orphan(t)
    <2>1. CASE u = t
      <3>1. tasks[t] \in Task
        BY <1>0, <1>2, <2>1 DEF SetStatus, Exists, StoreTypeOK
      <3>2. s \notin Terminal
        BY <1>0, <1>2, <1>a, <2>1, <3>1 DEF SetStatus, UpdateTask, Unowned, StoreTypeOK, Task
      <3>3. /\ leases' = leases
            /\ tasks' = [tasks EXCEPT ![t] =
                  [tasks[t] EXCEPT !.status = s, !.attempts = tasks[t].attempts]]
        BY <1>2, <2>1, <3>2 DEF SetStatus, UpdateTask
      <3>4. tasks'[t].lease_owner = tasks[t].lease_owner
        BY <1>0, <3>1, <3>3 DEF StoreTypeOK, Task
      <3> QED
        BY <1>2, <1>a, <2>1, <3>3, <3>4 DEF SetStatus, Orphan, Exists, Leased
    <2>2. CASE u # t
      BY <1>0, <1>2, <1>a, <2>2
      DEF SetStatus, UpdateTask, DropLease, StoreTypeOK, Orphan, Exists, Leased
    <2> QED
      BY <2>1, <2>2
  <1>3. CASE StoreUpdate
    BY <1>2, <1>3 DEF StoreUpdate
  <1>4. CASE StoreCancel
    <2>1. "cancelada" \in Statuses
      BY DEF Statuses, Terminal
    <2> QED
      BY <1>2, <1>4, <2>1 DEF StoreCancel, CancelTask
  <1>5. CASE StoreCount
    BY <1>0, <1>5, <1>a DEF StoreCount, SetAttempts, StoreTypeOK, Task, Orphan, Exists, Leased
  <1>6. CASE StoreClaim
    <2>1. PICK u \in TaskIds, o \in Owners, n \in Stamps, d \in LeaseTimes : ClaimTask(u, o, n, d)
      BY <1>6 DEF StoreClaim
    <2>2. u # t
      <3>1. [owner |-> o, expires |-> n + d] \in Lease
        BY <1>0, StampsAreNaturals, StoreConstants DEF Lease
      <3> QED
        BY <1>0, <1>a, <2>1, <3>1, StoreConstants DEF ClaimTask, TakeLease, StoreTypeOK
    <2> QED
      BY <1>0, <1>a, <2>1, <2>2 DEF ClaimTask, TakeLease, StoreTypeOK, Orphan, Exists, Leased
  <1>7. CASE StoreRenew
    <2>1. PICK u \in TaskIds, o \in Owners, n \in Stamps, d \in LeaseTimes : RenewLease(u, o, n, d)
      BY <1>7 DEF StoreRenew
    <2>2. leases[u] \in Lease /\ n + d \in Nat
      BY <1>0, <2>1, StampsAreNaturals, StoreConstants DEF RenewLease, CanRenew, Leased, StoreTypeOK
    <2>3. u # t
      <3>1. [leases[u] EXCEPT !.expires = n + d] \in Lease
        BY <2>2 DEF Lease
      <3> QED
        BY <1>0, <1>a, <2>1, <3>1, StoreConstants DEF RenewLease, StoreTypeOK
    <2> QED
      BY <1>0, <1>a, <2>1, <2>3 DEF RenewLease, StoreTypeOK, Orphan, Exists, Leased
  <1>8. CASE StoreRelease
    <2>1. PICK u \in TaskIds, o \in Owners, s \in Statuses : ReleaseTask(u, o, s)
      BY <1>8 DEF StoreRelease
    <2>2. u # t
      BY <1>0, <1>a, <2>1 DEF ReleaseTask, CanRelease, Exists, Unowned, StoreTypeOK, Task
    <2> QED
      BY <1>0, <1>a, <2>1, <2>2 DEF ReleaseTask, DropLease, StoreTypeOK, Orphan, Exists, Leased
  <1>9. CASE StoreCheckpoint \/ UNCHANGED storeVars
    BY <1>9, <1>a DEF StoreCheckpoint, CheckpointTask, storeVars, Orphan, Exists, Leased
  <1>10. CASE StoreResume
    <2>1. PICK n \in Stamps : ResumeExpired(n)
      BY <1>10 DEF StoreResume
    <2>2. t \notin ExpiredAt(n)
      <3> SUFFICES ASSUME t \in ExpiredAt(n)
                   PROVE  FALSE
        OBVIOUS
      <3>1. tasks[t] \in Task
        BY <1>0 DEF ExpiredAt, StoreTypeOK, LeaseMirrored, Exists
      <3>2. tasks'[t] = Resumed(tasks[t])
        BY <2>1 DEF ResumeExpired
      <3>3. Resumed(tasks[t]).lease_owner = NoOwner
        BY <3>1 DEF Resumed, Unowned, Task
      <3> QED
        BY <1>a, <3>2, <3>3
    <2> QED
      BY <1>a, <2>1, <2>2 DEF ResumeExpired, Orphan, Exists, Leased
  <1>11. CASE ClearStore
    BY <1>11, <1>a DEF ClearStore
  <1> QED
    BY <1>1, <1>3, <1>4, <1>5, <1>6, <1>7, <1>8, <1>9, <1>10, <1>11
    DEF StoreNext, StoreOperation, svars

\* A payload never comes to name an owner whose lease row is gone, so that no
\* task stays delegada for ever because resume_expired, which goes by the rows,
\* does not see it.
THEOREM StoreNoNewOrphan == StoreSpec => NoNewOrphan
  <1>1. StoreInv /\ [StoreNext]_svars =>
            [\A t \in TaskIds : Orphan(t)' => Orphan(t)]_svars
    BY StepMakesNoOrphan
  <1> QED
    BY <1>1, StoreInvariant, PTL DEF StoreSpec, NoNewOrphan, svars
=============================================================================
