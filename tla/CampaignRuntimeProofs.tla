------------------------ MODULE CampaignRuntimeProofs ------------------------
(***************************************************************************)
(* Daemons that share the task store, for every number of daemons, missions *)
(* and crashes, every lease duration and every retry and repair limit: the  *)
(* lease of a prompt daemon, one executor for each mission, the reason of a *)
(* blocked mission, and the retries and repairs that stop.                  *)
(***************************************************************************)
EXTENDS CampaignRuntime, OrchestrationStoreProofs, FiniteSetTheorems

Places == {"off", "scan", "chosen", "claimed", "counted", "running", "closing", "ended",
           "releasing", "settled"}

DaemonState ==
    [pc : Places, task : Missions \cup {NoTask}, read : Nat, done : SUBSET Missions,
     beat : {"off", "on", "refused"}, inflight : BOOLEAN, unknown : BOOLEAN, spent : BOOLEAN,
     lost : BOOLEAN, goal : {"none", "pendiente", "bloqueada"},
     chain : {"none", "followup", "repair"}]

LineageRow == [parent : Missions \cup {NoTask}, repair_depth : Nat,
               kind : {"root", "followup", "repair"}]

LateCall == [task : Missions \cup {NoTask}, next : {"none", "complete", "followup", "repair"}]

\* o has a lease on t that has not expired.
Owns(o, t) == Live(t) /\ leases[t].owner = o

\* A session has not begun: nothing has been learnt of it.
Fresh(r) ==
    r.beat = "off" /\ ~r.inflight /\ ~r.unknown /\ ~r.spent /\ ~r.lost /\ r.chain = "none"

\* What holds of the state r of daemon w: it works on a mission of the store
\* that is not too deep, follow-ups come from a mission that is completed, a
\* lease it takes for lost is not there any more, and the reason of a mission
\* it will release as blocked has been recorded.
DaemonOK(w, r) ==
    /\ r.pc \notin {"off", "scan"} => r.task \in Missions /\ Exists(r.task)
    /\ r.pc \in {"off", "scan", "chosen", "claimed", "counted"} => Fresh(r)
    /\ r.pc \notin {"off", "scan"} => lineage[r.task].repair_depth <= RepairLimit
    /\ r.chain = "followup" => Status(r.task) = "completada"
    /\ r.lost => r.beat = "off"
    /\ r.lost \/ r.beat = "refused" => ~Owns(w, r.task)
    /\ r.pc = "releasing" =>
           /\ r.goal \in {"pendiente", "bloqueada"}
           /\ r.goal = "bloqueada" => checkpoints[r.task] \cap ReasonLabels # {}

DaemonsOK == \A w \in Daemons : DaemonOK(w, run[w])

\* A call that outlived its session is about a mission of the store, and about
\* a completed one when it registers follow-ups.
LateOK ==
    /\ late.next # "none" => late.task \in Missions /\ Exists(late.task)
    /\ late.next = "followup" => Status(late.task) = "completada"

\* A root has no depth, a repair is not too deep, and a follow-up, whatever its
\* depth, has a completed parent; two repairs of a mission are one.
PlaceOK(l) ==
    /\ l.kind = "root" => l.repair_depth = 0
    /\ l.kind = "repair" => l.repair_depth <= RepairLimit
    /\ l.kind = "followup" => /\ l.parent \in Missions /\ Exists(l.parent)
                              /\ Status(l.parent) = "completada"

LineageOK ==
    \A t \in Missions : PlaceOK(lineage[t]) /\ \A c, d \in Repairs(t) : c = d

\* No snapshot brings in a mission that somebody else blocked without a reason.
NoBlockedImports ==
    \A s \in Snapshots : \A t \in TaskIds : s[t] # NoTask => s[t].status # "bloqueada"

CampaignInv ==
    /\ StoreInv
    /\ RuntimeTypeOK
    /\ DaemonsOK
    /\ LateOK
    /\ LineageOK
    /\ NoBlockedImports => BlockedHasReason

-----------------------------------------------------------------------------
(* What the calls of daemon w do to the store, as the others see it.         *)

\* No mission goes, a completed one stays so, no checkpoint is lost, and nobody
\* else gets a lease.
Harmless(w) ==
    /\ StoreInv'
    /\ \A t \in Missions : Exists(t) /\ Status(t) = "completada" => Status(t)' = "completada"
    /\ \A t \in Missions : (Exists(t) => Exists(t)') /\ checkpoints[t] \subseteq checkpoints'[t]
    /\ \A t \in Missions, o \in Daemons : o # w /\ Owns(o, t)' => Owns(o, t)

\* Nor does a mission come, or get blocked.
Quiet(w) ==
    /\ Harmless(w)
    /\ \A t \in Missions : Exists(t)' => Exists(t)
    /\ \A t \in Missions : Exists(t) /\ Status(t)' = "bloqueada" => Status(t) = "bloqueada"

USE RuntimeConstants, StoreConstants DEF Missions, Daemons, ghosts

\* The statuses the daemons write, that none of the open ones is terminal, and
\* that a mission stays completed.
LEMMA StatusesAreDistinct ==
    /\ "completada" \in Statuses /\ "fallida" \in Statuses /\ "cancelada" \in Statuses
    /\ "pendiente" \in Statuses /\ "bloqueada" \in Statuses /\ "delegada" \in Statuses
    /\ "pendiente" \notin Terminal /\ "bloqueada" \notin Terminal /\ "delegada" \notin Terminal
    /\ "completada" \in Terminal /\ "fallida" \in Terminal
    /\ \A s : MayMove("completada", s) => s = "completada"
BY DEF Statuses, Open, Terminal, MayMove, Targets

\* A step that leaves the store alone is quiet, whoever takes it.
LEMMA NothingIsQuiet ==
    ASSUME StoreInv, NEW w, UNCHANGED <<storeVars, clock>>
    PROVE  Quiet(w)
BY DEF Quiet, Harmless, storeVars, StoreInv, StoreTypeOK, LeaseMirrored, TerminalUnleased, KeyIdentifiesTask,
       KeysUnique, Exists, Leased, Live, Owns, Status

\* Time only makes leases expire.
LEMMA TimeIsQuiet ==
    ASSUME StoreInv, NEW w, Tick, UNCHANGED storeVars
    PROVE  Quiet(w)
<1>1. clock' = clock + 1 /\ clock' \in 0..MaxTime /\ clock \in Nat
  BY DEF Tick, StoreInv, StoreTypeOK
<1>2. StoreInv'
  BY <1>1 DEF storeVars, StoreInv, StoreTypeOK, LeaseMirrored, TerminalUnleased, KeyIdentifiesTask,
              KeysUnique, Exists, Leased
<1>3. \A t \in Missions, o \in Daemons : Owns(o, t)' => Owns(o, t)
  BY <1>1 DEF storeVars, StoreInv, StoreTypeOK, Lease, Owns, Live, Leased
<1>4. QED BY <1>2, <1>3 DEF Quiet, Harmless, storeVars, Exists, Status

\* A claim gives a lease to the claimant and to nobody else.
LEMMA ClaimIsQuiet ==
    ASSUME StoreInv, NEW t \in Missions, NEW w \in Daemons, NEW now \in Stamps,
           ClaimTask(t, w, now, LeaseSeconds), UNCHANGED clock
    PROVE  Quiet(w)
<1>1. StoreInv'
  BY ClaimKeepsInv, StampsAreNaturals DEF StoreInv
<1>2. tasks[t] \in Task /\ Exists(t)
  BY DEF ClaimTask, Exists, StoreInv, StoreTypeOK
<1>3. /\ \A u \in Missions \ {t} : tasks'[u] = tasks[u] /\ leases'[u] = leases[u]
      /\ leases'[t].owner = w /\ leases'[t] # NoLease
      /\ tasks'[t].status = "delegada" /\ checkpoints' = checkpoints
  BY <1>1, <1>2 DEF ClaimTask, TakeLease, StoreInv, StoreTypeOK, Task, Lease
<1>4. Exists(t)'
  BY <1>1, <1>3 DEF StoreInv, LeaseMirrored, Leased
<1>5. Status(t) # "completada"
  BY StatusesAreDistinct DEF ClaimTask, Status
<1>6. QED BY <1>1, <1>2, <1>3, <1>4, <1>5 DEF Quiet, Harmless, Exists, Status, Owns, Live, Leased

\* A renewal moves the expiry of the owner's own lease.
LEMMA RenewIsQuiet ==
    ASSUME StoreInv, NEW t \in Missions, NEW w \in Daemons, NEW now \in Stamps,
           RenewLease(t, w, now, LeaseSeconds), UNCHANGED clock
    PROVE  Quiet(w)
<1>1. StoreInv'
  BY RenewKeepsInv, StampsAreNaturals DEF StoreInv
<1>2. tasks[t] \in Task /\ leases[t] \in Lease /\ Leased(t) /\ Exists(t) /\ leases[t].owner = w
  BY DEF RenewLease, CanRenew, Leased, Exists, StoreInv, StoreTypeOK, LeaseMirrored
<1>3. /\ \A u \in Missions \ {t} : tasks'[u] = tasks[u] /\ leases'[u] = leases[u]
      /\ leases'[t].owner = w /\ leases'[t] # NoLease
      /\ tasks'[t].status = tasks[t].status /\ checkpoints' = checkpoints
  <2>1. tasks' = [tasks EXCEPT ![t].lease_expires = now + LeaseSeconds]
        /\ leases' = [leases EXCEPT ![t].expires = now + LeaseSeconds]
        /\ checkpoints' = checkpoints
    BY DEF RenewLease
  <2>2. now + LeaseSeconds \in Nat
    BY StampsAreNaturals DEF StoreInv
  <2>3. tasks'[t].status = tasks[t].status
    BY <1>2, <2>1 DEF StoreInv, StoreTypeOK, Task
  <2>4. leases'[t] \in Lease /\ leases'[t].owner = w
    BY <1>2, <2>1, <2>2 DEF StoreInv, StoreTypeOK, Lease
  <2>5. QED BY <2>1, <2>3, <2>4 DEF StoreInv, StoreTypeOK
<1>4. Exists(t)'
  BY <1>1, <1>3 DEF StoreInv, LeaseMirrored, Leased
<1>5. QED BY <1>1, <1>2, <1>3, <1>4 DEF Quiet, Harmless, Exists, Status, Owns, Live, Leased

\* Counting an attempt touches one field of one row.
LEMMA CountIsQuiet ==
    ASSUME StoreInv, NEW t \in Missions, NEW w, NEW n \in Nat, SetAttempts(t, n), UNCHANGED clock
    PROVE  /\ Quiet(w)
           /\ leases' = leases /\ checkpoints' = checkpoints
           /\ tasks'[t].attempts = n
           /\ \A u \in Missions : Exists(u) => tasks'[u].status = tasks[u].status
           /\ \A u \in Missions \ {t} : tasks'[u] = tasks[u]
<1>1. StoreInv'
  BY CountKeepsInv
<1>2. tasks[t] \in Task /\ Exists(t)
  BY DEF SetAttempts, Exists, StoreInv, StoreTypeOK
<1>3. /\ tasks' = [tasks EXCEPT ![t] = [tasks[t] EXCEPT !.attempts = n]]
      /\ leases' = leases /\ checkpoints' = checkpoints
  BY DEF SetAttempts
<1>4. /\ tasks'[t] \in Task /\ tasks'[t].status = tasks[t].status /\ tasks'[t].attempts = n
      /\ \A u \in Missions \ {t} : tasks'[u] = tasks[u]
  BY <1>2, <1>3 DEF StoreInv, StoreTypeOK, Task
<1>5. QED BY <1>1, <1>2, <1>3, <1>4 DEF Quiet, Harmless, Exists, Status, Owns, Live, Leased

\* A checkpoint adds its label and changes no row.
LEMMA CheckpointIsQuiet ==
    ASSUME StoreInv, NEW t \in Missions, NEW w, NEW label \in RuntimeLabels,
           CheckpointTask(t, label), UNCHANGED clock
    PROVE  /\ Quiet(w)
           /\ tasks' = tasks /\ leases' = leases
           /\ label \in checkpoints'[t]
<1>1. StoreInv'
  BY DEF CheckpointTask, StoreInv, StoreTypeOK, LeaseMirrored, TerminalUnleased, KeyIdentifiesTask,
         KeysUnique, Exists, Leased
<1>2. QED BY <1>1 DEF CheckpointTask, Quiet, Harmless, StoreInv, StoreTypeOK, Exists, Status, Owns,
                       Live, Leased

\* A status written without the owner's consent ends a lease or leaves it.
LEMMA StatusIsQuiet ==
    ASSUME StoreInv, NEW t \in Missions, NEW w, NEW s \in Statuses, SetStatus(t, s),
           UNCHANGED clock
    PROVE  /\ s # "bloqueada" => Quiet(w)
           /\ Exists(t) /\ MayMove(tasks[t].status, s)
           /\ tasks'[t].status = s /\ tasks'[t].attempts = tasks[t].attempts
           /\ \A u \in Missions \ {t} : tasks'[u] = tasks[u] /\ leases'[u] = leases[u]
           /\ leases'[t] = IF s \in Terminal THEN NoLease ELSE leases[t]
           /\ checkpoints' = checkpoints
<1>1. tasks[t] \in Task /\ Exists(t) /\ tasks[t].attempts \in Nat /\ MayMove(tasks[t].status, s)
  BY DEF SetStatus, UpdateTask, Exists, StoreInv, StoreTypeOK, Task
<1>2. StoreInv'
  BY <1>1, UpdateKeepsInv DEF SetStatus
<1>3. /\ tasks'[t] \in Task /\ tasks'[t].status = s /\ tasks'[t].attempts = tasks[t].attempts
      /\ \A u \in Missions \ {t} : tasks'[u] = tasks[u] /\ leases'[u] = leases[u]
      /\ leases'[t] = IF s \in Terminal THEN NoLease ELSE leases[t]
      /\ checkpoints' = checkpoints
  <2>. DEFINE row == [tasks[t] EXCEPT !.status = s, !.attempts = tasks[t].attempts]
  <2>1. /\ row \in Task /\ row.status = s /\ row.attempts = tasks[t].attempts
        /\ Unowned(row) \in Task /\ Unowned(row).status = s
        /\ Unowned(row).attempts = tasks[t].attempts
    BY <1>1 DEF Task, Unowned
  <2>2. /\ checkpoints' = checkpoints
        /\ IF s \in Terminal
             THEN tasks' = [tasks EXCEPT ![t] = Unowned(row)] /\ leases' = DropLease(t)
             ELSE tasks' = [tasks EXCEPT ![t] = row] /\ leases' = leases
    BY DEF SetStatus, UpdateTask
  <2>. HIDE DEF row
  <2>3. QED BY <2>1, <2>2 DEF DropLease, StoreInv, StoreTypeOK
<1>4. tasks[t].status = "completada" => s = "completada"
  BY <1>1, StatusesAreDistinct
<1>5. QED BY <1>1, <1>2, <1>3, <1>4 DEF Quiet, Harmless, Exists, Status, Owns, Live, Leased

\* Recovery takes leases away that have expired by the clock, and only those.
LEMMA ResumeIsQuiet ==
    ASSUME StoreInv, NEW w, NEW now \in Stamps, ResumeExpired(now), UNCHANGED clock
    PROVE  /\ Quiet(w)
           /\ checkpoints' = checkpoints
           /\ \A t \in Missions : Live(t) => tasks'[t] = tasks[t] /\ leases'[t] = leases[t]
           /\ \A t \in Missions : ~Leased(t) => tasks'[t] = tasks[t] /\ leases'[t] = leases[t]
           /\ \A t \in Missions : Exists(t) =>
                  /\ tasks'[t].attempts = tasks[t].attempts
                  /\ tasks'[t].status # tasks[t].status => tasks[t].status = "delegada"
<1>1. now \in Nat /\ now <= clock /\ clock \in Nat
  BY StampsAreNaturals DEF Stamps, StoreInv, StoreTypeOK
<1>2. StoreInv'
  BY <1>1, ResumeKeepsInv
<1>3. ASSUME NEW t \in ExpiredAt(now)
      PROVE  /\ ~Live(t) /\ Leased(t) /\ Exists(t) /\ tasks[t] \in Task
             /\ tasks'[t] \in Task /\ leases'[t] = NoLease
             /\ tasks'[t].attempts = tasks[t].attempts
             /\ tasks'[t].status = IF tasks[t].status = "delegada" THEN "pendiente"
                                                                  ELSE tasks[t].status
  <2>1. t \in TaskIds /\ Leased(t) /\ leases[t].expires <= now
    BY DEF ExpiredAt
  <2>2. Exists(t) /\ tasks[t] \in Task /\ leases[t] \in Lease
    BY <2>1 DEF StoreInv, StoreTypeOK, LeaseMirrored, Exists, Leased
  <2>3. ~Live(t)
    BY <1>1, <2>1, <2>2 DEF Live, Lease
  <2>4. tasks'[t] = Resumed(tasks[t]) /\ leases'[t] = NoLease
    BY <2>1 DEF ResumeExpired
  <2>5. /\ Resumed(tasks[t]).attempts = tasks[t].attempts
        /\ Resumed(tasks[t]).status = IF tasks[t].status = "delegada" THEN "pendiente"
                                                                    ELSE tasks[t].status
    BY <2>2 DEF Resumed, Unowned, Task
  <2>6. QED BY <2>1, <2>2, <2>3, <2>4, <2>5, ResumedIsTask
<1>4. \A t \in Missions \ ExpiredAt(now) : tasks'[t] = tasks[t] /\ leases'[t] = leases[t]
  BY DEF ResumeExpired
<1>5. checkpoints' = checkpoints
  BY DEF ResumeExpired
<1>6. \A t \in Missions : Exists(t)' <=> Exists(t)
  BY <1>3, <1>4 DEF Exists
<1>7. /\ \A t \in Missions : Exists(t) /\ Status(t)' = "bloqueada" => Status(t) = "bloqueada"
      /\ \A t \in Missions : Status(t) = "completada" => Status(t)' = "completada"
  BY <1>3, <1>4 DEF Status
<1>8. \A t \in Missions, o \in Daemons : Owns(o, t)' => Owns(o, t)
  BY <1>3, <1>4 DEF Owns, Live, Leased
<1>9. QED BY <1>2, <1>3, <1>4, <1>5, <1>6, <1>7, <1>8 DEF Quiet, Harmless, ExpiredAt

\* A release writes the status it is asked for and drops the lease.
LEMMA ReleaseIsHarmless ==
    ASSUME StoreInv, NEW t \in Missions, NEW w, NEW o \in Daemons, NEW s \in Statuses,
           ReleaseTask(t, o, s), UNCHANGED clock
    PROVE  /\ Harmless(w)
           /\ \A u \in Missions : Exists(u)' => Exists(u)
           /\ tasks'[t].status = s /\ tasks'[t].attempts = tasks[t].attempts
           /\ \A u \in Missions \ {t} : tasks'[u] = tasks[u] /\ leases'[u] = leases[u]
           /\ leases'[t] = NoLease /\ checkpoints' = checkpoints
<1>1. StoreInv'
  BY ReleaseKeepsInv
<1>2. tasks[t] \in Task /\ Exists(t)
  BY DEF ReleaseTask, CanRelease, Exists, StoreInv, StoreTypeOK
<1>. DEFINE row == Unowned([tasks[t] EXCEPT !.status = s])
<1>3. row \in Task /\ row.status = s /\ row.attempts = tasks[t].attempts
  BY <1>2 DEF Task, Unowned
<1>4. /\ tasks' = [tasks EXCEPT ![t] = row] /\ leases' = DropLease(t)
      /\ checkpoints' = checkpoints
  BY DEF ReleaseTask
<1>. HIDE DEF row
<1>5. /\ tasks'[t] = row /\ leases'[t] = NoLease
      /\ \A u \in Missions \ {t} : tasks'[u] = tasks[u] /\ leases'[u] = leases[u]
  BY <1>4 DEF DropLease, StoreInv, StoreTypeOK
<1>6. tasks[t].status = "completada" => s = "completada"
  BY StatusesAreDistinct DEF ReleaseTask, CanRelease
<1>7. QED BY <1>1, <1>2, <1>3, <1>4, <1>5, <1>6 DEF Harmless, Exists, Status, Owns, Live, Leased

\* A new mission is pending, without attempts and without a lease.
LEMMA AddIsHarmless ==
    ASSUME StoreInv, NEW c \in Missions, NEW w, AddTask(c, NoKey, "pendiente"), UNCHANGED clock
    PROVE  /\ Harmless(w)
           /\ ~Exists(c) /\ Exists(c)' /\ ~Leased(c)
           /\ tasks'[c].status = "pendiente" /\ tasks'[c].attempts = 0
           /\ \A u \in Missions \ {c} : tasks'[u] = tasks[u]
           /\ leases' = leases /\ checkpoints' = checkpoints
<1>1. StoreInv'
  BY AddKeepsInv, StatusesAreDistinct
<1>. DEFINE row == [status |-> "pendiente", key |-> NoKey, attempts |-> 0,
                    lease_owner |-> NoOwner, lease_expires |-> 0]
<1>2. row \in Task /\ row.status = "pendiente" /\ row.attempts = 0
  BY StatusesAreDistinct DEF Task
<1>3. tasks' = [tasks EXCEPT ![c] = row] /\ leases' = leases /\ checkpoints' = checkpoints
  BY DEF AddTask
<1>. HIDE DEF row
<1>4. tasks'[c] = row /\ \A u \in Missions \ {c} : tasks'[u] = tasks[u]
  BY <1>3 DEF StoreInv, StoreTypeOK
<1>5. ~Exists(c) /\ ~Leased(c)
  BY DEF AddTask, StoreInv, LeaseMirrored
<1>6. Exists(c)'
  BY <1>2, <1>4 DEF Exists
<1>7. QED BY <1>1, <1>2, <1>3, <1>4, <1>5, <1>6 DEF Harmless, Exists, Status, Owns, Live, Leased

-----------------------------------------------------------------------------
(* A step of daemon w decides about w only.                                  *)

\* The other daemons' states, and how they relate to the store, stay good.
LEMMA OthersStayOK ==
    ASSUME run \in [Daemons -> DaemonState], DaemonsOK, NEW w, Harmless(w),
           \A v \in Daemons \ {w} : run'[v] = run[v],
           \A t \in Missions : Exists(t) => lineage'[t] = lineage[t],
           w \in Daemons => DaemonOK(w, run[w])'
    PROVE  DaemonsOK'
<1>. SUFFICES ASSUME NEW v \in Daemons, v # w PROVE DaemonOK(v, run[v])'
  BY DEF DaemonsOK
<1>1. DaemonOK(v, run[v]) /\ run'[v] = run[v] /\ run[v].task \in Missions \cup {NoTask}
  BY DEF DaemonsOK, DaemonState
<1>2. run[v].task \in Missions => (Owns(v, run[v].task)' => Owns(v, run[v].task))
  BY DEF Harmless
<1>3. CASE run[v].pc \in {"off", "scan"}
  BY <1>1, <1>3 DEF DaemonOK, Fresh
<1>4. CASE run[v].pc \notin {"off", "scan"}
  <2>1. run[v].task \in Missions /\ Exists(run[v].task) /\ Exists(run[v].task)'
    BY <1>1, <1>4 DEF DaemonOK, Harmless
  <2>2. lineage'[run[v].task].repair_depth <= RepairLimit
    BY <1>1, <1>4, <2>1 DEF DaemonOK
  <2>3. run[v].chain = "followup" => Status(run[v].task)' = "completada"
    BY <1>1, <2>1 DEF DaemonOK, Harmless
  <2>4. run[v].goal = "bloqueada" /\ run[v].pc = "releasing"
            => checkpoints'[run[v].task] \cap ReasonLabels # {}
    BY <1>1, <2>1 DEF DaemonOK, Harmless
  <2>5. QED BY <1>1, <1>2, <1>4, <2>1, <2>2, <2>3, <2>4 DEF DaemonOK
<1>5. QED BY <1>3, <1>4

\* So does what a call left behind relies on.
LEMMA LateStaysOK ==
    ASSUME LateOK, NEW w, Harmless(w), late' = late
    PROVE  LateOK'
BY DEF LateOK, Harmless

\* And the place of a mission in the lineage.
LEMMA PlaceStaysOK ==
    ASSUME NEW w, Harmless(w), NEW l, PlaceOK(l)
    PROVE  PlaceOK(l)'
BY DEF PlaceOK, Harmless

\* A quiet step of w, with good states of w before and after it.
LEMMA QuietKeepsInv ==
    ASSUME CampaignInv, NEW w, Quiet(w), RuntimeTypeOK',
           \A v \in Daemons \ {w} : run'[v] = run[v],
           w \in Daemons => DaemonOK(w, run[w])',
           late' = late \/ LateOK',
           UNCHANGED lineage
    PROVE  CampaignInv'
<1>0. Harmless(w) /\ run \in [Daemons -> DaemonState]
  BY DEF Quiet, CampaignInv, RuntimeTypeOK, DaemonState, Places
<1>1. StoreInv' /\ DaemonsOK' /\ LateOK'
  BY <1>0, OthersStayOK, LateStaysOK DEF CampaignInv, Harmless
<1>2. \A t \in Missions : Exists(t)' <=> Exists(t)
  BY DEF Quiet, Harmless
<1>3. \A t \in Missions : Repairs(t)' = Repairs(t)
  BY <1>2 DEF Repairs
<1>4. \A t \in Missions : PlaceOK(lineage[t])'
  BY <1>0, PlaceStaysOK DEF CampaignInv, LineageOK, PlaceOK
<1>5. LineageOK'
  BY <1>3, <1>4 DEF CampaignInv, LineageOK
<1>6. NoBlockedImports => BlockedHasReason'
  BY <1>2 DEF CampaignInv, BlockedHasReason, Quiet, Harmless, Status
<1>7. QED BY <1>1, <1>5, <1>6 DEF CampaignInv

\* After a step, the shapes of its parts make up the type invariant.
LEMMA PartsAreTyped ==
    ASSUME StoreTypeOK', run' \in [Daemons -> DaemonState], DaemonsOK',
           lineage' \in [Missions -> LineageRow],
           dirty' \in [Missions -> BOOLEAN], begun' \in [Missions -> Nat],
           late' \in LateCall, slow' \in BOOLEAN,
           crashes' \in 0..MaxCrashes, unblocks' \in 0..MaxUnblocks
    PROVE  RuntimeTypeOK'
<1>1. \A w \in Daemons : run'[w].pc \notin {"off", "scan"} => Mine(w)' \in Missions
  BY DEF DaemonsOK, DaemonOK, Mine
<1>2. QED BY <1>1 DEF RuntimeTypeOK, DaemonState, Places, LineageRow, LateCall

\* A quiet step that writes what w remembers, and of the rest of the runtime
\* nothing but the ghosts and perhaps the call that w leaves behind.
LEMMA OwnStepKeepsInv ==
    ASSUME CampaignInv, NEW w \in Daemons, Quiet(w),
           run' \in [Daemons -> DaemonState], \A v \in Daemons \ {w} : run'[v] = run[v],
           DaemonOK(w, run[w])',
           late' = late \/ (late' \in LateCall /\ LateOK'),
           dirty' \in [Missions -> BOOLEAN], begun' \in [Missions -> Nat],
           crashes' \in 0..MaxCrashes, UNCHANGED <<lineage, slow, unblocks>>
    PROVE  CampaignInv'
<1>1. /\ Harmless(w) /\ run \in [Daemons -> DaemonState] /\ DaemonsOK /\ StoreTypeOK'
      /\ lineage \in [Missions -> LineageRow] /\ late \in LateCall
      /\ slow \in BOOLEAN /\ unblocks \in 0..MaxUnblocks
  BY DEF Quiet, Harmless, StoreInv, CampaignInv, RuntimeTypeOK, DaemonState, Places, LineageRow,
         LateCall
<1>2. DaemonsOK'
  BY <1>1, OthersStayOK
<1>3. RuntimeTypeOK'
  BY <1>1, <1>2, PartsAreTyped
<1>4. QED BY <1>3, QuietKeepsInv

\* The invariant, as seen by one daemon.
LEMMA InvOfDaemon ==
    ASSUME CampaignInv, NEW w \in Daemons
    PROVE  /\ run \in [Daemons -> DaemonState] /\ run[w] \in DaemonState
           /\ DaemonOK(w, run[w])
           /\ dirty \in [Missions -> BOOLEAN] /\ begun \in [Missions -> Nat]
           /\ crashes \in 0..MaxCrashes
           /\ late \in LateCall /\ LateOK
           /\ StoreInv
BY DEF CampaignInv, RuntimeTypeOK, DaemonsOK, DaemonState, Places, LateCall

-----------------------------------------------------------------------------
(* What a daemon does by itself: the store is left alone.                    *)
\* The states between two missions carry nothing over.
LEMMA OffIsOK ==
    ASSUME NEW w \in Daemons
    PROVE  /\ Off \in DaemonState /\ DaemonOK(w, Off)
           /\ \A done \in SUBSET Missions :
                  Scanning(done) \in DaemonState /\ DaemonOK(w, Scanning(done))
<1>1. Off \in DaemonState
  BY DEF Off, DaemonState, Places
<1>2. \A done \in SUBSET Missions : Scanning(done) \in DaemonState
  BY DEF Off, Scanning, DaemonState, Places
<1>3. DaemonOK(w, Off)
  BY DEF Off, DaemonOK, Fresh
<1>4. \A done \in SUBSET Missions : DaemonOK(w, Scanning(done))
  BY DEF Off, Scanning, DaemonOK, Fresh
<1>5. QED BY <1>1, <1>2, <1>3, <1>4

\* A daemon that stops forgets everything.
LEMMA StoppingKeepsInv ==
    ASSUME CampaignInv, NEW w \in Daemons, run' = [run EXCEPT ![w] = Off],
           UNCHANGED <<storeVars, clock, lineage, slow, unblocks>>, late' \in {late, NoCall},
           dirty' \in [Missions -> BOOLEAN], begun' = begun, crashes' \in 0..MaxCrashes
    PROVE  CampaignInv'
<1>1. run' \in [Daemons -> DaemonState] /\ run'[w] = Off
      /\ \A v \in Daemons \ {w} : run'[v] = run[v]
  BY InvOfDaemon, OffIsOK
<1>2. DaemonOK(w, run[w])'
  BY <1>1 DEF Off, DaemonOK, Fresh
<1>3. Quiet(w)
  BY NothingIsQuiet, InvOfDaemon
<1>4. late' = late \/ (late' \in LateCall /\ LateOK')
  BY DEF NoCall, LateCall, LateOK
<1>5. QED BY <1>1, <1>2, <1>3, <1>4, OwnStepKeepsInv, InvOfDaemon

\* The end of a run.
LEMMA FinishKeepsInv ==
    ASSUME CampaignInv, NEW w \in Daemons, Finish(w) PROVE CampaignInv'
BY StoppingKeepsInv, InvOfDaemon DEF Finish

\* A refused claim ends the run.
LEMMA ClaimRefusedKeepsInv ==
    ASSUME CampaignInv, NEW w \in Daemons, ClaimRefused(w) PROVE CampaignInv'
BY StoppingKeepsInv, InvOfDaemon DEF ClaimRefused

\* A refused release ends the run.
LEMMA ReleaseRefusedKeepsInv ==
    ASSUME CampaignInv, NEW w \in Daemons, ReleaseRefused(w) PROVE CampaignInv'
BY StoppingKeepsInv, InvOfDaemon DEF ReleaseRefused

\* A crash loses what the daemon remembers and keeps the store.
LEMMA CrashKeepsInv ==
    ASSUME CampaignInv, NEW w \in Daemons, Crash(w) PROVE CampaignInv'
<1>1. dirty' \in [Missions -> BOOLEAN]
  BY InvOfDaemon DEF Crash, Unseen, DaemonState
<1>2. crashes' \in 0..MaxCrashes
  BY InvOfDaemon DEF Crash
<1>3. QED BY <1>1, <1>2, StoppingKeepsInv DEF Crash

\* An eligible mission is a root, a repair within the limit or a follow-up
\* without a depth: the parent of a follow-up is completed and not failed.
LEMMA EligibleIsShallow ==
    ASSUME CampaignInv, NEW t \in Missions, Eligible(t)
    PROVE  Exists(t) /\ lineage[t].repair_depth <= RepairLimit
<1>1. Exists(t) /\ PlaceOK(lineage[t]) /\ lineage[t] \in LineageRow
  BY DEF Eligible, CampaignInv, LineageOK, RuntimeTypeOK, LineageRow
<1>2. CASE lineage[t].kind = "followup"
  <2>1. lineage[t].parent # NoTask /\ Status(lineage[t].parent) = "completada"
    BY <1>1, <1>2 DEF PlaceOK
  <2>2. ~(lineage[t].repair_depth > 0)
    BY <2>1 DEF Eligible
  <2>3. QED BY <1>1, <2>2 DEF LineageRow
<1>3. CASE lineage[t].kind # "followup"
  BY <1>1, <1>3 DEF PlaceOK, LineageRow
<1>4. QED BY <1>1, <1>2, <1>3

\* The chosen mission is one of the store, and not too deep.
LEMMA ChooseKeepsInv ==
    ASSUME CampaignInv, NEW w \in Daemons, Choose(w) PROVE CampaignInv'
<1>1. PICK t \in Candidates(w) : run' = [run EXCEPT ![w].pc = "chosen", ![w].task = t]
  BY DEF Choose
<1>2. t \in Missions /\ Exists(t) /\ lineage[t].repair_depth <= RepairLimit
  BY EligibleIsShallow DEF Candidates
<1>3. /\ run' \in [Daemons -> DaemonState] /\ \A v \in Daemons \ {w} : run'[v] = run[v]
      /\ run'[w] = [run[w] EXCEPT !.pc = "chosen", !.task = t]
  <2>. DEFINE row == [run[w] EXCEPT !.pc = "chosen", !.task = t]
  <2>1. run \in [Daemons -> DaemonState] /\ run[w] \in DaemonState
    BY InvOfDaemon
  <2>2. row \in DaemonState
    BY <1>1, <1>2, <2>1 DEF DaemonState, Places
  <2>3. run' = [run EXCEPT ![w] = row]
    BY <1>1, <1>2, <2>1
  <2>. HIDE DEF row
  <2>4. run' \in [Daemons -> DaemonState] /\ run'[w] = row /\ \A v \in Daemons \ {w} : run'[v] = run[v]
    BY <2>1, <2>2, <2>3
  <2>5. QED BY <2>4 DEF row
<1>4. DaemonOK(w, run[w])'
  <2>1. run[w] \in DaemonState /\ DaemonOK(w, run[w]) /\ run[w].pc = "scan"
    BY InvOfDaemon DEF Choose, At
  <2>2. Fresh(run[w])
    BY <2>1 DEF DaemonOK
  <2>3. /\ run'[w].pc = "chosen" /\ run'[w].task = t /\ Fresh(run'[w]) /\ Exists(t)'
        /\ lineage' = lineage
    BY <1>2, <1>3, <2>1, <2>2 DEF DaemonState, Fresh, Choose, storeVars, Exists
  <2>4. Fresh(run[w])'
    BY <2>3 DEF Fresh
  <2>5. QED BY <1>2, <2>3, <2>4 DEF DaemonOK, Fresh
<1>5. Quiet(w)
  BY NothingIsQuiet, InvOfDaemon DEF Choose
<1>6. QED BY <1>3, <1>4, <1>5, OwnStepKeepsInv, InvOfDaemon DEF Choose

\* The lease is taken for lost only when it is.
LEMMA JudgeRefusalKeepsInv ==
    ASSUME CampaignInv, NEW w \in Daemons, JudgeRefusal(w) PROVE CampaignInv'
<1>1. PICK b \in BOOLEAN : run' = [run EXCEPT ![w].beat = "off", ![w].lost = b]
  BY DEF JudgeRefusal
<1>2. /\ run' \in [Daemons -> DaemonState] /\ \A v \in Daemons \ {w} : run'[v] = run[v]
      /\ run'[w] = [run[w] EXCEPT !.beat = "off", !.lost = b]
  <2>. DEFINE row == [run[w] EXCEPT !.beat = "off", !.lost = b]
  <2>1. run \in [Daemons -> DaemonState] /\ run[w] \in DaemonState
    BY InvOfDaemon
  <2>2. row \in DaemonState
    BY <1>1, <2>1 DEF DaemonState, Places
  <2>3. run' = [run EXCEPT ![w] = row]
    BY <1>1, <2>1
  <2>. HIDE DEF row
  <2>4. run' \in [Daemons -> DaemonState] /\ run'[w] = row /\ \A v \in Daemons \ {w} : run'[v] = run[v]
    BY <2>1, <2>2, <2>3
  <2>5. QED BY <2>4 DEF row
<1>3. DaemonOK(w, run[w])'
  BY <1>2, InvOfDaemon DEF JudgeRefusal, storeVars, DaemonState, DaemonOK, Fresh, Status, Exists, Owns, Live, Leased
<1>4. Quiet(w)
  BY NothingIsQuiet, InvOfDaemon DEF JudgeRefusal
<1>5. QED BY <1>2, <1>3, <1>4, OwnStepKeepsInv, InvOfDaemon DEF JudgeRefusal

\* The session starts a mutation.
LEMMA StartMutationKeepsInv ==
    ASSUME CampaignInv, NEW w \in Daemons, StartMutation(w) PROVE CampaignInv'
<1>1. /\ run' \in [Daemons -> DaemonState] /\ \A v \in Daemons \ {w} : run'[v] = run[v]
      /\ run'[w] = [run[w] EXCEPT !.inflight = TRUE]
  <2>. DEFINE row == [run[w] EXCEPT !.inflight = TRUE]
  <2>1. run \in [Daemons -> DaemonState] /\ run[w] \in DaemonState
    BY InvOfDaemon
  <2>2. row \in DaemonState
    BY <2>1 DEF DaemonState, Places
  <2>3. run' = [run EXCEPT ![w] = row]
    BY <2>1 DEF StartMutation
  <2>. HIDE DEF row
  <2>4. run' \in [Daemons -> DaemonState] /\ run'[w] = row /\ \A v \in Daemons \ {w} : run'[v] = run[v]
    BY <2>1, <2>2, <2>3
  <2>5. QED BY <2>4 DEF row
<1>2. DaemonOK(w, run[w])'
  BY <1>1, InvOfDaemon DEF StartMutation, At, storeVars, DaemonState, DaemonOK, Fresh, Status, Exists, Owns, Live, Leased
<1>3. Quiet(w)
  BY NothingIsQuiet, InvOfDaemon DEF StartMutation
<1>4. QED BY <1>1, <1>2, <1>3, OwnStepKeepsInv, InvOfDaemon DEF StartMutation

\* The session settles a mutation, or reports unknown effects.
LEMMA FinishMutationKeepsInv ==
    ASSUME CampaignInv, NEW w \in Daemons, FinishMutation(w) PROVE CampaignInv'
<1>1. PICK b \in BOOLEAN : run' = [run EXCEPT ![w].inflight = FALSE, ![w].unknown = b]
  BY InvOfDaemon DEF FinishMutation, DaemonState
<1>2. /\ run' \in [Daemons -> DaemonState] /\ \A v \in Daemons \ {w} : run'[v] = run[v]
      /\ run'[w] = [run[w] EXCEPT !.inflight = FALSE, !.unknown = b]
  <2>. DEFINE row == [run[w] EXCEPT !.inflight = FALSE, !.unknown = b]
  <2>1. run \in [Daemons -> DaemonState] /\ run[w] \in DaemonState
    BY InvOfDaemon
  <2>2. row \in DaemonState
    BY <1>1, <2>1 DEF DaemonState, Places
  <2>3. run' = [run EXCEPT ![w] = row]
    BY <1>1, <2>1
  <2>. HIDE DEF row
  <2>4. run' \in [Daemons -> DaemonState] /\ run'[w] = row /\ \A v \in Daemons \ {w} : run'[v] = run[v]
    BY <2>1, <2>2, <2>3
  <2>5. QED BY <2>4 DEF row
<1>3. DaemonOK(w, run[w])'
  <2>1. run[w] \in DaemonState /\ DaemonOK(w, run[w]) /\ run[w].pc = "running"
    BY InvOfDaemon DEF FinishMutation, At
  <2>2. /\ run'[w].pc = run[w].pc /\ run'[w].task = run[w].task /\ run'[w].beat = run[w].beat
        /\ run'[w].lost = run[w].lost /\ run'[w].chain = run[w].chain
    BY <1>2, <2>1 DEF DaemonState
  <2>3. UNCHANGED <<tasks, leases, checkpoints, clock, lineage>>
    BY DEF FinishMutation, storeVars
  <2>4. QED BY <2>1, <2>2, <2>3 DEF DaemonOK, Status, Exists, Owns, Live, Leased
<1>4. Quiet(w)
  BY NothingIsQuiet, InvOfDaemon DEF FinishMutation
<1>5. QED BY <1>2, <1>3, <1>4, OwnStepKeepsInv, InvOfDaemon DEF FinishMutation

\* The session ends and leaves what it knows to the reconciliation.
LEMMA EndSessionKeepsInv ==
    ASSUME CampaignInv, NEW w \in Daemons, EndSession(w) PROVE CampaignInv'
<1>1. PICK b \in BOOLEAN :
         run' = [run EXCEPT ![w].pc = "closing", ![w].spent = b, ![w].chain = "none"]
  BY DEF EndSession
<1>2. /\ run' \in [Daemons -> DaemonState] /\ \A v \in Daemons \ {w} : run'[v] = run[v]
      /\ run'[w] = [run[w] EXCEPT !.pc = "closing", !.spent = b, !.chain = "none"]
  <2>. DEFINE row == [run[w] EXCEPT !.pc = "closing", !.spent = b, !.chain = "none"]
  <2>1. run \in [Daemons -> DaemonState] /\ run[w] \in DaemonState
    BY InvOfDaemon
  <2>2. row \in DaemonState
    BY <1>1, <2>1 DEF DaemonState, Places
  <2>3. run' = [run EXCEPT ![w] = row]
    BY <1>1, <2>1
  <2>. HIDE DEF row
  <2>4. run' \in [Daemons -> DaemonState] /\ run'[w] = row /\ \A v \in Daemons \ {w} : run'[v] = run[v]
    BY <2>1, <2>2, <2>3
  <2>5. QED BY <2>4 DEF row
<1>3. DaemonOK(w, run[w])'
  BY <1>2, InvOfDaemon DEF EndSession, At, storeVars, DaemonState, DaemonOK, Fresh, Status, Exists, Owns, Live, Leased
<1>4. Quiet(w)
  BY NothingIsQuiet, InvOfDaemon DEF EndSession
<1>5. dirty' \in [Missions -> BOOLEAN]
  BY InvOfDaemon DEF EndSession, Unseen, DaemonState
<1>6. late' = late \/ (late' \in LateCall /\ LateOK')
  <2>1. /\ Mine(w) \in Missions /\ Exists(Mine(w))
        /\ run[w].chain \in {"none", "followup", "repair"}
        /\ run[w].chain = "followup" => Status(Mine(w)) = "completada"
    BY InvOfDaemon DEF EndSession, At, DaemonOK, DaemonState, Mine
  <2>2. PICK next \in {"complete", "followup", "repair"} :
           /\ late' = late \/ late' = [task |-> Mine(w), next |-> next]
           /\ next = "followup" => Status(Mine(w)) = "completada"
    BY <2>1 DEF EndSession, LeftBehind
  <2>3. Exists(Mine(w))' = Exists(Mine(w)) /\ Status(Mine(w))' = Status(Mine(w))
        /\ Mine(w)' = Mine(w)
    BY <1>2, InvOfDaemon DEF EndSession, storeVars, Exists, Status, Mine, DaemonState
  <2>4. QED BY <2>1, <2>2, <2>3 DEF LateCall, LateOK, storeVars, Exists, Status, EndSession
<1>7. QED BY <1>2, <1>3, <1>4, <1>5, <1>6, OwnStepKeepsInv, InvOfDaemon DEF EndSession

\* The heartbeat is waited for.
LEMMA CloseHeartbeatKeepsInv ==
    ASSUME CampaignInv, NEW w \in Daemons, CloseHeartbeat(w) PROVE CampaignInv'
<1>1. /\ run' \in [Daemons -> DaemonState] /\ \A v \in Daemons \ {w} : run'[v] = run[v]
      /\ run'[w] = [run[w] EXCEPT !.pc = "ended", !.beat = "off"]
  <2>. DEFINE row == [run[w] EXCEPT !.pc = "ended", !.beat = "off"]
  <2>1. run \in [Daemons -> DaemonState] /\ run[w] \in DaemonState
    BY InvOfDaemon
  <2>2. row \in DaemonState
    BY <2>1 DEF DaemonState, Places
  <2>3. run' = [run EXCEPT ![w] = row]
    BY <2>1 DEF CloseHeartbeat
  <2>. HIDE DEF row
  <2>4. run' \in [Daemons -> DaemonState] /\ run'[w] = row /\ \A v \in Daemons \ {w} : run'[v] = run[v]
    BY <2>1, <2>2, <2>3
  <2>5. QED BY <2>4 DEF row
<1>2. DaemonOK(w, run[w])'
  BY <1>1, InvOfDaemon DEF CloseHeartbeat, At, storeVars, DaemonState, DaemonOK, Fresh, Status, Exists, Owns, Live, Leased
<1>3. Quiet(w)
  BY NothingIsQuiet, InvOfDaemon DEF CloseHeartbeat
<1>4. QED BY <1>1, <1>2, <1>3, OwnStepKeepsInv, InvOfDaemon DEF CloseHeartbeat

\* A finished mission, or a lost lease, is left as it is.
LEMMA ReconcileNothingKeepsInv ==
    ASSUME CampaignInv, NEW w \in Daemons, ReconcileNothing(w) PROVE CampaignInv'
<1>1. CASE run' = [run EXCEPT ![w] = Off]
  BY <1>1, StoppingKeepsInv, InvOfDaemon DEF ReconcileNothing
<1>2. CASE run' = [run EXCEPT ![w].pc = "settled"]
  <2>1. /\ run' \in [Daemons -> DaemonState] /\ \A v \in Daemons \ {w} : run'[v] = run[v]
        /\ run'[w] = [run[w] EXCEPT !.pc = "settled"]
    <3>. DEFINE row == [run[w] EXCEPT !.pc = "settled"]
    <3>1. run \in [Daemons -> DaemonState] /\ run[w] \in DaemonState
      BY InvOfDaemon
    <3>2. row \in DaemonState
      BY <1>2, <3>1 DEF DaemonState, Places
    <3>3. run' = [run EXCEPT ![w] = row]
      BY <1>2, <3>1
    <3>. HIDE DEF row
    <3>4. run' \in [Daemons -> DaemonState] /\ run'[w] = row /\ \A v \in Daemons \ {w} : run'[v] = run[v]
      BY <3>1, <3>2, <3>3
    <3>5. QED BY <3>4 DEF row
  <2>2. DaemonOK(w, run[w])'
    BY <2>1, InvOfDaemon DEF ReconcileNothing, At, storeVars, DaemonState, DaemonOK, Fresh, Status, Exists, Owns, Live,
                             Leased
  <2>3. Quiet(w)
    BY NothingIsQuiet, InvOfDaemon DEF ReconcileNothing
  <2>4. QED BY <2>1, <2>2, <2>3, OwnStepKeepsInv, InvOfDaemon DEF ReconcileNothing
<1>3. QED BY <1>1, <1>2 DEF ReconcileNothing

-----------------------------------------------------------------------------
(* The calls that write the store.                                           *)

\* Runs begin, and go on, with a recovery of the expired leases.
LEMMA RecoveringKeepsInv ==
    ASSUME CampaignInv, NEW w \in Daemons, NEW now \in Stamps, ResumeExpired(now),
           NEW done \in SUBSET Missions, run' = [run EXCEPT ![w] = Scanning(done)],
           UNCHANGED <<clock, lineage, late, ghosts>>
    PROVE  CampaignInv'
<1>1. run' \in [Daemons -> DaemonState] /\ run'[w] = Scanning(done)
      /\ \A v \in Daemons \ {w} : run'[v] = run[v]
  BY InvOfDaemon, OffIsOK
<1>2. DaemonOK(w, run[w])'
  BY <1>1 DEF Off, Scanning, DaemonOK, Fresh
<1>3. Quiet(w)
  BY ResumeIsQuiet, InvOfDaemon
<1>4. QED BY <1>1, <1>2, <1>3, OwnStepKeepsInv, InvOfDaemon

\* A run begins with a recovery.
LEMMA StartKeepsInv ==
    ASSUME CampaignInv, NEW w \in Daemons, Start(w) PROVE CampaignInv'
<1>1. PICK now \in Stamps : ResumeExpired(now)
  BY DEF Start
<1>2. {} \in SUBSET Missions
  OBVIOUS
<1>3. QED BY <1>1, <1>2, RecoveringKeepsInv DEF Start

\* A run goes on with a recovery.
LEMMA NextMissionKeepsInv ==
    ASSUME CampaignInv, NEW w \in Daemons, NextMission(w) PROVE CampaignInv'
<1>1. PICK now \in Stamps : ResumeExpired(now)
  BY DEF NextMission
<1>2. run[w].done \in SUBSET Missions
  BY InvOfDaemon DEF DaemonState
<1>3. QED BY <1>1, <1>2, RecoveringKeepsInv DEF NextMission

\* The mission a daemon works on is one of the store.
LEMMA MineExists ==
    ASSUME CampaignInv, NEW w \in Daemons, run[w].pc \notin {"off", "scan"}
    PROVE  Mine(w) \in Missions /\ Exists(Mine(w)) /\ tasks[Mine(w)] \in Task
           /\ tasks[Mine(w)].attempts \in Nat
BY InvOfDaemon DEF DaemonOK, Mine, Exists, StoreInv, StoreTypeOK, Task

\* It stays there, not too deep, and completed if it was.
LEMMA MineStays ==
    ASSUME CampaignInv, NEW w \in Daemons, run[w].pc \notin {"off", "scan"}, Harmless(w),
           \A t \in Missions : Exists(t) => lineage'[t] = lineage[t]
    PROVE  \E t \in Missions :
              /\ t = run[w].task /\ Exists(t) /\ Exists(t)'
              /\ lineage'[t].repair_depth <= RepairLimit
              /\ run[w].chain = "followup" => Status(t)' = "completada"
<1>1. PICK t \in Missions : t = run[w].task
  BY InvOfDaemon DEF DaemonOK
<1>2. /\ Exists(t) /\ lineage[t].repair_depth <= RepairLimit
      /\ run[w].chain = "followup" => Status(t) = "completada"
  BY <1>1, InvOfDaemon DEF DaemonOK
<1>3. QED BY <1>1, <1>2 DEF Harmless

\* The claim of the chosen mission.
LEMMA ClaimKeepsCampaign ==
    ASSUME CampaignInv, NEW w \in Daemons, Claim(w) PROVE CampaignInv'
<1>1. PICK now \in Stamps : ClaimTask(Mine(w), w, now, LeaseSeconds)
  BY DEF Claim
<1>2. Mine(w) \in Missions /\ Exists(Mine(w)) /\ tasks[Mine(w)].attempts \in Nat
  BY MineExists DEF Claim, At
<1>3. /\ run' \in [Daemons -> DaemonState] /\ \A v \in Daemons \ {w} : run'[v] = run[v]
      /\ run'[w] = [run[w] EXCEPT !.pc = "claimed", !.read = tasks[Mine(w)].attempts, !.done = @ \cup {Mine(w)}]
  <2>. DEFINE row == [run[w] EXCEPT !.pc = "claimed", !.read = tasks[Mine(w)].attempts, !.done = @ \cup {Mine(w)}]
  <2>1. run \in [Daemons -> DaemonState] /\ run[w] \in DaemonState
    BY InvOfDaemon
  <2>2. row \in DaemonState
    BY <1>2, <2>1 DEF DaemonState, Places
  <2>3. run' = [run EXCEPT ![w] = row]
    BY <1>2, <2>1 DEF Claim
  <2>. HIDE DEF row
  <2>4. run' \in [Daemons -> DaemonState] /\ run'[w] = row /\ \A v \in Daemons \ {w} : run'[v] = run[v]
    BY <2>1, <2>2, <2>3
  <2>5. QED BY <2>4 DEF row
<1>4. Quiet(w)
  BY <1>1, <1>2, ClaimIsQuiet, InvOfDaemon DEF Claim
<1>5. DaemonOK(w, run[w])'
  <2>1. PICK t \in Missions : t = run[w].task /\ Exists(t)' /\ lineage'[t].repair_depth <= RepairLimit
    BY <1>4, MineStays DEF Claim, At, Quiet
  <2>2. Fresh(run[w])'
    BY <1>3, InvOfDaemon DEF Claim, At, DaemonState, DaemonOK, Fresh
  <2>3. run'[w].pc = "claimed" /\ run'[w].task = t
    BY <1>3, <2>1, InvOfDaemon DEF DaemonState
  <2>4. QED BY <2>1, <2>2, <2>3 DEF DaemonOK, Fresh
<1>6. QED BY <1>3, <1>4, <1>5, OwnStepKeepsInv, InvOfDaemon DEF Claim

\* The attempt is counted.
LEMMA CountKeepsCampaign ==
    ASSUME CampaignInv, NEW w \in Daemons, CountAttempt(w) PROVE CampaignInv'
<1>1. Mine(w) \in Missions /\ Exists(Mine(w))
  BY MineExists DEF CountAttempt, At
<1>2. /\ run' \in [Daemons -> DaemonState] /\ \A v \in Daemons \ {w} : run'[v] = run[v]
      /\ run'[w] = [run[w] EXCEPT !.pc = "counted"]
  <2>. DEFINE row == [run[w] EXCEPT !.pc = "counted"]
  <2>1. run \in [Daemons -> DaemonState] /\ run[w] \in DaemonState
    BY InvOfDaemon
  <2>2. row \in DaemonState
    BY <2>1 DEF DaemonState, Places
  <2>3. run' = [run EXCEPT ![w] = row]
    BY <2>1 DEF CountAttempt
  <2>. HIDE DEF row
  <2>4. run' \in [Daemons -> DaemonState] /\ run'[w] = row /\ \A v \in Daemons \ {w} : run'[v] = run[v]
    BY <2>1, <2>2, <2>3
  <2>5. QED BY <2>4 DEF row
<1>3. run[w].read + 1 \in Nat
  BY InvOfDaemon DEF DaemonState
<1>4. Quiet(w)
  BY <1>1, <1>3, CountIsQuiet, InvOfDaemon DEF CountAttempt
<1>5. DaemonOK(w, run[w])'
  BY <1>1, <1>2, <1>4, InvOfDaemon DEF CountAttempt, At, Mine, Quiet, Harmless, DaemonState, DaemonOK, Fresh, Status
<1>6. QED BY <1>2, <1>4, <1>5, OwnStepKeepsInv, InvOfDaemon DEF CountAttempt

\* The session begins, or the aggregate budget is exhausted.
LEMMA BeginKeepsInv ==
    ASSUME CampaignInv, NEW w \in Daemons, Begin(w) PROVE CampaignInv'
<1>1. Mine(w) \in Missions /\ Exists(Mine(w))
  BY MineExists DEF Begin, At
<1>2. Quiet(w)
  BY <1>1, CheckpointIsQuiet, InvOfDaemon DEF Begin, RuntimeLabels
<1>3. CASE run' = [run EXCEPT ![w].pc = "running", ![w].beat = "on"]
           /\ begun' = [begun EXCEPT ![Mine(w)] = @ + 1]
  <2>1. /\ run' \in [Daemons -> DaemonState] /\ \A v \in Daemons \ {w} : run'[v] = run[v]
        /\ run'[w] = [run[w] EXCEPT !.pc = "running", !.beat = "on"]
    <3>. DEFINE row == [run[w] EXCEPT !.pc = "running", !.beat = "on"]
    <3>1. run \in [Daemons -> DaemonState] /\ run[w] \in DaemonState
      BY InvOfDaemon
    <3>2. row \in DaemonState
      BY <1>3, <3>1 DEF DaemonState, Places
    <3>3. run' = [run EXCEPT ![w] = row]
      BY <1>3, <3>1
    <3>. HIDE DEF row
    <3>4. run' \in [Daemons -> DaemonState] /\ run'[w] = row /\ \A v \in Daemons \ {w} : run'[v] = run[v]
      BY <3>1, <3>2, <3>3
    <3>5. QED BY <3>4 DEF row
  <2>2. DaemonOK(w, run[w])'
    BY <1>1, <1>2, <2>1, InvOfDaemon DEF Begin, At, Mine, Quiet, Harmless, DaemonState, DaemonOK, Fresh, Status
  <2>3. begun' \in [Missions -> Nat]
    BY <1>1, <1>3, InvOfDaemon
  <2>4. QED BY <1>2, <2>1, <2>2, <2>3, OwnStepKeepsInv, InvOfDaemon DEF Begin
<1>4. CASE run' = [run EXCEPT ![w].pc = "ended", ![w].spent = TRUE] /\ begun' = begun
  <2>1. /\ run' \in [Daemons -> DaemonState] /\ \A v \in Daemons \ {w} : run'[v] = run[v]
        /\ run'[w] = [run[w] EXCEPT !.pc = "ended", !.spent = TRUE]
    <3>. DEFINE row == [run[w] EXCEPT !.pc = "ended", !.spent = TRUE]
    <3>1. run \in [Daemons -> DaemonState] /\ run[w] \in DaemonState
      BY InvOfDaemon
    <3>2. row \in DaemonState
      BY <1>4, <3>1 DEF DaemonState, Places
    <3>3. run' = [run EXCEPT ![w] = row]
      BY <1>4, <3>1
    <3>. HIDE DEF row
    <3>4. run' \in [Daemons -> DaemonState] /\ run'[w] = row /\ \A v \in Daemons \ {w} : run'[v] = run[v]
      BY <3>1, <3>2, <3>3
    <3>5. QED BY <3>4 DEF row
  <2>2. DaemonOK(w, run[w])'
    BY <1>1, <1>2, <2>1, InvOfDaemon DEF Begin, At, Mine, Quiet, Harmless, DaemonState, DaemonOK, Fresh, Status
  <2>3. QED BY <1>2, <1>4, <2>1, <2>2, OwnStepKeepsInv, InvOfDaemon DEF Begin
<1>5. QED BY <1>3, <1>4 DEF Begin

\* A renewal is refused to a daemon that has no lease, and to nobody else.
LEMMA RefusalMeansLost ==
    ASSUME CampaignInv, NEW w \in Daemons, NEW t \in Missions, NEW now \in Stamps, ~CanRenew(t, w, now)
    PROVE  ~Owns(w, t)
<1>1. now \in Nat /\ now <= clock /\ clock \in Nat
  BY StampsAreNaturals, InvOfDaemon DEF Stamps, StoreInv, StoreTypeOK
<1>2. leases[t] \in Lease \cup {NoLease}
  BY InvOfDaemon DEF StoreInv, StoreTypeOK
<1>3. QED BY <1>1, <1>2 DEF CanRenew, Owns, Live, Leased, Lease

\* A refused renewal means that the daemon has no lease any more.
LEMMA HeartbeatKeepsInv ==
    ASSUME CampaignInv, NEW w \in Daemons, Heartbeat(w) PROVE CampaignInv'
<1>0. Mine(w) \in Missions /\ Exists(Mine(w))
  BY MineExists DEF Heartbeat, Beating
<1>1. PICK now \in Stamps :
         \/ RenewLease(Mine(w), w, now, LeaseSeconds) /\ UNCHANGED run
         \/ /\ ~CanRenew(Mine(w), w, now)
            /\ run' = [run EXCEPT ![w].beat = "refused"]
            /\ UNCHANGED storeVars
  BY DEF Heartbeat
<1>2. CASE RenewLease(Mine(w), w, now, LeaseSeconds) /\ UNCHANGED run
  <2>1. Quiet(w)
    BY <1>0, <1>2, RenewIsQuiet, InvOfDaemon DEF Heartbeat
  <2>2. DaemonOK(w, run[w])'
    BY <1>0, <1>2, <2>1, InvOfDaemon DEF Heartbeat, Beating, Mine, Quiet, Harmless, DaemonState, DaemonOK, Fresh, Status
  <2>3. QED BY <1>2, <2>1, <2>2, OwnStepKeepsInv, InvOfDaemon DEF Heartbeat
<1>3. CASE ~CanRenew(Mine(w), w, now) /\ run' = [run EXCEPT ![w].beat = "refused"] /\ UNCHANGED storeVars
  <2>1. Quiet(w)
    BY <1>3, NothingIsQuiet, InvOfDaemon DEF Heartbeat
  <2>2. /\ run' \in [Daemons -> DaemonState] /\ \A v \in Daemons \ {w} : run'[v] = run[v]
        /\ run'[w] = [run[w] EXCEPT !.beat = "refused"]
    <3>. DEFINE row == [run[w] EXCEPT !.beat = "refused"]
    <3>1. run \in [Daemons -> DaemonState] /\ run[w] \in DaemonState
      BY InvOfDaemon
    <3>2. row \in DaemonState
      BY <1>3, <3>1 DEF DaemonState, Places
    <3>3. run' = [run EXCEPT ![w] = row]
      BY <1>3, <3>1
    <3>. HIDE DEF row
    <3>4. run' \in [Daemons -> DaemonState] /\ run'[w] = row /\ \A v \in Daemons \ {w} : run'[v] = run[v]
      BY <3>1, <3>2, <3>3
    <3>5. QED BY <3>4 DEF row
  <2>3. ~Owns(w, Mine(w))
    BY <1>0, <1>3, RefusalMeansLost
  <2>4. DaemonOK(w, run[w])'
    BY <1>0, <1>3, <2>1, <2>2, <2>3, InvOfDaemon
    DEF Heartbeat, Beating, Mine, storeVars, Exists, Owns, Live, Leased, DaemonState, DaemonOK, Fresh, Status
  <2>5. QED BY <2>1, <2>2, <2>4, OwnStepKeepsInv, InvOfDaemon DEF Heartbeat
<1>4. QED BY <1>1, <1>2, <1>3

\* mission_complete ends the lease of the mission with it.
LEMMA CompleteKeepsInv ==
    ASSUME CampaignInv, NEW w \in Daemons, Complete(w) PROVE CampaignInv'
<1>0. Mine(w) \in Missions /\ Exists(Mine(w))
  BY MineExists DEF Complete, At
<1>1. PICK s \in {"completada", "fallida"}, next \in {"followup", "repair"} :
         /\ SetStatus(Mine(w), s) /\ run' = [run EXCEPT ![w].chain = next]
         /\ next = "followup" => s = "completada"
  BY DEF Complete, Descendants
<1>2. Quiet(w) /\ leases'[Mine(w)] = NoLease /\ tasks'[Mine(w)].status = s
  BY <1>0, <1>1, StatusIsQuiet, StatusesAreDistinct, InvOfDaemon DEF Complete, Terminal
<1>3. /\ run' \in [Daemons -> DaemonState] /\ \A v \in Daemons \ {w} : run'[v] = run[v]
      /\ run'[w] = [run[w] EXCEPT !.chain = next]
  <2>. DEFINE row == [run[w] EXCEPT !.chain = next]
  <2>1. run \in [Daemons -> DaemonState] /\ run[w] \in DaemonState
    BY InvOfDaemon
  <2>2. row \in DaemonState
    BY <1>1, <2>1 DEF DaemonState, Places
  <2>3. run' = [run EXCEPT ![w] = row]
    BY <1>1, <2>1
  <2>. HIDE DEF row
  <2>4. run' \in [Daemons -> DaemonState] /\ run'[w] = row /\ \A v \in Daemons \ {w} : run'[v] = run[v]
    BY <2>1, <2>2, <2>3
  <2>5. QED BY <2>4 DEF row
<1>4. DaemonOK(w, run[w])'
  <2>1. run[w] \in DaemonState /\ DaemonOK(w, run[w]) /\ run[w].pc = "running" /\ lineage' = lineage
    BY InvOfDaemon DEF Complete, At
  <2>2. PICK t \in Missions : t = run[w].task /\ Exists(t)' /\ lineage'[t].repair_depth <= RepairLimit
    BY <1>2, <2>1, MineStays DEF Quiet
  <2>3. /\ run'[w].pc = "running" /\ run'[w].task = t /\ run'[w].beat = run[w].beat
        /\ run'[w].lost = run[w].lost /\ run'[w].chain = next
    BY <1>3, <2>1, <2>2 DEF DaemonState
  <2>4. next = "followup" => Status(t)' = "completada"
    BY <1>1, <1>2, <2>2 DEF Status, Mine
  <2>5. ~Owns(w, t)'
    BY <1>2, <2>2 DEF Owns, Live, Leased, Mine
  <2>6. run[w].lost => run[w].beat = "off"
    BY <2>1 DEF DaemonOK
  <2>7. QED BY <2>2, <2>3, <2>4, <2>5, <2>6 DEF DaemonOK
<1>5. QED BY <1>2, <1>3, <1>4, OwnStepKeepsInv, InvOfDaemon DEF Complete

\* The reason is in the store before the daemon goes on to the release.
LEMMA ReconcileKeepsInv ==
    ASSUME CampaignInv, NEW w \in Daemons, Reconcile(w) PROVE CampaignInv'
<1>0. Mine(w) \in Missions /\ Exists(Mine(w))
  BY MineExists DEF Reconcile, At
<1>1. Verdict(w) \in RuntimeLabels
  BY DEF Verdict, RuntimeLabels, ReasonLabels
<1>2. Quiet(w) /\ Verdict(w) \in checkpoints'[Mine(w)] /\ leases' = leases
  BY <1>0, <1>1, CheckpointIsQuiet, InvOfDaemon DEF Reconcile
<1>3. PICK g \in {"bloqueada", "pendiente"} :
         run' = [run EXCEPT ![w].pc = "releasing", ![w].goal = g]
         /\ (g = "bloqueada" => Verdict(w) \in ReasonLabels)
  BY DEF Reconcile
<1>4. /\ run' \in [Daemons -> DaemonState] /\ \A v \in Daemons \ {w} : run'[v] = run[v]
      /\ run'[w] = [run[w] EXCEPT !.pc = "releasing", !.goal = g]
  <2>. DEFINE row == [run[w] EXCEPT !.pc = "releasing", !.goal = g]
  <2>1. run \in [Daemons -> DaemonState] /\ run[w] \in DaemonState
    BY InvOfDaemon
  <2>2. row \in DaemonState
    BY <1>3, <2>1 DEF DaemonState, Places
  <2>3. run' = [run EXCEPT ![w] = row]
    BY <1>3, <2>1
  <2>. HIDE DEF row
  <2>4. run' \in [Daemons -> DaemonState] /\ run'[w] = row /\ \A v \in Daemons \ {w} : run'[v] = run[v]
    BY <2>1, <2>2, <2>3
  <2>5. QED BY <2>4 DEF row
<1>5. DaemonOK(w, run[w])'
  BY <1>0, <1>2, <1>3, <1>4, InvOfDaemon
  DEF Reconcile, At, Mine, Quiet, Harmless, DaemonState, DaemonOK, Fresh, Status, Owns, Live, Leased
<1>6. QED BY <1>2, <1>4, <1>5, OwnStepKeepsInv, InvOfDaemon DEF Reconcile

\* A mission released as blocked has its reason already.
LEMMA ReleaseKeepsCampaign ==
    ASSUME CampaignInv, NEW w \in Daemons, Release(w) PROVE CampaignInv'
<1>0. Mine(w) \in Missions /\ Exists(Mine(w)) /\ DaemonOK(w, run[w])
  BY MineExists, InvOfDaemon DEF Release, At
<1>1. run[w].goal \in {"pendiente", "bloqueada"} /\ run[w].goal \in Statuses
  BY <1>0, StatusesAreDistinct DEF Release, At, DaemonOK
<1>2. /\ Harmless(w)
      /\ \A u \in Missions : Exists(u)' => Exists(u)
      /\ tasks'[Mine(w)].status = run[w].goal
      /\ \A u \in Missions \ {Mine(w)} : tasks'[u] = tasks[u]
      /\ leases'[Mine(w)] = NoLease /\ checkpoints' = checkpoints
  BY <1>0, <1>1, ReleaseIsHarmless, InvOfDaemon DEF Release
<1>3. /\ run' \in [Daemons -> DaemonState] /\ \A v \in Daemons \ {w} : run'[v] = run[v]
      /\ run'[w] = [run[w] EXCEPT !.pc = "settled"]
  <2>. DEFINE row == [run[w] EXCEPT !.pc = "settled"]
  <2>1. run \in [Daemons -> DaemonState] /\ run[w] \in DaemonState
    BY InvOfDaemon
  <2>2. row \in DaemonState
    BY <2>1 DEF DaemonState, Places
  <2>3. run' = [run EXCEPT ![w] = row]
    BY <2>1 DEF Release
  <2>. HIDE DEF row
  <2>4. run' \in [Daemons -> DaemonState] /\ run'[w] = row /\ \A v \in Daemons \ {w} : run'[v] = run[v]
    BY <2>1, <2>2, <2>3
  <2>5. QED BY <2>4 DEF row
<1>4. DaemonOK(w, run[w])'
  <2>1. run[w] \in DaemonState /\ run[w].pc = "releasing" /\ lineage' = lineage
    BY InvOfDaemon DEF Release, At
  <2>2. PICK t \in Missions :
           /\ t = run[w].task /\ Exists(t)' /\ lineage'[t].repair_depth <= RepairLimit
           /\ run[w].chain = "followup" => Status(t)' = "completada"
    BY <1>2, <2>1, MineStays
  <2>3. /\ run'[w].pc = "settled" /\ run'[w].task = t /\ run'[w].beat = run[w].beat
        /\ run'[w].lost = run[w].lost /\ run'[w].chain = run[w].chain
    BY <1>3, <2>1, <2>2 DEF DaemonState
  <2>4. ~Owns(w, t)'
    BY <1>2, <2>2 DEF Owns, Live, Leased, Mine
  <2>5. run[w].lost => run[w].beat = "off"
    BY <1>0 DEF DaemonOK
  <2>6. QED BY <2>2, <2>3, <2>4, <2>5 DEF DaemonOK
<1>5. DaemonsOK' /\ RuntimeTypeOK' /\ LateOK'
  <2>1. /\ run \in [Daemons -> DaemonState] /\ DaemonsOK /\ LateOK /\ late \in LateCall
        /\ StoreTypeOK' /\ dirty \in [Missions -> BOOLEAN] /\ begun \in [Missions -> Nat]
        /\ slow \in BOOLEAN /\ crashes \in 0..MaxCrashes /\ unblocks \in 0..MaxUnblocks
        /\ lineage \in [Missions -> LineageRow]
    BY <1>2 DEF Harmless, StoreInv, CampaignInv, RuntimeTypeOK, DaemonState, Places, LateCall,
                LineageRow
  <2>2. UNCHANGED <<lineage, late, ghosts>>
    BY DEF Release
  <2>3. DaemonsOK'
    BY <1>2, <1>3, <1>4, <2>1, <2>2, OthersStayOK
  <2>4. QED BY <1>2, <1>3, <2>1, <2>2, <2>3, PartsAreTyped, LateStaysOK
<1>6. LineageOK'
  <2>1. \A t \in Missions : Repairs(t)' = Repairs(t) /\ lineage' = lineage
    BY <1>2 DEF Release, Repairs, Harmless
  <2>2. \A t \in Missions : PlaceOK(lineage[t])'
    BY <1>2, <2>1, PlaceStaysOK DEF CampaignInv, LineageOK, PlaceOK
  <2>3. QED BY <2>1, <2>2 DEF CampaignInv, LineageOK
<1>7. NoBlockedImports => BlockedHasReason'
  <2>1. run[w].goal = "bloqueada" => checkpoints[Mine(w)] \cap ReasonLabels # {}
    BY <1>0 DEF Release, At, DaemonOK, Mine
  <2>2. QED BY <1>2, <2>1 DEF CampaignInv, BlockedHasReason, Status
<1>8. QED BY <1>2, <1>5, <1>6, <1>7 DEF CampaignInv, Harmless

\* A new mission is nobody's second repair, and takes its place in the lineage.
LEMMA AddedKeepsInv ==
    ASSUME CampaignInv, NEW w, NEW c \in Missions, AddTask(c, NoKey, "pendiente"),
           UNCHANGED <<clock, ghosts>>,
           lineage' \in [Missions -> LineageRow],
           \A u \in Missions \ {c} : lineage'[u] = lineage[u],
           PlaceOK(lineage'[c]),
           lineage'[c].kind = "repair" =>
               lineage'[c].parent \in Missions /\ Repairs(lineage'[c].parent) = {},
           run' \in [Daemons -> DaemonState], \A v \in Daemons \ {w} : run'[v] = run[v],
           w \in Daemons => DaemonOK(w, run[w])',
           late' \in {late, NoCall}
    PROVE  CampaignInv'
<1>1. /\ Harmless(w)
      /\ ~Exists(c) /\ tasks'[c].status = "pendiente"
      /\ \A u \in Missions \ {c} : tasks'[u] = tasks[u]
      /\ checkpoints' = checkpoints
  BY AddIsHarmless DEF CampaignInv
<1>2. \A u \in Missions : Exists(u) => lineage'[u] = lineage[u]
  BY <1>1
<1>3. /\ run \in [Daemons -> DaemonState] /\ DaemonsOK /\ LateOK /\ late \in LateCall
      /\ StoreTypeOK' /\ dirty \in [Missions -> BOOLEAN] /\ begun \in [Missions -> Nat]
      /\ slow \in BOOLEAN /\ crashes \in 0..MaxCrashes /\ unblocks \in 0..MaxUnblocks
  BY <1>1 DEF Harmless, StoreInv, CampaignInv, RuntimeTypeOK, DaemonState, Places, LateCall
<1>4. DaemonsOK'
  BY <1>1, <1>2, <1>3, OthersStayOK
<1>5. late' \in LateCall /\ LateOK'
  <2>1. CASE late' = late
    BY <1>1, <1>3, <2>1, LateStaysOK
  <2>2. CASE late' = NoCall
    BY <2>2 DEF NoCall, LateCall, LateOK
  <2>3. QED BY <2>1, <2>2
<1>6. RuntimeTypeOK'
  BY <1>3, <1>4, <1>5, PartsAreTyped
<1>7. \A t \in Missions : Repairs(t)' \ {c} = Repairs(t)
  BY <1>1 DEF Repairs, Exists
<1>8. \A t \in Missions : c \in Repairs(t)' =>
          lineage'[c].kind = "repair" /\ lineage'[c].parent = t
  BY DEF Repairs
<1>9. LineageOK'
  <2>. SUFFICES ASSUME NEW t \in Missions
                PROVE  /\ PlaceOK(lineage[t])'
                       /\ \A a, b \in Repairs(t)' : a = b
    BY DEF LineageOK
  <2>1. PICK l \in LineageRow : l = lineage'[t] /\ PlaceOK(l)
    BY DEF CampaignInv, LineageOK
  <2>2. PlaceOK(lineage[t])'
    BY <1>1, <2>1, PlaceStaysOK
  <2>3. \A a, b \in Repairs(t)' : a = b
    <3>1. CASE c \in Repairs(t)'
      BY <1>7, <1>8, <3>1
    <3>2. CASE c \notin Repairs(t)'
      BY <1>7, <3>2 DEF CampaignInv, LineageOK
    <3>3. QED BY <3>1, <3>2
  <2>4. QED BY <2>2, <2>3
<1>10. NoBlockedImports => BlockedHasReason'
  BY <1>1 DEF CampaignInv, BlockedHasReason, Status, Exists
<1>11. QED BY <1>1, <1>4, <1>5, <1>6, <1>9, <1>10 DEF CampaignInv, Harmless

\* A root is no repair.
LEMMA RegisterKeepsInv ==
    ASSUME CampaignInv, NEW t \in Missions, Register(t) PROVE CampaignInv'
<1>1. lineage \in [Missions -> LineageRow] /\ Root \in LineageRow
  BY DEF CampaignInv, RuntimeTypeOK, LineageRow, Root
<1>2. /\ lineage' \in [Missions -> LineageRow] /\ lineage'[t] = Root
      /\ \A u \in Missions \ {t} : lineage'[u] = lineage[u]
  BY <1>1 DEF Register
<1>3. PlaceOK(lineage'[t]) /\ lineage'[t].kind # "repair"
  BY <1>2 DEF Root, PlaceOK
<1>4. run' \in [Daemons -> DaemonState] /\ \A v \in Daemons : run'[v] = run[v]
  BY DEF Register, CampaignInv, RuntimeTypeOK, DaemonState, Places
<1>5. NoOwner \notin Daemons
  OBVIOUS
<1>6. QED BY <1>2, <1>3, <1>4, <1>5, AddedKeepsInv DEF Register

\* A descendant is a repair of a mission without one and below the limit, or a
\* follow-up of a completed mission, of whatever depth its name gives it.
LEMMA DescendantFits ==
    ASSUME CampaignInv, NEW t \in Missions, Exists(t), NEW kind \in {"followup", "repair"},
           kind = "followup" => Status(t) = "completada", AddDescendant(t, kind)
    PROVE  \E c \in Missions :
              /\ AddTask(c, NoKey, "pendiente")
              /\ lineage' \in [Missions -> LineageRow]
              /\ \A u \in Missions \ {c} : lineage'[u] = lineage[u]
              /\ PlaceOK(lineage'[c])
              /\ lineage'[c].kind = "repair" =>
                     lineage'[c].parent \in Missions /\ Repairs(lineage'[c].parent) = {}
<1>1. PICK c \in Missions, named \in BOOLEAN :
         /\ kind = "repair" => named /\ MayRepair(t)
         /\ AddChild(c, t, kind, named)
  BY DEF AddDescendant
<1>. DEFINE row == [parent |-> t, kind |-> kind,
                    repair_depth |-> lineage[t].repair_depth + IF named THEN 1 ELSE 0]
<1>2. lineage \in [Missions -> LineageRow] /\ lineage[t].repair_depth \in Nat
  BY DEF CampaignInv, RuntimeTypeOK, LineageRow
<1>3. row.repair_depth \in Nat /\ (kind = "repair" => row.repair_depth <= RepairLimit)
  BY <1>1, <1>2 DEF MayRepair
<1>4. row \in LineageRow /\ row.kind = kind /\ row.parent = t
  BY <1>3 DEF LineageRow
<1>5. AddTask(c, NoKey, "pendiente") /\ lineage' = [lineage EXCEPT ![c] = row]
  BY <1>1 DEF AddChild
<1>6. kind = "repair" => Repairs(t) = {}
  BY <1>1 DEF MayRepair
<1>. HIDE DEF row
<1>7. /\ lineage' \in [Missions -> LineageRow] /\ lineage'[c] = row
      /\ \A u \in Missions \ {c} : lineage'[u] = lineage[u]
  BY <1>2, <1>4, <1>5
<1>8. PlaceOK(row)
  BY <1>3, <1>4 DEF PlaceOK
<1>9. QED BY <1>4, <1>5, <1>6, <1>7, <1>8

\* The descendants that a session registers.
LEMMA ChainKeepsInv ==
    ASSUME CampaignInv, NEW w \in Daemons, Chain(w) PROVE CampaignInv'
<1>0. /\ Mine(w) \in Missions /\ Exists(Mine(w)) /\ DaemonOK(w, run[w]) /\ run[w] \in DaemonState
      /\ run[w].pc = "running" /\ run[w].chain \in {"followup", "repair"}
      /\ run[w].chain = "followup" => Status(Mine(w)) = "completada"
  BY MineExists, InvOfDaemon DEF Chain, At, DaemonOK, Mine, DaemonState
<1>1. PICK next \in {"none", "followup", "repair"} :
         run' = [run EXCEPT ![w].chain = next] /\ next \in {"none", run[w].chain}
  BY <1>0 DEF Chain
<1>2. /\ run' \in [Daemons -> DaemonState] /\ \A v \in Daemons \ {w} : run'[v] = run[v]
      /\ run'[w] = [run[w] EXCEPT !.chain = next]
  <2>. DEFINE row == [run[w] EXCEPT !.chain = next]
  <2>1. run \in [Daemons -> DaemonState] /\ run[w] \in DaemonState
    BY InvOfDaemon
  <2>2. row \in DaemonState
    BY <1>1, <2>1 DEF DaemonState, Places
  <2>3. run' = [run EXCEPT ![w] = row]
    BY <1>1, <2>1
  <2>. HIDE DEF row
  <2>4. run' \in [Daemons -> DaemonState] /\ run'[w] = row /\ \A v \in Daemons \ {w} : run'[v] = run[v]
    BY <2>1, <2>2, <2>3
  <2>5. QED BY <2>4 DEF row
<1>3. /\ run'[w].pc = "running" /\ run'[w].task = run[w].task /\ run'[w].beat = run[w].beat
      /\ run'[w].lost = run[w].lost /\ run'[w].chain = next
  BY <1>0, <1>2 DEF DaemonState
<1>4. ASSUME Harmless(w), \A t \in Missions : Exists(t) => lineage'[t] = lineage[t]
      PROVE  DaemonOK(w, run[w])'
  <2>1. PICK t \in Missions : /\ t = run[w].task /\ Exists(t)'
                              /\ lineage'[t].repair_depth <= RepairLimit
                              /\ next = "followup" => Status(t)' = "completada"
    BY <1>0, <1>1, <1>4, MineStays
  <2>2. Owns(w, t)' => Owns(w, t)
    <3>1. clock' = clock /\ leases' = leases
      BY DEF Chain, AddDescendant, AddChild, AddTask, storeVars
    <3>2. QED BY <3>1 DEF Owns, Live, Leased
  <2>3. QED BY <1>0, <1>3, <2>1, <2>2 DEF DaemonOK
<1>5. CASE UNCHANGED <<storeVars, lineage>>
  <2>1. Quiet(w)
    BY <1>5, NothingIsQuiet, InvOfDaemon DEF Chain
  <2>2. DaemonOK(w, run[w])'
    BY <1>4, <1>5, <2>1 DEF Quiet
  <2>3. QED BY <1>2, <1>5, <2>1, <2>2, OwnStepKeepsInv, InvOfDaemon DEF Chain
<1>6. CASE AddDescendant(Mine(w), run[w].chain)
  <2>1. PICK c \in Missions :
              /\ AddTask(c, NoKey, "pendiente")
              /\ lineage' \in [Missions -> LineageRow]
              /\ \A u \in Missions \ {c} : lineage'[u] = lineage[u]
              /\ PlaceOK(lineage'[c])
              /\ lineage'[c].kind = "repair" =>
                     lineage'[c].parent \in Missions /\ Repairs(lineage'[c].parent) = {}
    BY <1>0, <1>6, DescendantFits
  <2>2. Harmless(w) /\ ~Exists(c)
    BY <2>1, AddIsHarmless DEF Chain, CampaignInv
  <2>3. DaemonOK(w, run[w])'
    BY <1>4, <2>1, <2>2
  <2>4. UNCHANGED <<clock, ghosts>> /\ late' \in {late, NoCall}
    BY DEF Chain
  <2>5. QED BY <1>2, <2>1, <2>3, <2>4, AddedKeepsInv
<1>7. QED BY <1>5, <1>6 DEF Chain

-----------------------------------------------------------------------------
(* The environment.                                                          *)
\* A quiet step that no daemon takes.
LEMMA WorldStepKeepsInv ==
    ASSUME CampaignInv, Quiet(NoOwner), UNCHANGED <<run, lineage>>,
           late' = late \/ (late' \in LateCall /\ LateOK'),
           dirty' \in [Missions -> BOOLEAN], begun' \in [Missions -> Nat], slow' \in BOOLEAN,
           crashes' \in 0..MaxCrashes, unblocks' \in 0..MaxUnblocks
    PROVE  CampaignInv'
<1>1. late' \in LateCall /\ StoreTypeOK'
  BY DEF CampaignInv, RuntimeTypeOK, LateCall, Quiet, Harmless, StoreInv
<1>2. \A w \in Daemons : run'[w].pc \notin {"off", "scan"} => run'[w].task \in Missions
  BY DEF CampaignInv, RuntimeTypeOK, Mine
<1>3. RuntimeTypeOK'
  BY <1>1, <1>2 DEF CampaignInv, RuntimeTypeOK, LateCall, Mine
<1>4. QED BY <1>3, QuietKeepsInv

\* The parts of the runtime that most steps of the environment leave alone.
LEMMA WorldIsTyped ==
    ASSUME CampaignInv
    PROVE  /\ dirty \in [Missions -> BOOLEAN] /\ begun \in [Missions -> Nat]
           /\ slow \in BOOLEAN /\ crashes \in 0..MaxCrashes /\ unblocks \in 0..MaxUnblocks
           /\ late \in LateCall /\ LateOK /\ StoreInv
BY DEF CampaignInv, RuntimeTypeOK, LateCall

\* The operator cancels a mission under whatever daemon holds it.
LEMMA OperatorCancelKeepsInv ==
    ASSUME CampaignInv, NEW t \in Missions, OperatorCancel(t) PROVE CampaignInv'
<1>1. Quiet(NoOwner)
  BY StatusIsQuiet, StatusesAreDistinct DEF OperatorCancel, CancelTask, CampaignInv
<1>2. QED BY <1>1, WorldIsTyped, WorldStepKeepsInv DEF OperatorCancel, runtimeVars

\* The operator lets a blocked mission run again.
LEMMA OperatorUnblockKeepsInv ==
    ASSUME CampaignInv, NEW t \in Missions, OperatorUnblock(t) PROVE CampaignInv'
<1>1. Quiet(NoOwner)
  BY StatusIsQuiet, StatusesAreDistinct DEF OperatorUnblock, CampaignInv
<1>2. /\ unblocks' \in 0..MaxUnblocks
      /\ begun' \in [Missions -> Nat] /\ dirty' \in [Missions -> BOOLEAN]
  BY WorldIsTyped DEF OperatorUnblock
<1>3. QED BY <1>1, <1>2, WorldIsTyped, WorldStepKeepsInv DEF OperatorUnblock

\* `campaign recover' while daemons run.
LEMMA RecoverKeepsInv ==
    ASSUME CampaignInv, Recover PROVE CampaignInv'
<1>1. Quiet(NoOwner)
  BY ResumeIsQuiet DEF Recover, CampaignInv
<1>2. QED BY <1>1, WorldIsTyped, WorldStepKeepsInv DEF Recover, runtimeVars

\* Time passes.
LEMMA PassTimeKeepsInv ==
    ASSUME CampaignInv, PassTime PROVE CampaignInv'
<1>1. Quiet(NoOwner)
  BY TimeIsQuiet DEF PassTime, CampaignInv
<1>2. QED BY <1>1, WorldIsTyped, WorldStepKeepsInv DEF PassTime

\* A stuttering step.
LEMMA StutterKeepsInv ==
    ASSUME CampaignInv, UNCHANGED campaignVars PROVE CampaignInv'
<1>1. Quiet(NoOwner)
  BY NothingIsQuiet DEF campaignVars, CampaignInv
<1>2. QED BY <1>1, WorldIsTyped, WorldStepKeepsInv DEF campaignVars, runtimeVars

\* A call that outlived its session reports the end of its mission, or gives up.
LEMMA CompleteLateKeepsInv ==
    ASSUME CampaignInv, CompleteLate PROVE CampaignInv'
<1>1. late.task \in Missions /\ Exists(late.task) /\ late \in LateCall
  BY WorldIsTyped DEF CompleteLate, LateOK
<1>2. CASE late' = NoCall /\ UNCHANGED storeVars
  <2>1. Quiet(NoOwner)
    BY <1>2, NothingIsQuiet, WorldIsTyped DEF CompleteLate
  <2>2. late' \in LateCall /\ LateOK'
    BY <1>2 DEF NoCall, LateCall, LateOK
  <2>3. QED BY <2>1, <2>2, WorldIsTyped, WorldStepKeepsInv DEF CompleteLate
<1>3. ASSUME NEW s \in {"completada", "fallida"}, SetStatus(late.task, s),
             late' = [late EXCEPT !.next = Descendants(s)]
      PROVE  CampaignInv'
  <2>1. PICK t \in Missions : t = late.task
    BY <1>1
  <2>2. s \in Statuses /\ s # "bloqueada" /\ StoreInv /\ UNCHANGED clock
    BY StatusesAreDistinct, WorldIsTyped DEF CompleteLate, Terminal
  <2>3. Quiet(NoOwner) /\ tasks'[t].status = s /\ Exists(t)
    BY <1>3, <2>1, <2>2, StatusIsQuiet
  <2>4. /\ late' \in LateCall /\ late'.task = t
        /\ late'.next = "followup" => s = "completada"
    BY <1>1, <1>3, <2>1 DEF LateCall, Descendants
  <2>5. Exists(t)' /\ Status(t)' = s
    BY <2>3 DEF Quiet, Harmless, Status
  <2>6. LateOK'
    BY <2>4, <2>5 DEF LateOK, Exists, Status
  <2>7. QED BY <2>3, <2>4, <2>6, WorldIsTyped, WorldStepKeepsInv DEF CompleteLate
<1>4. QED BY <1>2, <1>3 DEF CompleteLate

\* Its descendants are registered like those of a session.
LEMMA ChainLateKeepsInv ==
    ASSUME CampaignInv, ChainLate PROVE CampaignInv'
<1>1. /\ late.task \in Missions /\ Exists(late.task) /\ late.next \in {"followup", "repair"}
      /\ late.next = "followup" => Status(late.task) = "completada"
  BY WorldIsTyped DEF ChainLate, LateOK
<1>2. CASE late' = NoCall /\ UNCHANGED <<storeVars, lineage>>
  <2>1. Quiet(NoOwner)
    BY <1>2, NothingIsQuiet, WorldIsTyped DEF ChainLate
  <2>2. late' \in LateCall /\ LateOK'
    BY <1>2 DEF NoCall, LateCall, LateOK
  <2>3. QED BY <1>2, <2>1, <2>2, WorldIsTyped, WorldStepKeepsInv DEF ChainLate
<1>3. CASE AddDescendant(late.task, late.next) /\ late' \in {late, NoCall}
  <2>1. PICK c \in Missions :
              /\ AddTask(c, NoKey, "pendiente")
              /\ lineage' \in [Missions -> LineageRow]
              /\ \A u \in Missions \ {c} : lineage'[u] = lineage[u]
              /\ PlaceOK(lineage'[c])
              /\ lineage'[c].kind = "repair" =>
                     lineage'[c].parent \in Missions /\ Repairs(lineage'[c].parent) = {}
    BY <1>1, <1>3, DescendantFits
  <2>2. NoOwner \notin Daemons /\ UNCHANGED <<clock, run, ghosts>>
    BY DEF ChainLate
  <2>3. run' \in [Daemons -> DaemonState] /\ \A v \in Daemons \ {NoOwner} : run'[v] = run[v]
    BY <2>2 DEF CampaignInv, RuntimeTypeOK, DaemonState, Places
  <2>4. QED BY <1>3, <2>1, <2>2, <2>3, AddedKeepsInv
<1>4. QED BY <1>2, <1>3 DEF ChainLate

-----------------------------------------------------------------------------
\* The first state: no daemon runs, no lease is out.
LEMMA InitSatisfiesCampaign == CampaignInit => CampaignInv
<1>. SUFFICES ASSUME CampaignInit PROVE CampaignInv
  OBVIOUS
<1>1. StoreInv
  BY InitSatisfiesInv DEF CampaignInit
<1>2. run = [w \in Daemons |-> Off] /\ lineage = [t \in Missions |-> Root]
  BY DEF CampaignInit
<1>3. RuntimeTypeOK
  <2>1. \A w \in Daemons : run[w].pc = "off"
    BY <1>2 DEF Off
  <2>2. late = NoCall /\ NoCall.task = NoTask /\ NoCall.next = "none"
    BY DEF CampaignInit, NoCall
  <2>3. late \in LateCall
    BY <2>2 DEF NoCall, LateCall
  <2>4. run \in [Daemons -> DaemonState] /\ lineage \in [Missions -> LineageRow]
    <3>1. Root \in LineageRow
      BY DEF Root, LineageRow
    <3>2. \A w \in Daemons : Off \in DaemonState
      BY OffIsOK
    <3>3. QED BY <1>2, <3>1, <3>2
  <2>5. /\ dirty \in [Missions -> BOOLEAN] /\ begun \in [Missions -> Nat] /\ slow \in BOOLEAN
        /\ crashes \in 0..MaxCrashes /\ unblocks \in 0..MaxUnblocks
    <3>1. slow = FALSE /\ dirty = [t \in Missions |-> FALSE]
      BY DEF CampaignInit
    <3>2. begun = [t \in Missions |-> 0] /\ crashes = 0 /\ unblocks = 0
      BY DEF CampaignInit
    <3>3. slow \in BOOLEAN
      BY <3>1
    <3>4. dirty \in [Missions -> BOOLEAN]
      BY <3>1
    <3>5. QED BY <3>2, <3>3, <3>4
  <2>6. QED BY <1>1, <2>1, <2>3, <2>4, <2>5
            DEF StoreInv, RuntimeTypeOK, DaemonState, Places, LineageRow, LateCall
<1>4. DaemonsOK /\ LateOK
  <2>1. DaemonsOK
    BY <1>2 DEF DaemonsOK, DaemonOK, Fresh, Off
  <2>2. LateOK
    BY DEF CampaignInit, LateOK, NoCall
  <2>3. QED BY <2>1, <2>2
<1>5. LineageOK
  <2>1. \A t \in Missions :
           lineage[t].repair_depth = 0 /\ lineage[t].kind = "root"
    BY <1>2 DEF Root
  <2>2. \A t \in Missions : Repairs(t) = {}
    BY <2>1 DEF Repairs
  <2>3. \A t \in Missions : PlaceOK(lineage[t])
    BY <2>1 DEF PlaceOK
  <2>4. QED BY <2>2, <2>3 DEF LineageOK
<1>6. NoBlockedImports => BlockedHasReason
  BY DEF CampaignInit, StoreInit, NoBlockedImports, BlockedHasReason, Exists, Status
<1>7. QED BY <1>1, <1>3, <1>4, <1>5, <1>6 DEF CampaignInv

\* Every step keeps the invariant.
LEMMA CampaignStepKeepsInv ==
    ASSUME CampaignInv, [CampaignNext]_campaignVars PROVE CampaignInv'
<1>1. ASSUME NEW w \in Daemons, DaemonStep(w) PROVE CampaignInv'
  BY <1>1, StartKeepsInv, FinishKeepsInv, ChooseKeepsInv, ClaimKeepsCampaign, ClaimRefusedKeepsInv,
     CountKeepsCampaign, BeginKeepsInv, HeartbeatKeepsInv, JudgeRefusalKeepsInv,
     StartMutationKeepsInv, FinishMutationKeepsInv, CompleteKeepsInv, ChainKeepsInv,
     EndSessionKeepsInv, CloseHeartbeatKeepsInv, ReconcileNothingKeepsInv, ReconcileKeepsInv,
     ReleaseKeepsCampaign, ReleaseRefusedKeepsInv, NextMissionKeepsInv
  DEF DaemonStep
<1>2. QED BY <1>1, CrashKeepsInv, RegisterKeepsInv, OperatorCancelKeepsInv,
             OperatorUnblockKeepsInv, RecoverKeepsInv, PassTimeKeepsInv, StutterKeepsInv,
             CompleteLateKeepsInv, ChainLateKeepsInv
          DEF CampaignNext

\* The inductive invariant of the daemons and the store they share.
THEOREM CampaignInvariant == CampaignSpec => []CampaignInv
BY InitSatisfiesCampaign, CampaignStepKeepsInv, PTL DEF CampaignSpec

\* The daemons' own state, the lineage of the missions and the ghosts keep
\* their shape.
THEOREM RuntimeTypeCorrect == CampaignSpec => []RuntimeTypeOK
BY CampaignInvariant, PTL DEF CampaignInv

\* A mission that a daemon left blocked tells the operator why, wherever the
\* daemon stopped: the reason is in the store before the lease is given up.  No
\* daemon can give a reason for what an imported snapshot had blocked already.
THEOREM BlockedTellsWhy == NoBlockedImports => (CampaignSpec => []BlockedHasReason)
<1>1. CampaignInv => (NoBlockedImports => BlockedHasReason)
  BY DEF CampaignInv
<1>2. ASSUME NoBlockedImports PROVE CampaignInv => BlockedHasReason
  BY <1>1, <1>2
<1>3. ASSUME NoBlockedImports PROVE CampaignSpec => []BlockedHasReason
  BY <1>2, <1>3, CampaignInvariant, PTL
<1>4. QED BY <1>3

\* Repairs stop: no daemon ever works on a mission deeper than the limit, and a
\* mission has at most one repair, although a session may register follow-ups of
\* any depth by naming them like repairs.
THEOREM RepairsStop == CampaignSpec => []RepairsBounded
<1>1. CampaignInv => RepairsBounded
  <2>. SUFFICES ASSUME CampaignInv PROVE RepairsBounded
    OBVIOUS
  <2>1. \A w \in Daemons :
           run[w].pc \notin {"off", "scan"} => lineage[Mine(w)].repair_depth <= RepairLimit
    BY DEF CampaignInv, DaemonsOK, DaemonOK, Mine
  <2>2. ASSUME NEW t \in Missions PROVE Cardinality(Repairs(t)) <= 1
    <3>1. \A c, d \in Repairs(t) : c = d
      BY DEF CampaignInv, LineageOK
    <3>2. CASE Repairs(t) = {}
      BY <3>2, FS_EmptySet
    <3>3. CASE Repairs(t) # {}
      <4>1. PICK c \in Repairs(t) : Repairs(t) = {c}
        BY <3>1, <3>3
      <4>2. Cardinality(Repairs(t)) = 1
        BY <4>1, FS_Singleton
      <4>3. QED BY <4>2
    <3>4. QED BY <3>2, <3>3
  <2>3. QED BY <2>1, <2>2 DEF RepairsBounded
<1>2. QED BY <1>1, CampaignInvariant, PTL

-----------------------------------------------------------------------------
(* Who writes what.                                                          *)

\* The steps that may change a row of the leases.
LEMMA LeaseWriters ==
    ASSUME [CampaignNext]_campaignVars
    PROVE  \/ leases' = leases
           \/ clock' = clock /\ \E now \in Stamps : ResumeExpired(now)
           \/ \E v \in Daemons : Claim(v) \/ Heartbeat(v) \/ Complete(v) \/ Release(v)
           \/ CompleteLate
           \/ \E t \in Missions : OperatorCancel(t) \/ OperatorUnblock(t)
<1>1. ASSUME NEW v \in Daemons, DaemonStep(v) \/ Crash(v),
             ~(Start(v) \/ NextMission(v) \/ Claim(v) \/ Heartbeat(v) \/ Complete(v) \/ Release(v))
      PROVE  leases' = leases
  <2>1. CASE CountAttempt(v) \/ Begin(v) \/ Reconcile(v)
    BY <2>1 DEF CountAttempt, SetAttempts, Begin, Reconcile, CheckpointTask
  <2>2. CASE Chain(v)
    BY <2>2 DEF Chain, AddDescendant, AddChild, AddTask, storeVars
  <2>3. CASE UNCHANGED storeVars
    BY <2>3 DEF storeVars
  <2>4. QED BY <1>1, <2>1, <2>2, <2>3
            DEF DaemonStep, Finish, Choose, ClaimRefused, JudgeRefusal, StartMutation,
                FinishMutation, EndSession, CloseHeartbeat, ReconcileNothing, ReleaseRefused, Crash
<1>2. ASSUME NEW v \in Daemons, Start(v) \/ NextMission(v)
      PROVE  clock' = clock /\ \E now \in Stamps : ResumeExpired(now)
  BY <1>2 DEF Start, NextMission
<1>3. ASSUME Recover PROVE clock' = clock /\ \E now \in Stamps : ResumeExpired(now)
  BY <1>3 DEF Recover
<1>4. ASSUME NEW t \in Missions, Register(t) PROVE leases' = leases
  BY <1>4 DEF Register, AddTask
<1>5. ASSUME PassTime \/ UNCHANGED campaignVars PROVE leases' = leases
  BY <1>5 DEF PassTime, campaignVars, storeVars
<1>6. ASSUME ChainLate PROVE leases' = leases
  BY <1>6 DEF ChainLate, AddDescendant, AddChild, AddTask, storeVars
<1>7. QED BY <1>1, <1>2, <1>3, <1>4, <1>5, <1>6 DEF CampaignNext

\* Only a daemon itself, or its crash, writes what it remembers.
LEMMA RunWriters ==
    ASSUME CampaignInv, [CampaignNext]_campaignVars, NEW w \in Daemons
    PROVE  run'[w] = run[w] \/ DaemonStep(w) \/ Crash(w)
<1>1. run \in [Daemons -> DaemonState]
  BY InvOfDaemon DEF CampaignInv, RuntimeTypeOK, DaemonState, Places
<1>2. ASSUME NEW v \in Daemons, v # w, DaemonStep(v) PROVE run'[w] = run[w]
  BY <1>1, <1>2 DEF DaemonStep, Start, Finish, Choose, Claim, ClaimRefused, CountAttempt, Begin,
       Heartbeat, JudgeRefusal, StartMutation, FinishMutation, Complete, Chain, EndSession,
       CloseHeartbeat, ReconcileNothing, Reconcile, Release, ReleaseRefused, NextMission
<1>3. ASSUME NEW v \in Daemons, v # w, Crash(v) PROVE run'[w] = run[w]
  BY <1>1, <1>3 DEF Crash
<1>4. QED BY <1>2, <1>3 DEF CampaignNext, campaignVars, runtimeVars, Register, OperatorCancel,
                            OperatorUnblock, Recover, PassTime, CompleteLate, ChainLate

\* What a call that outlived its session may do to its mission.
LEMMA LateEnd ==
    ASSUME CampaignInv, CompleteLate
    PROVE  \E u \in Missions, s \in Statuses :
              /\ u = late.task /\ s \in Terminal /\ clock' = clock
              /\ SetStatus(u, s) \/ UNCHANGED storeVars
<1>1. late.task \in Missions /\ clock' = clock
  BY WorldIsTyped DEF CompleteLate, LateOK
<1>2. PICK s \in {"completada", "fallida"} : SetStatus(late.task, s) \/ UNCHANGED storeVars
  BY DEF CompleteLate
<1>3. s \in Statuses /\ s \in Terminal
  BY StatusesAreDistinct
<1>4. QED BY <1>1, <1>2, <1>3

\* A daemon comes to hold a mission by its claim, keeps to it, and lets go with
\* the release; it takes the lease for lost only when a renewal was refused.
LEMMA HolderSteps ==
    ASSUME CampaignInv, NEW w \in Daemons, DaemonStep(w) \/ Crash(w), Holding(w)'
    PROVE  /\ Mine(w)' = Mine(w)
           /\ ~Release(w)
           /\ \/ Claim(w) /\ ~Holding(w) /\ ~run'[w].lost
              \/ /\ Holding(w) /\ ~Claim(w)
                 /\ \/ run'[w].lost = run[w].lost
                    \/ run[w].beat = "refused" /\ run'[w].lost = (Status(Mine(w)) \notin Terminal)
<1>1. run \in [Daemons -> DaemonState] /\ run[w] \in DaemonState /\ DaemonOK(w, run[w])
  BY InvOfDaemon
<1>2. CASE Start(w) \/ Finish(w) \/ ClaimRefused(w) \/ ReleaseRefused(w) \/ NextMission(w) \/ Crash(w)
  <2>1. run'[w] = Off \/ \E done : run'[w] = Scanning(done)
    BY <1>1, <1>2 DEF Start, Finish, ClaimRefused, ReleaseRefused, NextMission, Crash
  <2>2. Off.pc = "off" /\ \A done : Scanning(done).pc = "scan"
    BY DEF Off, Scanning
  <2>3. run'[w].pc \in {"off", "scan"}
    BY <2>1, <2>2
  <2>4. QED BY <2>3 DEF Holding
<1>3. CASE Choose(w) \/ Release(w) \/ ReconcileNothing(w)
  BY <1>1, <1>3 DEF Choose, Release, ReconcileNothing, Holding, Off, DaemonState
<1>4. CASE Claim(w)
  <2>1. ~Holding(w) /\ ~run[w].lost
    BY <1>1, <1>4 DEF Claim, At, Holding, DaemonOK, Fresh
  <2>2. run'[w].task = run[w].task /\ run'[w].lost = run[w].lost
    BY <1>1, <1>4 DEF Claim, DaemonState
  <2>3. ~Release(w)
    BY <1>4 DEF Claim, Release, At
  <2>4. QED BY <1>4, <2>1, <2>2, <2>3 DEF Mine
<1>5. CASE CountAttempt(w) \/ Begin(w) \/ StartMutation(w) \/ FinishMutation(w) \/ Complete(w)
           \/ Chain(w) \/ EndSession(w) \/ CloseHeartbeat(w) \/ Reconcile(w)
  <2>1. Holding(w) /\ ~Claim(w) /\ ~Release(w)
    BY <1>5 DEF CountAttempt, Begin, StartMutation, FinishMutation, Complete, Chain, EndSession,
               CloseHeartbeat, Reconcile, Claim, Release, At, Holding
  <2>2. CASE CountAttempt(w) \/ Begin(w) \/ StartMutation(w) \/ FinishMutation(w)
             \/ CloseHeartbeat(w) \/ Reconcile(w)
    BY <1>1, <2>1, <2>2 DEF CountAttempt, Begin, StartMutation, FinishMutation, CloseHeartbeat,
                            Reconcile, DaemonState, Mine
  <2>3. CASE Complete(w) \/ Chain(w)
    <3>1. PICK next : run' = [run EXCEPT ![w].chain = next]
      BY <2>3 DEF Complete, Chain
    <3>2. QED BY <1>1, <2>1, <3>1 DEF DaemonState, Mine
  <2>4. CASE EndSession(w)
    BY <1>1, <2>1, <2>4 DEF EndSession, DaemonState, Mine
  <2>5. QED BY <1>5, <2>2, <2>3, <2>4
<1>6. CASE Heartbeat(w)
  <2>1. Holding(w) /\ ~Claim(w) /\ ~Release(w)
    BY <1>6 DEF Heartbeat, Beating, Claim, Release, At, Holding
  <2>2. run'[w].task = run[w].task /\ run'[w].lost = run[w].lost
    BY <1>1, <1>6 DEF Heartbeat, DaemonState
  <2>3. QED BY <2>1, <2>2 DEF Mine
<1>7. CASE JudgeRefusal(w)
  <2>1. /\ run[w].beat = "refused" /\ run'[w].pc = run[w].pc /\ run'[w].task = run[w].task
        /\ run'[w].lost = (Status(Mine(w)) \notin Terminal)
        /\ run'[w].beat = "off"
    BY <1>1, <1>7 DEF JudgeRefusal, DaemonState
  <2>2. Holding(w)
    BY <2>1 DEF Holding
  <2>3. ~Claim(w) /\ ~Release(w)
    <3>1. ~Claim(w)
      BY <1>1, <2>1, <2>2 DEF Claim, At, Holding
    <3>2. ~Release(w)
      <4>1. ASSUME Release(w) PROVE run'[w].pc = "settled"
        BY <1>1, <4>1 DEF Release, DaemonState
      <4>2. QED BY <4>1 DEF Holding
    <3>3. QED BY <3>1, <3>2
  <2>4. QED BY <2>1, <2>2, <2>3 DEF Mine
<1>8. QED BY <1>2, <1>3, <1>4, <1>5, <1>6, <1>7 DEF DaemonStep

-----------------------------------------------------------------------------
(* Leases.                                                                   *)

\* What a step can do to a lease that has not expired: it stays, perhaps renewed
\* by its owner, or goes with the end of the mission, or its owner releases it.
LEMMA LiveLeaseStep ==
    ASSUME CampaignInv, [CampaignNext]_campaignVars, NEW t \in Missions, Live(t)
    PROVE  \/ leases'[t] = leases[t]
           \/ /\ Leased(t)' /\ leases'[t].owner = leases[t].owner
              /\ clock' = clock
              /\ LockWait < LeaseSeconds => leases'[t].expires > clock
           \/ Status(t)' \in Terminal
           \/ Release(leases[t].owner) /\ Mine(leases[t].owner) = t
<1>0. StoreInv /\ leases[t] \in Lease /\ Leased(t) /\ leases[t].expires > clock
  BY DEF CampaignInv, StoreInv, StoreTypeOK, Live, Leased
<1>1. ASSUME NEW now \in Stamps, ResumeExpired(now), clock' = clock PROVE leases'[t] = leases[t]
  BY <1>0, <1>1, ResumeIsQuiet
<1>2. ASSUME NEW now \in Stamps
      PROVE  /\ now \in Nat /\ now <= clock /\ clock \in Nat
             /\ now + LeaseSeconds \in Nat
             /\ LockWait < LeaseSeconds => now + LeaseSeconds > clock
  BY <1>0, StampsAreNaturals DEF Stamps, StoreInv, StoreTypeOK
<1>3. ASSUME NEW v \in Daemons, Claim(v) PROVE leases'[t] = leases[t] \/
             /\ Leased(t)' /\ leases'[t].owner = leases[t].owner
             /\ clock' = clock
             /\ LockWait < LeaseSeconds => leases'[t].expires > clock
  <2>1. PICK now \in Stamps : ClaimTask(Mine(v), v, now, LeaseSeconds)
    BY <1>3 DEF Claim
  <2>2. CASE Mine(v) # t
    BY <1>0, <2>1, <2>2 DEF ClaimTask, TakeLease, StoreInv, StoreTypeOK
  <2>3. CASE Mine(v) = t
    <3>1. leases[t].owner = v
      BY <1>0, <1>2, <2>1, <2>3 DEF ClaimTask, HeldByOther, Lease
    <3>2. leases'[t] = [owner |-> v, expires |-> now + LeaseSeconds]
      BY <1>0, <2>1, <2>3 DEF ClaimTask, TakeLease, StoreInv, StoreTypeOK
    <3>3. leases'[t] \in Lease
      BY <1>2, <3>2 DEF Lease
    <3>4. QED BY <1>2, <1>3, <3>1, <3>2, <3>3 DEF Leased, Claim
  <2>4. QED BY <2>2, <2>3
<1>4. ASSUME NEW v \in Daemons, Heartbeat(v) PROVE leases'[t] = leases[t] \/
             /\ Leased(t)' /\ leases'[t].owner = leases[t].owner
             /\ clock' = clock
             /\ LockWait < LeaseSeconds => leases'[t].expires > clock
  <2>1. CASE UNCHANGED storeVars
    BY <2>1 DEF storeVars
  <2>2. ASSUME NEW now \in Stamps, RenewLease(Mine(v), v, now, LeaseSeconds)
        PROVE leases'[t] = leases[t] \/
             /\ Leased(t)' /\ leases'[t].owner = leases[t].owner
             /\ clock' = clock
             /\ LockWait < LeaseSeconds => leases'[t].expires > clock
    <3>1. CASE Mine(v) # t
      BY <1>0, <2>2, <3>1 DEF RenewLease, StoreInv, StoreTypeOK
    <3>2. CASE Mine(v) = t
      <4>1. leases'[t] = [leases[t] EXCEPT !.expires = now + LeaseSeconds]
        BY <1>0, <2>2, <3>2 DEF RenewLease, StoreInv, StoreTypeOK
      <4>2. /\ leases'[t] \in Lease /\ leases'[t].owner = leases[t].owner
            /\ leases'[t].expires = now + LeaseSeconds
        BY <1>0, <1>2, <4>1 DEF Lease
      <4>3. QED BY <1>2, <1>4, <4>2 DEF Leased, Heartbeat
    <3>3. QED BY <3>1, <3>2
  <2>3. QED BY <1>4, <2>1, <2>2 DEF Heartbeat
<1>5. ASSUME NEW u \in Missions, NEW s \in Statuses, SetStatus(u, s), clock' = clock
      PROVE  leases'[t] = leases[t] \/ Status(t)' \in Terminal
  BY <1>0, <1>5, StatusIsQuiet DEF Status
<1>6. ASSUME NEW v \in Daemons, Complete(v) PROVE leases'[t] = leases[t] \/ Status(t)' \in Terminal
  <2>1. Mine(v) \in Missions
    BY <1>6, MineExists DEF Complete, At
  <2>2. QED BY <1>5, <1>6, <2>1, StatusesAreDistinct DEF Complete
<1>7. ASSUME NEW v \in Daemons, Release(v)
      PROVE  leases'[t] = leases[t] \/ (v = leases[t].owner /\ Mine(v) = t)
  <2>1. CASE Mine(v) # t
    <3>1. leases' = [leases EXCEPT ![Mine(v)] = NoLease]
      BY <1>7 DEF Release, ReleaseTask, DropLease
    <3>2. QED BY <1>0, <2>1, <3>1 DEF StoreInv, StoreTypeOK
  <2>2. CASE Mine(v) = t
    BY <1>0, <1>7, <2>2 DEF Release, ReleaseTask, CanRelease
  <2>3. QED BY <2>1, <2>2
<1>8. ASSUME NEW u \in Missions, OperatorCancel(u) \/ OperatorUnblock(u)
      PROVE  leases'[t] = leases[t] \/ Status(t)' \in Terminal
  BY <1>5, <1>8, StatusesAreDistinct DEF OperatorCancel, CancelTask, OperatorUnblock
<1>9. ASSUME CompleteLate PROVE leases'[t] = leases[t] \/ Status(t)' \in Terminal
  BY <1>5, <1>9, LateEnd DEF storeVars
<1>10. QED BY <1>1, <1>3, <1>4, <1>6, <1>7, <1>8, <1>9, LeaseWriters

\* A lease that has not expired ends with its mission or by its own owner.
THEOREM LiveLeaseSafety == CampaignSpec => LiveLeaseEnds
<1>1. ASSUME CampaignInv, [CampaignNext]_campaignVars, NEW t \in Missions, Live(t), ~Leased(t)'
      PROVE  \/ Status(t)' \in Terminal
             \/ \E w \in Daemons :
                   /\ leases[t].owner = w /\ Mine(w) = t
                   /\ At(w, "releasing") /\ run'[w].pc = "settled"
  <2>1. leases[t] \in Lease /\ leases[t] # NoLease /\ leases'[t] = NoLease
    BY <1>1 DEF CampaignInv, StoreInv, StoreTypeOK, Live, Leased
  <2>2. CASE Status(t)' \in Terminal
    BY <2>2
  <2>3. CASE Release(leases[t].owner) /\ Mine(leases[t].owner) = t
    <3>1. leases[t].owner \in Daemons
      BY <2>1 DEF Lease
    <3>2. At(leases[t].owner, "releasing") /\ run'[leases[t].owner].pc = "settled"
      BY <1>1, <2>3, <3>1, InvOfDaemon DEF Release, DaemonState
    <3>3. QED BY <2>3, <3>1, <3>2
  <2>4. QED BY <1>1, <2>1, <2>2, <2>3, LiveLeaseStep
<1>2. CampaignInv /\ [CampaignNext]_campaignVars =>
          [\A t \in Missions : (Live(t) /\ ~Leased(t)') =>
              \/ Status(t)' \in Terminal
              \/ \E w \in Daemons :
                    /\ leases[t].owner = w /\ Mine(w) = t
                    /\ At(w, "releasing") /\ run'[w].pc = "settled"]_campaignVars
  BY <1>1
<1>3. QED BY <1>2, CampaignInvariant, PTL DEF CampaignSpec, LiveLeaseEnds

-----------------------------------------------------------------------------
(* The lease of a daemon that is not slower than it.                         *)
\* Only the passing of time moves the clock.
LEMMA ClockWriters ==
    ASSUME [CampaignNext]_campaignVars
    PROVE  PassTime \/ (clock' = clock /\ slow' = slow)
<1>1. ASSUME NEW w \in Daemons, DaemonStep(w) PROVE clock' = clock /\ UNCHANGED slow
  BY <1>1 DEF DaemonStep, Start, Finish, Choose, Claim, ClaimRefused, CountAttempt, Begin,
       Heartbeat, JudgeRefusal, StartMutation, FinishMutation, Complete, Chain, EndSession,
       CloseHeartbeat, ReconcileNothing, Reconcile, Release, ReleaseRefused, NextMission
<1>2. ASSUME NEW w \in Daemons, Crash(w) PROVE clock' = clock /\ UNCHANGED slow
  BY <1>2 DEF Crash
<1>3. ASSUME NEW t \in Missions, Register(t) \/ OperatorCancel(t) \/ OperatorUnblock(t)
      PROVE  clock' = clock /\ UNCHANGED slow
  BY <1>3 DEF Register, OperatorCancel, OperatorUnblock, runtimeVars
<1>4. ASSUME CompleteLate \/ ChainLate \/ Recover \/ UNCHANGED campaignVars
      PROVE  clock' = clock /\ UNCHANGED slow
  BY <1>4 DEF CompleteLate, ChainLate, Recover, campaignVars, runtimeVars
<1>5. QED BY <1>1, <1>2, <1>3, <1>4 DEF CampaignNext

\* A claim by the oldest reading of the clock still leaves a lease to live on.
LEMMA ClaimGetsLease ==
    ASSUME CampaignInv, LockWait < LeaseSeconds, NEW w \in Daemons, Claim(w)
    PROVE  HasLease(w)'
<1>0. StoreInv
  BY DEF CampaignInv
<1>1. PICK now \in Stamps : ClaimTask(Mine(w), w, now, LeaseSeconds)
  BY DEF Claim
<1>2. now \in Nat /\ clock \in Nat /\ now + LeaseSeconds \in Nat /\ now + LeaseSeconds > clock
  BY <1>0, StampsAreNaturals DEF Stamps, StoreInv, StoreTypeOK
<1>3. Mine(w) \in Missions
  BY <1>0, MineExists DEF Claim, At
<1>4. leases'[Mine(w)] = [owner |-> w, expires |-> now + LeaseSeconds]
  BY <1>0, <1>1, <1>3 DEF ClaimTask, TakeLease, StoreInv, StoreTypeOK
<1>5. leases'[Mine(w)] \in Lease /\ leases'[Mine(w)] # NoLease
  BY <1>0, <1>2, <1>4 DEF Lease
<1>6. run'[w].task = run[w].task /\ run'[w].lost = run[w].lost /\ ~run[w].lost
  BY <1>0, InvOfDaemon DEF Claim, At, DaemonState, DaemonOK, Fresh
<1>7. Mine(w)' = Mine(w) /\ clock' = clock
  BY <1>6 DEF Mine, Claim
<1>8. QED BY <1>2, <1>4, <1>5, <1>6, <1>7 DEF HasLease, Live, Leased

\* The lease of a prompt daemon, or of any where none has been slow, lasts to the
\* end of its mission or to its release.
LEMMA PromptKeepsLease ==
    ASSUME CampaignInv, LockWait < LeaseSeconds, [CampaignNext]_campaignVars, NEW w \in Daemons,
           w \in Prompt \/ ~slow', Holding(w), Holding(w)', HasLease(w)
    PROVE  HasLease(w)' \/ Status(Mine(w))' \in Terminal
<1>0. StoreInv /\ StoreInv'
  BY CampaignStepKeepsInv DEF CampaignInv
<1>1. Mine(w) \in Missions
  BY <1>0, MineExists DEF Holding
<1>2. run[w].beat # "refused" /\ ~run[w].lost
  BY <1>0, InvOfDaemon DEF HasLease, DaemonOK, Owns, Mine
<1>3. Mine(w)' = Mine(w) /\ run'[w].lost = run[w].lost
  BY <1>0, <1>2, RunWriters, HolderSteps DEF Mine
<1>4. ~Release(w)
  BY <1>0, HolderSteps DEF DaemonStep
<1>5. Live(Mine(w)) /\ leases[Mine(w)].owner = w
  BY DEF HasLease
<1>6. clock \in Nat /\ leases[Mine(w)].expires \in Nat /\ clock' \in Nat
  BY <1>0, <1>1, <1>5 DEF StoreInv, StoreTypeOK, Live, Leased, Lease
<1>7. CASE leases'[Mine(w)] = leases[Mine(w)]
  <2>1. leases[Mine(w)].expires > clock'
    <3>1. CASE clock' = clock
      BY <1>5, <3>1 DEF Live
    <3>2. CASE PassTime
      <4>1. w \notin Missing /\ clock' = clock + 1
        BY <3>2 DEF PassTime, Tick
      <4>2. CanRenew(Mine(w), w, clock)
        BY <1>5 DEF CanRenew, Live
      <4>3. QED BY <1>6, <4>1, <4>2 DEF Missing
    <3>3. QED BY <3>1, <3>2, ClockWriters
  <2>2. QED BY <1>2, <1>3, <1>5, <1>7, <2>1 DEF HasLease, Live, Leased
<1>8. CASE Leased(Mine(w))' /\ leases'[Mine(w)].owner = w /\ leases'[Mine(w)].expires > clock
           /\ clock' = clock
  BY <1>2, <1>3, <1>8 DEF HasLease, Live
<1>9. CASE Status(Mine(w))' \in Terminal
  BY <1>3, <1>9
<1>10. \/ leases'[Mine(w)] = leases[Mine(w)]
       \/ /\ Leased(Mine(w))' /\ leases'[Mine(w)].owner = w
          /\ leases'[Mine(w)].expires > clock /\ clock' = clock
       \/ Status(Mine(w))' \in Terminal
  <2>1. PICK t \in Missions : t = Mine(w) /\ Live(t) /\ leases[t].owner = w
    BY <1>1, <1>5
  <2>2. \/ leases'[t] = leases[t]
        \/ Leased(t)' /\ leases'[t].owner = w /\ clock' = clock /\ leases'[t].expires > clock
        \/ Status(t)' \in Terminal
    BY <1>0, <1>4, <2>1, LiveLeaseStep
  <2>3. QED BY <1>3, <2>1, <2>2 DEF Leased, Status
<1>11. QED BY <1>7, <1>8, <1>9, <1>10

\* A daemon comes to hold a mission with the lease on it, and a daemon that is
\* never slower than its lease keeps it to the end of the mission or to its own
\* release, whatever slow daemons, recoveries and the operator do meanwhile.
THEOREM PromptLeaseSafety == CampaignSpec => HolderKeepsLease
<1>1. ASSUME CampaignInv, [CampaignNext]_campaignVars, NEW w \in Prompt, Holding(w)'
      PROVE  \/ HasLease(w)'
             \/ Status(Mine(w))' \in Terminal
             \/ Holding(w) /\ ~HasLease(w)
  <2>0. w \in Daemons /\ LockWait < LeaseSeconds
    OBVIOUS
  <2>1. CASE Holding(w)
    BY <1>1, <2>0, <2>1, PromptKeepsLease
  <2>2. CASE ~Holding(w)
    <3>1. run'[w] # run[w]
      BY <1>1, <2>2 DEF Holding
    <3>2. Claim(w)
      BY <1>1, <2>0, <2>2, <3>1, RunWriters, HolderSteps
    <3>3. QED BY <1>1, <2>0, <3>2, ClaimGetsLease
  <2>3. QED BY <2>1, <2>2
<1>2. CampaignInv /\ [CampaignNext]_campaignVars =>
          [\A w \in Prompt :
              Holding(w)' => \/ HasLease(w)'
                             \/ Status(Mine(w))' \in Terminal
                             \/ Holding(w) /\ ~HasLease(w)]_campaignVars
  BY <1>1
<1>3. QED BY <1>2, CampaignInvariant, PTL DEF CampaignSpec, HolderKeepsLease

-----------------------------------------------------------------------------
(* One executor.                                                             *)

\* The steps that may change the row of a mission of the store.
LEMMA RowWriters ==
    ASSUME CampaignInv, [CampaignNext]_campaignVars
    PROVE  \/ \A t \in Missions : Exists(t) => tasks'[t] = tasks[t]
           \/ clock' = clock /\ \E now \in Stamps : ResumeExpired(now)
           \/ \E v \in Daemons :
                 Claim(v) \/ CountAttempt(v) \/ Heartbeat(v) \/ Complete(v) \/ Release(v)
           \/ CompleteLate
           \/ \E t \in Missions : OperatorCancel(t) \/ OperatorUnblock(t)
<1>0. StoreInv
  BY DEF CampaignInv
<1>. DEFINE Kept == \A t \in Missions : Exists(t) => tasks'[t] = tasks[t]
<1>a. ASSUME UNCHANGED storeVars PROVE Kept
  BY <1>a DEF storeVars
<1>b. ASSUME NEW t, NEW kind, AddDescendant(t, kind), clock' = clock PROVE Kept
  <2>1. PICK c \in Missions : AddTask(c, NoKey, "pendiente")
    BY <1>b DEF AddDescendant, AddChild
  <2>2. QED BY <1>0, <1>b, <2>1, AddIsHarmless
<1>1. ASSUME NEW v \in Daemons, DaemonStep(v) \/ Crash(v),
             ~(Start(v) \/ NextMission(v) \/ Claim(v) \/ CountAttempt(v) \/ Heartbeat(v)
                 \/ Complete(v) \/ Release(v))
      PROVE  \A t \in Missions : Exists(t) => tasks'[t] = tasks[t]
  <2>1. CASE Begin(v) \/ Reconcile(v)
    BY <2>1 DEF Begin, Reconcile, CheckpointTask
  <2>2. CASE Chain(v)
    BY <1>a, <1>b, <2>2 DEF Chain
  <2>3. CASE UNCHANGED storeVars
    BY <2>3 DEF storeVars
  <2>4. QED BY <1>1, <2>1, <2>2, <2>3
            DEF DaemonStep, Finish, Choose, ClaimRefused, JudgeRefusal, StartMutation,
                FinishMutation, EndSession, CloseHeartbeat, ReconcileNothing, ReleaseRefused, Crash
<1>2. ASSUME NEW v \in Daemons, Start(v) \/ NextMission(v)
      PROVE  clock' = clock /\ \E now \in Stamps : ResumeExpired(now)
  BY <1>2 DEF Start, NextMission
<1>3. ASSUME Recover PROVE clock' = clock /\ \E now \in Stamps : ResumeExpired(now)
  BY <1>3 DEF Recover
<1>4. ASSUME NEW u \in Missions, Register(u)
      PROVE \A t \in Missions : Exists(t) => tasks'[t] = tasks[t]
  BY <1>0, <1>4, AddIsHarmless DEF Register
<1>5. ASSUME PassTime \/ UNCHANGED campaignVars PROVE tasks' = tasks
  BY <1>5 DEF PassTime, campaignVars, storeVars
<1>6. ASSUME ChainLate PROVE Kept
  BY <1>6, <1>a, <1>b DEF ChainLate
<1>7. QED BY <1>1, <1>2, <1>3, <1>4, <1>5, <1>6 DEF CampaignNext

\* What each of them does to the status and the attempts of a mission.
LEMMA RowStep ==
    ASSUME CampaignInv, [CampaignNext]_campaignVars, NEW t \in Missions, Exists(t)
    PROVE  \/ /\ tasks'[t].status = tasks[t].status
              /\ \/ tasks'[t].attempts = tasks[t].attempts
                 \/ \E v \in Daemons : CountAttempt(v) /\ Mine(v) = t
                                       /\ tasks'[t].attempts = run[v].read + 1
           \/ /\ tasks'[t].attempts = tasks[t].attempts
              /\ \/ /\ tasks[t].status = "delegada" /\ tasks'[t].status = "pendiente"
                    /\ clock' = clock /\ ~Live(t) /\ Leased(t) /\ \E now \in Stamps : ResumeExpired(now)
                 \/ \E v \in Daemons : Claim(v) /\ Mine(v) = t /\ tasks'[t].status = "delegada"
                                       /\ tasks[t].status \notin Terminal
                 \/ \E v \in Daemons : Complete(v) /\ Mine(v) = t /\ tasks'[t].status \in Terminal
                 \/ \E v \in Daemons : Release(v) /\ Mine(v) = t /\ tasks'[t].status = run[v].goal
                 \/ CompleteLate /\ late.task = t /\ tasks'[t].status \in Terminal
                 \/ OperatorCancel(t) /\ tasks'[t].status \in Terminal
                 \/ OperatorUnblock(t) /\ tasks'[t].status = "pendiente"
                                       /\ tasks[t].status = "bloqueada"
<1>0. StoreInv /\ tasks[t] \in Task
  BY DEF CampaignInv, StoreInv, StoreTypeOK, Exists
<1>1. ASSUME NEW now \in Stamps, ResumeExpired(now), clock' = clock
      PROVE  /\ tasks'[t].attempts = tasks[t].attempts
             /\ \/ tasks'[t].status = tasks[t].status
                \/ /\ tasks[t].status = "delegada" /\ tasks'[t].status = "pendiente"
                   /\ ~Live(t) /\ Leased(t)
  <2>1. /\ tasks'[t].attempts = tasks[t].attempts
        /\ tasks'[t].status # tasks[t].status =>
             tasks[t].status = "delegada" /\ ~Live(t) /\ Leased(t)
    BY <1>0, <1>1, ResumeIsQuiet
  <2>2. tasks'[t].status # tasks[t].status => tasks'[t].status = "pendiente"
    <3>1. tasks'[t] = tasks[t] \/ tasks'[t] = Resumed(tasks[t])
      BY <1>1 DEF ResumeExpired
    <3>2. Resumed(tasks[t]).status = IF tasks[t].status = "delegada" THEN "pendiente"
                                                                     ELSE tasks[t].status
      BY <1>0 DEF Resumed, Unowned, Task
    <3>3. QED BY <3>1, <3>2
  <2>3. QED BY <2>1, <2>2
<1>2. ASSUME NEW v \in Daemons, Claim(v)
      PROVE  \/ tasks'[t] = tasks[t]
             \/ /\ Mine(v) = t /\ tasks'[t].attempts = tasks[t].attempts
                /\ tasks'[t].status = "delegada" /\ tasks[t].status \notin Terminal
  <2>1. PICK now \in Stamps : ClaimTask(Mine(v), v, now, LeaseSeconds)
    BY <1>2 DEF Claim
  <2>2. tasks' = [tasks EXCEPT ![Mine(v)].status = "delegada", ![Mine(v)].lease_owner = v,
                               ![Mine(v)].lease_expires = now + LeaseSeconds]
    BY <2>1 DEF ClaimTask, TakeLease
  <2>3. CASE Mine(v) # t
    BY <1>0, <2>2, <2>3 DEF StoreInv, StoreTypeOK
  <2>4. CASE Mine(v) = t
    <3>1. tasks[t].status \notin Terminal
      BY <2>1, <2>4 DEF ClaimTask
    <3>2. tasks'[t] = [tasks[t] EXCEPT !.status = "delegada", !.lease_owner = v,
                                       !.lease_expires = now + LeaseSeconds]
      BY <1>0, <2>2, <2>4 DEF StoreInv, StoreTypeOK
    <3>3. tasks'[t].attempts = tasks[t].attempts /\ tasks'[t].status = "delegada"
      BY <1>0, <3>2 DEF Task
    <3>4. QED BY <2>4, <3>1, <3>3
  <2>5. QED BY <2>3, <2>4
<1>3. ASSUME NEW v \in Daemons, CountAttempt(v)
      PROVE  \/ tasks'[t] = tasks[t]
             \/ /\ Mine(v) = t /\ tasks'[t].attempts = run[v].read + 1
                /\ tasks'[t].status = tasks[t].status
  <2>1. Mine(v) \in Missions /\ run[v].read + 1 \in Nat /\ clock' = clock
    BY <1>3, MineExists, InvOfDaemon DEF CountAttempt, At, DaemonState
  <2>2. PICK u \in Missions, n \in Nat : u = Mine(v) /\ n = run[v].read + 1 /\ SetAttempts(u, n)
    BY <1>3, <2>1 DEF CountAttempt
  <2>3. /\ tasks'[u].attempts = n
        /\ \A x \in Missions : Exists(x) => tasks'[x].status = tasks[x].status
        /\ \A x \in Missions \ {u} : tasks'[x] = tasks[x]
    BY <1>0, <2>1, <2>2, CountIsQuiet
  <2>4. QED BY <2>2, <2>3
<1>4. ASSUME NEW v \in Daemons, Heartbeat(v)
      PROVE  tasks'[t].attempts = tasks[t].attempts /\ tasks'[t].status = tasks[t].status
  <2>1. CASE UNCHANGED storeVars
    BY <2>1 DEF storeVars
  <2>2. ASSUME NEW now \in Stamps, RenewLease(Mine(v), v, now, LeaseSeconds)
        PROVE  tasks'[t].attempts = tasks[t].attempts /\ tasks'[t].status = tasks[t].status
    <3>1. tasks' = [tasks EXCEPT ![Mine(v)].lease_expires = now + LeaseSeconds]
      BY <2>2 DEF RenewLease
    <3>2. CASE Mine(v) # t
      BY <1>0, <3>1, <3>2 DEF StoreInv, StoreTypeOK
    <3>3. CASE Mine(v) = t
      <4>1. tasks'[t] = [tasks[t] EXCEPT !.lease_expires = now + LeaseSeconds]
        BY <1>0, <3>1, <3>3 DEF StoreInv, StoreTypeOK
      <4>2. QED BY <1>0, <4>1 DEF Task
    <3>4. QED BY <3>2, <3>3
  <2>3. QED BY <1>4, <2>1, <2>2 DEF Heartbeat
<1>5. ASSUME NEW u \in Missions, NEW s \in Statuses, SetStatus(u, s), clock' = clock
      PROVE  \/ tasks'[t] = tasks[t]
             \/ u = t /\ tasks'[t].attempts = tasks[t].attempts /\ tasks'[t].status = s
  BY <1>0, <1>5, StatusIsQuiet
<1>6. ASSUME NEW v \in Daemons, Complete(v)
      PROVE  \/ tasks'[t] = tasks[t]
             \/ /\ Mine(v) = t /\ tasks'[t].attempts = tasks[t].attempts
                /\ tasks'[t].status \in Terminal
  <2>1. Mine(v) \in Missions /\ clock' = clock
    BY <1>6, MineExists DEF Complete, At
  <2>2. PICK s \in {"completada", "fallida"} : SetStatus(Mine(v), s)
    BY <1>6 DEF Complete
  <2>3. s \in Statuses /\ s \in Terminal
    BY StatusesAreDistinct DEF Terminal
  <2>4. QED BY <1>5, <2>1, <2>2, <2>3
<1>7. ASSUME NEW v \in Daemons, Release(v)
      PROVE  \/ tasks'[t] = tasks[t]
             \/ /\ Mine(v) = t /\ tasks'[t].attempts = tasks[t].attempts
                /\ tasks'[t].status = run[v].goal
  <2>1. Mine(v) \in Missions /\ run[v].goal \in Statuses /\ clock' = clock
    BY <1>7, MineExists, InvOfDaemon, StatusesAreDistinct DEF Release, At, DaemonOK
  <2>2. PICK u \in Missions, s \in Statuses : u = Mine(v) /\ s = run[v].goal /\ ReleaseTask(u, v, s)
    BY <1>7, <2>1 DEF Release
  <2>3. /\ tasks'[u].status = s /\ tasks'[u].attempts = tasks[u].attempts
        /\ \A x \in Missions \ {u} : tasks'[x] = tasks[x]
    BY <1>0, <2>1, <2>2, ReleaseIsHarmless
  <2>4. QED BY <2>2, <2>3
<1>8. ASSUME NEW u \in Missions, OperatorCancel(u)
      PROVE  \/ tasks'[t] = tasks[t]
             \/ u = t /\ tasks'[t].attempts = tasks[t].attempts /\ tasks'[t].status \in Terminal
  <2>1. SetStatus(u, "cancelada") /\ clock' = clock
    BY <1>8 DEF OperatorCancel, CancelTask
  <2>2. "cancelada" \in Statuses /\ "cancelada" \in Terminal
    BY StatusesAreDistinct DEF Terminal
  <2>3. QED BY <1>5, <2>1, <2>2
<1>9. ASSUME NEW u \in Missions, OperatorUnblock(u)
      PROVE  \/ tasks'[t] = tasks[t]
             \/ /\ u = t /\ tasks'[t].attempts = tasks[t].attempts /\ tasks'[t].status = "pendiente"
                /\ tasks[t].status = "bloqueada"
  <2>1. SetStatus(u, "pendiente") /\ clock' = clock /\ tasks[u].status = "bloqueada"
    BY <1>9 DEF OperatorUnblock, Status
  <2>2. QED BY <1>5, <2>1, StatusesAreDistinct
<1>10. CASE \A x \in Missions : Exists(x) => tasks'[x] = tasks[x]
  BY <1>10
<1>11. CASE clock' = clock /\ \E now \in Stamps : ResumeExpired(now)
  BY <1>1, <1>11
<1>12. ASSUME NEW v \in Daemons,
              Claim(v) \/ CountAttempt(v) \/ Heartbeat(v) \/ Complete(v) \/ Release(v)
       PROVE  \/ tasks'[t].status = tasks[t].status /\ tasks'[t].attempts = tasks[t].attempts
              \/ CountAttempt(v) /\ Mine(v) = t /\ tasks'[t].status = tasks[t].status
                 /\ tasks'[t].attempts = run[v].read + 1
              \/ /\ Mine(v) = t /\ tasks'[t].attempts = tasks[t].attempts
                 /\ \/ Claim(v) /\ tasks'[t].status = "delegada" /\ tasks[t].status \notin Terminal
                    \/ Complete(v) /\ tasks'[t].status \in Terminal
                    \/ Release(v) /\ tasks'[t].status = run[v].goal
  BY <1>2, <1>3, <1>4, <1>6, <1>7, <1>12
<1>13. CASE \E u \in Missions : OperatorCancel(u) \/ OperatorUnblock(u)
  BY <1>8, <1>9, <1>13
<1>14. ASSUME CompleteLate
       PROVE  \/ tasks'[t] = tasks[t]
              \/ late.task = t /\ tasks'[t].attempts = tasks[t].attempts
                 /\ tasks'[t].status \in Terminal
  BY <1>5, <1>14, LateEnd DEF storeVars
<1>15. QED BY <1>10, <1>11, <1>12, <1>13, <1>14, RowWriters

\* A daemon that holds a mission has the lease of it, unless the mission ended,
\* and no two of them hold the same one.
Exclusive ==
    /\ \A w \in Daemons : Holding(w) => HasLease(w) \/ Status(Mine(w)) \in Terminal
    /\ \A v, w \in Daemons : (v # w /\ Holding(v) /\ Holding(w)) => Mine(v) # Mine(w)

\* An ended mission of a holder can be revived by the holder's own release only.
LEMMA EndedStaysEnded ==
    ASSUME CampaignInv, Exclusive, [CampaignNext]_campaignVars, NEW w \in Daemons,
           Holding(w), Holding(w)', Status(Mine(w)) \in Terminal
    PROVE  Status(Mine(w))' \in Terminal
<1>1. PICK t \in Missions : t = Mine(w) /\ Exists(t) /\ tasks[t].status \in Terminal
  BY MineExists DEF Holding, Status
<1>2. Mine(w)' = Mine(w) /\ ~Release(w)
  BY RunWriters, HolderSteps DEF Mine, DaemonStep
<1>3. \A v \in Daemons : ~(Release(v) /\ Mine(v) = t)
  <2>. SUFFICES ASSUME NEW v \in Daemons, Release(v), Mine(v) = t PROVE FALSE
    OBVIOUS
  <2>1. Holding(v)
    BY DEF Release, At, Holding
  <2>2. QED BY <1>1, <1>2, <2>1 DEF Exclusive
<1>4. tasks'[t].status \in Terminal
  BY <1>1, <1>3, RowStep, StatusesAreDistinct
<1>5. QED BY <1>1, <1>2, <1>4 DEF Status

\* A second daemon would need a claim, which the lease of the first refuses.
LEMMA ExclusiveStep ==
    ASSUME CampaignInv, LockWait < LeaseSeconds, ~slow', Exclusive, [CampaignNext]_campaignVars
    PROVE  Exclusive'
<1>1. ASSUME NEW w \in Daemons, Holding(w)', ~Holding(w) PROVE Claim(w)
  <2>1. run'[w] # run[w]
    BY <1>1 DEF Holding
  <2>2. QED BY <1>1, <2>1, RunWriters, HolderSteps
<1>2. ASSUME NEW w \in Daemons, Holding(w)' PROVE Mine(w)' = Mine(w)
  BY <1>2, RunWriters, HolderSteps DEF Mine
<1>3. ASSUME NEW w \in Daemons, Holding(w)' PROVE HasLease(w)' \/ Status(Mine(w))' \in Terminal
  <2>1. CASE ~Holding(w)
    BY <1>1, <1>3, <2>1, ClaimGetsLease
  <2>2. CASE Holding(w) /\ HasLease(w)
    BY <1>3, <2>2, PromptKeepsLease
  <2>3. CASE Holding(w) /\ ~HasLease(w)
    BY <1>3, <2>3, EndedStaysEnded DEF Exclusive
  <2>4. QED BY <2>1, <2>2, <2>3
<1>4. ASSUME NEW v \in Daemons, NEW w \in Daemons, v # w, Claim(v), Holding(w)
      PROVE  Mine(v) # Mine(w)
  <2>1. PICK now \in Stamps : ClaimTask(Mine(v), v, now, LeaseSeconds)
    BY <1>4 DEF Claim
  <2>2. now \in Nat /\ now <= clock /\ clock \in Nat
    BY StampsAreNaturals DEF Stamps, CampaignInv, StoreInv, StoreTypeOK
  <2>3. Mine(w) \in Missions
    BY <1>4, MineExists DEF Holding
  <2>4. CASE Status(Mine(w)) \in Terminal
    BY <2>1, <2>4 DEF ClaimTask, Status
  <2>5. CASE HasLease(w)
    <3>1. /\ Leased(Mine(w)) /\ leases[Mine(w)].expires > clock /\ leases[Mine(w)].owner = w
          /\ leases[Mine(w)].expires \in Nat
      BY <2>3, <2>5 DEF HasLease, Live, Leased, CampaignInv, StoreInv, StoreTypeOK, Lease
    <3>2. leases[Mine(w)].expires > now
      BY <2>2, <3>1
    <3>3. QED BY <1>4, <2>1, <3>1, <3>2 DEF ClaimTask, HeldByOther
  <2>6. QED BY <1>4, <2>4, <2>5 DEF Exclusive
<1>5. ASSUME NEW v \in Daemons, NEW w \in Daemons, v # w, Holding(v)', Holding(w)'
      PROVE  Mine(v)' # Mine(w)'
  <2>1. Mine(v)' = Mine(v) /\ Mine(w)' = Mine(w)
    BY <1>2, <1>5
  <2>2. CASE Holding(v) /\ Holding(w)
    BY <1>5, <2>1, <2>2 DEF Exclusive
  <2>3. CASE ~Holding(v) /\ Holding(w)
    BY <1>1, <1>4, <1>5, <2>1, <2>3
  <2>4. CASE Holding(v) /\ ~Holding(w)
    BY <1>1, <1>4, <1>5, <2>1, <2>4
  <2>5. CASE ~Holding(v) /\ ~Holding(w)
    <3>1. Claim(v) /\ Claim(w)
      BY <1>1, <1>5, <2>5
    <3>2. run'[v] = [run[v] EXCEPT !.pc = "claimed", !.read = tasks[Mine(v)].attempts,
                                   !.done = @ \cup {Mine(v)}]
          /\ run'[v] = run[v]
      BY <1>5, <3>1, InvOfDaemon DEF Claim
    <3>3. run[v].pc = "claimed"
      BY <3>2, InvOfDaemon DEF DaemonState
    <3>4. QED BY <2>5, <3>3 DEF Holding
  <2>6. QED BY <2>2, <2>3, <2>4, <2>5
<1>6. QED BY <1>3, <1>5 DEF Exclusive

\* Once a daemon has been slow it is not forgotten.
LEMMA SlowStays ==
    ASSUME [CampaignNext]_campaignVars, slow PROVE slow'
BY ClockWriters DEF PassTime

\* Until a daemon is slower than its lease, at most one session executes a
\* mission, however claims, recoveries, crashes, calls that outlived their
\* session and the operator interleave; readings of the clock may be old, by
\* less than a lease.
THEOREM OneExecutorSafety == LockWait < LeaseSeconds => (CampaignSpec => []OneExecutor)
<1>. SUFFICES ASSUME LockWait < LeaseSeconds PROVE CampaignSpec => []OneExecutor
  OBVIOUS
<1>. DEFINE Inv == CampaignInv /\ (~slow => Exclusive)
<1>1. CampaignInit => Inv
  <2>1. CampaignInit => Exclusive
    BY DEF CampaignInit, Exclusive, Holding, Off
  <2>2. QED BY <2>1, InitSatisfiesCampaign
<1>2. Inv /\ [CampaignNext]_campaignVars => Inv'
  BY CampaignStepKeepsInv, ExclusiveStep, SlowStays
<1>3. Inv => OneExecutor
  BY DEF OneExecutor, Exclusive, Holding, At
<1>4. QED BY <1>1, <1>2, <1>3, PTL DEF CampaignSpec

-----------------------------------------------------------------------------
(* A daemon on its own.                                                      *)

\* One daemon, not slower than its lease, whose process does not die in a run.
\* With two, one claims what the other has blocked since it chose the mission;
\* a crash loses the effects that were under way.
Lone == (\A v, w \in Daemons : v = w) /\ Prompt = Daemons /\ MaxCrashes = 0

\* What was left with unknown effects is finished, blocked, or about to be
\* blocked by the daemon that left it.
DirtyKept ==
    /\ \A t \in Missions : dirty[t] =>
          /\ Exists(t)
          /\ \/ Status(t) \in Terminal \cup {"bloqueada"}
             \/ \E w \in Daemons : Mine(w) = t /\ run[w].pc \in {"closing", "ended", "releasing"}
    /\ \A w \in Daemons :
          /\ run[w].pc \in {"chosen", "claimed", "counted", "running"} => ~dirty[Mine(w)]
          /\ (run[w].pc \in {"closing", "ended", "releasing"} /\ dirty[Mine(w)]) =>
                Unseen(w) /\ (At(w, "releasing") => run[w].goal = "bloqueada")

\* A lease belongs to a mission in work, and a mission in work is delegated or
\* has ended.
LeasesHeld ==
    /\ \A t \in Missions : Leased(t) => \E w \in Daemons : Holding(w) /\ Mine(w) = t
    /\ \A w \in Daemons : Holding(w) => Status(Mine(w)) \in Terminal \cup {"delegada"}

\* Sessions are never ahead of the attempts that are counted for them, and only
\* a mission with retries left is pending.
BudgetKept ==
    /\ \A t \in Missions :
          /\ begun[t] <= MaxRetries + 1
          /\ begun[t] = 0 \/ (Exists(t) /\ begun[t] <= tasks[t].attempts)
          /\ (Exists(t) /\ Status(t) = "pendiente") => begun[t] <= MaxRetries
    /\ \A w \in Daemons :
          /\ run[w].pc \in {"chosen", "claimed", "counted"} => begun[Mine(w)] <= MaxRetries
          /\ At(w, "claimed") => run[w].read = tasks[Mine(w)].attempts
          /\ At(w, "counted") => begun[Mine(w)] + 1 <= tasks[Mine(w)].attempts
          /\ (At(w, "releasing") /\ run[w].goal = "pendiente") => tasks[Mine(w)].attempts <= MaxRetries

-----------------------------------------------------------------------------
\* The missions' ghosts change at three points.
LEMMA GhostWriters ==
    ASSUME CampaignInv, MaxCrashes = 0, [CampaignNext]_campaignVars
    PROVE  /\ \/ dirty' = dirty
              \/ \E w \in Daemons : EndSession(w)
              \/ \E t \in Missions : OperatorUnblock(t)
           /\ \/ begun' = begun
              \/ \E w \in Daemons : Begin(w)
              \/ \E t \in Missions : OperatorUnblock(t)
<1>1. ASSUME NEW w \in Daemons, Crash(w) PROVE FALSE
  BY <1>1, InvOfDaemon DEF Crash
<1>2. ASSUME NEW w \in Daemons, DaemonStep(w)
      PROVE  (dirty' = dirty \/ EndSession(w)) /\ (begun' = begun \/ Begin(w))
  BY <1>2 DEF DaemonStep, Start, Finish, Choose, Claim, ClaimRefused, CountAttempt, Begin,
       Heartbeat, JudgeRefusal, StartMutation, FinishMutation, Complete, Chain, EndSession,
       CloseHeartbeat, ReconcileNothing, Reconcile, Release, ReleaseRefused, NextMission
<1>3. QED BY <1>1, <1>2 DEF CampaignNext, campaignVars, runtimeVars, Register, OperatorCancel,
                            Recover, PassTime, CompleteLate, ChainLate

\* A mission of the store stays there.
LEMMA MissionsStay ==
    ASSUME CampaignInv, [CampaignNext]_campaignVars, NEW t \in Missions, Exists(t)
    PROVE  Exists(t)'
<1>1. StoreInv
  BY DEF CampaignInv
<1>2. ASSUME NEW v \in Daemons, Claim(v) \/ CountAttempt(v) \/ Heartbeat(v) \/ Complete(v) \/ Release(v)
      PROVE  Exists(t)'
  <2>1. Mine(v) \in Missions /\ clock' = clock
    BY <1>2, MineExists
    DEF Claim, CountAttempt, Heartbeat, Beating, Complete, Release, At
  <2>2. CASE Claim(v)
    BY <1>1, <2>1, <2>2, ClaimIsQuiet DEF Claim, Quiet, Harmless
  <2>3. CASE CountAttempt(v)
    <3>1. run[v].read + 1 \in Nat
      BY InvOfDaemon DEF DaemonState
    <3>2. QED BY <1>1, <2>1, <2>3, <3>1, CountIsQuiet DEF CountAttempt, Quiet, Harmless
  <2>4. CASE Heartbeat(v)
    <3>1. CASE UNCHANGED storeVars
      BY <3>1 DEF storeVars, Exists
    <3>2. QED BY <1>1, <2>1, <2>4, <3>1, RenewIsQuiet DEF Heartbeat, Quiet, Harmless
  <2>5. CASE Complete(v)
    BY <1>1, <2>1, <2>5, StatusIsQuiet, StatusesAreDistinct DEF Complete, Quiet, Harmless
  <2>6. CASE Release(v)
    <3>1. run[v].goal \in Statuses
      BY <2>6, InvOfDaemon, StatusesAreDistinct DEF Release, At, DaemonOK
    <3>2. QED BY <1>1, <2>1, <2>6, <3>1, ReleaseIsHarmless DEF Release, Harmless
  <2>7. QED BY <1>2, <2>2, <2>3, <2>4, <2>5, <2>6
<1>3. ASSUME NEW u \in Missions, OperatorCancel(u) \/ OperatorUnblock(u) PROVE Exists(t)'
  BY <1>1, <1>3, StatusIsQuiet, StatusesAreDistinct
  DEF OperatorCancel, CancelTask, OperatorUnblock, Quiet, Harmless
<1>4. ASSUME NEW now \in Stamps, ResumeExpired(now), clock' = clock PROVE Exists(t)'
  BY <1>1, <1>4, ResumeIsQuiet DEF Quiet, Harmless
<1>5. ASSUME tasks'[t] = tasks[t] PROVE Exists(t)'
  BY <1>5 DEF Exists
<1>6. ASSUME CompleteLate PROVE Exists(t)'
  <2>1. PICK u \in Missions, s \in Statuses :
           /\ s \in Terminal /\ clock' = clock
           /\ SetStatus(u, s) \/ UNCHANGED storeVars
    BY <1>6, LateEnd
  <2>2. CASE SetStatus(u, s)
    BY <1>1, <2>1, <2>2, StatusIsQuiet, StatusesAreDistinct DEF Quiet, Harmless
  <2>3. CASE UNCHANGED storeVars
    BY <1>5, <2>3 DEF storeVars
  <2>4. QED BY <2>1, <2>2, <2>3
<1>7. QED BY <1>2, <1>3, <1>4, <1>5, <1>6, RowWriters

\* What a claim and a count do to the mission.
LEMMA ClaimEffect ==
    ASSUME CampaignInv, NEW w \in Daemons, Claim(w)
    PROVE  /\ tasks'[Mine(w)].status = "delegada"
           /\ tasks'[Mine(w)].attempts = tasks[Mine(w)].attempts
<1>1. PICK now \in Stamps : ClaimTask(Mine(w), w, now, LeaseSeconds)
  BY DEF Claim
<1>2. Mine(w) \in Missions /\ tasks[Mine(w)] \in Task
  BY MineExists DEF Claim, At
<1>3. tasks' = [tasks EXCEPT ![Mine(w)].status = "delegada", ![Mine(w)].lease_owner = w,
                             ![Mine(w)].lease_expires = now + LeaseSeconds]
  BY <1>1 DEF ClaimTask, TakeLease
<1>4. tasks'[Mine(w)] = [tasks[Mine(w)] EXCEPT !.status = "delegada", !.lease_owner = w,
                                               !.lease_expires = now + LeaseSeconds]
  BY <1>2, <1>3 DEF CampaignInv, StoreInv, StoreTypeOK
<1>5. QED BY <1>2, <1>4 DEF Task

\* The count is the attempts the claim has read, and one more.
LEMMA CountEffect ==
    ASSUME CampaignInv, NEW w \in Daemons, CountAttempt(w)
    PROVE  tasks'[Mine(w)].attempts = run[w].read + 1
<1>1. Mine(w) \in Missions /\ tasks[Mine(w)] \in Task
  BY MineExists DEF CountAttempt, At
<1>2. tasks' = [tasks EXCEPT ![Mine(w)].attempts = run[w].read + 1]
  BY DEF CountAttempt, SetAttempts
<1>3. tasks'[Mine(w)] = [tasks[Mine(w)] EXCEPT !.attempts = run[w].read + 1]
  BY <1>1, <1>2 DEF CampaignInv, StoreInv, StoreTypeOK
<1>4. QED BY <1>1, <1>3 DEF Task

\* Where a daemon goes from where, and what it keeps in mind.
LEMMA DaemonMoves ==
    ASSUME CampaignInv, NEW w \in Daemons, DaemonStep(w)
    PROVE  \/ /\ run'[w].pc \in {"off", "scan"}
              /\ \/ run[w].pc \in {"off", "scan", "chosen", "settled"}
                 \/ run[w].pc = "releasing" /\ ReleaseRefused(w)
                 \/ run[w].pc = "ended" /\ ReconcileNothing(w)
           \/ /\ run[w].pc = "scan" /\ run'[w].pc = "chosen" /\ Choose(w)
              /\ run'[w].task \in Candidates(w)
           \/ /\ run'[w].task = run[w].task
              /\ \/ /\ run[w].pc = "chosen" /\ run'[w].pc = "claimed" /\ Claim(w)
                    /\ run'[w].read = tasks[Mine(w)].attempts
                 \/ run[w].pc = "claimed" /\ run'[w].pc = "counted" /\ CountAttempt(w)
                 \/ run[w].pc = "counted" /\ run'[w].pc \in {"running", "ended"} /\ Begin(w)
                 \/ run[w].pc = "running" /\ run'[w].pc = "running"
                 \/ run[w].pc = "releasing" /\ run'[w].pc = "settled" /\ Release(w)
                 \/ run[w].pc = "ended" /\ run'[w].pc = "settled" /\ ReconcileNothing(w)
                 \/ /\ run'[w].inflight = run[w].inflight /\ run'[w].unknown = run[w].unknown
                    /\ \/ run[w].pc = "running" /\ run'[w].pc = "closing" /\ EndSession(w)
                       \/ run[w].pc = "closing" /\ run'[w].pc = "ended" /\ CloseHeartbeat(w)
                       \/ run[w].pc = "ended" /\ run'[w].pc = "releasing" /\ Reconcile(w)
                       \/ /\ run'[w].pc = run[w].pc /\ run'[w].goal = run[w].goal
                          /\ run[w].pc \notin {"chosen", "claimed", "counted"}
                          /\ Heartbeat(w) \/ JudgeRefusal(w)
<1>1. run \in [Daemons -> DaemonState] /\ run[w] \in DaemonState /\ DaemonOK(w, run[w])
  BY InvOfDaemon
<1>2. Off.pc = "off" /\ \A done : Scanning(done).pc = "scan"
  BY DEF Off, Scanning
<1>3. CASE Start(w) \/ Finish(w) \/ ClaimRefused(w) \/ ReleaseRefused(w) \/ NextMission(w)
  BY <1>1, <1>2, <1>3 DEF Start, Finish, ClaimRefused, ReleaseRefused, NextMission, At
<1>4. CASE Choose(w)
  <2>1. PICK t \in Candidates(w) : run' = [run EXCEPT ![w].pc = "chosen", ![w].task = t]
    BY <1>4 DEF Choose
  <2>2. run'[w].pc = "chosen" /\ run'[w].task = t
    BY <1>1, <2>1 DEF DaemonState
  <2>3. QED BY <1>4, <2>2 DEF Choose, At
<1>5. CASE Claim(w)
  BY <1>1, <1>5 DEF Claim, At, DaemonState
<1>6. CASE CountAttempt(w)
  BY <1>1, <1>6 DEF CountAttempt, At, DaemonState
<1>7. CASE Begin(w)
  BY <1>1, <1>7 DEF Begin, At, DaemonState
<1>8. CASE StartMutation(w) \/ FinishMutation(w) \/ Complete(w) \/ Chain(w)
  <2>1. run[w].pc = "running"
    BY <1>8 DEF StartMutation, FinishMutation, Complete, Chain, At
  <2>2. run'[w].pc = run[w].pc /\ run'[w].task = run[w].task
    BY <1>1, <1>8 DEF StartMutation, FinishMutation, Complete, Chain, DaemonState
  <2>3. QED BY <2>1, <2>2
<1>9. CASE EndSession(w)
  <2>1. PICK b \in BOOLEAN :
           run' = [run EXCEPT ![w].pc = "closing", ![w].spent = b, ![w].chain = "none"]
    BY <1>9 DEF EndSession
  <2>2. /\ run'[w].pc = "closing" /\ run'[w].task = run[w].task
        /\ run'[w].inflight = run[w].inflight /\ run'[w].unknown = run[w].unknown
    BY <1>1, <2>1 DEF DaemonState
  <2>3. QED BY <1>9, <2>2 DEF EndSession, At
<1>10. CASE CloseHeartbeat(w)
  BY <1>1, <1>10 DEF CloseHeartbeat, At, DaemonState
<1>11. CASE Reconcile(w)
  BY <1>1, <1>11 DEF Reconcile, At, DaemonState
<1>12. CASE Release(w)
  BY <1>1, <1>12 DEF Release, At, DaemonState
<1>13. CASE ReconcileNothing(w)
  BY <1>1, <1>2, <1>13 DEF ReconcileNothing, At, DaemonState
<1>14. CASE Heartbeat(w) \/ JudgeRefusal(w)
  <2>1. /\ run'[w].pc = run[w].pc /\ run'[w].task = run[w].task /\ run'[w].goal = run[w].goal
        /\ run'[w].inflight = run[w].inflight /\ run'[w].unknown = run[w].unknown
    BY <1>1, <1>14 DEF Heartbeat, JudgeRefusal, DaemonState
  <2>2. run[w].pc \notin {"chosen", "claimed", "counted"}
    BY <1>1, <1>14 DEF Heartbeat, Beating, JudgeRefusal, DaemonOK, Fresh
  <2>3. QED BY <1>14, <2>1, <2>2
<1>15. QED BY <1>3, <1>4, <1>5, <1>6, <1>7, <1>8, <1>9, <1>10, <1>11, <1>12, <1>13, <1>14
           DEF DaemonStep

\* A daemon that lets go of a mission without a release has seen its end.
LEMMA LeavingMeansEnded ==
    ASSUME CampaignInv, Exclusive, \A v \in Daemons : leases[Mine(v)] # NoLease => leases[Mine(v)].owner = v,
           NEW w \in Daemons, ReleaseRefused(w) \/ ReconcileNothing(w), ~Holding(w)'
    PROVE  Status(Mine(w)) \in Terminal
<1>1. Holding(w)
  BY DEF ReleaseRefused, ReconcileNothing, At, Holding
<1>2. tasks[Mine(w)] \in Task
  BY <1>1, MineExists DEF Holding
<1>3. CASE ReconcileNothing(w)
  BY <1>1, <1>3 DEF ReconcileNothing, Exclusive, HasLease
<1>4. CASE ReleaseRefused(w)
  <2>1. run[w].goal \in {"pendiente", "bloqueada"} /\ Exists(Mine(w))
    BY <1>4, InvOfDaemon, MineExists DEF ReleaseRefused, At, DaemonOK
  <2>2. ~MayMove(tasks[Mine(w)].status, run[w].goal)
    BY <1>4, <2>1 DEF ReleaseRefused, CanRelease, Leased
  <2>3. \A s \in Open : MayMove(s, "pendiente") /\ MayMove(s, "bloqueada")
    BY DEF MayMove, Targets, Open, Statuses
  <2>4. QED BY <1>2, <2>1, <2>2, <2>3 DEF Status, Task, Statuses
<1>5. QED BY <1>3, <1>4

\* Where there is one daemon, every lease is its own.
LEMMA LoneOwner ==
    ASSUME CampaignInv, Lone, NEW w \in Daemons, NEW t \in Missions, Leased(t)
    PROVE  leases[t].owner = w
BY DEF Lone, CampaignInv, StoreInv, StoreTypeOK, Leased, Lease

\* Where a lease comes from.
LEMMA LeaseOrigin ==
    ASSUME CampaignInv, [CampaignNext]_campaignVars, NEW t \in Missions, Leased(t)'
    PROVE  \/ leases'[t] = leases[t]
           \/ \E v \in Daemons : Mine(v) = t /\ Mine(v)' = t /\ Holding(v)'
<1>0. StoreInv /\ run \in [Daemons -> DaemonState]
  BY InvOfDaemon DEF CampaignInv, RuntimeTypeOK, DaemonState, Places
<1>1. ASSUME NEW now \in Stamps, ResumeExpired(now) PROVE leases'[t] = leases[t]
  BY <1>1 DEF ResumeExpired, Leased
<1>2. ASSUME NEW v \in Daemons, Claim(v) PROVE leases'[t] = leases[t] \/ Mine(v) = t
  <2>1. PICK now \in Stamps : ClaimTask(Mine(v), v, now, LeaseSeconds)
    BY <1>2 DEF Claim
  <2>2. leases' = [leases EXCEPT ![Mine(v)] = [owner |-> v, expires |-> now + LeaseSeconds]]
    BY <2>1 DEF ClaimTask, TakeLease
  <2>3. QED BY <1>0, <2>2 DEF StoreInv, StoreTypeOK
<1>3. ASSUME NEW v \in Daemons, Heartbeat(v) PROVE leases'[t] = leases[t] \/ Mine(v) = t
  <2>1. CASE UNCHANGED storeVars
    BY <2>1 DEF storeVars
  <2>2. ASSUME NEW now \in Stamps, RenewLease(Mine(v), v, now, LeaseSeconds)
        PROVE  leases'[t] = leases[t] \/ Mine(v) = t
    <3>1. leases' = [leases EXCEPT ![Mine(v)].expires = now + LeaseSeconds]
      BY <2>2 DEF RenewLease
    <3>2. QED BY <1>0, <3>1 DEF StoreInv, StoreTypeOK
  <2>3. QED BY <1>3, <2>1, <2>2 DEF Heartbeat
<1>4. ASSUME NEW v \in Daemons, Claim(v) \/ Heartbeat(v) PROVE Mine(v)' = Mine(v) /\ Holding(v)'
  <2>1. CASE Claim(v)
    BY <1>0, <2>1 DEF Claim, Mine, Holding, DaemonState
  <2>2. CASE Heartbeat(v)
    BY <1>0, <2>2 DEF Heartbeat, Beating, Mine, Holding, DaemonState
  <2>3. QED BY <1>4, <2>1, <2>2
<1>5. ASSUME NEW u \in Missions, NEW s \in Statuses, SetStatus(u, s), clock' = clock
      PROVE  leases'[t] = leases[t]
  BY <1>0, <1>5, StatusIsQuiet DEF Leased
<1>6. ASSUME NEW v \in Daemons, Complete(v) PROVE leases'[t] = leases[t]
  <2>1. Mine(v) \in Missions
    BY <1>6, MineExists DEF Complete, At
  <2>2. QED BY <1>5, <1>6, <2>1, StatusesAreDistinct DEF Complete
<1>7. ASSUME NEW v \in Daemons, Release(v) PROVE leases'[t] = leases[t]
  <2>1. leases' = [leases EXCEPT ![Mine(v)] = NoLease]
    BY <1>7 DEF Release, ReleaseTask, DropLease
  <2>2. QED BY <1>0, <2>1 DEF StoreInv, StoreTypeOK, Leased
<1>8. ASSUME NEW u \in Missions, OperatorCancel(u) \/ OperatorUnblock(u) PROVE leases'[t] = leases[t]
  BY <1>5, <1>8, StatusesAreDistinct DEF OperatorCancel, CancelTask, OperatorUnblock
<1>9. ASSUME NEW v \in Daemons, Claim(v) \/ Heartbeat(v) \/ Complete(v) \/ Release(v)
      PROVE  leases'[t] = leases[t] \/ (Mine(v) = t /\ Mine(v)' = t /\ Holding(v)')
  BY <1>2, <1>3, <1>4, <1>6, <1>7, <1>9
<1>10. ASSUME CompleteLate PROVE leases'[t] = leases[t]
  BY <1>5, <1>10, LateEnd DEF storeVars
<1>11. QED BY <1>1, <1>8, <1>9, <1>10, LeaseWriters

\* A lone daemon lets go of a mission by its release or after the mission's end.
LEMMA LeasesHeldStep ==
    ASSUME CampaignInv, Exclusive, Lone, LeasesHeld, [CampaignNext]_campaignVars
    PROVE  LeasesHeld'
<1>0. MaxCrashes = 0 /\ \A v, w \in Daemons : v = w
  BY DEF Lone
<1>1. ASSUME NEW w \in Daemons, Crash(w) PROVE FALSE
  BY <1>0, <1>1, InvOfDaemon DEF Crash
<1>2. ASSUME NEW t \in Missions, Leased(t)' PROVE \E w \in Daemons : Holding(w)' /\ Mine(w)' = t
  <2>1. CASE leases'[t] = leases[t]
    <3>1. Leased(t)
      BY <1>2, <2>1 DEF Leased
    <3>2. PICK w \in Daemons : Holding(w) /\ Mine(w) = t
      BY <3>1 DEF LeasesHeld
    <3>3. CASE Holding(w)'
      BY <3>2, <3>3, <1>1, RunWriters, HolderSteps DEF Mine
    <3>4. CASE ~Holding(w)'
      <4>1. DaemonStep(w)
        BY <1>1, <3>2, <3>4, RunWriters DEF Holding
      <4>2. Release(w) \/ ReleaseRefused(w) \/ ReconcileNothing(w)
        BY <3>2, <3>4, <4>1, DaemonMoves DEF Holding
      <4>3. ~Release(w)
        <5>1. ASSUME Release(w) PROVE leases' = [leases EXCEPT ![Mine(w)] = NoLease]
          BY <5>1 DEF Release, ReleaseTask, DropLease
        <5>2. leases \in [Missions -> Lease \cup {NoLease}]
          BY DEF CampaignInv, StoreInv, StoreTypeOK
        <5>3. QED BY <1>2, <3>2, <5>1, <5>2 DEF Leased
      <4>4. leases[t].owner = w
        BY <3>1, LoneOwner
      <4>5. \A v \in Daemons : leases[Mine(v)] # NoLease => leases[Mine(v)].owner = v
        BY <1>0, <3>2, <4>4
      <4>6. Status(t) \in Terminal
        BY <3>2, <3>4, <4>2, <4>3, <4>5, LeavingMeansEnded
      <4>7. Exists(t)
        BY <3>1 DEF CampaignInv, StoreInv, LeaseMirrored
      <4>8. QED BY <3>1, <4>6, <4>7 DEF CampaignInv, StoreInv, TerminalUnleased, Status
    <3>5. QED BY <3>3, <3>4
  <2>2. QED BY <1>2, <2>1, LeaseOrigin
<1>3. ASSUME NEW w \in Daemons, Holding(w)' PROVE Status(Mine(w))' \in Terminal \cup {"delegada"}
  <2>1. CASE ~Holding(w)
    <3>1. Claim(w) /\ Mine(w)' = Mine(w)
      <4>1. run'[w] # run[w]
        BY <1>3, <2>1 DEF Holding
      <4>2. QED BY <1>3, <2>1, <4>1, RunWriters, HolderSteps
    <3>2. QED BY <3>1, ClaimEffect DEF Status
  <2>2. CASE Holding(w) /\ Status(Mine(w)) \in Terminal
    BY <1>3, <2>2, EndedStaysEnded
  <2>3. CASE Holding(w) /\ Status(Mine(w)) = "delegada"
    <3>1. PICK t \in Missions : t = Mine(w) /\ Exists(t) /\ tasks[t].status = "delegada"
      BY <2>3, MineExists DEF Holding, Status
    <3>2. Mine(w)' = Mine(w) /\ ~Release(w)
      BY <1>3, RunWriters, HolderSteps DEF Mine, DaemonStep
    <3>3. Live(t)
      BY <2>3, <3>1, StatusesAreDistinct DEF Exclusive, HasLease
    <3>4. \A v \in Daemons : ~Release(v)
      BY <1>0, <3>2
    <3>5. tasks'[t].status \in Terminal \cup {"delegada"}
      BY <3>1, <3>3, <3>4, RowStep, StatusesAreDistinct
    <3>6. QED BY <3>1, <3>2, <3>5 DEF Status
  <2>4. QED BY <2>1, <2>2, <2>3 DEF LeasesHeld
<1>4. QED BY <1>2, <1>3 DEF LeasesHeld

\* Unknown effects lead to the verdict that blocks the mission, and nothing in
\* between, or between two runs, makes the mission eligible.
LEMMA DirtyKeptStep ==
    ASSUME CampaignInv, Exclusive, Lone, DirtyKept, [CampaignNext]_campaignVars
    PROVE  DirtyKept'
<1>. DEFINE After == {"closing", "ended", "releasing"}
            Before == {"chosen", "claimed", "counted", "running"}
<1>0. /\ MaxCrashes = 0 /\ \A v, w \in Daemons : v = w
      /\ run \in [Daemons -> DaemonState] /\ dirty \in [Missions -> BOOLEAN]
  BY InvOfDaemon DEF Lone, CampaignInv, RuntimeTypeOK, DaemonState, Places
<1>1. ASSUME NEW w \in Daemons PROVE run'[w] = run[w] \/ DaemonStep(w)
  BY <1>0, RunWriters, InvOfDaemon DEF Crash
<1>2. ASSUME NEW t \in Missions, dirty'[t], ~dirty[t]
      PROVE  \E w \in Daemons : EndSession(w) /\ Mine(w) = t
  <2>1. ASSUME NEW w \in Daemons, EndSession(w), Mine(w) # t PROVE dirty'[t] = dirty[t]
    BY <1>0, <2>1 DEF EndSession
  <2>2. ASSUME NEW u \in Missions, OperatorUnblock(u) PROVE dirty'[t] => dirty[t]
    BY <1>0, <2>2 DEF OperatorUnblock
  <2>3. QED BY <1>0, <1>2, <2>1, <2>2, GhostWriters
<1>3. ASSUME NEW w \in Daemons, EndSession(w)
      PROVE  /\ Mine(w)' = Mine(w) /\ Mine(w) \in Missions /\ Exists(Mine(w)) /\ ~dirty[Mine(w)]
             /\ run'[w].pc = "closing" /\ dirty'[Mine(w)] = Unseen(w) /\ (Unseen(w)' <=> Unseen(w))
  <2>1. PICK b \in BOOLEAN :
           run' = [run EXCEPT ![w].pc = "closing", ![w].spent = b, ![w].chain = "none"]
    BY <1>3 DEF EndSession
  <2>2. /\ run'[w].pc = "closing" /\ run'[w].task = run[w].task
        /\ run'[w].inflight = run[w].inflight /\ run'[w].unknown = run[w].unknown
    BY <1>0, <2>1 DEF DaemonState
  <2>3. Mine(w) \in Missions /\ Exists(Mine(w)) /\ ~dirty[Mine(w)]
    BY <1>3, MineExists DEF EndSession, At, DirtyKept
  <2>4. dirty'[Mine(w)] = (dirty[Mine(w)] \/ Unseen(w))
    BY <1>0, <1>3, <2>3 DEF EndSession
  <2>5. Unseen(w) \in BOOLEAN /\ (Unseen(w)' <=> Unseen(w))
    BY <2>2 DEF Unseen
  <2>6. QED BY <2>2, <2>3, <2>4, <2>5 DEF Mine
<1>4. ASSUME NEW t \in Missions, dirty'[t]
      PROVE  /\ Exists(t)'
             /\ \/ Status(t)' \in Terminal \cup {"bloqueada"}
                \/ \E w \in Daemons : Mine(w)' = t /\ run'[w].pc \in After
  <2>1. CASE ~dirty[t]
    BY <1>2, <1>3, <1>4, <2>1, MissionsStay
  <2>2. CASE dirty[t]
    <3>1. Exists(t) /\ Exists(t)'
      BY <2>2, MissionsStay DEF DirtyKept
    <3>2. \A v \in Daemons : ~(Claim(v) /\ Mine(v) = t)
      BY <2>2 DEF DirtyKept, Claim, At
    <3>3. \A v \in Daemons : Release(v) /\ Mine(v) = t => run[v].goal = "bloqueada"
      BY <2>2 DEF DirtyKept, Release, At
    <3>4. ~OperatorUnblock(t)
      <4>1. OperatorUnblock(t) => ~dirty'[t]
        BY <1>0 DEF OperatorUnblock
      <4>2. QED BY <1>4, <4>1
    <3>5. CASE Status(t) \in Terminal \cup {"bloqueada"}
      <4>1. tasks'[t].status \in Terminal \cup {"bloqueada"}
        BY <3>1, <3>2, <3>3, <3>4, <3>5, RowStep, StatusesAreDistinct DEF Status
      <4>2. QED BY <3>1, <4>1 DEF Status
    <3>6. CASE Status(t) \notin Terminal \cup {"bloqueada"}
      <4>1. PICK w \in Daemons : Mine(w) = t /\ run[w].pc \in After
        BY <2>2, <3>6 DEF DirtyKept
      <4>2. \/ run'[w].pc \in After /\ Mine(w)' = t
            \/ Release(w) \/ ReleaseRefused(w) \/ ReconcileNothing(w)
        BY <1>1, <4>1, DaemonMoves DEF Mine
      <4>3. CASE Release(w)
        <5>1. run[w].goal = "bloqueada" /\ run[w].goal \in Statuses
          BY <3>3, <4>1, <4>3, StatusesAreDistinct
        <5>2. PICK s \in Statuses : s = "bloqueada" /\ ReleaseTask(t, w, s) /\ clock' = clock
          BY <4>1, <4>3, <5>1 DEF Release
        <5>3. tasks'[t].status = "bloqueada"
          BY <5>2, ReleaseIsHarmless DEF CampaignInv
        <5>4. QED BY <3>1, <5>3 DEF Status
      <4>4. CASE ReleaseRefused(w) \/ ReconcileNothing(w)
        <5>1. \A v \in Daemons : leases[Mine(v)] # NoLease => leases[Mine(v)].owner = v
          BY <1>0, <4>1, LoneOwner DEF Leased
        <5>2. ~Holding(w)'
          <6>1. run'[w].pc \in {"off", "settled"}
            <7>1. Off.pc = "off"
              BY DEF Off
            <7>2. QED BY <1>0, <4>4, <7>1 DEF ReleaseRefused, ReconcileNothing, DaemonState
          <6>2. QED BY <6>1 DEF Holding
        <5>3. Status(t) \in Terminal
          BY <4>1, <4>4, <5>1, <5>2, LeavingMeansEnded
        <5>4. QED BY <3>6, <5>3
      <4>5. QED BY <3>1, <4>1, <4>2, <4>3, <4>4
    <3>7. QED BY <3>5, <3>6
  <2>3. QED BY <2>1, <2>2
<1>5. ASSUME NEW w \in Daemons, run'[w].pc \in Before PROVE ~dirty'[Mine(w)']
  <2>1. run'[w].pc # "closing"
    BY <1>5
  <2>2. \A v \in Daemons : ~EndSession(v)
    BY <1>0, <1>3, <2>1
  <2>3. \A t \in Missions : dirty'[t] => dirty[t]
    BY <1>2, <2>2
  <2>4. Mine(w)' \in Missions /\ ~dirty[Mine(w)']
    <3>1. CASE Choose(w) /\ run[w].pc = "scan" /\ run'[w].task \in Candidates(w)
      <4>1. PICK t \in Missions : t = run'[w].task /\ Exists(t) /\ Status(t) = "pendiente"
        BY <3>1 DEF Candidates, Eligible
      <4>2. ~\E v \in Daemons : run[v].pc \in After
        BY <1>0, <3>1
      <4>3. ~dirty[t]
        BY <4>1, <4>2, StatusesAreDistinct DEF DirtyKept
      <4>4. QED BY <4>1, <4>3 DEF Mine
    <3>2. CASE run[w].pc \in Before /\ run'[w].task = run[w].task
      <4>1. Mine(w) \in Missions /\ ~dirty[Mine(w)]
        BY <3>2, MineExists DEF DirtyKept
      <4>2. QED BY <3>2, <4>1 DEF Mine
    <3>3. QED BY <1>1, <1>5, <3>1, <3>2, DaemonMoves DEF Mine
  <2>5. QED BY <2>3, <2>4
<1>6. ASSUME NEW w \in Daemons, run'[w].pc \in After, dirty'[Mine(w)']
      PROVE  Unseen(w)' /\ (run'[w].pc = "releasing" => run'[w].goal = "bloqueada")
  <2>1. CASE EndSession(w)
    BY <1>3, <1>6, <2>1
  <2>2. CASE ~EndSession(w)
    <3>1. \A t \in Missions : dirty'[t] => dirty[t]
      BY <1>0, <1>2, <2>2
    <3>2. run[w].pc \in After \cup {"counted"} /\ run'[w].task = run[w].task
      BY <1>1, <1>6, <2>2, DaemonMoves
    <3>3. Mine(w) \in Missions /\ dirty[Mine(w)]
      BY <1>6, <3>1, <3>2, MineExists DEF Mine
    <3>4. run[w].pc \in After /\ Unseen(w) /\ (run[w].pc = "releasing" => run[w].goal = "bloqueada")
      BY <3>2, <3>3 DEF DirtyKept, At
    <3>5. CASE run'[w] = run[w]
      BY <3>4, <3>5 DEF Unseen
    <3>6. CASE Reconcile(w) /\ run'[w].inflight = run[w].inflight /\ run'[w].unknown = run[w].unknown
      <4>1. Verdict(w) = "runtime-effects-unknown"
        BY <3>4 DEF Verdict
      <4>2. run'[w].goal = "bloqueada"
        BY <1>0, <3>6, <4>1 DEF Reconcile, ReasonLabels, DaemonState
      <4>3. QED BY <3>4, <3>6, <4>2 DEF Unseen
    <3>7. CASE /\ run'[w].inflight = run[w].inflight /\ run'[w].unknown = run[w].unknown
               /\ \/ run'[w].pc = "ended"
                  \/ run'[w].pc = run[w].pc /\ run'[w].goal = run[w].goal
      BY <3>4, <3>7 DEF Unseen
    <3>8. QED BY <1>1, <1>6, <2>2, <3>4, <3>5, <3>6, <3>7, DaemonMoves
  <2>3. QED BY <2>1, <2>2
<1>7. QED BY <1>4, <1>5, <1>6 DEF DirtyKept, At, Mine

\* Only its daemon counts the attempts of a mission in work, and a mission in
\* work becomes pending by a release within the budget only.
LEMMA BudgetKeptStep ==
    ASSUME CampaignInv, Exclusive, Lone, LeasesHeld, BudgetKept, [CampaignNext]_campaignVars
    PROVE  BudgetKept'
<1>0. /\ MaxCrashes = 0 /\ \A v, w \in Daemons : v = w
      /\ run \in [Daemons -> DaemonState] /\ begun \in [Missions -> Nat]
      /\ StoreInv /\ MaxRetries \in Nat
  BY InvOfDaemon DEF Lone, CampaignInv, RuntimeTypeOK, DaemonState, Places
<1>1. ASSUME NEW w \in Daemons PROVE run'[w] = run[w] \/ DaemonStep(w)
  BY <1>0, RunWriters, InvOfDaemon DEF Crash
<1>2. ASSUME NEW t \in Missions
      PROVE  \/ begun'[t] = begun[t]
             \/ begun'[t] = 0
             \/ \E w \in Daemons : Begin(w) /\ Mine(w) = t /\ begun'[t] = begun[t] + 1
  <2>1. ASSUME NEW w \in Daemons, Begin(w)
        PROVE  begun'[t] = begun[t] \/ (Mine(w) = t /\ begun'[t] = begun[t] + 1)
    BY <1>0, <2>1 DEF Begin
  <2>2. ASSUME NEW u \in Missions, OperatorUnblock(u) PROVE begun'[t] = begun[t] \/ begun'[t] = 0
    BY <1>0, <2>2 DEF OperatorUnblock
  <2>3. QED BY <1>0, <2>1, <2>2, GhostWriters
<1>3. ASSUME NEW w \in Daemons, Begin(w)
      PROVE  /\ Mine(w) \in Missions /\ Exists(Mine(w)) /\ tasks' = tasks
             /\ begun[Mine(w)] <= MaxRetries /\ begun[Mine(w)] + 1 <= tasks[Mine(w)].attempts
             /\ Status(Mine(w)) # "pendiente"
             /\ run[w].pc = "counted" /\ run'[w].pc # "counted"
  <2>1. Mine(w) \in Missions /\ Exists(Mine(w)) /\ run[w].pc = "counted" /\ tasks' = tasks
    BY <1>3, MineExists DEF Begin, At, CheckpointTask
  <2>2. Status(Mine(w)) # "pendiente"
    BY <2>1, StatusesAreDistinct DEF LeasesHeld, Holding
  <2>3. run'[w].pc # "counted"
    BY <1>0, <1>3 DEF Begin, DaemonState
  <2>4. QED BY <2>1, <2>2, <2>3 DEF BudgetKept, At
<1>4. ASSUME NEW t \in Missions, Exists(t)
      PROVE  /\ tasks[t].attempts \in Nat
             /\ \/ tasks'[t].attempts = tasks[t].attempts
                \/ \E v \in Daemons : /\ CountAttempt(v) /\ Mine(v) = t /\ run[v].pc = "claimed"
                                      /\ tasks'[t].attempts = tasks[t].attempts + 1
  <2>1. tasks[t].attempts \in Nat
    BY <1>0, <1>4 DEF StoreInv, StoreTypeOK, Exists, Task
  <2>2. ASSUME NEW v \in Daemons, CountAttempt(v), Mine(v) = t
        PROVE  run[v].pc = "claimed" /\ run[v].read = tasks[t].attempts
    BY <2>2 DEF CountAttempt, At, BudgetKept
  <2>3. QED BY <1>4, <2>1, <2>2, RowStep
<1>5. ASSUME NEW t \in Missions
      PROVE  /\ begun'[t] <= MaxRetries + 1
             /\ begun'[t] = 0 \/ (Exists(t)' /\ begun'[t] <= tasks'[t].attempts)
             /\ (Exists(t)' /\ Status(t)' = "pendiente") => begun'[t] <= MaxRetries
  <2>0. begun[t] \in Nat /\ begun[t] <= MaxRetries + 1
    BY <1>0 DEF BudgetKept
  <2>1. CASE begun'[t] = 0
    BY <1>0, <2>1
  <2>2. ASSUME NEW w \in Daemons, Begin(w), Mine(w) = t, begun'[t] = begun[t] + 1
        PROVE  /\ begun'[t] <= MaxRetries + 1
               /\ Exists(t)' /\ begun'[t] <= tasks'[t].attempts
               /\ Status(t)' # "pendiente"
    BY <1>0, <1>3, <2>0, <2>2 DEF Exists, Status
  <2>3. CASE begun'[t] = begun[t] /\ begun[t] # 0
    <3>1. Exists(t) /\ Exists(t)' /\ begun[t] <= tasks[t].attempts
      BY <2>3, MissionsStay DEF BudgetKept
    <3>2. begun'[t] <= tasks'[t].attempts
      BY <1>4, <2>0, <2>3, <3>1
    <3>3. Status(t)' = "pendiente" => begun[t] <= MaxRetries
      <4>. SUFFICES ASSUME tasks'[t].status = "pendiente" PROVE begun[t] <= MaxRetries
        BY DEF Status
      <4>1. CASE tasks[t].status = "pendiente"
        BY <3>1, <4>1 DEF BudgetKept, Status
      <4>2. CASE tasks[t].status = "delegada" /\ ~Live(t) /\ Leased(t)
        <5>1. PICK w \in Daemons : Holding(w) /\ Mine(w) = t
          BY <4>2 DEF LeasesHeld
        <5>2. QED BY <4>2, <5>1, StatusesAreDistinct DEF Exclusive, HasLease, Status
      <4>3. ASSUME NEW v \in Daemons, Release(v), Mine(v) = t, tasks'[t].status = run[v].goal
            PROVE  begun[t] <= MaxRetries
        <5>1. tasks[t].attempts <= MaxRetries
          BY <4>3 DEF BudgetKept, Release, At
        <5>2. QED BY <1>0, <1>4, <2>0, <3>1, <5>1
      <4>4. CASE OperatorUnblock(t)
        BY <1>0, <2>3, <4>4 DEF OperatorUnblock
      <4>5. QED BY <3>1, <4>1, <4>2, <4>3, <4>4, RowStep, StatusesAreDistinct
    <3>4. QED BY <2>0, <2>3, <3>1, <3>2, <3>3
  <2>4. QED BY <1>2, <2>1, <2>2, <2>3
<1>6. ASSUME NEW w \in Daemons, run'[w].pc \in {"chosen", "claimed", "counted"}
      PROVE  begun'[Mine(w)'] <= MaxRetries
  <2>1. \A v \in Daemons : ~Begin(v)
    <3>. SUFFICES ASSUME Begin(w) PROVE FALSE
      BY <1>0
    <3>1. run'[w].pc \in {"running", "ended"}
      BY <1>0 DEF Begin, DaemonState
    <3>2. QED BY <1>6, <3>1
  <2>2. \A t \in Missions : begun[t] <= MaxRetries => begun'[t] <= MaxRetries
    BY <1>0, <1>2, <2>1
  <2>3. CASE Choose(w) /\ run'[w].task \in Candidates(w)
    <3>1. PICK t \in Missions : t = run'[w].task /\ Exists(t) /\ Status(t) = "pendiente"
      BY <2>3 DEF Candidates, Eligible
    <3>2. QED BY <2>2, <3>1 DEF BudgetKept, Mine
  <2>4. CASE run[w].pc \in {"chosen", "claimed", "counted"} /\ run'[w].task = run[w].task
    <3>1. Mine(w) \in Missions /\ begun[Mine(w)] <= MaxRetries
      BY <2>4, MineExists DEF BudgetKept
    <3>2. QED BY <2>2, <2>4, <3>1 DEF Mine
  <2>5. QED BY <1>1, <1>6, <2>3, <2>4, DaemonMoves
<1>7. ASSUME NEW w \in Daemons, run'[w] = run[w], run[w].pc \notin {"off", "scan"}
      PROVE  /\ tasks'[Mine(w)].attempts = tasks[Mine(w)].attempts /\ Mine(w)' = Mine(w)
             /\ begun'[Mine(w)] = begun[Mine(w)] \/ begun'[Mine(w)] = 0
  <2>1. PICK t \in Missions : t = Mine(w) /\ Exists(t)
    BY <1>7, MineExists
  <2>2. ~CountAttempt(w) /\ ~Begin(w)
    <3>1. ASSUME CountAttempt(w) PROVE run'[w].pc # run[w].pc
      BY <1>0, <3>1 DEF CountAttempt, At, DaemonState
    <3>2. ASSUME Begin(w) PROVE run'[w].pc # run[w].pc
      BY <1>0, <3>2 DEF Begin, At, DaemonState
    <3>3. QED BY <1>7, <3>1, <3>2
  <2>3. tasks'[t].attempts = tasks[t].attempts
    BY <1>0, <1>4, <2>1, <2>2
  <2>4. begun'[t] = begun[t] \/ begun'[t] = 0
    BY <1>0, <1>2, <2>2
  <2>5. QED BY <1>7, <2>1, <2>3, <2>4 DEF Mine
<1>8. ASSUME NEW w \in Daemons, run'[w].pc = "claimed"
      PROVE  run'[w].read = tasks'[Mine(w)'].attempts
  <2>1. CASE run'[w] = run[w]
    BY <1>7, <1>8, <2>1 DEF BudgetKept, At
  <2>2. CASE Claim(w) /\ run'[w].read = tasks[Mine(w)].attempts /\ run'[w].task = run[w].task
    BY <2>2, ClaimEffect DEF Mine
  <2>3. QED BY <1>1, <1>8, <2>1, <2>2, DaemonMoves
<1>9. ASSUME NEW w \in Daemons, run'[w].pc = "counted"
      PROVE  begun'[Mine(w)'] + 1 <= tasks'[Mine(w)'].attempts
  <2>1. CASE run'[w] = run[w]
    <3>1. Mine(w) \in Missions /\ tasks[Mine(w)].attempts \in Nat
      BY <1>9, <2>1, MineExists
    <3>2. begun[Mine(w)] + 1 <= tasks[Mine(w)].attempts /\ begun[Mine(w)] \in Nat
      BY <1>0, <1>9, <2>1, <3>1 DEF BudgetKept, At
    <3>3. tasks'[Mine(w)].attempts = tasks[Mine(w)].attempts /\ Mine(w)' = Mine(w)
          /\ (begun'[Mine(w)] = begun[Mine(w)] \/ begun'[Mine(w)] = 0)
      BY <1>7, <1>9, <2>1
    <3>4. begun'[Mine(w)] + 1 <= tasks'[Mine(w)].attempts
      BY <3>1, <3>2, <3>3
    <3>5. QED BY <3>3, <3>4
  <2>2. CASE run[w].pc = "claimed" /\ CountAttempt(w) /\ run'[w].task = run[w].task
    <3>1. PICK t \in Missions : t = Mine(w) /\ tasks[t].attempts \in Nat
      BY <2>2, MineExists
    <3>2. run[w].read = tasks[t].attempts
      BY <2>2, <3>1 DEF BudgetKept, At
    <3>3. tasks'[t].attempts = tasks[t].attempts + 1
      BY <2>2, <3>1, <3>2, CountEffect
    <3>4. begun[t] \in Nat /\ (begun[t] = 0 \/ begun[t] <= tasks[t].attempts)
      BY <1>0 DEF BudgetKept
    <3>5. begun' = begun
      BY <2>2 DEF CountAttempt
    <3>6. begun'[t] + 1 <= tasks'[t].attempts
      BY <3>1, <3>3, <3>4, <3>5
    <3>7. QED BY <2>2, <3>1, <3>6 DEF Mine
  <2>3. QED BY <1>1, <1>9, <2>1, <2>2, DaemonMoves
<1>10. ASSUME NEW w \in Daemons, run'[w].pc = "releasing", run'[w].goal = "pendiente"
       PROVE  tasks'[Mine(w)'].attempts <= MaxRetries
  <2>1. CASE run'[w] = run[w]
    BY <1>7, <1>10, <2>1 DEF BudgetKept, At
  <2>2. CASE run[w].pc = "ended" /\ Reconcile(w) /\ run'[w].task = run[w].task
    <3>1. tasks' = tasks /\ tasks[Mine(w)].attempts \in Nat
      BY <2>2, MineExists DEF Reconcile, CheckpointTask
    <3>2. Verdict(w) \notin ReasonLabels
      BY <1>0, <1>10, <2>2 DEF Reconcile, DaemonState
    <3>3. ~(tasks[Mine(w)].attempts > MaxRetries)
      BY <3>2 DEF Verdict, ReasonLabels
    <3>4. tasks[Mine(w)].attempts <= MaxRetries
      BY <1>0, <3>1, <3>3
    <3>5. QED BY <2>2, <3>1, <3>4 DEF Mine
  <2>3. CASE run[w].pc = "releasing" /\ run[w].goal = "pendiente" /\ run'[w].task = run[w].task
             /\ (Heartbeat(w) \/ JudgeRefusal(w))
    <3>1. ~Heartbeat(w)
      BY <2>3 DEF Heartbeat, Beating
    <3>2. tasks' = tasks
      BY <2>3, <3>1 DEF JudgeRefusal, storeVars
    <3>3. QED BY <2>3, <3>2 DEF BudgetKept, At, Mine
  <2>4. QED BY <1>1, <1>10, <2>1, <2>2, <2>3, DaemonMoves
<1>11. QED BY <1>5, <1>6, <1>8, <1>9, <1>10 DEF BudgetKept, At, Mine, Status

\* The inductive invariant of a daemon on its own.
LoneInv == CampaignInv /\ ~slow /\ Exclusive /\ DirtyKept /\ LeasesHeld /\ BudgetKept

\* A daemon that is not slow is not slower than its lease.
LEMMA PromptIsNotSlow ==
    ASSUME CampaignInv, Prompt = Daemons, [CampaignNext]_campaignVars, ~slow PROVE ~slow'
<1>1. CASE PassTime
  <2>1. Missing \subseteq Daemons
    BY DEF Missing
  <2>2. Missing = {}
    BY <1>1, <2>1 DEF PassTime
  <2>3. QED BY <1>1, <2>2 DEF PassTime
<1>2. QED BY <1>1, ClockWriters

\* The invariant of a lone daemon holds throughout.
LEMMA LoneInvariant == Lone => (CampaignSpec => []LoneInv)
<1>. SUFFICES ASSUME Lone PROVE CampaignSpec => []LoneInv
  OBVIOUS
<1>1. CampaignInit => LoneInv
  <2>. SUFFICES ASSUME CampaignInit PROVE LoneInv
    OBVIOUS
  <2>1. /\ run = [w \in Daemons |-> Off] /\ begun = [t \in Missions |-> 0]
        /\ dirty = [t \in Missions |-> FALSE] /\ leases = [t \in Missions |-> NoLease]
    BY DEF CampaignInit, StoreInit
  <2>2. \A w \in Daemons : run[w].pc = "off"
    BY <2>1 DEF Off
  <2>3. Exclusive /\ DirtyKept /\ LeasesHeld
    BY <2>1, <2>2 DEF Exclusive, DirtyKept, LeasesHeld, Holding, At, Leased
  <2>4. BudgetKept
    BY <2>1, <2>2 DEF BudgetKept, At
  <2>5. QED BY <2>3, <2>4, InitSatisfiesCampaign DEF LoneInv, CampaignInit
<1>2. LoneInv /\ [CampaignNext]_campaignVars => LoneInv'
  <2>. SUFFICES ASSUME LoneInv, [CampaignNext]_campaignVars PROVE LoneInv'
    OBVIOUS
  <2>1. CampaignInv' /\ ~slow'
    BY CampaignStepKeepsInv, PromptIsNotSlow DEF LoneInv, Lone
  <2>2. DirtyKept' /\ LeasesHeld' /\ BudgetKept'
    BY DirtyKeptStep, LeasesHeldStep, BudgetKeptStep DEF LoneInv
  <2>3. Exclusive'
    <3>1. CASE Daemons = {}
      BY <3>1 DEF Exclusive
    <3>2. CASE Daemons # {}
      <4>1. LockWait < LeaseSeconds
        BY <3>2 DEF Lone
      <4>2. QED BY <2>1, <4>1, ExclusiveStep DEF LoneInv
    <3>3. QED BY <3>1, <3>2
  <2>4. QED BY <2>1, <2>2, <2>3 DEF LoneInv
<1>3. QED BY <1>1, <1>2, PTL DEF CampaignSpec

\* A lone daemon never starts a mission again whose effects nobody knows, until
\* the operator has looked at it.
THEOREM DirtyMissionsWait == Lone => (CampaignSpec => []DirtyNotRetried)
<1>1. LoneInv => DirtyNotRetried
  BY DEF LoneInv, DirtyKept, DirtyNotRetried
<1>2. QED BY <1>1, LoneInvariant, PTL

\* A lone daemon begins at most max_retries + 1 sessions on a mission for each
\* decision of the operator, over any number of runs.
THEOREM RetriesBounded == Lone => (CampaignSpec => []RetryBudget)
<1>1. LoneInv => RetryBudget
  <2>1. LoneInv => BudgetKept
    BY DEF LoneInv
  <2>2. QED BY <2>1 DEF BudgetKept, RetryBudget
<1>2. QED BY <1>1, LoneInvariant, PTL
=============================================================================
