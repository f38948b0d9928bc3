-------------------------- MODULE CampaignRuntime --------------------------
(***************************************************************************)
(* The daemons that work off registered missions                           *)
(* (lilith_cli/mission/runtime.py, AutonomousCampaignRuntime) on top of    *)
(* the task store: every daemon is one owner of leases.                    *)
(*                                                                         *)
(* A daemon run is a loop: recover expired leases, choose an eligible      *)
(* mission from a snapshot, claim it, count the attempt, execute it in a   *)
(* session while a heartbeat renews the lease, and reconcile what the      *)
(* session left behind.  Each store call is an action of its own, so that  *)
(* the calls of several daemons, the operator and the passing of time      *)
(* interleave between them.  A crash loses everything but the store.       *)
(*                                                                         *)
(* A session is external to the daemon: it may start and finish mutating   *)
(* tool calls, call mission_complete (lilith_cli/mission/kernel.py), end   *)
(* at any moment, or never see the result of a call it made.               *)
(***************************************************************************)
EXTENDS OrchestrationStore, FiniteSets

CONSTANTS
    LeaseSeconds,   \* lease_seconds of every daemon
    MaxRetries,     \* max_retries of every mission
    MaxMissions,    \* max_missions of one daemon run
    Prompt,         \* the daemons that are never slower than their lease
    Mutating,       \* bound: daemons whose sessions call mutating tools
    Leaving,        \* bound: daemons whose sessions may leave a call behind
    RepairLimit,    \* repair_failed stops at this depth (2 in the code)
    Earlier,        \* bound: pairs of ids that are used in this order only
    MaxRoots,       \* bound: missions the operator registers
    MaxCrashes,     \* bound: crashes of daemons
    MaxUnblocks     \* bound: missions the operator unblocks

VARIABLES
    run,            \* run[w]: the volatile state of daemon w
    lineage,        \* lineage[t]: parent_task_id, repair_depth and kind of t
    dirty,          \* t was left with effects nobody saw the result of
    begun,          \* sessions begun on t since the operator last let it run
    late,           \* a mission_complete that outlived its session
    slow,           \* some daemon has been slower than its lease
    crashes, unblocks

ghosts == <<dirty, begun, slow, crashes, unblocks>>
runtimeVars == <<run, lineage, late, ghosts>>
campaignVars == <<storeVars, clock, runtimeVars>>

Daemons == Owners
Missions == TaskIds

ReasonLabels == {"runtime-effects-unknown", "runtime-budget-exhausted",
                 "runtime-retry-exhausted"}
RuntimeLabels == ReasonLabels \cup {"campaign-runtime-claimed", "runtime-released"}

ASSUME RuntimeConstants ==
    /\ NoTask \notin TaskIds
    /\ LeaseSeconds \in LeaseTimes
    /\ MaxRetries \in Nat
    /\ MaxMissions \in Nat \ {0}
    /\ Prompt \subseteq Owners
    /\ Mutating \cup Leaving \subseteq Owners
    /\ Prompt # {} => LockWait < LeaseSeconds
    /\ RepairLimit \in Nat
    /\ Earlier \subseteq TaskIds \X TaskIds
    /\ MaxRoots \in Nat
    /\ MaxCrashes \in Nat
    /\ MaxUnblocks \in Nat
    /\ RuntimeLabels \subseteq Labels

Off == [pc |-> "off", task |-> NoTask, read |-> 0, done |-> {}, beat |-> "off",
        inflight |-> FALSE, unknown |-> FALSE, spent |-> FALSE, lost |-> FALSE,
        goal |-> "none", chain |-> "none"]

\* The daemon between two missions of a run.
Scanning(done) == [Off EXCEPT !.pc = "scan", !.done = done]

\* No tool thread of an ended session is in MissionKernel.complete.
NoCall == [task |-> NoTask, next |-> "none"]

Root == [parent |-> NoTask, repair_depth |-> 0, kind |-> "root"]

Mine(w)    == run[w].task
At(w, pc)  == run[w].pc = pc
Status(t)  == tasks[t].status

\* A daemon that believes it owns a mission.
Holding(w) == run[w].pc \in
    {"claimed", "counted", "running", "closing", "ended", "releasing"}
Unseen(w)  == run[w].inflight \/ run[w].unknown

-----------------------------------------------------------------------------
CampaignInit ==
    /\ StoreInit
    /\ run = [w \in Daemons |-> Off]
    /\ lineage = [t \in Missions |-> Root]
    /\ dirty = [t \in Missions |-> FALSE]
    /\ begun = [t \in Missions |-> 0]
    /\ late = NoCall
    /\ slow = FALSE
    /\ crashes = 0
    /\ unblocks = 0

\* A fresh id.  Ids are opaque, so that a run may fix the order of their use.
NextId(c) == \A d \in Missions : <<d, c>> \in Earlier => Exists(d)

Roots == {m \in Missions : Exists(m) /\ lineage[m].kind = "root"}

\* MissionKernel.register of a mission without open questions for the operator
\* and without an interactive owner (both are registered as blocked, without
\* a reason, and are not the daemons').  The idempotency key of a mission is
\* derived from its id, so it adds nothing to the id; the routing of the long
\* run, written by a later transaction, is not read by the daemon.
Register(t) ==
    /\ Cardinality(Roots) < MaxRoots
    /\ NextId(t)
    /\ AddTask(t, NoKey, "pendiente")
    /\ lineage' = [lineage EXCEPT ![t] = Root]
    /\ UNCHANGED <<clock, run, late, ghosts>>

\* Mutant: what a child is for decides, and not its repair depth.
EligibleByKind(t) ==
    /\ Exists(t) /\ Status(t) = "pendiente"
    /\ LET p == lineage[t].parent IN
         p # NoTask => /\ Exists(p)
                       /\ Status(p) = IF lineage[t].kind = "repair"
                                        THEN "fallida" ELSE "completada"

\* _eligible: a root is; a child is when its parent has failed, if the child
\* has a repair depth, and when its parent is completed otherwise.
Eligible(t) ==
    /\ Exists(t) /\ Status(t) = "pendiente"
    /\ LET p == lineage[t].parent IN
         p # NoTask => /\ Exists(p)
                       /\ Status(p) = IF lineage[t].repair_depth > 0
                                        THEN "fallida" ELSE "completada"

\* run_async begins: expired leases are recovered first.
Start(w) ==
    /\ At(w, "off")
    /\ \E now \in Stamps : ResumeExpired(now)
    /\ run' = [run EXCEPT ![w] = Scanning({})]
    /\ UNCHANGED <<clock, lineage, late, ghosts>>

Candidates(w) == {t \in Missions \ run[w].done : Eligible(t)}

\* The loop ends: nothing eligible, max_missions reached, or the wall budget
\* of the run (at least a minute, so never before its first mission) used up.
Finish(w) ==
    /\ At(w, "scan")
    /\ \/ Candidates(w) = {}
       \/ Cardinality(run[w].done) >= MaxMissions
       \/ run[w].done # {}
    /\ run' = [run EXCEPT ![w] = Off]
    /\ UNCHANGED <<storeVars, clock, lineage, late, ghosts>>

\* Mutant: that no mission is eligible is not looked at.
ChooseNone(w) ==
    /\ At(w, "scan")
    /\ Cardinality(run[w].done) < MaxMissions
    /\ run' = [run EXCEPT ![w].pc = "chosen"]
    /\ UNCHANGED <<storeVars, clock, lineage, late, ghosts>>

\* next_eligible reads a snapshot; priorities are the caller's data, so any
\* eligible mission not yet processed in this run may come first.
Choose(w) ==
    /\ At(w, "scan")
    /\ Cardinality(run[w].done) < MaxMissions
    /\ \E t \in Candidates(w) :
          run' = [run EXCEPT ![w].pc = "chosen", ![w].task = t]
    /\ UNCHANGED <<storeVars, clock, lineage, late, ghosts>>

Claim(w) ==
    /\ At(w, "chosen")
    /\ \E now \in Stamps : ClaimTask(Mine(w), w, now, LeaseSeconds)
    /\ run' = [run EXCEPT ![w].pc = "claimed",
                          ![w].read = tasks[Mine(w)].attempts,
                          ![w].done = @ \cup {Mine(w)}]
    /\ UNCHANGED <<clock, lineage, late, ghosts>>

\* A refused claim ends the run.
ClaimRefused(w) ==
    /\ At(w, "chosen")
    /\ \E now \in Stamps :
          Status(Mine(w)) \in Terminal \/ HeldByOther(Mine(w), w, now)
    /\ run' = [run EXCEPT ![w] = Off]
    /\ UNCHANGED <<storeVars, clock, lineage, late, ghosts>>

\* Mutant: the attempt is not counted before the session starts.
CountNothing(w) ==
    /\ At(w, "claimed")
    /\ UNCHANGED storeVars
    /\ run' = [run EXCEPT ![w].pc = "counted"]
    /\ UNCHANGED <<clock, lineage, late, ghosts>>

\* attempts := the attempts the claim returned + 1; the owner is not checked.
CountAttempt(w) ==
    /\ At(w, "claimed")
    /\ SetAttempts(Mine(w), run[w].read + 1)
    /\ run' = [run EXCEPT ![w].pc = "counted"]
    /\ UNCHANGED <<clock, lineage, late, ghosts>>

\* The claim is checkpointed and the session built.  The aggregate budget may
\* be exhausted, which ends the execution before a heartbeat or a session.
Begin(w) ==
    /\ At(w, "counted")
    /\ CheckpointTask(Mine(w), "campaign-runtime-claimed")
    /\ \/ /\ run' = [run EXCEPT ![w].pc = "running", ![w].beat = "on"]
          /\ begun' = [begun EXCEPT ![Mine(w)] = @ + 1]
       \/ /\ run' = [run EXCEPT ![w].pc = "ended", ![w].spent = TRUE]
          /\ UNCHANGED begun
    /\ UNCHANGED <<clock, lineage, late, dirty, slow, crashes, unblocks>>

-----------------------------------------------------------------------------
(* The heartbeat, concurrent with the session.                             *)
Beating(w) == run[w].pc \in {"running", "closing"} /\ run[w].beat = "on"

Heartbeat(w) ==
    /\ Beating(w)
    /\ \E now \in Stamps :
         \/ /\ RenewLease(Mine(w), w, now, LeaseSeconds)
            /\ UNCHANGED run
         \/ /\ ~CanRenew(Mine(w), w, now)
            /\ run' = [run EXCEPT ![w].beat = "refused"]
            /\ UNCHANGED storeVars
    /\ UNCHANGED <<clock, lineage, late, ghosts>>

\* A refused renewal reads the task again: a finished mission is a normal
\* end, anything else means the lease is lost and the session is cancelled.
JudgeRefusal(w) ==
    /\ run[w].beat = "refused"
    /\ run' = [run EXCEPT ![w].beat = "off",
                          ![w].lost = Status(Mine(w)) \notin Terminal]
    /\ UNCHANGED <<storeVars, clock, lineage, late, ghosts>>

(* The session.  A cancelled session starts no further tool.               *)
StartMutation(w) ==
    /\ At(w, "running") /\ w \in Mutating
    /\ ~run[w].lost
    /\ run' = [run EXCEPT ![w].inflight = TRUE]
    /\ UNCHANGED <<storeVars, clock, lineage, late, ghosts>>

\* tool_result: the call is settled, or it reports effects_unknown itself.  A
\* tool that timed out counts as settled: its result is not one of the latter.
FinishMutation(w) ==
    /\ At(w, "running")
    /\ run[w].inflight
    /\ \E u \in BOOLEAN :
          run' = [run EXCEPT ![w].inflight = FALSE, ![w].unknown = @ \/ u]
    /\ UNCHANGED <<storeVars, clock, lineage, late, ghosts>>

\* What complete registers next: follow-ups of a success, a repair of a failure.
Descendants(status) == IF status = "completada" THEN "followup" ELSE "repair"

\* mission_complete: MissionKernel.complete updates the task (no owner is
\* asked for) and then, in later transactions, chains descendants.  The tool
\* runs in a thread: its call may be older than the loss of the lease.
Complete(w) ==
    /\ At(w, "running")
    /\ run[w].chain = "none"
    /\ \E s \in {"completada", "fallida"} :
          /\ SetStatus(Mine(w), s)
          /\ run' = [run EXCEPT ![w].chain = Descendants(s)]
    /\ UNCHANGED <<clock, lineage, late, ghosts>>

Repairs(t) == {c \in Missions : Exists(c) /\ lineage[c].parent = t
                                          /\ lineage[c].kind = "repair"}

\* Mutant: a repair of a repair is always registered.
MayRepairAgain(t) == Repairs(t) = {}

\* Mutant: an existing repair is not looked for.
MayRepairTwice(t) == lineage[t].repair_depth < RepairLimit

MayRepair(t) == lineage[t].repair_depth < RepairLimit /\ Repairs(t) = {}

\* A descendant c of t.  What it is called decides its depth: an objective that
\* starts like a repair's adds one to the parent's, whoever recommended it.
AddChild(c, t, kind, named) ==
    /\ AddTask(c, NoKey, "pendiente")
    /\ lineage' = [lineage EXCEPT ![c] =
          [parent |-> t, kind |-> kind,
           repair_depth |-> lineage[t].repair_depth + IF named THEN 1 ELSE 0]]

\* CampaignEngine.chain and repair_failed: a mission has one repair, which is
\* returned when it exists already, and no repair beyond the limit; follow-ups
\* are what the session recommends, under any name and without a limit.  That
\* a repair is looked for and registered in two transactions makes no second
\* one: its id, and with it its key, is derived from the mission's.
AddDescendant(t, kind) ==
    \E c \in Missions, named \in BOOLEAN :
        /\ NextId(c)
        /\ kind = "repair" => named /\ MayRepair(t)
        /\ AddChild(c, t, kind, named)

\* Descendants are registered one by one; the authority policy, the repair
\* limit or the lack of recommendations may leave a mission without any.
Chain(w) ==
    /\ At(w, "running")
    /\ run[w].chain # "none"
    /\ \/ /\ AddDescendant(Mine(w), run[w].chain)
          /\ run' = [run EXCEPT ![w].chain = IF @ = "repair" THEN "none" ELSE @]
       \/ /\ run' = [run EXCEPT ![w].chain = "none"]
          /\ UNCHANGED <<storeVars, lineage>>
    /\ UNCHANGED <<clock, late, ghosts>>

\* What is left for the thread of a mission_complete to do: all of it, or what
\* follows its first transaction.
LeftBehind(w) ==
    [task |-> Mine(w),
     next |-> IF run[w].chain = "none" THEN "complete" ELSE run[w].chain]

\* The stream ends by itself, by cancellation, by an exception, or because a
\* budget of tokens, cost, subagents or wall time is exhausted.  It may leave
\* mission_complete behind in its thread (bounds: Leaving, and one such call at
\* a time).
EndSession(w) ==
    /\ At(w, "running")
    /\ \/ run[w].chain = "none" /\ UNCHANGED late
       \/ w \in Leaving /\ late = NoCall /\ late' = LeftBehind(w)
    /\ \E s \in BOOLEAN :
          run' = [run EXCEPT ![w].pc = "closing", ![w].spent = s, ![w].chain = "none"]
    /\ dirty' = [dirty EXCEPT ![Mine(w)] = @ \/ Unseen(w)]
    /\ UNCHANGED <<storeVars, clock, lineage, begun, slow, crashes, unblocks>>

\* The thread goes on whatever became of the mission meanwhile: the store may
\* take the end it reports or refuse it.
CompleteLate ==
    /\ late.next = "complete"
    /\ \/ \E s \in {"completada", "fallida"} :
             /\ SetStatus(late.task, s)
             /\ late' = [late EXCEPT !.next = Descendants(s)]
       \/ late' = NoCall /\ UNCHANGED storeVars
    /\ UNCHANGED <<clock, run, lineage, ghosts>>

ChainLate ==
    /\ late.next \in {"followup", "repair"}
    /\ \/ /\ AddDescendant(late.task, late.next)
          /\ late' = IF late.next = "repair" THEN NoCall ELSE late
       \/ late' = NoCall /\ UNCHANGED <<storeVars, lineage>>
    /\ UNCHANGED <<clock, run, ghosts>>

\* The finally clause waits for the heartbeat, which may be in mid-call.
CloseHeartbeat(w) ==
    /\ At(w, "closing")
    /\ run[w].beat # "refused"
    /\ run' = [run EXCEPT ![w].pc = "ended", ![w].beat = "off"]
    /\ UNCHANGED <<storeVars, clock, lineage, late, ghosts>>

-----------------------------------------------------------------------------
(* _reconcile: what to do with a mission whose session ended.              *)
\* Mutant: the budget is looked at before the effects.
VerdictRetriesFirst(w) ==
    CASE tasks[Mine(w)].attempts <= MaxRetries /\ ~run[w].spent -> "runtime-released"
      [] tasks[Mine(w)].attempts > MaxRetries -> "runtime-retry-exhausted"
      [] OTHER -> "runtime-budget-exhausted"

Verdict(w) ==
    CASE Unseen(w)                                -> "runtime-effects-unknown"
      [] ~Unseen(w) /\ run[w].spent               -> "runtime-budget-exhausted"
      [] ~Unseen(w) /\ ~run[w].spent
           /\ tasks[Mine(w)].attempts > MaxRetries -> "runtime-retry-exhausted"
      [] OTHER                                    -> "runtime-released"

\* A finished mission and a lost lease need nothing done to the task.
ReconcileNothing(w) ==
    /\ At(w, "ended")
    /\ \/ /\ Status(Mine(w)) \in Terminal
          /\ run' = [run EXCEPT ![w].pc = "settled"]
       \/ /\ Status(Mine(w)) \notin Terminal
          /\ run[w].lost
          /\ run' = [run EXCEPT ![w] = Off]
    /\ UNCHANGED <<storeVars, clock, lineage, late, ghosts>>

\* Mutant: the reason is written after the release, here not at all.
ReconcileSilently(w) ==
    /\ At(w, "ended")
    /\ Status(Mine(w)) \notin Terminal
    /\ ~run[w].lost
    /\ UNCHANGED storeVars
    /\ run' = [run EXCEPT ![w].pc = "releasing",
                  ![w].goal = IF Verdict(w) \in ReasonLabels
                                THEN "bloqueada" ELSE "pendiente"]
    /\ UNCHANGED <<clock, lineage, late, ghosts>>

\* The reason is checkpointed before the lease is released.
Reconcile(w) ==
    /\ At(w, "ended")
    /\ Status(Mine(w)) \notin Terminal
    /\ ~run[w].lost
    /\ CheckpointTask(Mine(w), Verdict(w))
    /\ run' = [run EXCEPT ![w].pc = "releasing",
                  ![w].goal = IF Verdict(w) \in ReasonLabels
                                THEN "bloqueada" ELSE "pendiente"]
    /\ UNCHANGED <<clock, lineage, late, ghosts>>

Release(w) ==
    /\ At(w, "releasing")
    /\ ReleaseTask(Mine(w), w, run[w].goal)
    /\ run' = [run EXCEPT ![w].pc = "settled"]
    /\ UNCHANGED <<clock, lineage, late, ghosts>>

\* The store refuses a release of another owner's lease or out of a finished
\* status; the exception ends the run.
ReleaseRefused(w) ==
    /\ At(w, "releasing")
    /\ ~CanRelease(Mine(w), w, run[w].goal)
    /\ run' = [run EXCEPT ![w] = Off]
    /\ UNCHANGED <<storeVars, clock, lineage, late, ghosts>>

\* After each mission expired leases are recovered again.
NextMission(w) ==
    /\ At(w, "settled")
    /\ \E now \in Stamps : ResumeExpired(now)
    /\ run' = [run EXCEPT ![w] = Scanning(run[w].done)]
    /\ UNCHANGED <<clock, lineage, late, ghosts>>

-----------------------------------------------------------------------------
(* The environment.                                                        *)

\* The process of a daemon dies, or an exception leaves run_async with the
\* lease still held (a missing project root, a store that stays locked); only
\* the store survives.  A call left behind goes with it, if it was its own.
Crash(w) ==
    /\ run[w].pc # "off"
    /\ crashes < MaxCrashes
    /\ clock + LeaseSeconds <= MaxTime   \* its lease can still expire
    /\ crashes' = crashes + 1
    /\ dirty' = [t \in Missions |-> dirty[t] \/ (t = Mine(w) /\ Unseen(w))]
    /\ run' = [run EXCEPT ![w] = Off]
    /\ late' \in {late, NoCall}
    /\ UNCHANGED <<storeVars, clock, lineage, begun, slow, unblocks>>

\* The operator cancels an open mission, or looks at a blocked one and lets
\* it run again; `campaign recover' recovers expired leases at any time.
OperatorCancel(t) ==
    /\ Exists(t) /\ Status(t) \in Open
    /\ CancelTask(t)
    /\ UNCHANGED <<clock, runtimeVars>>

OperatorUnblock(t) ==
    /\ Exists(t) /\ Status(t) = "bloqueada"
    /\ unblocks < MaxUnblocks
    /\ SetStatus(t, "pendiente")
    /\ unblocks' = unblocks + 1
    /\ begun' = [begun EXCEPT ![t] = 0]
    /\ dirty' = [dirty EXCEPT ![t] = FALSE]
    /\ UNCHANGED <<clock, run, lineage, late, slow, crashes>>

Recover ==
    /\ \E now \in Stamps : ResumeExpired(now)
    /\ UNCHANGED <<clock, runtimeVars>>

\* Daemons whose lease expires with the next tick while they hold a mission.
Missing == {w \in Daemons : /\ Holding(w) /\ CanRenew(Mine(w), w, clock)
                            /\ leases[Mine(w)].expires <= clock + 1}

\* A prompt daemon that holds a mission renews its lease, or gets to the
\* release, before the lease expires (a heartbeat every third of it).
PassTime ==
    /\ Tick
    /\ Missing \cap Prompt = {}
    /\ slow' = (slow \/ Missing # {})
    /\ UNCHANGED <<storeVars, run, lineage, late, dirty, begun, crashes, unblocks>>

-----------------------------------------------------------------------------
DaemonStep(w) ==
    \/ Start(w)
    \/ Finish(w)
    \/ Choose(w)
    \/ Claim(w)
    \/ ClaimRefused(w)
    \/ CountAttempt(w)
    \/ Begin(w)
    \/ Heartbeat(w)
    \/ JudgeRefusal(w)
    \/ StartMutation(w)
    \/ FinishMutation(w)
    \/ Complete(w)
    \/ Chain(w)
    \/ EndSession(w)
    \/ CloseHeartbeat(w)
    \/ ReconcileNothing(w)
    \/ Reconcile(w)
    \/ Release(w)
    \/ ReleaseRefused(w)
    \/ NextMission(w)

CampaignNext ==
    \/ \E w \in Daemons : DaemonStep(w)
    \/ \E w \in Daemons : Crash(w)
    \/ CompleteLate
    \/ ChainLate
    \/ \E t \in Missions : Register(t)
    \/ \E t \in Missions : OperatorCancel(t)
    \/ \E t \in Missions : OperatorUnblock(t)
    \/ Recover
    \/ PassTime

CampaignSpec == CampaignInit /\ [][CampaignNext]_campaignVars

\* The sequential part of a daemon, which runs whenever it can.
MainStep(w) ==
    \/ Start(w) \/ Finish(w) \/ Choose(w) \/ Claim(w) \/ ClaimRefused(w)
    \/ CountAttempt(w) \/ Begin(w) \/ Chain(w) \/ CloseHeartbeat(w)
    \/ ReconcileNothing(w) \/ Reconcile(w) \/ Release(w) \/ ReleaseRefused(w)
    \/ NextMission(w)

\* Daemon runs are started again and again (the operator or a scheduler calls
\* `campaign run'), threads are scheduled, time passes, and a session ends
\* however often it calls mission_complete: asyncio.timeout sees to it.
CampaignFairness ==
    /\ \A w \in Daemons :
          /\ WF_campaignVars(MainStep(w))
          /\ WF_campaignVars(Heartbeat(w) \/ JudgeRefusal(w))
          /\ SF_campaignVars(EndSession(w))
    /\ WF_campaignVars(PassTime)

FairCampaign == CampaignSpec /\ CampaignFairness

-----------------------------------------------------------------------------
\* The shape of the daemons' own state and of the ghosts.
RuntimeTypeOK ==
    /\ StoreTypeOK
    /\ run \in [Daemons ->
          [pc : {"off", "scan", "chosen", "claimed", "counted", "running",
                 "closing", "ended", "releasing", "settled"},
           task : Missions \cup {NoTask}, read : Nat, done : SUBSET Missions,
           beat : {"off", "on", "refused"}, inflight : BOOLEAN,
           unknown : BOOLEAN, spent : BOOLEAN, lost : BOOLEAN,
           goal : {"none", "pendiente", "bloqueada"},
           chain : {"none", "followup", "repair"}]]
    /\ lineage \in [Missions -> [parent : Missions \cup {NoTask},
                                 repair_depth : Nat,
                                 kind : {"root", "followup", "repair"}]]
    /\ dirty \in [Missions -> BOOLEAN]
    /\ begun \in [Missions -> Nat]
    /\ late \in [task : Missions \cup {NoTask},
                 next : {"none", "complete", "followup", "repair"}]
    /\ \A w \in Daemons : run[w].pc \notin {"off", "scan"} => Mine(w) \in Missions
    /\ slow \in BOOLEAN
    /\ crashes \in 0..MaxCrashes
    /\ unblocks \in 0..MaxUnblocks

\* As long as no daemon has been slower than its lease, a mission is executed
\* by at most one session at a time: through claims judged with old clock
\* readings, recoveries, crashes and reclaims, and calls that outlive their
\* session (runtime.py claims, renews, recovers and releases in separate
\* transactions).  A slow daemon can undo this: its late release lets a
\* mission run again that was finished under a session.
OneExecutor ==
    ~slow =>
        \A v, w \in Daemons :
            (v # w /\ At(v, "running") /\ At(w, "running")) => Mine(v) # Mine(w)

\* The lease of w on its mission, with a session that may go on.
HasLease(w) ==
    Live(Mine(w)) /\ leases[Mine(w)].owner = w /\ ~run[w].lost

\* A daemon that is not slower than its lease gets it with its claim and has
\* it at every step up to the release, however slow the other daemons are:
\* their late calls and recoveries never take the mission away.  It loses the
\* lease with the end of the mission only, and then for good (release_task
\* asks for no open status, so that another's late release may revive the
\* mission of a session that has not noticed its end).
HolderKeepsLease ==
    [][\A w \in Prompt :
          Holding(w)' => \/ HasLease(w)'
                         \/ Status(Mine(w))' \in Terminal
                         \/ Holding(w) /\ ~HasLease(w)
      ]_campaignVars

\* However late a daemon is, it never ends the lease of its successor: a lease
\* that has not expired goes only when its own owner releases it, or with the
\* end of the mission (release_task checks the owner in its transaction).
LiveLeaseEnds ==
    [][\A t \in Missions :
          (Live(t) /\ ~Leased(t)') =>
              \/ Status(t)' \in Terminal
              \/ \E w \in Daemons :
                    /\ leases[t].owner = w /\ Mine(w) = t
                    /\ At(w, "releasing") /\ run'[w].pc = "settled"
      ]_campaignVars

\* A mission of the daemons is never left blocked without the checkpoint that
\* tells the operator why, wherever a daemon stops or whoever else released it
\* (runtime._reconcile checkpoints before it releases).
BlockedHasReason ==
    \A t \in Missions :
        (Exists(t) /\ Status(t) = "bloqueada") => checkpoints[t] \cap ReasonLabels # {}

\* A mission whose mutating effects the daemon knows to be unknown (a call
\* without a result, or one that says so; a tool that timed out does not) is
\* not started again until the operator has looked at it (runtime._reconcile
\* blocks it).
DirtyNotRetried ==
    \A w \in Daemons :
        run[w].pc \in {"claimed", "counted", "running"} => ~dirty[Mine(w)]

\* A mission that fails harmlessly is executed max_retries + 1 times and then
\* waits for the operator: the attempts are counted at the claim, judged at
\* the reconciliation, and never reset, through any number of daemon runs.
RetryBudget == \A t \in Missions : begun[t] <= MaxRetries + 1

\* Automatic repairs stop: no daemon works on a mission deeper than the limit
\* of campaign.repair_failed, and a failed mission is repaired by one mission
\* only, however often a session calls mission_complete for it.  A deeper one
\* may be registered (chain gives a follow-up that is named like a repair a
\* depth without a limit); what keeps it from being chosen is that _eligible
\* takes it for a repair, whose parent has to be failed, and that the parent of
\* a follow-up is completed for good.
RepairsBounded ==
    /\ \A w \in Daemons :
          run[w].pc \notin {"off", "scan"} => lineage[Mine(w)].repair_depth <= RepairLimit
    /\ \A t \in Missions : Cardinality(Repairs(t)) <= 1

\* Every registered mission is finished or handed to the operator in the end,
\* through failed attempts, retries, refused claims, crashes and expired
\* leases, unless it waits for a parent that has come to another end than the
\* one it is for: a follow-up with a repair depth waits for ever, since its
\* parent is completed, and so does a repair whose parent did not stay failed.
Settled(t) == Exists(t) /\ Status(t) \in Terminal \cup {"bloqueada"}
Stranded(t) ==
    /\ Exists(t) /\ lineage[t].parent # NoTask
    /\ lineage[t].repair_depth > 0
    /\ Settled(lineage[t].parent) /\ Status(lineage[t].parent) # "fallida"
EveryMissionSettles == \A t \in Missions : Exists(t) ~> Settled(t) \/ Stranded(t)
=============================================================================
