------------------------------ MODULE OpsQueue ------------------------------
(***************************************************************************)
(* The work queue of lilith_cli/ops_queue.py on the bus: the operator      *)
(* queues tasks and cancels them, and workers (`lilith work --watch') claim *)
(* one at a time, execute it in an agent's process (run_spawn of            *)
(* ops_spawn.py) and acknowledge it, or release it when that fails.         *)
(*                                                                         *)
(* A claim is never taken back: if its process dies, the task stays its.    *)
(* Names are the operator's choice and need not differ.                     *)
(*                                                                         *)
(* run_spawn announces on the same bus that it starts an agent, with the    *)
(* task, and that it has ended, without one, under the role of the agent's  *)
(* card.  If that is the workers' role, they claim the announcements, and   *)
(* execute the first kind as a task.                                        *)
(***************************************************************************)
EXTENDS LilithBus

CONSTANTS
    Workers,
    Name,           \* the name given to each worker
    Panel,          \* the name under which tasks are cancelled
    Role,           \* the workers' role
    MaxTasks,       \* bound: tasks the operator queues
    MaxFailures,    \* bound: tasks that are rejected or fail
    MaxDeaths       \* bound: processes that die with a task

ASSUME QueueConstants ==
    /\ Name \in [Workers -> Claimers] /\ Panel \in Claimers /\ Role \in Roles
    /\ MaxTasks \in Nat /\ MaxFailures \in Nat /\ MaxDeaths \in Nat

VARIABLES
    cardRole,   \* the role on the agents' cards
    at,         \* worker -> idle, claimed, running, ended or dead
    task,       \* worker -> the message it is at work on, 0 if none
    exited,     \* worker -> its agent exited with 0
    cancelling, \* messages that a `queue cancel' has claimed
    queued,     \* tasks the operator queued
    successes,  \* message -> times it was executed with success
    cancelled,  \* messages whose cancellation was confirmed
    abandoned,  \* messages whose process died
    failures, deaths

work == <<at, task, exited>>
results == <<successes, cancelled, abandoned>>
queueVars == <<messages, cardRole, work, cancelling, queued, results, failures, deaths>>

Numbers == 1..MaxMessages

QueueInit ==
    /\ BusInit
    /\ cardRole \in Roles
    /\ at = [w \in Workers |-> "idle"]
    /\ task = [w \in Workers |-> 0]
    /\ exited = [w \in Workers |-> FALSE]
    /\ cancelling = {} /\ queued = {}
    /\ successes = [id \in Numbers |-> 0]
    /\ cancelled = {} /\ abandoned = {}
    /\ failures = 0 /\ deaths = 0

-----------------------------------------------------------------------------
\* run_queue_add
Add ==
    /\ Cardinality(queued) < MaxTasks
    /\ Publish(Role, TRUE)
    /\ queued' = queued \cup {Len(messages')}
    /\ UNCHANGED <<cardRole, work, cancelling, results, failures, deaths>>

\* run_queue_cancel: the task is claimed, so that nobody executes it, and then
\* acknowledged.
CancelClaim(id) ==
    /\ ClaimById(id, Panel)
    /\ cancelling' = cancelling \cup {id}
    /\ UNCHANGED <<cardRole, work, queued, results, failures, deaths>>

CancelAck(id) ==
    /\ id \in cancelling
    /\ Ack(id, Panel)
    /\ cancelling' = cancelling \ {id}
    /\ cancelled' = IF Owned(id, Panel) THEN cancelled \cup {id} ELSE cancelled
    /\ UNCHANGED <<cardRole, work, queued, successes, abandoned, failures, deaths>>

\* run_work_once
Claim(w) ==
    /\ at[w] = "idle"
    /\ \E id \in Ids : ClaimAny(Role, Name[w], id) /\ task' = [task EXCEPT ![w] = id]
    /\ at' = [at EXCEPT ![w] = "claimed"]
    /\ UNCHANGED <<cardRole, exited, cancelling, queued, results, failures, deaths>>

Return(w) ==
    /\ at' = [at EXCEPT ![w] = "idle"]
    /\ task' = [task EXCEPT ![w] = 0]
    /\ exited' = [exited EXCEPT ![w] = FALSE]

\* There is nothing to execute, no card for it, or no way to start it.
Reject(w) ==
    /\ at[w] = "claimed"
    /\ IF messages[task[w]].task
         THEN failures < MaxFailures /\ failures' = failures + 1
         ELSE UNCHANGED failures
    /\ Release(task[w], Name[w])
    /\ Return(w)
    /\ UNCHANGED <<cardRole, cancelling, queued, results, deaths>>

\* An announcement that no worker here asks for is left out of the table.
Announce(hasTask) ==
    IF cardRole = Role THEN Publish(cardRole, hasTask) ELSE UNCHANGED messages

\* run_spawn starts the agent.
Begin(w) ==
    /\ at[w] = "claimed" /\ messages[task[w]].task
    /\ Announce(TRUE)
    /\ at' = [at EXCEPT ![w] = "running"]
    /\ UNCHANGED <<cardRole, task, exited, cancelling, queued, results, failures, deaths>>

\* The agent exits, or is killed at its timeout.
End(w) ==
    /\ at[w] = "running"
    /\ Announce(FALSE)
    /\ at' = [at EXCEPT ![w] = "ended"]
    /\ \/ /\ exited' = [exited EXCEPT ![w] = TRUE]
          /\ successes' = [successes EXCEPT ![task[w]] = @ + 1]
          /\ UNCHANGED failures
       \/ /\ failures < MaxFailures /\ failures' = failures + 1
          /\ UNCHANGED <<exited, successes>>
    /\ UNCHANGED <<cardRole, task, cancelling, queued, cancelled, abandoned, deaths>>

\* It is the name that acknowledges and releases.
Finish(w) ==
    /\ at[w] = "ended"
    /\ IF exited[w] THEN Ack(task[w], Name[w]) ELSE Release(task[w], Name[w])
    /\ Return(w)
    /\ UNCHANGED <<cardRole, cancelling, queued, results, failures, deaths>>

\* A worker is killed or interrupted in the middle of a task, or something in
\* run_spawn raises an exception; its agent may still succeed.
Die(w) ==
    /\ at[w] \in {"claimed", "running", "ended"} /\ deaths < MaxDeaths
    /\ deaths' = deaths + 1
    /\ at' = [at EXCEPT ![w] = "dead"]
    /\ abandoned' = abandoned \cup {task[w]}
    /\ successes' \in IF at[w] = "running"
                        THEN {successes, [successes EXCEPT ![task[w]] = @ + 1]}
                        ELSE {successes}
    /\ UNCHANGED <<messages, cardRole, task, exited, cancelling, queued, cancelled, failures>>

\* Another worker is started in its place.
Restart(w) ==
    /\ at[w] = "dead"
    /\ Return(w)
    /\ UNCHANGED <<messages, cardRole, cancelling, queued, results, failures, deaths>>

\* A cancellation is killed before it is confirmed.
CancelDies(id) ==
    /\ id \in cancelling /\ deaths < MaxDeaths
    /\ deaths' = deaths + 1
    /\ cancelling' = cancelling \ {id}
    /\ abandoned' = abandoned \cup {id}
    /\ UNCHANGED <<messages, cardRole, work, queued, successes, cancelled, failures>>

-----------------------------------------------------------------------------
WorkerStep(w) == Claim(w) \/ Reject(w) \/ Begin(w) \/ End(w) \/ Finish(w)

QueueNext ==
    \/ Add
    \/ \E id \in Ids : CancelClaim(id) \/ CancelAck(id) \/ CancelDies(id)
    \/ \E w \in Workers : WorkerStep(w) \/ Die(w) \/ Restart(w)

\* A worker that lives goes on (--watch polls, and an agent is killed at its
\* timeout), and so does a cancellation.
QueueSpec ==
    /\ QueueInit /\ [][QueueNext]_queueVars
    /\ \A w \in Workers : WF_queueVars(WorkerStep(w))
    /\ WF_queueVars(\E id \in Ids : CancelAck(id))

-----------------------------------------------------------------------------
Holders(id) == {w \in Workers : task[w] = id}

\* Whatever the workers are called and wherever they die, a message is at no
\* two processes at once, and it is executed with success at most once or
\* cancelled, never both: what `queue cancel' confirms was not executed, and
\* a claim that outlives its process keeps others from executing it again
\* (claim_any: one shot only).
OneOutcome ==
    \A id \in Ids :
        /\ Cardinality(Holders(id)) + Cardinality(cancelling \cap {id}) <= 1
        /\ successes[id] + Cardinality(cancelled \cap {id}) <= 1

\* Every task that is queued is done or cancelled in the end, if failures end
\* and one worker lives, though the oldest is always tried first; unless a
\* process dies with it, or the agents' announcements are taken for tasks.
Settled(id) == id \in Ids /\ messages[id].delivered
EveryTaskSettles ==
    \A id \in Numbers :
        (id \in queued /\ cardRole # Role)
            ~> (Settled(id) \/ id \in abandoned \/ \A w \in Workers : at[w] = "dead")
=============================================================================
