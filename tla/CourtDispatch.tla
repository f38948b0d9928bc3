---------------------------- MODULE CourtDispatch ----------------------------
(***************************************************************************)
(* Delegation to a member of the court: CourtDispatcher of                 *)
(* lilith_cli/mission/dispatch.py, over the task store and the CLI journal.*)
(*                                                                         *)
(* A dispatch is keyed by a hash of agent, prompt, directory and mission.  *)
(* It asks the guard of lilith_cli/mission/budget_guard.py, looks for a    *)
(* task with that key in a snapshot of the store, adds one that is         *)
(* "delegada", executes the route the broker chose, records what it cost,  *)
(* appends a post-mortem and gives the task its final status.  Each of     *)
(* these is its own transaction.  One agent runs the tool calls of a turn concurrently  *)
(* (agent.py, asyncio.gather over to_thread) and every CLI process has a   *)
(* dispatcher of its own, so equal dispatches may overlap anywhere.        *)
(*                                                                         *)
(* A CLI route goes through _run_tracked with the key as its request id.   *)
(* The Fabric route calls a provider and keeps no record of its own.       *)
(*                                                                         *)
(* The guard compares sums of the day's cost events with the limits of     *)
(* the policy; all have the form of the one modelled, daily_max_calls.     *)
(* Not modelled: the refusals that read no state of these (unknown agent,  *)
(* authority, no healthy route, a budget of zero), and the events of the   *)
(* campaign's own session.                                                 *)
(***************************************************************************)
EXTENDS OrchestrationStore, CliDelegate, FiniteSets

CONSTANTS
    Routes,         \* key -> the adapters the broker may choose for its agent
    DailyMaxCalls,  \* daily_max_calls of the policy
    NoRow,          \* a dispatch that has no task yet
    Mortal          \* the callers that may die in the middle of a dispatch

ASSUME DispatchConstants ==
    /\ Requests \subseteq Keys      \* request_id = key[:32]
    /\ Routes \in [Requests -> SUBSET {"cli", "fabric"}]
    /\ DailyMaxCalls \in Nat \ {0}
    /\ NoRow \notin TaskIds
    /\ Mortal \subseteq Callers
    /\ IsFiniteSet(Callers)

VARIABLES
    dispatches,     \* caller -> where its dispatch is
    fabric,         \* history: keys a Fabric execution started for
    fabricDone,     \* history: keys a Fabric execution succeeded for
    postmortems,    \* table post_mortems: the tasks with one of success
    spent,          \* table events: how many cost.recorded of the day
    told            \* history: keys some dispatch reported as a success

dispatchVars == <<storeVars, clock, cliVars, dispatches, fabric, fabricDone,
                  postmortems, spent, told>>

NoDispatch == [pc |-> "idle", key |-> NoKey, row |-> NoRow, ok |-> FALSE]

DispatchInit ==
    /\ StoreInit
    /\ CliInit
    /\ dispatches = [c \in Callers |-> NoDispatch]
    /\ fabric = {}
    /\ fabricDone = {}
    /\ postmortems = {}
    /\ spent = 0
    /\ told = {}

In(c, pc)     == dispatches[c].pc = pc
RowsWith(k)   == {t \in TaskIds : Exists(t) /\ tasks[t].key = k}
Goto(c, pc)   == dispatches' = [dispatches EXCEPT ![c].pc = pc]
Finished(c, ok) ==
    dispatches' = [dispatches EXCEPT ![c].pc = "executed", ![c].ok = ok]

-----------------------------------------------------------------------------
\* Mutant: the limit is the last number of calls that is allowed.
ReachedLate == spent > DailyMaxCalls

Reached == spent >= DailyMaxCalls

\* AggregateBudgetGuard.check: a dispatch beyond the budget is refused before
\* the store is read; one within it takes nothing from the budget yet.
Check(c, k) ==
    /\ In(c, "idle")
    /\ ~Reached
    /\ dispatches' = [dispatches EXCEPT ![c] =
           [NoDispatch EXCEPT !.pc = "allowed", !.key = k]]
    /\ UNCHANGED <<storeVars, cliVars, fabric, fabricDone, postmortems, spent, told>>

\* dispatch reads the snapshot: a task with the key ends it, as a success if
\* the task is completada and as something to reconcile otherwise.
Look(c) ==
    LET k == dispatches[c].key
    IN  /\ In(c, "allowed")
        /\ IF RowsWith(k) = {}
             THEN Goto(c, "looked") /\ UNCHANGED told
             ELSE /\ dispatches' = [dispatches EXCEPT ![c] = NoDispatch]
                  /\ told' = IF \E t \in RowsWith(k) : tasks[t].status = "completada"
                               THEN told \cup {k} ELSE told
        /\ UNCHANGED <<storeVars, cliVars, fabric, fabricDone, postmortems, spent>>

\* Mutant: the task is added once the execution has ended.
IntendLater(c) ==
    /\ In(c, "looked")
    /\ \E t \in TaskIds :
        /\ ~Exists(t)
        /\ dispatches' = [dispatches EXCEPT ![c].pc = "added", ![c].row = t]
    /\ UNCHANGED <<storeVars, cliVars, fabric, fabricDone, postmortems, spent, told>>

\* add_task: a task somebody added since the snapshot is returned as if it
\* were this dispatch's own.
Intend(c) ==
    LET k == dispatches[c].key
    IN  /\ In(c, "looked")
        /\ \/ \E t \in RowsWith(k) :
                /\ dispatches' = [dispatches EXCEPT ![c].pc = "added", ![c].row = t]
                /\ UNCHANGED storeVars
           \/ \E t \in TaskIds :
                /\ AddTask(t, k, "delegada")
                /\ dispatches' = [dispatches EXCEPT ![c].pc = "added", ![c].row = t]
        /\ UNCHANGED <<cliVars, fabric, fabricDone, postmortems, spent, told>>

\* _execute_route, CLI: the call of _run_tracked begins.
ExecuteCli(c) ==
    LET k == dispatches[c].key
    IN  /\ In(c, "added")
        /\ "cli" \in Routes[k]
        /\ \/ Unavailable(c, k)
           \/ \E i \in Intents :
                \/ \E r \in References : Reserve(c, k, i, r)
                \/ Repeat(c, k, i)
                \/ Reject(c, k, i)
        /\ Goto(c, "cli")
        /\ UNCHANGED <<storeVars, fabric, fabricDone, postmortems, spent, told>>

RunCli(c) ==
    /\ In(c, "cli")
    /\ Work(c)
    /\ UNCHANGED <<storeVars, dispatches, fabric, fabricDone, postmortems, spent, told>>

\* Mutant: a recorded attempt is as good as a success.
CliSucceededLoosely(said) == said \in {"ok", "existing"}

CliSucceeded(said) == said = "ok"

CollectCli(c) ==
    /\ In(c, "cli")
    /\ Return(c)
    /\ Finished(c, CliSucceeded(calls[c].said))
    /\ UNCHANGED <<storeVars, fabric, fabricDone, postmortems, spent, told>>

\* _execute_route, wrapper not configured: a failure without an execution.
ExecuteNothing(c) ==
    /\ In(c, "added")
    /\ "cli" \in Routes[dispatches[c].key]
    /\ Finished(c, FALSE)
    /\ UNCHANGED <<storeVars, cliVars, fabric, fabricDone, postmortems, spent, told>>

\* _execute_route, Fabric: nothing but the task says that it has begun.
ExecuteFabric(c) ==
    /\ In(c, "added")
    /\ "fabric" \in Routes[dispatches[c].key]
    /\ Goto(c, "fabric")
    /\ fabric' = fabric \cup {dispatches[c].key}
    /\ UNCHANGED <<storeVars, cliVars, fabricDone, postmortems, spent, told>>

\* A response, good or bad, may come with its usage; an exception has none.
FabricReturns(c, ok) ==
    /\ In(c, "fabric")
    /\ \/ Finished(c, ok)
       \/ dispatches' = [dispatches EXCEPT ![c].pc = "spending", ![c].ok = ok]
    /\ fabricDone' = IF ok THEN fabricDone \cup {dispatches[c].key} ELSE fabricDone
    /\ UNCHANGED <<storeVars, cliVars, fabric, postmortems, spent, told>>

\* _finalize records the usage, if there is one.  The wrapper of a
\* collaborator reports none: what goes through it is never counted.
RecordCost(c) ==
    /\ In(c, "spending")
    /\ spent' = spent + 1
    /\ Goto(c, "executed")
    /\ UNCHANGED <<storeVars, cliVars, fabric, fabricDone, postmortems, told>>

\* Then it appends the post-mortem ...
PostMortem(c) ==
    /\ In(c, "executed")
    /\ postmortems' = IF dispatches[c].ok THEN postmortems \cup {dispatches[c].row}
                                             ELSE postmortems
    /\ Goto(c, "recorded")
    /\ UNCHANGED <<storeVars, cliVars, fabric, fabricDone, spent, told>>

Outcome(c) == IF dispatches[c].ok THEN "completada" ELSE "fallida"

Tell(c) ==
    told' = IF dispatches[c].ok THEN told \cup {dispatches[c].key} ELSE told

\* Mutant: an error of the last write does not change the answer.
SettleAnyway(c) ==
    LET t == dispatches[c].row
    IN  /\ In(c, "recorded")
        /\ IF Exists(t) /\ MayMove(tasks[t].status, Outcome(c))
             THEN SetStatus(t, Outcome(c))
             ELSE UNCHANGED storeVars
        /\ Tell(c)
        /\ dispatches' = [dispatches EXCEPT ![c] = NoDispatch]
        /\ UNCHANGED <<cliVars, fabric, fabricDone, postmortems, spent>>

\* Mutant: a dispatch that failed returns before the task is settled.
SettleSuccessOnly(c) ==
    LET t == dispatches[c].row
    IN  /\ In(c, "recorded")
        /\ IF dispatches[c].ok /\ Exists(t) /\ MayMove(tasks[t].status, Outcome(c))
             THEN SetStatus(t, Outcome(c)) /\ Tell(c)
             ELSE UNCHANGED <<storeVars, told>>
        /\ dispatches' = [dispatches EXCEPT ![c] = NoDispatch]
        /\ UNCHANGED <<cliVars, fabric, fabricDone, postmortems, spent>>

\* ... and gives the task its status.  A transition the table does not have
\* (the task was cancelled, or settled by another dispatch) is reported as
\* "durable state failed", a failure.
Settle(c) ==
    LET t == dispatches[c].row
    IN  /\ In(c, "recorded")
        /\ IF Exists(t) /\ MayMove(tasks[t].status, Outcome(c))
             THEN SetStatus(t, Outcome(c)) /\ Tell(c)
             ELSE UNCHANGED <<storeVars, told>>
        /\ dispatches' = [dispatches EXCEPT ![c] = NoDispatch]
        /\ UNCHANGED <<cliVars, fabric, fabricDone, postmortems, spent>>

\* The process dies, or the store cannot be written (in _finalize that is
\* answered as a failure, elsewhere it leaves dispatch as an exception).
DispatchDies(c) ==
    /\ c \in Mortal
    /\ ~In(c, "idle")
    /\ dispatches' = [dispatches EXCEPT ![c] = NoDispatch]
    /\ calls' = [calls EXCEPT ![c] = Idle]
    /\ UNCHANGED <<storeVars, journalVars, workers, launches, fabric, fabricDone,
                   postmortems, spent, told>>

\* The operator cancels a task (orchestration_state tool).
OperatorCancels(t) ==
    /\ CancelTask(t)
    /\ UNCHANGED <<cliVars, dispatches, fabric, fabricDone, postmortems, spent, told>>

JobEnds ==
    /\ World
    /\ UNCHANGED <<storeVars, dispatches, fabric, fabricDone, postmortems, spent, told>>

-----------------------------------------------------------------------------
\* What one dispatch does on its own, once it has begun.
Proceed(c) ==
    \/ Look(c)
    \/ Intend(c)
    \/ ExecuteCli(c)
    \/ RunCli(c)
    \/ CollectCli(c)
    \/ ExecuteNothing(c)
    \/ ExecuteFabric(c)
    \/ \E ok \in BOOLEAN : FabricReturns(c, ok)
    \/ RecordCost(c)
    \/ PostMortem(c)
    \/ Settle(c)

DispatchNext ==
    /\ \/ \E c \in Callers :
            \/ \E k \in Requests : Check(c, k)
            \/ Proceed(c)
            \/ DispatchDies(c)
       \/ \E t \in TaskIds : OperatorCancels(t)
       \/ JobEnds
    /\ UNCHANGED clock

DispatchSpec == DispatchInit /\ [][DispatchNext]_dispatchVars

\* A dispatch that is running goes on: the wrapper is waited for with a
\* timeout and the provider's requests have one.
DispatchFairSpec ==
    DispatchSpec /\ \A c \in Callers \ Mortal : WF_dispatchVars(Proceed(c) /\ UNCHANGED clock)

-----------------------------------------------------------------------------
\* Whether the work of a key was ever started, on either route.
Started(k) == launches[k] > 0 \/ k \in fabric

\* Work is under way, or was, only for a key the store has a task for: no
\* crash can leave effects nobody knows of (README: "delegation intent and
\* checkpoints are persisted before launch").
IntentFirst == \A k \in Requests : Started(k) => RowsWith(k) # {}

\* Success is claimed, by the status of the task or by a post-mortem the
\* learning engine reads, only of work that did succeed, although dispatches
\* that did not do the work finalize the task too; and a success that was
\* reported stays what the store says: no late failure of another dispatch,
\* cancellation or crash takes it back.
Succeeded(k) ==
    \/ k \in fabricDone
    \/ Bound(k) /\ workers[requests[k].reference] = "done"
SuccessSound ==
    /\ \A k \in Requests : \A t \in RowsWith(k) :
          (tasks[t].status = "completada" \/ t \in postmortems) => Succeeded(k)
    /\ \A k \in told : \E t \in RowsWith(k) : tasks[t].status = "completada"

\* Nothing reserves the budget: dispatches that overlap all pass the check on
\* the same remainder.  What they may overrun is bounded all the same: with
\* those that may still record a cost, the day's calls exceed the limit by
\* less than the number of dispatches that can run at once.
MayStillSpend ==
    {c \in Callers :
        dispatches[c].pc \in {"allowed", "looked", "added", "fabric", "spending"}}
OverrunBounded ==
    spent + Cardinality(MayStillSpend) < DailyMaxCalls + Cardinality(Callers)

\* A dispatch whose process lives leaves its task settled, whichever other
\* dispatches share the task, settle it first, or die.
EveryDispatchSettles ==
    \A c \in Callers \ Mortal, t \in TaskIds :
        dispatches[c].row = t ~> (Exists(t) /\ tasks[t].status \in Terminal)
=============================================================================
